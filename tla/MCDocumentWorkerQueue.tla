----------------------- MODULE MCDocumentWorkerQueue -----------------------
(* Small instances of DocumentWorkerQueue. *)
EXTENDS DocumentWorkerQueue
=============================================================================
