------------------------- MODULE MCDocumentRunLock -------------------------
(* Small instances of DocumentRunLock. *)
EXTENDS DocumentRunLock, TLC

RunSymmetry == Permutations(Runs) \cup Permutations(Workers)
=============================================================================
