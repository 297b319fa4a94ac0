------------------------ MODULE MCDocumentWorkflow ------------------------
(***************************************************************************)
(* Small instances of DocumentWorkflow: two documents and a third that     *)
(* needs both, and one document of two sections that is damaged and        *)
(* resumed, and one with a second model to fall back to.                   *)
(***************************************************************************)
EXTENDS DocumentWorkflow

Join == [docs |-> 3, deps |-> <<{}, {}, {1, 2}>>, sections |-> 1, workers |-> 2,
         candidates |-> 1, runs |-> 2, corruptions |-> 0]
Single == [docs |-> 1, deps |-> <<{}>>, sections |-> 2, workers |-> 1,
           candidates |-> 1, runs |-> 2, corruptions |-> 1]
MCScenarios == {Join, Single, [Single EXCEPT !.candidates = 2, !.sections = 1]}
=============================================================================
