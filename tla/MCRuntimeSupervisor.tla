------------------------ MODULE MCRuntimeSupervisor ------------------------
(***************************************************************************)
(* Small instances of RuntimeSupervisor: commands one after the other, as  *)
(* the runbook gives them, over crashes and hanging services.              *)
(***************************************************************************)
EXTENDS RuntimeSupervisor

MCSupervisors == {1, 2}
MCHandlers == {3, 4}
MCGateways == {5, 6}
MCRecognizers == {7, 8}

Base == [sdk |-> FALSE, localAsr |-> FALSE, stopAsr |-> FALSE, commands |-> 3, trouble |-> 2]
MCScenarios ==
    {Base,
     [Base EXCEPT !.sdk = TRUE, !.commands = 1],
     [Base EXCEPT !.localAsr = TRUE, !.stopAsr = TRUE, !.commands = 2, !.trouble = 1]}
=============================================================================
