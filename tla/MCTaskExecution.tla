-------------------------- MODULE MCTaskExecution --------------------------
(***************************************************************************)
(* Small instances of TaskExecution: one and two executions of a run, of   *)
(* each profile.                                                           *)
(***************************************************************************)
EXTENDS TaskExecution

MCExecutions == 1 .. 2
MCVersions == 1 .. 2
MCOfficial == {2}
MCChapters == 1 .. 2
MCNoticed == {"unsupported_entities", "omitted_topics"}
MCFlawed == {"html_table", "missing_sections", "identity_missing"}

Base == [profile |-> "answer", requested |-> {}, audio |-> FALSE, resolveOnly |-> FALSE,
         overlap |-> FALSE, publish |-> FALSE, revision |-> FALSE, trouble |-> 1, selections |-> 0, crashes |-> 1]
MCScenarios ==
    {[Base EXCEPT !.profile = p] : p \in {"answer", "summary"}} \cup
    {[Base EXCEPT !.profile = "documents", !.requested = {"prd", "architecture"}],
     [Base EXCEPT !.profile = "documents", !.requested = {"minutes", "other"}, !.audio = TRUE,
                  !.publish = TRUE, !.selections = 1, !.crashes = 0],
     [Base EXCEPT !.profile = "source"],
     [Base EXCEPT !.profile = "source", !.resolveOnly = TRUE, !.crashes = 0],
     [Base EXCEPT !.profile = "documents", !.requested = {"prd"}, !.overlap = TRUE,
                  !.revision = TRUE, !.crashes = 0]}
=============================================================================
