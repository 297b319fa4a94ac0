-------------------------- MODULE ExecutionLedger --------------------------
(***************************************************************************)
(* The adaptive execution ledger (extensions/planner-runtime.ts): the      *)
(* steps of a task, what each waits for, the questions to the user, and    *)
(* the revision-checked changes the runner asks for.  Only operators: who  *)
(* calls them, and when the file is read and written, is TaskExecution.    *)
(***************************************************************************)
EXTENDS Integers, FiniteSets

(* Steps are named as in the code; the step that generates a document has  *)
(* the document's name.                                                    *)
SourceSteps == {"resolve", "acquire", "transcribe", "analyze", "verify-source"}
DocumentTypes == {"minutes", "prd", "architecture", "checklist", "other"}
StepIds == SourceSteps \cup DocumentTypes \cup {"understand", "office", "verify"}
Done == {"completed", "skipped"}
StepStatuses == Done \cup {"pending", "ready", "in_progress", "blocked", "cancelled", "failed"}

(* A prd that is requested too comes before the architecture, and both come *)
(* before the checklist.                                                   *)
documentDependencies(d, requested) ==
    CASE d = "architecture" -> requested \cap {"prd"}
      [] d = "checklist"    -> requested \cap {"prd", "architecture"}
      [] d = "minutes"      -> {"understand"}
      [] OTHER              -> {}

sourceDependencies(s) ==
    CASE s = "resolve"    -> {}
      [] s = "acquire"    -> {"resolve"}
      [] s = "transcribe" -> {"acquire"}
      [] s = "analyze"    -> {"transcribe"}
      [] OTHER            -> {"analyze"}

Steps(kind, requested) ==
    IF kind = "source" THEN SourceSteps
    ELSE IF requested = {} THEN {"office"}
    ELSE requested \cup {"verify"} \cup (IF "minutes" \in requested THEN {"understand"} ELSE {})

DependsOn(kind, requested) ==
    [s \in Steps(kind, requested) |->
        CASE s \in SourceSteps -> sourceDependencies(s)
          [] s \in requested -> documentDependencies(s, requested)
          [] OTHER -> IF s = "verify" THEN requested ELSE {}]

(* Steps whose dependencies are done become ready.                         *)
MakeReadyAtOnce(status, deps) ==
    [s \in DOMAIN status |->
        IF status[s] = "pending" /\ deps[s] = {} THEN "ready" ELSE status[s]]
MakeReady(status, deps) ==
    [s \in DOMAIN status |->
        IF status[s] = "pending" /\ \A d \in deps[s] : status[d] \in Done
        THEN "ready" ELSE status[s]]

(* The meeting is understood before planning, or nobody will say it was.   *)
buildSteps(kind, requested, analysed) ==
    MakeReady([s \in Steps(kind, requested) |->
                  IF s = "understand" /\ analysed THEN "completed" ELSE "pending"],
              DependsOn(kind, requested))

Overall(status, asks) ==
    CASE \E s \in DOMAIN status : status[s] \in {"blocked", "failed"} -> "blocked"
      [] \A s \in DOMAIN status : status[s] \in Done \cup {"cancelled"} -> "completed"
      [] OTHER -> IF asks # {} THEN "awaiting_user" ELSE "active"

NoStep == [s \in {} |-> "pending"]
NoPlan == [valid |-> FALSE, status |-> "none", revision |-> 0, steps |-> NoStep,
           deps |-> NoStep, refs |-> {}, asks |-> {}, answered |-> {}, ops |-> {}]

(* What a tool call returns that was refused, failed or ran out of time.   *)
Refused == [NoPlan EXCEPT !.status = "blocked"]

buildEnvelope(kind, requested, analysed, asks) ==
    LET steps == buildSteps(kind, requested, analysed)
    IN  [valid    |-> TRUE,
         status   |-> IF \A s \in DOMAIN steps : steps[s] \in Done THEN "completed" ELSE "active",
         revision |-> 1,
         steps    |-> steps,
         deps     |-> DependsOn(kind, requested),
         refs     |-> IF analysed THEN DOMAIN steps \cap {"understand"} ELSE {},
         asks     |-> asks,
         answered |-> {},
         ops      |-> {}]

(* A change: its operation, the revision it expects, a status for some     *)
(* steps, the steps that bring results or an accepted verdict, questions,  *)
(* events.                                                                 *)
Change(op, expect, updates, evidence) ==
    [op |-> op, expect |-> expect, updates |-> updates, evidence |-> evidence,
     asks |-> {}, events |-> FALSE]

DependenciesDone(l, s) == \A d \in l.deps[s] : l.steps[d] \in Done

MayTake(l, c, s) ==
    LET next == c.updates[s]
    IN  /\ next = "in_progress" => DependenciesDone(l, s)
        /\ next = "completed" => /\ l.steps[s] = "in_progress" \/ DependenciesDone(l, s)
                                 /\ s \in l.refs \cup c.evidence

(* execution_ledger_reconcile: a replayed operation changes nothing, an    *)
(* unexpected revision or a step out of order is refused.                  *)
Acceptable(l, c) ==
    /\ l.valid
    /\ c.expect = l.revision
    /\ \A s \in DOMAIN c.updates \cap DOMAIN l.steps : MayTake(l, c, s)

reconcileLedger(l, c) ==
    IF l.valid /\ c.op \in l.ops THEN l
    ELSE IF ~Acceptable(l, c) THEN Refused
    ELSE LET patched == DOMAIN c.updates \cap DOMAIN l.steps
             steps == MakeReady([s \in DOMAIN l.steps |->
                                    IF s \in patched THEN c.updates[s] ELSE l.steps[s]], l.deps)
             new == c.asks \ (l.asks \cup l.answered)
         IN  IF patched = {} /\ new = {} /\ ~c.events /\ steps = l.steps THEN l
             ELSE [l EXCEPT !.revision = @ + 1,
                            !.steps = steps,
                            !.refs = @ \cup (c.evidence \cap patched),
                            !.asks = @ \cup new,
                            !.status = Overall(steps, l.asks \cup new),
                            !.ops = @ \cup {c.op}]
=============================================================================
