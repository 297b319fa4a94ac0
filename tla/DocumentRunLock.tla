-------------------------- MODULE DocumentRunLock --------------------------
(***************************************************************************)
(* The single-writer protocol of one document workflow.                    *)
(*                                                                         *)
(* Every call of document_workers_run (extensions/document-worker-         *)
(* runtime.ts) for one runId is a "run": a process that reads              *)
(* checkpoint.json, tries to create run.lock, drives a pool of section     *)
(* workers that rewrite the whole checkpoint after each unit, and finally  *)
(* deletes the lock.  Runs are separate processes, so they interleave      *)
(* between any two file-system calls.  A checkpoint write is one step      *)
(* (temporary file, then rename); the unit of progress is a section unit.  *)
(***************************************************************************)
EXTENDS Naturals, FiniteSets

CONSTANTS
    Runs,        \* executions that use the same runId
    Workers,     \* parallel section workers inside one execution
    Units,       \* generation units of the workflow
    Inputs,      \* the inputHash values executions may be called with
    Strategies,  \* subset of {"checkpointed", "single_pass"} in use
    Faults,      \* subset of {"throw", "overrun", "write_error"}
    MaxCrashes,  \* bound: how many processes die
    NoRun,       \* token of a lock file whose content was never written
    NoInput      \* "there is no checkpoint.json"

ASSUME RunsAssumption ==
    /\ NoRun \notin Runs
    /\ NoInput \notin Inputs
    /\ Strategies \subseteq {"checkpointed", "single_pass"}
    /\ Faults \subseteq {"throw", "overrun", "write_error"}
    /\ MaxCrashes \in Nat

VARIABLES
    lockAge,     \* run.lock: "absent", "fresh", or "stale" (mtime older than 8 h)
    lockToken,   \* the token written in run.lock
    checkpoint,  \* checkpoint.json: the input it is bound to, the units it records
    pc,          \* where each execution stands
    held,        \* acquireWorkflowRunLock returned a lock to this execution
    input,       \* inputHash of the execution
    progress,    \* workflow.checkpoint in memory: the units known as completed
    active,      \* workers of the execution that still run
    crashes,     \* processes that died so far
    aged,        \* history: some run.lock became older than 8 h
    stolen       \* history: a lock was moved aside that was fresh or in use

lockVars == <<lockAge, lockToken>>
runVars == <<pc, held, input, progress, active>>
history == <<aged, stolen>>
runLockVars == <<lockVars, checkpoint, runVars, crashes, history>>

Unit == Inputs \X Units
NoCheckpoint == [input |-> NoInput, units |-> {}]

\* Stages of execute() around the lock.
AcquireStages == {"loaded", "exists", "reclaim", "retry"}
OwnerStages == {"writing", "releasing", "unlinking"}
Stages == {"idle"} \cup AcquireStages \cup OwnerStages

LockTypeOK ==
    /\ lockAge \in {"absent", "fresh", "stale"}
    /\ lockToken \in Runs \cup {NoRun}
    /\ checkpoint \in [input: Inputs \cup {NoInput}, units: SUBSET Unit]
    /\ pc \in [Runs -> Stages]
    /\ held \in [Runs -> BOOLEAN]
    /\ input \in [Runs -> Inputs \cup {NoInput}]
    /\ progress \in [Runs -> SUBSET Unit]
    /\ active \in [Runs -> SUBSET Workers]
    /\ crashes \in 0..MaxCrashes
    /\ aged \in BOOLEAN
    /\ stolen \in BOOLEAN

\* An execution that was handed the lock and has not given it back.
Owns(r) == held[r] /\ pc[r] \in OwnerStages

InitLock ==
    /\ lockAge = "absent"
    /\ lockToken = NoRun
    /\ checkpoint = NoCheckpoint
    /\ pc = [r \in Runs |-> "idle"]
    /\ held = [r \in Runs |-> FALSE]
    /\ input = [r \in Runs |-> NoInput]
    /\ progress = [r \in Runs |-> {}]
    /\ active = [r \in Runs |-> {}]
    /\ crashes = 0
    /\ aged = FALSE
    /\ stolen = FALSE

-----------------------------------------------------------------------------
(* Opening the workflow: the checkpoint is read before the lock is tried.  *)

\* workflowContext: a checkpoint bound to another inputHash is renamed away.
LoadCheckpoint(r) ==
    /\ pc[r] = "idle"
    /\ active[r] = {}
    /\ \E i \in Inputs :
        /\ input' = [input EXCEPT ![r] = i]
        /\ IF checkpoint.input \in {i, NoInput}
           THEN /\ progress' = [progress EXCEPT ![r] = checkpoint.units]
                /\ UNCHANGED checkpoint
           ELSE /\ progress' = [progress EXCEPT ![r] = {}]
                /\ checkpoint' = NoCheckpoint
    /\ pc' = [pc EXCEPT ![r] = "loaded"]
    /\ UNCHANGED <<lockVars, held, active, crashes, history>>

\* Execution enters the waves: its worker pool starts.
StartWorkers(r, withLock) ==
    /\ pc' = [pc EXCEPT ![r] = "writing"]
    /\ held' = [held EXCEPT ![r] = withLock]
    /\ active' = [active EXCEPT ![r] = Workers]
    /\ UNCHANGED <<input, progress>>

\* workflowStrategy = "single_pass" takes no lock at all.
StartWithoutLock(r) ==
    /\ "single_pass" \in Strategies
    /\ pc[r] = "loaded"
    /\ StartWorkers(r, FALSE)
    /\ UNCHANGED <<lockVars, checkpoint, crashes, history>>

\* Slip: the file is opened with "w", which succeeds on an existing lock.
CreateLockOverwriting(r) ==
    /\ "checkpointed" \in Strategies
    /\ pc[r] \in {"loaded", "retry"}
    /\ lockAge' = "fresh"
    /\ lockToken' = r
    /\ StartWorkers(r, TRUE)
    /\ UNCHANGED <<checkpoint, crashes, history>>

\* openSync(path, "wx") succeeds and the token is written.
CreateLock(r) ==
    /\ "checkpointed" \in Strategies
    /\ pc[r] \in {"loaded", "retry"}
    /\ lockAge = "absent"
    /\ lockAge' = "fresh"
    /\ lockToken' = r
    /\ StartWorkers(r, TRUE)
    /\ UNCHANGED <<checkpoint, crashes, history>>

Return(r) == pc' = [pc EXCEPT ![r] = "idle"]

\* The file was created but writing the token failed: the error leaves
\* execute() and the empty lock file stays behind.
CreateLockWriteError(r) ==
    /\ "write_error" \in Faults
    /\ "checkpointed" \in Strategies
    /\ pc[r] \in {"loaded", "retry"}
    /\ lockAge = "absent"
    /\ lockAge' = "fresh"
    /\ lockToken' = NoRun
    /\ Return(r)
    /\ UNCHANGED <<checkpoint, held, input, progress, active, crashes, history>>

\* EEXIST: the first time the age is examined, the second time the run gives up.
LockExists(r) ==
    /\ "checkpointed" \in Strategies
    /\ pc[r] \in {"loaded", "retry"}
    /\ lockAge # "absent"
    /\ pc' = [pc EXCEPT ![r] = IF pc[r] = "loaded" THEN "exists" ELSE "idle"]
    /\ UNCHANGED <<lockVars, checkpoint, held, input, progress, active, crashes, history>>

\* Slip: no lock is ever taken for stale.
InspectLockNeverStale(r) ==
    /\ pc[r] = "exists"
    /\ Return(r)
    /\ UNCHANGED <<lockVars, checkpoint, held, input, progress, active, crashes, history>>

\* statSync(path).mtimeMs; a lock that vanished meanwhile counts as not stale.
InspectLock(r) ==
    /\ pc[r] = "exists"
    /\ pc' = [pc EXCEPT ![r] = IF lockAge = "stale" THEN "reclaim" ELSE "idle"]
    /\ UNCHANGED <<lockVars, checkpoint, held, input, progress, active, crashes, history>>

\* renameSync moves whatever file is there now; if there is none the run is
\* refused with document_workflow_already_running.
ReclaimLock(r) ==
    /\ pc[r] = "reclaim"
    /\ IF lockAge = "absent"
       THEN Return(r) /\ UNCHANGED <<lockVars, stolen>>
       ELSE /\ pc' = [pc EXCEPT ![r] = "retry"]
            /\ lockAge' = "absent"
            /\ lockToken' = NoRun
            /\ stolen' = (stolen \/ lockAge = "fresh" \/ \E q \in Runs : lockToken = q /\ Owns(q))
    /\ UNCHANGED <<checkpoint, held, input, progress, active, crashes, aged>>

-----------------------------------------------------------------------------
(* The waves of section workers and the end of the execution.              *)

\* A worker completes a unit: writeCheckpoint stores the execution's whole
\* in-memory checkpoint.
SaveUnit(r, w) ==
    /\ w \in active[r]
    /\ \E u \in Units :
        /\ <<input[r], u>> \notin progress[r]
        /\ progress' = [progress EXCEPT ![r] = @ \cup {<<input[r], u>>}]
        /\ checkpoint' = [input |-> input[r], units |-> progress[r] \cup {<<input[r], u>>}]
    /\ UNCHANGED <<lockVars, pc, held, input, active, crashes, history>>

\* A worker has no item left; the last one of a live execution ends the waves.
WorkerDone(r, w) ==
    /\ w \in active[r]
    /\ active' = [active EXCEPT ![r] = @ \ {w}]
    /\ pc' = [pc EXCEPT ![r] = IF pc[r] = "writing" /\ active[r] = {w} THEN "releasing" ELSE @]
    /\ UNCHANGED <<lockVars, checkpoint, held, input, progress, crashes, history>>

\* A worker throws (a write or a contract validation fails): Promise.all
\* rejects, execute() goes to its finally block, the other workers keep going.
WorkerThrows(r, w) ==
    /\ "throw" \in Faults
    /\ pc[r] = "writing"
    /\ w \in active[r]
    /\ active' = [active EXCEPT ![r] = @ \ {w}]
    /\ pc' = [pc EXCEPT ![r] = "releasing"]
    /\ UNCHANGED <<lockVars, checkpoint, held, input, progress, crashes, history>>

\* releaseWorkflowRunLock: read the token ...
ReadToken(r) ==
    /\ pc[r] = "releasing"
    /\ IF held[r] /\ lockAge # "absent" /\ lockToken = r
       THEN pc' = [pc EXCEPT ![r] = "unlinking"] /\ UNCHANGED held
       ELSE Return(r) /\ held' = [held EXCEPT ![r] = FALSE]
    /\ UNCHANGED <<lockVars, checkpoint, input, progress, active, crashes, history>>

\* ... and delete the file that is there now.
Unlink(r) ==
    /\ pc[r] = "unlinking"
    /\ lockAge' = "absent"
    /\ lockToken' = NoRun
    /\ Return(r)
    /\ held' = [held EXCEPT ![r] = FALSE]
    /\ UNCHANGED <<checkpoint, input, progress, active, crashes, history>>

-----------------------------------------------------------------------------
(* The environment.                                                        *)

\* The process of an execution is killed; files stay as they are.
Crash(r) ==
    /\ crashes < MaxCrashes
    /\ pc[r] # "idle" \/ active[r] # {}
    /\ crashes' = crashes + 1
    /\ Return(r)
    /\ held' = [held EXCEPT ![r] = FALSE]
    /\ active' = [active EXCEPT ![r] = {}]
    /\ UNCHANGED <<lockVars, checkpoint, input, progress, history>>

\* WORKFLOW_RUN_LOCK_STALE_MS passes.  Only an "overrun" lets it pass while
\* the owner of the lock still works: the mtime is never refreshed.
LockAges ==
    /\ lockAge = "fresh"
    /\ "overrun" \in Faults \/ ~ \E r \in Runs : lockToken = r /\ Owns(r)
    /\ lockAge' = "stale"
    /\ aged' = TRUE
    /\ UNCHANGED <<lockToken, checkpoint, runVars, crashes, stolen>>

Advance(r) ==
    \/ StartWithoutLock(r) \/ CreateLock(r) \/ CreateLockWriteError(r)
    \/ LockExists(r) \/ InspectLock(r) \/ ReclaimLock(r)
    \/ ReadToken(r) \/ Unlink(r)

NextLock ==
    \/ LockAges
    \/ \E r \in Runs :
        \/ LoadCheckpoint(r)
        \/ Advance(r)
        \/ Crash(r)
        \/ \E w \in Workers : SaveUnit(r, w) \/ WorkerDone(r, w) \/ WorkerThrows(r, w)

LockSpec == InitLock /\ [][NextLock]_runLockVars

\* Processes are scheduled, workers finish, time passes, and a refused or
\* interrupted execution is started again.
Fairness ==
    /\ WF_runLockVars(LockAges)
    /\ \A r \in Runs :
        /\ WF_runLockVars(LoadCheckpoint(r))
        /\ WF_runLockVars(Advance(r))
        /\ \A w \in Workers : WF_runLockVars(WorkerDone(r, w))

FairLockSpec == LockSpec /\ Fairness

-----------------------------------------------------------------------------
(* Properties.                                                             *)

LockedWriters == {r \in Runs : held[r] /\ pc[r] = "writing"}

\* Unless a lock in use was moved aside, every execution that believes it has
\* the run lock is the one named in run.lock, so at most one such execution
\* exists (acquireWorkflowRunLock, releaseWorkflowRunLock).
OwnerIsInLockFile ==
    ~stolen => \A r \in Runs : Owns(r) => lockAge # "absent" /\ lockToken = r

\* A lock in use is moved aside only if some lock has outlived the 8 hours:
\* below that age contenders are refused whatever the interleaving.
StolenOnlyAfterStale == stolen => aged

\* A checkpoint only ever contains units produced for the input it is bound
\* to, whatever executions with other inputs do meanwhile (inputHash check of
\* workflowContext).
CheckpointMatchesInput ==
    \A u \in checkpoint.units : u[1] = checkpoint.input

\* A lock whose owner is gone is eventually moved aside, provided executions that
\* need the lock keep running into it (the 8 hour staleness rule of
\* acquireWorkflowRunLock).
Abandoned == lockAge # "absent" /\ ~ \E r \in Runs : lockToken = r /\ Owns(r)
Contended == \E r \in Runs : pc[r] = "exists"
AbandonedLockIsReclaimed == []<>Contended => (Abandoned ~> ~Abandoned)

\* The run lock blocks concurrent executions: two executions that both hold
\* the lock never write at the same time (README "Blocking and recovery").
SingleWriter == \A r, q \in LockedWriters : r = q
=============================================================================
