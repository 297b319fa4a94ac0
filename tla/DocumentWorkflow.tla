-------------------------- MODULE DocumentWorkflow --------------------------
(***************************************************************************)
(* The checkpointed document workflow: generateOne and generateWithRetry   *)
(* of extensions/document-worker-runtime.ts, run again and again on one    *)
(* checkpoint.json with the same input (DocumentRunLock is about two       *)
(* executions at once, and about other inputs).                            *)
(*                                                                         *)
(* A document is drafted in batches of sections (or in one "full" unit),   *)
(* each unit by one or more model calls, then missing sections are         *)
(* repaired one by one.  Text is abstracted to the set of required         *)
(* sections it contains; an artifact file to whether it still has the hash *)
(* the checkpoint recorded for it.  Every change of the checkpoint is      *)
(* followed by writeCheckpoint before the next await, so one variable      *)
(* stands for the object in memory and the file; an artifact is written    *)
(* before the checkpoint that records it.                                  *)
(***************************************************************************)
EXTENDS Naturals, Sequences, FiniteSets

CONSTANTS
    MaxDocs,        \* bound: documentWorkItems
    PerBatch,       \* sectionsPerBatch
    Batching,       \* sectionBatching
    MaxAttempts,    \* retryPolicy.maxAttemptsPerUnit
    MaxRetryUnits,  \* retryPolicy.maxRetryUnits
    MaxRepair,      \* effectiveRepairAttempts
    Scenarios       \* the requests a run starts from

(* A request: its documents, which of them each one needs (dependsOn, as   *)
(* item indexes), requiredSections, effectiveMaxWorkers, the models it may *)
(* fall back to, and bounds on the executions and on damage from outside.  *)
Scenario(n) == [docs : {n}, deps : [1..n -> SUBSET (1..n)], sections : Nat \ {0},
                workers : Nat \ {0}, candidates : Nat \ {0}, runs : Nat, corruptions : Nat]

ASSUME WorkflowAssumption ==
    /\ {MaxDocs, PerBatch, MaxAttempts} \subseteq Nat \ {0}
    /\ {MaxRetryUnits, MaxRepair} \subseteq Nat
    /\ Batching \in BOOLEAN
    /\ \A s \in Scenarios : \E n \in 1..MaxDocs : s \in Scenario(n)

VARIABLES
    sc,              \* the request
    runs, running,   \* executions begun; one is in progress
    deadline,        \* "ample", "short" (under 1 s usable) or "exhausted"; "ample" between executions
    wave,            \* documents of the current execution wave
    result,          \* status each document returned in this execution
    pc,              \* generateOne: "waiting", "draft", "repair", "returned"
    call,            \* generateWithRetry: "none", "attempt" (about to), "model" (awaited)
    unit,            \* the draft unit, or the section under repair
    attempt,         \* attempts of this unit so far
    failed,          \* generateWithCandidates: how the models before this one failed
    parts,           \* markdownParts / markdown: the sections in each part
    todo,            \* sectionsForRound still to visit
    round,           \* repairRound
    repaired,        \* repairedAnyInRound
    seq,             \* repairSequence
    docStatus,       \* checkpoint: doc.status
    docMissing,      \* checkpoint: doc.missingSections
    assembly,        \* checkpoint: doc.assembly and its file
    sectionUnits,    \* checkpoint: doc.sections and their files
    repairUnits,     \* checkpoint: doc.repairs and their files
    retryUnits,      \* checkpoint: retry.unitsUsed
    corruptions      \* files damaged so far

Docs == 1..sc.docs
Sections == 1..sc.sections
Deps == sc.deps
Unverified == 0    \* stands for the text of a file whose hash does not match
FullUnit == 0      \* the unit "full" of a document that is not batched
NBatches == (sc.sections + PerBatch - 1) \div PerBatch
DraftUnits == FullUnit..NBatches
RepairIndexes == 0..(MaxRepair * sc.sections)

unitVars == <<call, unit, attempt, failed>>
repairVars == <<todo, round, repaired, seq>>
workVars == <<wave, result, pc, unitVars, parts, repairVars>>
docVars == <<docStatus, docMissing, assembly>>
checkpointVars == <<docVars, sectionUnits, repairUnits, retryUnits>>
vars == <<sc, runs, running, deadline, workVars, checkpointVars, corruptions>>

\* generateText, when it returns no text: the request was not sent, no answer
\* came, or the answer cannot be used ("rejected": an HTTP error below 500).
Unsent == {"unavailable", "other"}
Unanswered == {"timeout", "other"}
Unusable == {"empty", "server_error", "rejected", "other"}
Failures == Unsent \cup Unanswered \cup Unusable

Text == SUBSET (Sections \cup {Unverified})
UnitRecord == [state: {"none", "failed", "completed"}, covers: Text, intact: BOOLEAN]
RepairRecord == [state: {"none", "failed", "completed"}, section: Sections \cup {0}, intact: BOOLEAN]
Assembly == [parts: Seq(Text), intact: BOOLEAN]

NoUnit == [state |-> "none", covers |-> {}, intact |-> FALSE]
NoRepair == [state |-> "none", section |-> 0, intact |-> FALSE]
NoAssembly == [parts |-> <<>>, intact |-> FALSE]

TypeOK ==
    /\ sc \in Scenarios
    /\ runs \in 0..sc.runs /\ running \in BOOLEAN
    /\ deadline \in {"ample", "short", "exhausted"}
    /\ wave \in SUBSET Docs
    /\ result \in [Docs -> {"none", "completed", "needs_fix", "blocked"}]
    /\ pc \in [Docs -> {"waiting", "draft", "repair", "returned"}]
    /\ call \in [Docs -> {"none", "attempt", "model"}]
    /\ unit \in [Docs -> Nat]
    /\ \A d \in Docs : pc[d] = "draft" => unit[d] \in DraftUnits
    /\ attempt \in [Docs -> 0..MaxAttempts]
    /\ failed \in [Docs -> Seq(Failures)]
    /\ parts \in [Docs -> Seq(Text)]
    /\ todo \in [Docs -> SUBSET Sections]
    /\ round \in [Docs -> 0..MaxRepair]
    /\ repaired \in [Docs -> BOOLEAN]
    /\ seq \in [Docs -> Nat]
    /\ docStatus \in [Docs -> {"none", "running", "completed", "needs_fix", "blocked"}]
    /\ docMissing \in [Docs -> SUBSET Sections]
    /\ assembly \in [Docs -> Assembly]
    /\ sectionUnits \in [Docs -> [DraftUnits -> UnitRecord]]
    /\ repairUnits \in [Docs -> [RepairIndexes -> RepairRecord]]
    /\ retryUnits \in 0..MaxRetryUnits
    /\ corruptions \in 0..sc.corruptions

-----------------------------------------------------------------------------
(* What the checkpoint and the text say.                                   *)

\* chunkSections
BatchSections(b) ==
    {s \in Sections : (b - 1) * PerBatch < s /\ s <= b * PerBatch}

SectionsOf(u) == IF u = FullUnit THEN Sections ELSE BatchSections(u)

\* missingSections of the merged parts
MissingFrom(ps, required) == required \ UNION {ps[i] : i \in DOMAIN ps}
Missing(ps) == MissingFrom(ps, Sections)

\* Slip: the artifact hash is not compared.
ReusableUnhashed(d, u) == sectionUnits[d][u].state = "completed"

\* reusableCheckpointUnit: completed, and the file still has the recorded hash.
Reusable(d, u) == sectionUnits[d][u].state = "completed" /\ sectionUnits[d][u].intact

\* The document was left unfinished with an assembly that can be read back.
ResumableAssembly(d) ==
    /\ docStatus[d] # "completed"
    /\ assembly[d].intact
    /\ docMissing[d] # {}

ReadUnit(d, u) == IF sectionUnits[d][u].intact THEN sectionUnits[d][u].covers ELSE {Unverified}

Working(d) == pc[d] \in {"draft", "repair"}
Idle(d) == call[d] = "none"

-----------------------------------------------------------------------------
(* Executions and waves.                                                   *)

FreshWork ==
    /\ wave' = {}
    /\ result' = [d \in Docs |-> "none"]
    /\ pc' = [d \in Docs |-> "waiting"]
    /\ call' = [d \in Docs |-> "none"]
    /\ unit' = [d \in Docs |-> 0]
    /\ attempt' = [d \in Docs |-> 0]
    /\ failed' = [d \in Docs |-> <<>>]
    /\ parts' = [d \in Docs |-> <<>>]
    /\ todo' = [d \in Docs |-> {}]
    /\ round' = [d \in Docs |-> 0]
    /\ repaired' = [d \in Docs |-> FALSE]
    /\ seq' = [d \in Docs |-> 0]

Init ==
    /\ sc \in Scenarios
    /\ runs = 0 /\ running = FALSE /\ deadline = "ample"
    /\ wave = {}
    /\ result = [d \in Docs |-> "none"]
    /\ pc = [d \in Docs |-> "waiting"]
    /\ call = [d \in Docs |-> "none"]
    /\ unit = [d \in Docs |-> 0]
    /\ attempt = [d \in Docs |-> 0]
    /\ failed = [d \in Docs |-> <<>>]
    /\ parts = [d \in Docs |-> <<>>]
    /\ todo = [d \in Docs |-> {}]
    /\ round = [d \in Docs |-> 0]
    /\ repaired = [d \in Docs |-> FALSE]
    /\ seq = [d \in Docs |-> 0]
    /\ docStatus = [d \in Docs |-> "none"]
    /\ docMissing = [d \in Docs |-> {}]
    /\ assembly = [d \in Docs |-> NoAssembly]
    /\ sectionUnits = [d \in Docs |-> [u \in DraftUnits |-> NoUnit]]
    /\ repairUnits = [d \in Docs |-> [k \in RepairIndexes |-> NoRepair]]
    /\ retryUnits = 0
    /\ corruptions = 0

\* document_workers_run is called (again) for this run.
StartExecution ==
    /\ ~running /\ runs < sc.runs
    /\ runs' = runs + 1 /\ running' = TRUE
    /\ FreshWork
    /\ UNCHANGED <<sc, deadline, checkpointVars, corruptions>>

Unresolved == {d \in Docs : result[d] = "none"}

\* The previous wave has returned; dependencyWaves puts in the next one the
\* documents whose upstream documents all belong to earlier waves.
NextWave ==
    /\ running
    /\ \A d \in wave : result[d] # "none"
    /\ Unresolved # {}
    /\ wave' = {d \in Unresolved : Deps[d] \subseteq Docs \ Unresolved}
    /\ UNCHANGED <<sc, runs, running, deadline, result, pc, unitVars, parts, repairVars,
                   checkpointVars, corruptions>>

\* Every document has returned: the execution aggregates and answers.
EndExecution ==
    /\ running /\ Unresolved = {}
    /\ running' = FALSE /\ deadline' = "ample"
    /\ UNCHANGED <<sc, runs, workVars, checkpointVars, corruptions>>

\* runLimited: workers take the items of the wave in order.
Turn(d) ==
    /\ running /\ d \in wave /\ pc[d] = "waiting"
    /\ \A e \in wave : pc[e] = "waiting" => d <= e
    /\ Cardinality({e \in Docs : Working(e)}) < sc.workers

\* generateOne returns; its local variables are gone.
Returns(d, status) ==
    /\ pc' = [pc EXCEPT ![d] = "returned"]
    /\ result' = [result EXCEPT ![d] = status]
    /\ unit' = [unit EXCEPT ![d] = 0]
    /\ todo' = [todo EXCEPT ![d] = {}]
    /\ round' = [round EXCEPT ![d] = 0]
    /\ repaired' = [repaired EXCEPT ![d] = FALSE]
    /\ seq' = [seq EXCEPT ![d] = 0]

-----------------------------------------------------------------------------
(* generateOne: start, draft units.                                        *)

\* injectUpstreamDocuments found an upstream document that is not completed.
BlockOnUpstream(d) ==
    /\ Turn(d)
    /\ \E u \in Deps[d] : result[u] # "completed"
    /\ Returns(d, "blocked")
    /\ UNCHANGED <<sc, runs, running, deadline, wave, call, attempt, failed, parts,
                   checkpointVars, corruptions>>

\* Slip: only a blocked upstream document stops the ones that depend on it.
StartDocumentOnPartialUpstream(d) ==
    /\ Turn(d)
    /\ \A u \in Deps[d] : result[u] # "blocked"
    /\ docStatus' = [docStatus EXCEPT ![d] = "running"]
    /\ pc' = [pc EXCEPT ![d] = "draft"]
    /\ unit' = [unit EXCEPT ![d] = IF Batching THEN 1 ELSE FullUnit]
    /\ UNCHANGED <<sc, runs, running, deadline, wave, result, call, attempt, failed, parts, repairVars, docMissing, assembly,
                   sectionUnits, repairUnits, retryUnits, corruptions>>

\* The document is marked running and saved; then it is drafted, from the
\* assembly an earlier execution left when there is one.
StartDocument(d) ==
    /\ Turn(d)
    /\ \A u \in Deps[d] : result[u] = "completed"
    /\ docStatus' = [docStatus EXCEPT ![d] = "running"]
    /\ IF deadline = "exhausted"
       THEN Returns(d, "blocked") /\ UNCHANGED parts
       ELSE /\ pc' = [pc EXCEPT ![d] = "draft"]
            /\ UNCHANGED <<result, repairVars>>
            /\ IF ResumableAssembly(d)
               THEN /\ parts' = [parts EXCEPT ![d] = assembly[d].parts]
                    /\ unit' = [unit EXCEPT ![d] = FullUnit]
               ELSE /\ unit' = [unit EXCEPT ![d] = IF Batching THEN 1 ELSE FullUnit]
                    /\ UNCHANGED parts
    /\ UNCHANGED <<sc, runs, running, deadline, wave, call, attempt, failed, docMissing, assembly,
                   sectionUnits, repairUnits, retryUnits, corruptions>>

\* After a unit: the next batch, or the repairs.
AfterUnit(d) ==
    IF unit[d] \in 1..(NBatches - 1)
    THEN unit' = [unit EXCEPT ![d] = @ + 1] /\ UNCHANGED pc
    ELSE pc' = [pc EXCEPT ![d] = "repair"] /\ unit' = [unit EXCEPT ![d] = 0]

Append1(d, text) == parts' = [parts EXCEPT ![d] = Append(@, text)]

\* A unit completed by an earlier execution is taken from its file.
ReuseUnit(d) ==
    /\ pc[d] = "draft" /\ Idle(d)
    /\ Reusable(d, unit[d])
    /\ Append1(d, ReadUnit(d, unit[d]))
    /\ AfterUnit(d)
    /\ UNCHANGED <<sc, runs, running, deadline, wave, result, call, attempt, failed, repairVars,
                   checkpointVars, corruptions>>

\* Before a batch (not before a full document) the deadline is checked.
BatchPastDeadline(d) ==
    /\ pc[d] = "draft" /\ Idle(d)
    /\ unit[d] # FullUnit /\ ~Reusable(d, unit[d])
    /\ deadline = "exhausted"
    /\ Returns(d, "blocked")
    /\ UNCHANGED <<sc, runs, running, deadline, wave, call, attempt, failed, parts,
                   checkpointVars, corruptions>>

EndAttempts(d) ==
    /\ call' = [call EXCEPT ![d] = "none"]
    /\ attempt' = [attempt EXCEPT ![d] = 0]
    /\ failed' = [failed EXCEPT ![d] = <<>>]

BeginAttempts(d) ==
    /\ call' = [call EXCEPT ![d] = "attempt"]
    /\ attempt' = [attempt EXCEPT ![d] = 1]
    /\ UNCHANGED failed

\* Slip: completed units are generated again.
RequestUnitAlways(d) ==
    /\ pc[d] = "draft" /\ Idle(d)
    /\ unit[d] # FullUnit => deadline # "exhausted"
    /\ BeginAttempts(d)
    /\ UNCHANGED <<sc, runs, running, deadline, wave, result, pc, unit, parts, repairVars,
                   checkpointVars, corruptions>>

RequestUnit(d) ==
    /\ pc[d] = "draft" /\ Idle(d)
    /\ ~Reusable(d, unit[d])
    /\ unit[d] # FullUnit => deadline # "exhausted"
    /\ BeginAttempts(d)
    /\ UNCHANGED <<sc, runs, running, deadline, wave, result, pc, unit, parts, repairVars,
                   checkpointVars, corruptions>>

-----------------------------------------------------------------------------
(* generateWithRetry.                                                      *)

\* The unit could not be generated: it is recorded as failed, work goes on.
RecordFailure(d) ==
    /\ EndAttempts(d)
    /\ IF pc[d] = "draft"
       THEN /\ sectionUnits' = [sectionUnits EXCEPT ![d][unit[d]] = [NoUnit EXCEPT !.state = "failed"]]
            /\ AfterUnit(d)
            /\ UNCHANGED <<todo, seq, repairUnits>>
       ELSE /\ repairUnits' = [repairUnits EXCEPT ![d][seq[d]] =
                                 [state |-> "failed", section |-> unit[d], intact |-> FALSE]]
            /\ seq' = [seq EXCEPT ![d] = @ + 1]
            /\ todo' = [todo EXCEPT ![d] = @ \ {unit[d]}]
            /\ unit' = [unit EXCEPT ![d] = 0]
            /\ UNCHANGED <<pc, sectionUnits>>

CanTryAgain(d, retryable) ==
    /\ retryable
    /\ attempt[d] < MaxAttempts
    /\ retryUnits < MaxRetryUnits
    /\ deadline # "exhausted"

\* Slip: the retry is not counted at all.
FailedAttemptUncounted(d, retryable) ==
    IF CanTryAgain(d, retryable)
    THEN /\ call' = [call EXCEPT ![d] = "attempt"]
         /\ failed' = [failed EXCEPT ![d] = <<>>]
         /\ UNCHANGED <<retryUnits, attempt, pc, unit, todo, seq, sectionUnits, repairUnits>>
    ELSE RecordFailure(d) /\ UNCHANGED retryUnits

\* An attempt failed: one more, charged to the budget of the whole workflow,
\* or the unit has failed.
FailedAttempt(d, retryable) ==
    IF CanTryAgain(d, retryable)
    THEN /\ retryUnits' = retryUnits + 1
         /\ attempt' = [attempt EXCEPT ![d] = @ + 1]
         /\ call' = [call EXCEPT ![d] = "attempt"]
         /\ failed' = [failed EXCEPT ![d] = <<>>]
         /\ UNCHANGED <<pc, unit, todo, seq, sectionUnits, repairUnits>>
    ELSE RecordFailure(d) /\ UNCHANGED retryUnits

\* The model is asked: the first candidate, or the next one after a fallback.
CallModel(d) ==
    /\ call[d] = "attempt" /\ deadline = "ample"
    /\ call' = [call EXCEPT ![d] = "model"]
    /\ UNCHANGED <<sc, runs, running, deadline, wave, result, pc, unit, attempt, failed, parts,
                   repairVars, checkpointVars, corruptions>>

FailedWith(d, kind) == \E i \in DOMAIN failed[d] : failed[d][i] = kind

\* Under one second is left: the attempt, or its fallback, is skipped without a
\* call, which counts as retryable (document_worker_deadline_exhausted).
SkipAttempt(d) ==
    /\ call[d] = "attempt" /\ deadline = "short"
    /\ FailedAttempt(d, ~FailedWith(d, "unavailable"))
    /\ UNCHANGED <<sc, runs, running, deadline, wave, result, parts, round, repaired, docVars, corruptions>>

AttemptPastDeadline(d) ==
    /\ call[d] = "attempt" /\ deadline = "exhausted"
    /\ RecordFailure(d)
    /\ UNCHANGED <<sc, runs, running, deadline, wave, result, parts, round, repaired,
                   docVars, retryUnits, corruptions>>

LastCandidate(d) == Len(failed[d]) + 1 = sc.candidates

\* isFallbackEligible: after a timeout or a refusal no other model is asked.
FallsBack(d, kind) ==
    /\ kind \in {"empty", "server_error", "unavailable"}
    /\ ~LastCandidate(d) /\ deadline # "exhausted"

\* canRetryGeneration.  Once the candidates are used up the reason is only that
\* there is none left, and then a timeout or an empty answer among the failures
\* decides; a refusal is taken for the server error of the model before it.
Retryable(d, kind) ==
    IF LastCandidate(d)
    THEN kind \in {"timeout", "empty"} \/ FailedWith(d, "empty")
    ELSE /\ ~FailedWith(d, "unavailable")
         /\ (kind = "timeout" \/ (kind = "rejected" /\ FailedWith(d, "server_error")))

\* The model fails: the next candidate is asked, or the attempt has failed.
ModelFails(d) ==
    /\ call[d] = "model"
    /\ \E kind \in Failures :
        IF FallsBack(d, kind)
        THEN /\ failed' = [failed EXCEPT ![d] = Append(@, kind)]
             /\ call' = [call EXCEPT ![d] = "attempt"]
             /\ UNCHANGED <<attempt, retryUnits, pc, unit, todo, seq, sectionUnits, repairUnits>>
        ELSE FailedAttempt(d, Retryable(d, kind))
    /\ UNCHANGED <<sc, runs, running, deadline, wave, result, parts, round, repaired, docVars, corruptions>>

\* generateText: the text as far as it came; that a stream ended early, or at the
\* limit of tokens, is not looked at.
Answers(sections) == SUBSET sections

\* The model wrote all or some of the sections it was asked for; the text is
\* stored and then recorded in the checkpoint.
ModelDrafts(d) ==
    /\ pc[d] = "draft" /\ call[d] = "model"
    /\ \E covers \in Answers(SectionsOf(unit[d])) :
        /\ Append1(d, covers)
        /\ sectionUnits' = [sectionUnits EXCEPT ![d][unit[d]] =
                              [state |-> "completed", covers |-> covers, intact |-> TRUE]]
    /\ EndAttempts(d)
    /\ AfterUnit(d)
    /\ UNCHANGED <<sc, runs, running, deadline, wave, result, repairVars, docVars,
                   repairUnits, retryUnits, corruptions>>

ModelRepairs(d) ==
    /\ pc[d] = "repair" /\ call[d] = "model"
    /\ \E covers \in Answers({unit[d]}) : Append1(d, covers)
    /\ repairUnits' = [repairUnits EXCEPT ![d][seq[d]] =
                         [state |-> "completed", section |-> unit[d], intact |-> TRUE]]
    /\ repaired' = [repaired EXCEPT ![d] = TRUE]
    /\ seq' = [seq EXCEPT ![d] = @ + 1]
    /\ todo' = [todo EXCEPT ![d] = @ \ {unit[d]}]
    /\ EndAttempts(d)
    /\ unit' = [unit EXCEPT ![d] = 0]
    /\ UNCHANGED <<sc, runs, running, deadline, wave, result, pc, round, docVars,
                   sectionUnits, retryUnits, corruptions>>

-----------------------------------------------------------------------------
(* Repairs and the end of a document.                                      *)

StillMissing(d) == todo[d] \cap Missing(parts[d])

\* A round ended and another one is due.
AnotherRound(d) ==
    /\ round[d] < MaxRepair
    /\ Missing(parts[d]) # {}
    /\ parts[d] # <<>>
    /\ round[d] = 0 \/ repaired[d]

BeginRepairRound(d) ==
    /\ pc[d] = "repair" /\ Idle(d) /\ StillMissing(d) = {}
    /\ AnotherRound(d)
    /\ todo' = [todo EXCEPT ![d] = Missing(parts[d])]
    /\ round' = [round EXCEPT ![d] = @ + 1]
    /\ repaired' = [repaired EXCEPT ![d] = FALSE]
    /\ UNCHANGED <<sc, runs, running, deadline, wave, result, pc, unitVars, parts, seq,
                   checkpointVars, corruptions>>

RequestRepair(d) ==
    /\ pc[d] = "repair" /\ Idle(d) /\ StillMissing(d) # {}
    /\ deadline # "exhausted"
    /\ \E s \in StillMissing(d) :
        /\ \A t \in StillMissing(d) : s <= t
        /\ unit' = [unit EXCEPT ![d] = s]
    /\ BeginAttempts(d)
    /\ UNCHANGED <<sc, runs, running, deadline, wave, result, pc, parts, repairVars,
                   checkpointVars, corruptions>>

RepairPastDeadline(d) ==
    /\ pc[d] = "repair" /\ Idle(d) /\ StillMissing(d) # {}
    /\ deadline = "exhausted"
    /\ Returns(d, "blocked")
    /\ UNCHANGED <<sc, runs, running, deadline, wave, call, attempt, failed, parts,
                   checkpointVars, corruptions>>

FinalStatus(d) ==
    IF parts[d] = <<>> THEN "blocked" ELSE IF Missing(parts[d]) # {} THEN "needs_fix" ELSE "completed"

Finished(d) == pc[d] = "repair" /\ Idle(d) /\ StillMissing(d) = {} /\ ~AnotherRound(d)

\* Slip: the new assembly is not recorded.
FinishUnrecorded(d) ==
    /\ Finished(d)
    /\ Returns(d, FinalStatus(d))
    /\ docStatus' = [docStatus EXCEPT ![d] = FinalStatus(d)]
    /\ docMissing' = [docMissing EXCEPT ![d] = Missing(parts[d])]
    /\ UNCHANGED <<sc, assembly, runs, running, deadline, wave, call, attempt, failed, parts,
                   sectionUnits, repairUnits, retryUnits, corruptions>>

\* Assembly, review, status and missing sections are recorded in one save.
Finish(d) ==
    /\ Finished(d)
    /\ Returns(d, FinalStatus(d))
    /\ docStatus' = [docStatus EXCEPT ![d] = FinalStatus(d)]
    /\ docMissing' = [docMissing EXCEPT ![d] = Missing(parts[d])]
    /\ assembly' = IF parts[d] = <<>> THEN assembly
                   ELSE [assembly EXCEPT ![d] = [parts |-> parts[d], intact |-> TRUE]]
    /\ UNCHANGED <<sc, runs, running, deadline, wave, call, attempt, failed, parts,
                   sectionUnits, repairUnits, retryUnits, corruptions>>

-----------------------------------------------------------------------------
(* The environment.                                                        *)

TimePasses ==
    /\ running /\ deadline # "exhausted"
    /\ deadline' \in IF deadline = "ample" THEN {"short", "exhausted"} ELSE {"exhausted"}
    /\ UNCHANGED <<sc, runs, running, workVars, checkpointVars, corruptions>>

\* The process dies between two saves, or after an artifact was replaced and
\* before the checkpoint that records its new hash.
Crash ==
    /\ running
    /\ running' = FALSE /\ deadline' = "ample"
    /\ FreshWork
    /\ \/ UNCHANGED <<sectionUnits, repairUnits, assembly>>
       \/ \E d \in Docs :
            \/ /\ pc[d] = "draft" /\ call[d] = "model"
               /\ sectionUnits' = [sectionUnits EXCEPT ![d][unit[d]].intact = FALSE]
               /\ UNCHANGED <<repairUnits, assembly>>
            \/ /\ pc[d] = "repair" /\ call[d] = "model"
               /\ repairUnits' = [repairUnits EXCEPT ![d][seq[d]].intact = FALSE]
               /\ UNCHANGED <<sectionUnits, assembly>>
            \/ /\ Finished(d) /\ parts[d] # <<>>
               /\ assembly' = [assembly EXCEPT ![d].intact = FALSE]
               /\ UNCHANGED <<sectionUnits, repairUnits>>
    /\ UNCHANGED <<sc, runs, docStatus, docMissing, retryUnits, corruptions>>

\* A section file is truncated, edited or deleted.
CorruptArtifact ==
    /\ corruptions < sc.corruptions
    /\ corruptions' = corruptions + 1
    /\ \E d \in Docs, u \in DraftUnits :
        /\ Reusable(d, u)
        /\ sectionUnits' = [sectionUnits EXCEPT ![d][u].intact = FALSE]
    /\ UNCHANGED <<sc, runs, running, deadline, workVars, docVars, repairUnits, retryUnits>>

DocumentStep(d) == d \in Docs /\ (
    \/ BlockOnUpstream(d) \/ StartDocument(d)
    \/ ReuseUnit(d) \/ BatchPastDeadline(d) \/ RequestUnit(d)
    \/ CallModel(d) \/ SkipAttempt(d) \/ AttemptPastDeadline(d)
    \/ ModelFails(d) \/ ModelDrafts(d) \/ ModelRepairs(d)
    \/ BeginRepairRound(d) \/ RequestRepair(d) \/ RepairPastDeadline(d) \/ Finish(d))

Next ==
    \/ StartExecution \/ NextWave \/ EndExecution
    \/ \E d \in 1..MaxDocs : DocumentStep(d)
    \/ TimePasses \/ Crash \/ CorruptArtifact

Spec == Init /\ [][Next]_vars

\* Model calls return (each has a timeout) and the event loop runs on.
Fairness ==
    /\ WF_vars(NextWave)
    /\ WF_vars(EndExecution)
    /\ \A d \in 1..MaxDocs : WF_vars(DocumentStep(d))

FairSpec == Spec /\ Fairness

-----------------------------------------------------------------------------
(* Properties.                                                             *)

\* A document is only written when every upstream document of the same
\* request has been delivered with all its sections (execute,
\* injectUpstreamDocuments).
UpstreamFirst ==
    \A d \in Docs : Working(d) =>
        \A u \in Deps[d] : result[u] = "completed" /\ parts[u] # <<>> /\ Missing(parts[u]) = {}

\* Text of a file that lost its recorded hash (damaged, or replaced right
\* before a crash) never gets into a document (reusableCheckpointUnit).
OnlyVerifiedContent ==
    \A d \in Docs : \A i \in DOMAIN parts[d] : Unverified \notin parts[d][i]

\* What the checkpoint says of a finished document is true of the assembly it
\* records, and of what the execution that finished it returned.
CheckpointConsistent ==
    \A d \in Docs :
        /\ docStatus[d] = "completed" => assembly[d].parts # <<>> /\ Missing(assembly[d].parts) = {}
        /\ docStatus[d] = "needs_fix" => docMissing[d] = Missing(assembly[d].parts) /\ docMissing[d] # {}
        /\ result[d] \in {"completed", "needs_fix"} =>
             docStatus[d] = result[d] /\ assembly[d] = [parts |-> parts[d], intact |-> TRUE]

\* A section unit recorded as completed is never lost or replaced by later
\* steps of this or another execution; only damage to its file invalidates it.
CompletedUnitsSurvive ==
    [][\A d \in Docs, u \in DraftUnits :
          Reusable(d, u) /\ corruptions' = corruptions
            => Reusable(d, u)' /\ sectionUnits'[d][u].covers = sectionUnits[d][u].covers]_vars

\* An execution always ends (or its process dies): retries and repairs do not
\* go on for ever, and no wave waits for a document that never returns.
ExecutionEnds == running ~> ~running
=============================================================================
