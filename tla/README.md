# Verification of the Office Agent

TLA+ models, TLC runs and TLAPS proofs for the Office Agent: a task agent that
takes messages from Feishu, turns meetings, files and web pages into documents,
and publishes them. Paths below are relative to `meeting-agent-pi-package/`
unless they say otherwise.

Contents: 1 the system, 2 the modules, 3 the runs, 4 the proofs, 5 what the
models showed, 6 what is not modelled, 7 what comes next.

## 1. The system

```
Feishu ──> event runner (cli) ──┐                     ┌─> pipelines in the handler process ─> speech recognition
       └─> bot gateway (sdk) ───┴─HTTP─> task handler ┼─> Redis queue ─> Docker document worker
                                           │          └─> Pi CLI
                                           ├─ gates ─> publish (wiki / drive) ─> reply
                                           └─ run directory, thread ledger, runtime store
supervisor ──starts and restarts── handler, runner or gateway, speech service
```

| Component | State | Operations | Hard behaviours |
|---|---|---|---|
| Event runner `tools/feishu_event_runner.mjs`, gateway `tools/feishu_bot_event_gateway.mjs` | sets of seen ids, the dedupe file, deliveries in flight | log, look up, POST, mark, answer the user | concurrent deliveries, a 20 s limit against minutes of work, timeout after acceptance, torn file |
| Task handler `tools/feishu_agent_task_handler.mjs` | run directories, attachment cache, index of ledgers by conversation | accept, obtain files, classify, dispatch, publish, reply, index | runs interleave at every await, files of one run used by another, a worker writing the same state file |
| Task runner `tools/task_execution_runner.mjs`, ledger `extensions/planner-runtime.ts` | artifacts, gates and ledger of a run | four pipelines of stages, each with a blocked exit | refused or replayed changes of the ledger, leftovers of an earlier execution, a late execution beside a new one |
| Speech recognition `tools/dashscope_asr_client.mjs`, `tools/local_asr_*.py` | artifacts of runs, shared cache, chunk files, the service's job list | choose provider, upload, stream, poll, recognise, fall back | callers that time out while the work goes on, part-wise writes, reuse across executions |
| Docker queue `tools/local_docker_runtime_queue.mjs`, `tools/local_docker_document_worker.mjs`, Redis | job list, a result list per job, output file, worker slots | check depth, push, wait, pop, generate, write, report | two-command check and push, answer by file and not by message, timeouts that withdraw nothing |
| Document workflow `extensions/document-worker-runtime.ts`, `extensions/model-provider.ts` | `checkpoint.json`, unit and assembly files, `run.lock`, retry budget, deadline | lock, plan waves, draft, fall back, retry, repair, assemble, save | several processes on one run id, crash between file and record, shared budget, resume |
| Publishing (handler), `tools/feishu_wiki_publish_helpers.mjs`, `tools/feishu_publish_organize_cli.mjs` | two registry files, spaces, nodes, folders, documents at Feishu | find or create the target, write, move, record, reorganise | read once and rewrite whole by several processes, calls that fail or succeed unheard, wiki and Drive fallback |
| Runtime store `tools/runtime_store_cli.py` | SQLite rows, content-addressed files, hard links | index, reuse, pin, clean up, dedupe, quarantine | files change at once and rows at the commit, candidates read before the write lock |
| Supervisor `tools/local_runtime_supervisor.py`, `tools/local_runtime_ctl.py`, `tools/local_asr_service_ctl.py` | processes, PID files, failure counters | start, poll, restart, take over, stop | orphans of a killed supervisor, hanging handler, stop against a tick |
| Gates `extensions/qa-gate.ts`, `extensions/policy-gate.ts` | `qa-gate.json`, `policy-decision.json` of a run | evaluate, write, decide | a verdict that is not its own, checks that were never made |
| Meeting intelligence and memory `tools/meeting_intelligence_helpers.mjs`, `tools/meeting_memory_helpers.mjs` | analysis and review of a run; ledger, conflicts and `MEMORY.md` of the workspace, their lock | put an answer right, plan and judge a review, curate, lock, persist | runs share three files under a lock that expires, death between two of them |
| Source context, URL sources, agent teams, routing, other channels | mostly none | text in, data out | parsing |

What must hold, per component:

* **Event runner and gateway.** A marked message is not worked on again, over
  restarts; a delivered message is worked on; the user hears once, unless an answer or a reply went
  unheard.
* **Handler.** A run works on the file that was sent, wherever it was found; state
  files are complete; a choice stays; every run ends.
* **Task runner and ledger.** Nothing is delivered on a gate that is not its own;
  ledger and output agree; a source pack is of one text; every execution ends.
* **Speech recognition.** A run whose audios were all there has texts of them only, each in
  its place; complete artifacts are of one recognition; waiting ends though nobody answers.
* **Queue.** A call returns, with its own answer; "completed" is only said over a
  complete file that is not left over; one generator per directory.
* **Document workflow.** One believed owner of the lock; an abandoned lock is
  reclaimed; the checkpoint is truthful; finished units survive; what is damaged is not
  used; documents follow their upstream documents; it ends.
* **Publishing.** Nothing is shown past a failed gate, nothing reported published of which a
  document was not written; what was reported stays in place; every copy is recorded.
* **Gates.** A profile without its checks does not pass; only what an evaluation came to is
  written.
* **Meeting memory.** What is remembered rests on clear, supported claims of a meeting that
  passed its gate (on half of its words, not on its meaning: see 5); the shared files tell one
  story.
* **Store.** What is pinned stays; what is reused is genuine; linking changes no
  attachment; the quota takes no more than it has to.
* **Supervisor.** Never two gateways; "stopped" means stopped; a
  service that died comes back, and one that hangs as far as the supervisor can tell.

## 2. The modules

| Module | What it is | Code |
|---|---|---|
| `DocumentRunLock` | run lock and checkpoint binding of one run id, several processes | `document-worker-runtime.ts` |
| `DocumentWorkflow` | drafting, model fallback, retries, repairs and resume of the documents of one request | the same, `model-provider.ts` |
| `DependencyWaves` | the planning loop that orders the documents | the same |
| `DocumentDelivery` | abstract: what handing over a document task promises | |
| `DocumentWorkerQueue` | the Redis queue and its two ends; implements `DocumentDelivery` | `local_docker_*.mjs` |
| `EventIngress` | runner, gateway and the handler's server | `feishu_event_runner.mjs`, `feishu_bot_event_gateway.mjs` |
| `TaskHandler` | runs of the handler from the message to the reply | `feishu_agent_task_handler.mjs` |
| `GatedPublishing` | abstract: what publishing promises whatever the destination | |
| `Publishing` | wiki, Drive and the reorganising command; implements `GatedPublishing` | handler, `feishu_wiki_publish_helpers.mjs`, `feishu_publish_organize_cli.mjs` |
| `ExecutionLedger` | the ledger's operators: steps, dependencies, revision-checked changes | `planner-runtime.ts` |
| `TaskExecution` | the four pipelines, executed once or twice on one directory | `task_execution_runner.mjs` |
| `QualityGates` | both gates, as functions of what they are asked | `qa-gate.ts`, `policy-gate.ts`, `qa-contracts.ts` |
| `MeetingIntelligence` | analysis, delegated review and findings of a meeting, as functions | `meeting_intelligence_helpers.mjs`, `meeting_workflow_helpers.mjs`, `pi_meeting_orchestration_helpers.mjs` |
| `MeetingMemory` | the runs that curate the memory of their workspace | `meeting_memory_helpers.mjs`, `task_execution_runner.mjs` |
| `Transcription` | runner, cloud client, local service and cache | `task_execution_runner.mjs`, `dashscope_asr_client.mjs`, `local_asr_*.py` |
| `RuntimeStore` | files, rows, objects and the commands on them | `runtime_store_cli.py` |
| `RuntimeSupervisor` | supervisor, services, PID files, commands | `local_runtime_*.py`, `local_asr_service_ctl.py` |
| `MC*` | instances for TLC | |
| `*_proofs` | theorems and their proofs; `DocumentRuntime_proofs` those of `DocumentRunLock`, `DependencyWaves` and `DocumentWorkerQueue`, `MessageHandling_proofs` those of `EventIngress` and `TaskHandler`, `TaskRunner_proofs` those of `TaskExecution` and `MeetingMemory` | |

Definitions that begin with the comment "Slip:", or whose name says what they omit
(`CandidatesOfAll`, `MergeNothing`, `TerminateNone`...), are variants with a plausible
bug. No specification uses them; each is swapped in for its neighbour to see that
some property notices.

**`DocumentRunLock`.** A *run* is one execution of `document_workers_run`; runs are
processes, so they interleave between any two file-system calls. `LoadCheckpoint`
is `workflowContext` (a checkpoint of another input is quarantined), `CreateLock`
the exclusive open, `InspectLock` and `ReclaimLock` the staleness rule, `SaveUnit`
a worker's completed unit with `writeCheckpoint` (temporary file and rename: one
step), `ReadToken` and `Unlink` the two calls of the release. `LockAges` is the
8-hour clock, reduced to fresh and stale. Faults: a worker throws while its
siblings run on, an execution outlives the limit, writing the token fails,
processes crash.

**`DocumentWorkflow`.** Text is the set of required sections it contains; a file is
reduced to whether it has the recorded hash. `StartDocument` to `Finish` follow
`generateOne`; `CallModel`, `ModelFails` and `FailedAttempt` follow
`generateWithCandidates` inside `generateWithRetry`: `failed` lists how the models
before the current one failed, `FallsBack` says whether the next one is asked, and
`Retryable` whether the attempt may be repeated. The deadline is "ample", "short"
(attempts are skipped) or "exhausted". The checkpoint object is saved before the next
await after each change, so one variable stands for memory and file; crashes fall
between steps, and one between an artifact and the save leaves a file without its
hash.

**`DependencyWaves`.** One step is one turn of the `while` loop of `dependencyWaves`,
started on every request there is: absent types, duplicates, self-dependencies. It is
proved about and has no run: without choice and fault, a run adds nothing to the theorems.

**`DocumentWorkerQueue`.** Host calls step through check, push, wait and read; slots
through pop, lock, generate, write, report, expire. Writing `agent-output.json` is
two steps (truncate, fill). Each command may fail, with or without effect; the
handler, the worker or Redis may die; Redis forgets everything. Calls are issued in
a fixed order of their names (`FreshJob`), which only removes renamings.
`DocumentDelivery` sees the status of each call and which directories hold complete
documents; the mapping is `CallStatus` and `Produced`.

**`EventIngress`.** A *task* is one delivery of one message. `Line` to `LeaveUnmarked` are
the async task of `consumeLarkCli`, `Receive` to `AnswerUser` the gateway's callback,
`TimesOut` the abort of either's `fetch`, `Accept`, `Finish`, `FinishUnheard` and `Throws` the server
callback with a run behind it; `FinishUnheard` is a reply that arrives while its lark-cli
call fails or times out. Faults: that, a failed append to the event log, a lost
request, an exception, a crash of the handler, of the caller, or of the caller in
the middle of writing the dedupe file.

**`TaskHandler`.** What a run does between two awaits is one step. `Start` is intake
(state file, cache entry, the choice a text makes in the newest ledger of its
conversation), `FetchParent` to `Obtained` the attachments: link, embedded and
parent resources, the run directories and the store, downloads with their retries,
the file left by a failed download. `Classify` to `RunPipeline` pick the way to the
answer, `Enqueue`, `TakeAnswer` and `GiveUp` hand over to the worker, whose process
(`WorkerReads`, `WorkerWrites`) rewrites the same state file, and `Publish`, `Reply`
and `IndexRun` end the run. A file's content is the key it stands for, 0 when it is
absent, or `Remnant`. `mem` is the handler's copy of a state file, `disk` the file.

**`Publishing`.** A process is a run at `publishResults` or the reorganising command.
`mem` is what it read of the two registries at its start, `wikiReg` and `driveReg` are
the files, `spaces`, `nodes`, `folders` and `docs` what exists at Feishu. What a
process does between two calls of lark-cli is one step taken with the earlier call's
answer; a call may fail or take effect unheard. The gates of a run are inputs. `docs[d].i` says which document of its run a document at
Feishu shows: one that is written over the file a request names (`Overwrites`) replaces
what the run wrote there before. `GatedPublishing` therefore tells what is *visible* from
what is *reported*; the mapping is `Visible` and `Reported`.

**`TaskExecution`.** `pc[e]` is the stage of execution e, one action per stage, named after
the function that does it. `ledger` is the file and `mine` the execution's own copy; every
change goes through `execution_ledger_reconcile` with the revision the execution knows,
is applied, replayed or refused, and a refusal leaves `base` unread. `Select` is the
user's choice, made by the handler in the same file. `qa`, `policy`, `transcript`, `chapter`, `pack` and
`output` are the files both executions share; `by` says who wrote them. What the gates say is
computed by `QualityGates` from what the execution found (`SourceInput`, `DocumentInput`).

**`QualityGates`.** A finding is a member of one of the sets that say how much it weighs; how a
text is searched for it is left out. `evaluateGate` to `Evaluation` follow `qa_gate_evaluate`,
`assertGateIntegrity` is the check of `qa_gate_write`, `buildDecision` the policy.

**`MeetingIntelligence`.** A segment is its quality, a claim the text it says, its status and its
evidence. `normalizeMeetingAnalysisResponse` is what becomes of a model's answer,
`buildMeetingOrchestrationPlan` to `reconcilePiMeetingOrchestrationResult` the delegated review,
`buildMeetingQaFindings` what the gate hears of the minutes.

**`MeetingMemory`.** `stage[e]` is where run e stands, from `understandMeeting` to
`runMeetingMemoryCuration`; then `createLock`, `statLock` and `stealLock`, one step for each
call on `.write.lock`, and `readLedger` to `unlock`, one for each read or rename under it.
`Age` is the minute after which a lock counts as left behind: of its own when the owner is
gone, and as a suspension when it is at work. `lost` and `torn` are history: a run lost its
lock at work; the ledger was replaced and `MEMORY.md` was not. `Words` gives the words of a text, which is all that `Grounded` looks at;
a claim is cited by its text, which stands for its id.

**`Transcription`.** A text is, per chunk, the audio it was recognised from, `Missing` or
`Failed`. Artifacts have three parts that are written one after another, the
summary last, and copied to and from the cache the same way. The cloud
client is a process of its own (`planDashScopeInput` to `buildOutputs`), the local service
another with one worker (`takeJob` to `do_POST`); a caller that gives up stops neither.
`audios[r]` is what an execution found of the run's audios (`Finds`), any part of them;
`normalized[r][i]` and `chunks[r][i]` are the files of position i, whatever audio they are
of. `shifted` are the runs that went on with only some of their audios, and those that took
over what such a run has put in the cache. Two more history variables say what can mix two recognitions: `writers` who filled an entry of the
cache, `disturbed` whose job or client went on unheard or was started over complete artifacts.

**`RuntimeStore`.** `file[p]` is the inode a path leads to: its own, or an object's after
`os.link`; `bytes` is what the inode holds. `db` are the committed rows, `draft` the rows
as the one writer sees them. A command is a record in `cmd` with the list of paths still to
do. `Arrive`, `Find` and `Reuse` are the handler's side (`find-source` and the link it makes).

**`RuntimeSupervisor`.** `life` is what each process id is doing, `sup` a supervisor's memory
(stage, children, counters), `ctl` the command that runs. `Boot` to `Exit` are the loop,
`Look` to `Finish` the command: read the PID file, signal, wait, find orphans by their
command line, terminate. Any service may hang. It keeps its port: a successor dies of it, and
`asr_status` may call a hanging speech service ok (busy).

How they compose. `EventIngress` hands a message to the handler; a run of it there is a run
of `TaskHandler`, whose `Enqueue` is a call of `DocumentWorkerQueue`, whose `Publish` is
`Publishing` and whose `RunPipeline` is `TaskExecution`. That one's speech stage is
`Transcription`, its `document_workers_run` is `DocumentWorkflow` under the lock of
`DocumentRunLock` in the order of `DependencyWaves`, and its ledger is `ExecutionLedger`
(used directly, by EXTENDS). `IndexRun` of the handler is `index-run` of `RuntimeStore`, and
its `CleanUp` that store's retention. `RuntimeSupervisor` is who crashes and starts handler,
gateway and speech service. Each module abstracts the next one to its outcomes, failures
included: a worker's job is answered, late or never; publishing gives a verdict; the tools
of a pipeline succeed or fail. Inside a composition the larger state spaces would be
products of independent interleavings; what components share (the state file, the ledger,
the run directory, the cache, the registries) is modelled in one module each, with every
process that writes it.

## 3. The runs

| Run | Instance | Properties |
|---|---|---|
| `RunLock` | 2 executions, 2 workers, 1 unit, 2 inputs, both strategies, all faults, 2 crashes | `OwnerIsInLockFile`, `AbandonedLockIsReclaimed` |
| `Workflow` | 2 documents and a third after both on 2 workers with 1 retry for all; 1 document of 2 batches with a damaged file; 1 with a second model; 2 executions each | `OnlyVerifiedContent`, `CheckpointConsistent`, `UpstreamFirst`, `CompletedUnitsSurvive`, `ExecutionEnds` |
| `Queue` | 2 hosts, 2 slots, 2 calls in one directory or in two, queue limit 1, 1 fault | `FreshOutput`, `OneGeneratorPerDir`, `AnswerIsOwn`, `Delivers`, `CallsReturn` |
| `Ingress` | 2 messages, one delivered twice, memory of 1, both inbound and both answer modes, 2 faults, unheard replies among them; 674 422 states | `OneVoice`, `NoReplayOfMarked`, `DeliveredIsHandled` |
| `task_handler` | an earlier run and 2 messages of one conversation in 9 situations, cache of 1 entry, 2 attempts; 165 100 states | `HoldsItsFile`, `StateIsComplete`, `AnswersStay`, `RunsEnd` |
| `publishing` | 2 runs of one project and the command, 6 scenes (wiki, Drive, automatic, overwriting, forbidden, dry run), 2 faults; 131 386 states | `PublishedIsPlaced`, `CopiesAreRecorded`, `ReusedWhenAlone`, `PublishesOnlyWhole`, `PublishEnds` |
| `task_execution` | 2 executions, each profile, a published and a revised one among them, 2 kinds of findings, 3 of flaws, 1 trouble, 1 crash or 1 choice of the user, in turn or overlapping | `OutputIsGated`, `LedgerAgrees`, `PackOfOneSource`, `PipelineEnds` |
| `meeting_memory` | 2 runs with one of 2 meetings each, 2 answers of the model or none, 4 outcomes of the review, 2 minutes, 5 payloads (the same key twice, doubtful evidence, a person, no confidence, a text half of whose words are in the claim and one a third of whose are), a ledger left or none, a lock left or none, 1 accident, 1 suspension; 1 333 126 states | `EntriesAreGrounded`, `LedgerIsOneMemory` |
| `transcription` | up to 3 runs with up to 2 audios, 2 chunks, cloud file, stream, local, fallback, 1 or 2 failures or audios that are gone, a death; 163 525 states | `OwnAudio`, `OneRecognition`, `TranscriptionEnds` |
| `lost_chunks` | 1 run, local service, 2 executions, 1 failed chunk | `NothingPartial` (violated: see 5) |
| `runtime_store` | 3 runs with the same attachment, one a fixture, and a cached text; 5 scenes of up to 3 commands, 2 index runs, 1 death, 1 stuck deletion | `PinnedSurvives`, `ReusedIsGenuine`, `AttachmentsAreKept`, `QuotaIsNotOverdone` |
| `runtime_supervisor` | 2 ids for each kind of process, up to 3 commands and 2 troubles (any process dies, any service hangs); 134 946 states | `OneGateway`, `StoppedMeansStopped`, `ServicesComeBack` |

Why the bounds are enough to be interesting:

* Two executions, hosts, slots, runs or messages are what every race in question needs.
  Where a third party matters it is there: the upstream document of `Workflow`, the
  reorganising command beside two runs, the earlier run of `task_handler`, the third run
  that copies from the cache what two filled, the operator beside two index runs.
* Limits are set so that they are met: queue limit 1 with two hosts (both pass the
  check), memory of one message with two, a cache of one entry, one retry for three
  documents, a quota of one file.
* One or two faults at every place where they can happen. Where a theorem stands beside
  the run it removes this bound and all the others.
* Every scene of an `MC` module names its case. The scenes of one module share a run because
  they ask the same question; each has what some action needs to be taken.
* Deadlock is not checked where a system stops by design: no calls, messages or commands
  left to issue. `RunLock` checks it.

### Fairness

* `DocumentRunLock`: weak fairness of each execution's own steps, of workers that
  finish, and of the ageing of a lock. `AbandonedLockIsReclaimed` is conditional on
  executions that keep running into the lock: nothing in the code looks at it otherwise.
* `DocumentWorkflow`: weak fairness of every document's steps and of the wave loop. A
  model call has a timeout (`modelAttemptTimeoutMs`), so it returns.
* `DependencyWaves`: the loop is synchronous code.
* `DocumentWorkerQueue`: weak fairness of each host call (every wait has a timer), each
  slot (it loops for ever and each stage is bounded) and of the error exit of a dead poll
  connection.
* `EventIngress`: weak fairness of each delivery's and each run's steps: tasks of a live
  event loop, a timer on every wait. No fairness of deliveries or faults.
* `TaskHandler`: weak fairness of each run (Node resumes it when its call returns, and every
  call has a limit) and of a worker that has work. `Publishing`: of each run and of an
  invocation of the command: every lark-cli call has a timeout.
* `TaskExecution`: weak fairness of a running execution; its tool calls have limits.
* `Transcription`: weak fairness of the runners only. That provider, client or service ever
  answer is not assumed: `TranscriptionEnds` is about the timeouts.
* `RuntimeSupervisor`: weak fairness of each tick, of the command that was given, of services
  that come up, of a stuck gateway that logs (in sdk mode; in cli mode it is silent); none of crashes, hangs and recoveries.
* `RuntimeStore` and `MeetingMemory` state no liveness.

## 4. The proofs

For every value of the constants (any number of executions, workers, documents, jobs,
slots, messages, faults), TLAPS checks:

| Theorem | Says |
|---|---|
| `RunLockTypeOK`, `RunLockOwnership` | types, and `OwnerIsInLockFile` of run `RunLock` |
| `RunLockStolenOnlyAfterStale`, `CheckpointInputBinding` | a lock in use is moved only after some lock outlived the limit; the checkpoint holds nothing generated for another input |
| `RunLockMutualExclusion` | as long as no lock gets older than the limit, two lock holders never write at once |
| `WavesTypeOK`, `CycleReportedExactly`, `WavesRespectDependencies`, `WavesAreEarliest` | `CycleIsExact` and `WavesOrdered` of `DependencyWaves`, for any set of items and any graph, and that no document waits longer than its dependencies make it |
| `WorkflowInvariant`, `WorkflowUpstreamFirst`, `WorkflowOnlyVerified`, `WorkflowCheckpointConsistent`, `WorkflowCompletedUnitsSurvive` | every safety property of run `Workflow`, for any request, limits, crashes and damage |
| `QueueTypeOK`, `QueueBound`, `OneGenerator`, `OutputIsFresh`, `AnswersOwn` | the invariants of run `Queue`; the queue stays below its limit plus the number of hosts |
| `QueueDelivers` | `DocumentWorkerQueue` implements `DocumentDelivery` |
| `IngressTypeOK`, `MarkedIsAccepted`, `OneVoiceOnly`, `MarkedIsNotReplayed` | the safety properties of run `Ingress`, and that a marked message was accepted |
| `TaskHandlerStateIsComplete`, `TaskHandlerAnswersStay`, `TaskHandlerHoldsItsFile` | the safety properties of run `task_handler`, for any runs, messages, attachments, options, attempts, sizes of the cache, failed calls, crashes, clean-ups and ageing |
| `TypeCorrect`, `PublishedPlaced`, `CopiesRecorded`, `ReusedAlone` of `Publishing_proofs` | invariants of run `publishing`, for any runs, projects, documents, faults and invocations of the command |
| `PublishesWhole` | `Publishing` implements `GatedPublishing` |
| `Invariant`, `TypeCorrect`, `PinsHold`, `ReuseIsGenuine`, `AttachmentsKept`, `QuotaKept` of `RuntimeStore_proofs` | every invariant of run `runtime_store`, for any files, contents, lifetimes, quotas, commands, deaths and failed deletions |
| `Invariant`, `TypeCorrect`, `OneConsumer`, `StopsAll` of `RuntimeSupervisor_proofs` | the invariants of run `runtime_supervisor`, for any process ids, commands, crashes and hangs |
| `Invariant`, `TypeCorrect`, `TextsAreOwn`, `OneRecognised` of `Transcription_proofs` | the invariants of run `transcription`, for any runs, audios, chunks, providers, executions, failures, timeouts and deaths |
| `MemoryInvariant`, `MemoryTypes`, `EntriesGrounded`, `LedgerIsOne` of `TaskRunner_proofs` | the invariants of run `meeting_memory`, for any runs, meetings, answers, reviews, minutes, payloads, earlier ledgers, deaths, failures and suspensions, and any number of entries shown |
| `TaskWellFormed`, `PackIsOfOneSource`, `OutputPassedItsGate`, `LedgerSaysTheSame` of `TaskRunner_proofs` | the invariants of run `task_execution`, for any executions, scenarios, texts, findings, flaws, troubles, crashes and choices of the user |

The only assumptions are the ones on constants in the modules (`RunsAssumption`,
`WorkflowAssumption`, `QueueAssumption`, `IngressAssumption`, `TaskHandlerAssumption`, `PublishingAssumption`,
`RuntimeStoreAssumption`, `PidsAssumption`, `ScenariosAssumption`, `TranscriptionAssumption`,
`MemoryAssumption`, `ExecutionAssumption`): sets that must not overlap, process ids that say by their kind what runs
under them, numbers that are natural, finite sets of hosts and of paths, well-formed requests
and payloads, an earlier ledger in which each key is once. One of them says something of the world:
`Plausible` of `RuntimeStore` lets arrive under a file key what the key stands for or a
download without a valid header, unless the run is a fixture, and keeps the bytes of cached
texts apart from those of attachments. TLC evaluates them in every run.

The inductive invariants and why they are needed:

* **`RunLockInv`.** `OwnerIsInLockFile` alone is not preserved. `HeldStages` says in which
  stages a lock is held (an execution about to delete the file still holds it), `StaleSeen`
  that whoever is about to rename a lock has met a stale one, and `ProgressMatchesInput`
  that what an execution holds in memory was generated for its own input.
* **`WavesInv`.** The resolved types are the types of the placed items; `HeldBack` records
  what still holds back each unresolved item, so that its wave is the earliest one;
  `StuckItemsStay` (items that wait for each other stay unresolved until a cycle is
  reported) and `CycleHasItems` give the two directions of `CycleIsExact`.
* **`IInv` of `DocumentWorkflow`.** `TextOK` says of every text in memory, and of every
  stored unit and assembly, that it is made of sections: "unverified" text could only come
  from reading a file whose hash differs, and `ReuseUnit` does not. `Stage` says that only
  what has returned has a result, and that a result "completed" stands over a text without
  gaps; `Recorded` is the checkpoint's side of it, one conjunct per document, so that a step
  of one document leaves the others' alone (`OthersStay`, `OthersStayRecorded`).
  `AskedForMissing` (a model is only asked for a unit that cannot be reused) is what makes
  `CompletedUnitsSurvive` hold: a failure, an answer or a crash replaces the record of the
  unit that was asked for (`DocumentStepUnits`) and that one was not reusable.
* **`DepthInv`.** Queue length plus the calls that passed the check and have not pushed yet
  is at most the limit less one plus the number of hosts. The bound itself says nothing
  about calls between the two commands.
* **`JobOnce`.** A job has one host, is in the queue once or with one slot, never both, and
  the directory of a generating slot is locked by its job.
* **`FreshInv`.** Results belong to issued calls, and once a result exists or is about to
  while its call is pending, the file was written since the call began.
* **`AnswerInv`** with `HostJobsDistinct` carries the refinement: a step of a host answers
  its own call only, so every step maps to one step of `DocumentDelivery` or to a stutter.
  Crashes of the handler map to `CallersDie`, a truncated file to `Supersede`.
* **`IInv` of `EventIngress`**: `StageInv` (what was not posted has no run), `SuccessInv` (a
  success is the answer of a started run), `VoiceInv` (when each side may have spoken) and
  `RecentInv` (memory, file and history agree on the last ids unless a write was torn).
  `RecentInv` survives `Mark` by `RecentAppend`: what is kept after an addition depends only
  on what was kept before it.

* **`StateInv` of `TaskHandler`**: the state file has two writers, so the invariant says who
  writes when. `HandedOver`: a worker has work only while its handler waits. `Told`: otherwise
  memory and file agree; while it waits, the file is the memory plus what the worker wrote, and
  a worker between its two calls holds what the file says. `Behind` names the steps each stage
  has behind it. All of it is about runs whose worker was not given up (`late` only grows).
* **`LedgerInv`**: the index holds runs that are over, so a choice is only made in a ledger
  nobody writes any more; ledgers under way, and the copy a worker is about to write back, are
  unanswered, so writing them takes no answer away.
* **`FileInv`**: `HoldsItsFile` is about what a run took over; the invariant is about every
  directory. `FileTypes` says that attachments, results and entries of the cache name something
  the messages brought, with a path made of a run and that thing's name. `InItsPlace`: under the name of a file that cannot
  be mistaken there is that file, a remnant, or nothing, in every run. `Firmly`: audio a
  run obtained is not a remnant and stays while the run goes on, so it is not downloaded again
  over the file that is in use.

* **`OwnInv` of `DocumentWorkerQueue`** (`AnswersOwn`): nothing is told of a job that is not
  issued, queued or in work (`ToldLate`), the file is one of a job of its directory
  (`WrittenByUser`), as long as it says "completed" so does all that was or will be reported
  of that job (`ReportedAsWritten`), and an answer in a call's own name says "completed" only
  if that is what the call heard (`AnswersAsHeard`).
* **`IInv` of `Publishing`**: a token in a registry, or in the copy of it that a process read at
  its start, is a node of the key it is noted for (`Genuine`; the stale copies are why it is
  stated for all of them); a document in hand is the one just created (`InHandOK`); every
  entry of a result is true of the document it names (`EntryOK`). `StageOK` ties the length
  of the result to the stage, and that no folder is missing to the stages that write.
  `PublishesWhole` maps each step to a step of `GatedPublishing` or a stutter by what became
  of the verdict, of what can be read of the run and of what it has noted; of an overwriting
  run it shows that "published" leaves just the last document in the file. `CopiesRecorded` counts: copies and entries of one
  document grow in the same step, or the entry was there.
* **`AloneInv` of `Publishing`** (`ReusedAlone`, on top of `IInv`): as long as no two processes
  have overlapped and no call has failed, one process at most is at work (`OnlyOne`), what it
  remembers of the registries is what the files say (`Remembered`; a run is held to it only in
  the stages that still use its memory), and the registries know the one space, every folder,
  every node and every copy (`SpaceKnown`, `FoldersKnown`, `NodesKnown`, `CopiesKnown`). The
  exceptions are what the code makes of them: a run notes no space with its nodes, so only the
  command's are recognised by their space and the command makes its own; a copy is known
  before it is noted as the document in hand of the move that follows (`CopyInHand`).
* **`IInv` of `RuntimeStore`**: `DiskOK` says where the bytes of a path may be (its own, an
  object's, another attachment's) and that they are what was given, up to cached texts, whose
  rewriting in place changes every file linked with them; `RowsOK` that a row, committed or
  not, tells what is true of its file, with `deleted` and `quarantined` only where the file
  is gone and cannot come back (`Grows`); `CmdOK` that what a command is about to do fits the
  files; `PinsOK` that no transaction of others changes a pin while a cleanup has
  chosen what to delete; `ReuseOK` that what `find-source` named stays genuine until the run
  takes it, though its file may have been linked or deleted by then; `QuotaOK` that what the
  rows count, and what was reclaimed, add up to the quota and its overage.

* **`IInv` of `RuntimeSupervisor`**: `OneSupervisor` names the one supervisor that may run at
  each point of a command (the one in the PID file, the one just started, none after a
  takeover), since "at most one" alone does not survive a start. `GatewaysOK` makes a running
  gateway the child of the running supervisor, or the only one left by a dead one.
  `StopOK` follows a stop through waiting, terminating and answering, each stage resting on
  what the one before it saw end. A start that launches or restarts services is described once
  (`StartEffect`, `TickEffect`) and cited by every place of the tick.
* **`IInv` of `Transcription`**: `TextsAreOwn` needs that every place a text is kept in
  holds texts of the audio the place stands for, or, in a run of `shifted`, of an audio of such
  a run (`OwnArtifacts`, `ChunksOK`, `JobIs`, all by `Own`), with
  the cache's places named by their key and lost when a writer's run has shifted (`LostEntry`).
  What lets the induction through is that runs only join `shifted` (`Shifts`): before a
  run does, all its lists are the whole list, so position and audio agree; when it does, its own
  audios are among `LostAudios`. `ReadyOK` says that nobody is told of a normalised file before
  it is written, so that what is read at a position is of some audio. `OneRecognised` needs to know who writes when:
  `OneAtWork` (whoever works for a run, its runner waits for it), `NotVouched` (the summary is
  not "complete" as long as somebody is making what it vouches for), `WrittenByClient`,
  `WrittenByJob` and `CopyingIn` (the parts written so far are of the recognition in hand),
  `EntryOK` (an entry of the cache with one writer is that run's artifacts as far as it has
  come, and those artifacts rest), and `BegunOK` (a source the service is through with has its
  first chunk, so something was tried). Each holds only while nothing was mixed, and
  `MixedLater` says that what is mixed stays so. A step of one run leaves the others alone
  (`StepOfOne`); the service's end, which may tell several runners, is a step of a set (`StepOf`).

* **`IInv` of `MeetingMemory`**. `EntriesGrounded` rests on `AllSettled`: not only what is in the
  files but whatever any run holds of them in memory, before or after the lock, is from a
  meeting that is over (`Settled`), so that no later step can take the ground from under it
  (`Past`). What gives it that ground when it is proposed is `Understood` (the analysis by which
  proposals are judged is of the run's own segments and participants) and `AcceptedIsSaid`,
  which takes from `contentGroundedInClaims` the half of the words that the claims have and goes from the claim's quality to each segment (`ReadyIsClear`). `LedgerIsOne` rests on
  `RunOK`: who is inside has the lock (`HoldsLock`), its list is the ledger and what it adds
  (`KnowsLedger`, which is why replacing the ledger loses nothing), and what it has added stays
  (`KeepsFresh`); and on `Shows`, where a run between ledger and `MEMORY.md` (`HalfDone`) is what
  may keep the two apart. That a removal of the lock leaves nobody else inside, or is counted
  as a loss, is `RemovesAlone`.

* **`WellFormed` and three invariants over it of `TaskExecution`**. `WellFormed` says at which
  stage an execution holds what; each of the others names the fields it reads, so that a stage
  that does not write them is one lemma.
  `PackInv`: the parts an execution has in hand are of the text it was given, or not there yet
  (`PartsFit`, by stage); that is why a part of an earlier pack may only be taken over when the
  texts are the same. `GateInv`: the gate in hand is an evaluation of what was found
  (`GateFits`; it starts from the inputs and not from the verdict), the gate on disk is its
  writer's until somebody else writes (`SavedGate`), executions that do not overlap follow
  each other (`InOrder`), and a completed output is of an execution that could publish
  (`OutputFits`). That a passing evaluation has nothing against the documents is a lemma about
  `evaluateGate`, not a conjunct. `LedgerInv`: an undisturbed execution's ledger is closed
  (`Closed`: what waits, waits for something not done) and its status is that of its steps
  (`StatusFits`). For a source the stages are ordered, and each step of the plan is done behind
  the stage that does it (`SourceLedger`); for documents what was recorded is what is done
  (`Recorded`), and `verify` is not done before, because every document asked for is its
  dependency (`DocumentLedger`).

Proving showed what TLC had not:

* `QuotaIsNotOverdone` of the store holds only as long as no index was committed since the
  quotas were checked, and rows found without a file must be left out.
* `OneRecognition` was first stated with two causes of a mixture. The step that starts a client
  (`policy_gate_check`) could not be proved, and the unprovable case is reachable: a client is
  killed with its artifacts written and its result not, the runner reads an older result file
  that asks for a normalised file, and starts another client over complete artifacts. Killed
  in turn, that one leaves a new transcript beside an old evidence and an old summary that says
  complete. No scene of the run had the three failures in a row that this takes. It is
  now the third cause, and a scene of the run goes through all of it.

* `HoldsItsFile` of the handler could not be proved as it stood: the search for a file that
  could not be downloaded compares keys, but also names and messages
  (`attachmentSourceMatches`), so an upload may be satisfied with another file of the same
  name. A scene (`Misnamed`) now does that, and the property excepts files that cannot be told
  apart by what the search looks at (`ToldApart`).

All are in section 5.

Induction over data cannot be used (the library's theorems take an operator as a parameter).
Where a fact about every prefix of a list was needed (`FlattenInSeq` of
`Publishing_proofs`) it is proved by its least counterexample.

Model-checked only: all liveness properties (liveness under fairness is out of the prover's
reach) and the type invariants of `DocumentWorkflow` beyond what `IInv` contains. The
progress of the services (`ServicesComeBack`) and of the runners (`TranscriptionEnds`) is
among the liveness properties.

## 5. What the models showed

`lost_chunks`: a chunk that failed and succeeds in the next execution drops the chunks
behind it from the chunk file. `transcribe_file` (`tools/local_asr_core.py:205`) writes the
file after every chunk it recognises with the chunks up to that one, and not after a chunk
it takes over; the transcript then lacks the chunks, `failedChunks` is empty and the summary
says complete, against `wiki/18-typescript-contract-and-package-reliability.md:78`.

Behaviours that are in the models, are worth a maintainer's look, and that the properties are
stated around:

* Run lock. Two contenders that saw the same stale lock each rename whatever lock is
  there, so the second can remove the first one's new lock (`document-worker-runtime.ts:627`).
  When one worker throws, `finally` releases the lock while the others still write (`:2202`).
  The checkpoint is read before the lock is taken and written back after (`:2477`).
* Workflow. An unfinished assembly is resumed and a full document is appended to it
  (`:1590`), which is also how the unbatched path is reached when batching is on. A repair
  done by an earlier execution is generated again (`:1936`). A server error of the last or
  only model is never retried: the branch for it in `canRetryGeneration` cannot be reached
  there, while a refusal after a server error counts as retryable. A stream that ends early
  or at the limit of tokens counts as complete text.
* Queue. After the host gave up, the job runs on and its lock turns a rerun away
  (`local_docker_runtime_queue.mjs:440`). `AnswerIsOwn` is therefore stated for calls that are the only
  ones in their directory.
* Intake. Two concurrent deliveries of a message are both worked on, since the runner marks
  it after the answer (`feishu_event_runner.mjs:360`). In async mode a run that dies after the
  202 is not repeated (`feishu_agent_task_handler.mjs:3630`). The gateway's set is cleared at its
  limit together with the id just added (`feishu_bot_event_gateway.mjs:492`).
  A reply whose lark-cli call fails or times out after it was delivered counts as failed
  (`feishu_agent_task_handler.mjs:2753`), so a handler that answers after its run does not ask the
  gateway to keep quiet (`:3531`), and the user hears twice. `OneVoice` excepts it, and a
  gateway that never got the handler's answer.
* Handler. The registry of folders is read before an await and written after it, so of two
  runs one's entry is lost (`feishu_agent_task_handler.mjs:2554`). A run that modifies the file its
  request names writes each of its documents over that file (`:2641`): only the last remains,
  and `publish.json` says published of all. `PublishesOnlyWhole` says so. A worker that was given up may
  still rewrite output, state file and ledger; `StateIsComplete` and `AnswersStay` except
  such runs. An attachment whose download failed, or was not tried, is looked for among earlier runs by key, by
  message and by name (`attachmentSourceMatches`, `:1345`): a file of another message with the
  same name, or another file of the same message, is taken for it.
* Task runner. A review of comments that is "ready" need not have read them all: the SDK's
  way takes one page of 100 (`feishu_document_review_context_helpers.mjs:413`), and a list of
  replies that fails counts as empty (`:361`). `OutputIsGated` says "ready", not "read".
* Memory. What is remembered need not be what any claim says: half of its words in the claims
  it cites are enough (`meeting_memory_helpers.mjs:122`), so "never buy" passes on the claim "buy"
  (a scene of the run); and what is remembered of a person need only contain the alias and
  the name. `EntriesAreGrounded` promises no more than that. A lock is looked at and removed in two calls (`meeting_memory_helpers.mjs:445`), so a
  second run that saw the same stale lock removes the fresh one of the first, and both write:
  an entry of the ledger can be lost, a key can be there twice. So can a run that was
  suspended for a minute (`LedgerIsOneMemory` excludes both by `lost`). A death between ledger and
  `MEMORY.md` leaves the entry out of what is read until the next curation that gets that far.
* Store. `dedupe` links a cached text that was written again back to the old object, and
  indexing a file that equals an object takes over the object's older time. Cleanup never
  removes objects. Its quota counts a row whose file is missing, but deleting that row does
  not count as reclaimed (`runtime_store_cli.py:2090`), so such rows make it delete others
  than it had to; and the overage is computed before the first row takes the write lock
  (`:2079`), so an index committed in between is not in it. `pin` of an unknown run answers "pinned". `wiki/14` says that unfinished
  content is not deleted, and the code looks at pins only. On a file system without hard
  links the store makes symbolic links, which cleanup would follow; that is read from
  the code and not modelled.
* Speech. `runDashScopeAsrClient` reads the result file whatever the client it ran did
  (`task_execution_runner.mjs:1312`), and nothing removes the file of an earlier attempt or
  execution: a client that was killed is judged by the result of the one before it. Two runs
  with the same audio that both miss the cache fill one entry, part by part, and a local job
  whose runner gave up writes beside that of the next execution. `OneRecognition` excludes the
  runs touched by one of these. Each execution lists the audios that exist by then
  (`:1021`), and normalised files, chunk files and texts go by position. With the first of two
  audios gone in the second execution, the second takes its place; chunks there are taken
  over by name and index, and the hash of the audio they were recognised from is not compared
  (`local_asr_core.py:143`). The transcript then has the lost audio's text for the other, and the
  cache hands it to every run that has the other alone. `OwnAudio` says what is left: a run
  that found all its audios, and took nothing from one that did not, has its own texts.
* Supervisor. A handler that is busy for longer than the health limit is restarted
  (`local_runtime_supervisor.py:555`), and misses counted for a crashed handler carry over to its
  successor. `ctl` never reaps the supervisor it started, so from that process it always looks
  alive. In cli mode the gateway runs with `--quiet` and its websocket timeouts are never
  logged; one that is stuck there is never restarted. A speech service that hangs while its port
  takes connections counts as ok (busy, `local_asr_service_ctl.py:83`) and is never recovered; if
  it counts as down, its replacement dies of the port being taken. `ServicesComeBack` excepts
  both (`BeyondCure`). While the speech service loads its model, each tick starts another one, and the PID
  file may name one that is gone. A stop that gave up waiting and then meets a supervisor
  that crashed can answer "stopped" over running services; `StoppedMeansStopped` excludes it.
  `asr_recover` returns nothing in one branch and has dead code behind it.

## 6. What is not modelled, and why

In the modelled parts:

* Workflow: `resumeFromCheckpoint=false`, manifests, reports and the projection of progress.
  The trace files of model calls and how candidates are ranked.
* Queue: the TTL of result keys (`local_docker_document_worker.mjs:133`: a worker that dies between
  the two commands leaves a key without one), the bounded copy of the task. The step records
  both sides add to `state.json` are in `TaskHandler`.
* Intake: fixture, stdin and dry-run modes, normalisation of events, the visible
  acknowledgement, the gateway's echo and diagnostic modes.
* Handler: progress replies, the kinds of files a text expects, deduplication of attachments,
  the index's limit of 300, the exit code of Pi against its status, classification (an input),
  the building of file contexts. A redelivered message is another run.
* Publishing: a document with a target file of its own (`targetFileToken` of the output; the
  file modelled is the one the request names). The move and rename of folders of the registry's first version, dry run and
  reports of the command, torn registry files, planned artifact uploads, manual review and
  overrides, a branch for a recreated move target that cannot be reached. Effect and answer of a
  call are one step, except that the answer may be lost.
* Task runner: the document lifecycle record, the limit of 500 events, progress messages, a
  missing URL, chapters that are too long, titles and paths.
* Gates: how each finding is made from a text, intents of the policy that the runner does not
  ask about (web, installing, media), messages and suggestions.
* Meetings: prompts, the timeline, names of participants beyond "the user said so", product
  discovery, more than one window of a meeting without a model; the stages between analysis
  and gate that `TaskExecution` has. A curation whose payload is out of shape and one that was
  never answered end alike.
* Speech: content of segments and speakers, the review by a second model (it never changes the
  text), half-written files, the service's own start (that is in `RuntimeSupervisor`). An audio that is
  gone is gone when the list is read; one that goes missing after it is a failed step. With the
  local service as the provider the list is read twice in a row, and the model reads it once.
* Store: tables that only name artifacts for a reader, dry runs and reports, symbolic links and
  copies. Every file has size 1, so the quota counts files. A command that waits 5 s for the
  write lock fails; the model's command dies at that point or waits.
* Supervisor: environment file and secrets, event and report files, launchd labels, `status` and
  `doctor` (which ignores how old the status is), commands at the same time (two starts at once can
  both find no supervisor, `local_runtime_ctl.py:164`; a restart whose stop gives up starts
  another one, `:247`). The polling interval is longer than a handler's start, and a process id
  is reused only when no file names it.

Components without a model:

* Source context, public URL sources, capability registry, agent teams, task routing and the
  other channels: text in, data out, without state that two steps share. Their verdicts and outcomes are inputs of the
  modules above; whether they are right is a matter of wording that a state model cannot say
  anything about.
* The workbench (`../AgentWorkbench`) only reads run directories; `../src` and
  `tools/local_ci_check.py` validate the repository.

## 7. What comes next

Every safety property and both refinements that the passing runs check are theorems; what TLC
alone checks is liveness. Worth adding, should the code there change:

1. The checkpoint read before the lock is taken (`document-worker-runtime.ts:2477`): once it is
   read under the lock, "a completed unit is never generated again" can be stated and proved
   next to `WorkflowCompletedUnitsSurvive`.
2. Cached texts under `dedupe` (`runtime_store_cli.py:2023`): once links are made by a digest taken
   at linking, `AttachmentsKept` can be extended to them.
