------------------------ MODULE DocumentWorkerQueue ------------------------
(***************************************************************************)
(* The Docker document worker seen from both ends of its Redis queue.      *)
(*                                                                         *)
(* A host call (tools/local_docker_runtime_queue.mjs, run inside the       *)
(* handler) writes a job, checks the queue depth, pushes the job and       *)
(* blocks on the job's result key; it then reads agent-output.json and     *)
(* that file, not the result, is its answer.  A worker slot                *)
(* (tools/local_docker_document_worker.mjs; all slots share one process)   *)
(* pops a job, generates under the run lock of the job's directory, writes *)
(* agent-output.json and pushes the result.  Redis keeps nothing on disk   *)
(* (docker-compose.local-runtime.yml), so a restart empties every list.    *)
(* A file write is two steps: the file is truncated, then filled.          *)
(***************************************************************************)
EXTENDS Naturals, Sequences, FiniteSets

CONSTANTS
    Hosts,             \* concurrent handler invocations
    Slots,             \* worker loops in the worker process
    Jobs,              \* job ids (fresh UUIDs, each used once)
    Dirs,              \* run directories
    PipelineStatuses,  \* how the task pipeline may end: "completed", "needs_fix", "blocked"
    Reruns,            \* may a run directory be used by a later call (--run-id)?
    MaxDepth,          \* queueMaxDepth
    MaxFaults,         \* bound: failed commands, crashes, Redis restarts
    NoJob,             \* no job
    NoDir              \* directory of a job id that is not in use yet

ASSUME QueueAssumption ==
    /\ NoJob \notin Jobs
    /\ NoDir \notin Dirs
    /\ PipelineStatuses \subseteq {"completed", "needs_fix", "blocked"}
    /\ Reruns \in BOOLEAN
    /\ MaxDepth \in Nat \ {0}
    /\ MaxFaults \in Nat
    /\ IsFiniteSet(Hosts)

VARIABLES
    queue,     \* the job list in Redis
    results,   \* the result list of each job in Redis
    hostPc,    \* where each host call stands
    hostJob,   \* the job of each host call
    dirOf,     \* run directory of each issued job
    answer,    \* what the call of each job returned to the handler
    output,    \* agent-output.json of each run directory: writer and status
    lock,      \* run.lock of each run directory: the job whose execution made it
    slotPc,    \* where each worker slot stands
    slotJob,   \* the job each slot works on
    slotStatus,\* status the slot is about to write and report
    faults,    \* faults so far
    old,       \* history: agent-output.json was last written before the current call
    heard      \* history: the result each call received

redisVars == <<queue, results>>
hostVars == <<hostPc, hostJob, dirOf, answer, heard>>
fileVars == <<output, old>>
slotVars == <<slotPc, slotJob, slotStatus>>
vars == <<redisVars, hostVars, fileVars, lock, slotVars, faults>>

HostStatuses == {"overloaded", "timeout", "unavailable"}
WorkerStatuses == PipelineStatuses \cup {"locked", "worker_failed"}
FileStatuses == {"missing", "torn"} \cup HostStatuses \cup WorkerStatuses
HostStages == {"idle", "check", "push", "wait", "severed", "got"}
SlotStages == {"idle", "severed", "taken", "generating", "generated", "writing",
               "reply", "expire"}
File == [job: Jobs \cup {NoJob}, status: FileStatuses]
NoFile == [job |-> NoJob, status |-> "missing"]

Issued(j) == j \in Jobs /\ dirOf[j] # NoDir
SlotDir(s) == dirOf[slotJob[s]]
HostDir(h) == dirOf[hostJob[h]]

RedisOK ==
    /\ queue \in Seq(Jobs)
    /\ results \in [Jobs -> Seq(WorkerStatuses)]

HostsOK ==
    /\ hostPc \in [Hosts -> HostStages]
    /\ hostJob \in [Hosts -> Jobs \cup {NoJob}]
    /\ dirOf \in [Jobs -> Dirs \cup {NoDir}]
    /\ answer \in [Jobs -> File]
    /\ heard \in [Jobs -> WorkerStatuses \cup {"none"}]

FilesOK ==
    /\ output \in [Dirs -> File]
    /\ old \in [Dirs -> BOOLEAN]
    /\ lock \in [Dirs -> Jobs \cup {NoJob}]

SlotsOK ==
    /\ slotPc \in [Slots -> SlotStages]
    /\ slotJob \in [Slots -> Jobs \cup {NoJob}]
    /\ slotStatus \in [Slots -> WorkerStatuses \cup {"none"}]
    /\ \A s \in Slots : slotPc[s] \in {"generated", "writing", "reply", "expire"}
                            => slotStatus[s] \in WorkerStatuses

\* Only issued jobs are queued, waited for or worked on.
IssuedOK ==
    /\ \A i \in 1..Len(queue) : Issued(queue[i])
    /\ \A h \in Hosts : hostPc[h] # "idle" => Issued(hostJob[h])
    /\ \A s \in Slots : slotPc[s] \notin {"idle", "severed"} => Issued(slotJob[s])

TypeOK == RedisOK /\ HostsOK /\ FilesOK /\ SlotsOK /\ IssuedOK /\ faults \in 0..MaxFaults

Init ==
    /\ queue = <<>>
    /\ results = [j \in Jobs |-> <<>>]
    /\ hostPc = [h \in Hosts |-> "idle"]
    /\ hostJob = [h \in Hosts |-> NoJob]
    /\ dirOf = [j \in Jobs |-> NoDir]
    /\ answer = [j \in Jobs |-> NoFile]
    /\ heard = [j \in Jobs |-> "none"]
    /\ output = [d \in Dirs |-> NoFile]
    /\ old = [d \in Dirs |-> TRUE]
    /\ lock = [d \in Dirs |-> NoJob]
    /\ slotPc = [s \in Slots |-> "idle"]
    /\ slotJob = [s \in Slots |-> NoJob]
    /\ slotStatus = [s \in Slots |-> "none"]
    /\ faults = 0

-----------------------------------------------------------------------------
(* The host call. *)

\* A task is dispatched: task.json and job.json are written under a fresh id.
\* One call at a time uses a run directory: a rerun follows the answer.  Fresh
\* ids are interchangeable, so it does not matter which of them is taken.
FreshJob == CHOOSE j \in Jobs : dirOf[j] = NoDir

Dispatch(h, j, d) ==
    /\ hostPc[h] = "idle"
    /\ dirOf[j] = NoDir /\ j = FreshJob
    /\ \A g \in Hosts : hostPc[g] # "idle" => HostDir(g) # d
    /\ Reruns \/ \A k \in Jobs : dirOf[k] # d
    /\ hostPc' = [hostPc EXCEPT ![h] = "check"]
    /\ hostJob' = [hostJob EXCEPT ![h] = j]
    /\ dirOf' = [dirOf EXCEPT ![j] = d]
    /\ old' = [old EXCEPT ![d] = TRUE]
    /\ UNCHANGED <<redisVars, answer, heard, output, lock, slotVars, faults>>

\* blockedAgentOutput: the host writes the blocked output itself and returns it.
Blocked(h, reason) ==
    LET file == [job |-> hostJob[h], status |-> reason]
    IN /\ output' = [output EXCEPT ![HostDir(h)] = file]
       /\ old' = [old EXCEPT ![HostDir(h)] = FALSE]
       /\ answer' = [answer EXCEPT ![hostJob[h]] = file]
       /\ hostPc' = [hostPc EXCEPT ![h] = "idle"]
       /\ UNCHANGED <<hostJob, dirOf, heard>>

CheckDepth(h) ==
    /\ hostPc[h] = "check"
    /\ Len(queue) < MaxDepth
    /\ hostPc' = [hostPc EXCEPT ![h] = "push"]
    /\ UNCHANGED <<redisVars, hostJob, dirOf, answer, heard, fileVars, lock, slotVars, faults>>

Overloaded(h) ==
    /\ hostPc[h] = "check"
    /\ Len(queue) >= MaxDepth
    /\ Blocked(h, "overloaded")
    /\ UNCHANGED <<redisVars, lock, slotVars, faults>>

Enqueue(h) ==
    /\ hostPc[h] = "push"
    /\ queue' = Append(queue, hostJob[h])
    /\ hostPc' = [hostPc EXCEPT ![h] = "wait"]
    /\ UNCHANGED <<results, hostJob, dirOf, answer, heard, fileVars, lock, slotVars, faults>>

Fault ==
    /\ faults < MaxFaults
    /\ faults' = faults + 1

\* LLEN or RPUSH fails or its reply is lost; a lost reply leaves the job queued.
HostCommandFails(h) ==
    /\ hostPc[h] \in {"check", "push"}
    /\ Fault
    /\ \/ queue' = queue
       \/ hostPc[h] = "push" /\ queue' = Append(queue, hostJob[h])
    /\ Blocked(h, "unavailable")
    /\ UNCHANGED <<results, lock, slotVars>>

\* Slip: one result key for all jobs.
ReceiveFromSharedKey(h) ==
    /\ hostPc[h] = "wait"
    /\ \E k \in Jobs :
        /\ results[k] # <<>>
        /\ heard' = [heard EXCEPT ![hostJob[h]] = Head(results[k])]
        /\ results' = [results EXCEPT ![k] = Tail(@)]
    /\ hostPc' = [hostPc EXCEPT ![h] = "got"]
    /\ UNCHANGED <<queue, hostJob, dirOf, answer, fileVars, lock, slotVars, faults>>

\* BLPOP of the result key returns as soon as the list has an element ...
Receive(h) ==
    LET j == hostJob[h]
    IN /\ hostPc[h] = "wait"
       /\ results[j] # <<>>
       /\ heard' = [heard EXCEPT ![j] = Head(results[j])]
       /\ results' = [results EXCEPT ![j] = Tail(@)]
       /\ hostPc' = [hostPc EXCEPT ![h] = "got"]
       /\ UNCHANGED <<queue, hostJob, dirOf, answer, fileVars, lock, slotVars, faults>>

\* Slip: the limit counts only time spent in the queue.
WaitTimeoutWhileQueued(h) ==
    /\ hostPc[h] = "wait"
    /\ results[hostJob[h]] = <<>>
    /\ \E i \in 1..Len(queue) : queue[i] = hostJob[h]
    /\ Blocked(h, "timeout")
    /\ UNCHANGED <<redisVars, lock, slotVars, faults>>

\* ... or empty-handed after the wait limit; the job is not withdrawn.
WaitTimeout(h) ==
    /\ hostPc[h] = "wait"
    /\ results[hostJob[h]] = <<>>
    /\ Blocked(h, "timeout")
    /\ UNCHANGED <<redisVars, lock, slotVars, faults>>

\* A connection cut by a Redis restart is noticed by the client-side timer.
SeveredWait(h) ==
    /\ hostPc[h] = "severed"
    /\ Blocked(h, "unavailable")
    /\ UNCHANGED <<redisVars, lock, slotVars, faults>>

\* Slip: the status is taken from the result, the documents from the file.
ReadOutputTrustingResult(h) ==
    /\ hostPc[h] = "got"
    /\ output[HostDir(h)].status \notin {"missing", "torn"}
    /\ answer' = [answer EXCEPT ![hostJob[h]] =
                    [output[HostDir(h)] EXCEPT !.status = heard[hostJob[h]]]]
    /\ hostPc' = [hostPc EXCEPT ![h] = "idle"]
    /\ UNCHANGED <<redisVars, hostJob, dirOf, heard, fileVars, lock, slotVars, faults>>

\* The answer is whatever agent-output.json holds now.
ReadOutput(h) ==
    /\ hostPc[h] = "got"
    /\ output[HostDir(h)].status \notin {"missing", "torn"}
    /\ answer' = [answer EXCEPT ![hostJob[h]] = output[HostDir(h)]]
    /\ hostPc' = [hostPc EXCEPT ![h] = "idle"]
    /\ UNCHANGED <<redisVars, hostJob, dirOf, heard, fileVars, lock, slotVars, faults>>

ReadUnusableOutput(h) ==
    /\ hostPc[h] = "got"
    /\ output[HostDir(h)].status \in {"missing", "torn"}
    /\ Blocked(h, "unavailable")
    /\ UNCHANGED <<redisVars, lock, slotVars, faults>>

\* The handler process dies with every call it has in flight.
HandlerCrash ==
    /\ Fault
    /\ hostPc' = [h \in Hosts |-> "idle"]
    /\ UNCHANGED <<redisVars, hostJob, dirOf, answer, heard, fileVars, lock, slotVars>>
-----------------------------------------------------------------------------
(* The worker process. *)

SlotGoes(s, stage) == slotPc' = [slotPc EXCEPT ![s] = stage]
SlotSets(s, st) == slotStatus' = [slotStatus EXCEPT ![s] = st]

\* BLPOP of the job list: the job is in no list from here on.
Pop(s) ==
    /\ slotPc[s] = "idle"
    /\ queue # <<>>
    /\ queue' = Tail(queue)
    /\ slotJob' = [slotJob EXCEPT ![s] = Head(queue)]
    /\ SlotGoes(s, "taken")
    /\ SlotSets(s, "none")
    /\ UNCHANGED <<results, hostVars, fileVars, lock, faults>>

Generating(j) == \E s \in Slots : slotPc[s] = "generating" /\ slotJob[s] = j

\* Slip: the slots trust the queue to keep jobs of one directory apart.
TakeRunLockUnchecked(s) ==
    /\ slotPc[s] = "taken"
    /\ lock' = [lock EXCEPT ![SlotDir(s)] = slotJob[s]]
    /\ SlotGoes(s, "generating")
    /\ UNCHANGED <<redisVars, hostVars, fileVars, slotJob, slotStatus, faults>>

\* The task pipeline takes run.lock, or moves aside one left by a dead process.
TakeRunLock(s) ==
    /\ slotPc[s] = "taken"
    /\ ~Generating(lock[SlotDir(s)])
    /\ lock' = [lock EXCEPT ![SlotDir(s)] = slotJob[s]]
    /\ SlotGoes(s, "generating")
    /\ UNCHANGED <<redisVars, hostVars, fileVars, slotJob, slotStatus, faults>>

\* A lock younger than the staleness limit ends the pipeline with "blocked".
RefusedByRunLock(s) ==
    /\ slotPc[s] = "taken"
    /\ lock[SlotDir(s)] # NoJob
    /\ SlotGoes(s, "generated")
    /\ SlotSets(s, "locked")
    /\ UNCHANGED <<redisVars, hostVars, fileVars, lock, slotJob, faults>>

\* Slip: the result is pushed before agent-output.json is written.
GenerateReplyingFirst(s, st) ==
    /\ slotPc[s] = "generating"
    /\ lock' = [lock EXCEPT ![SlotDir(s)] = IF @ = slotJob[s] THEN NoJob ELSE @]
    /\ SlotGoes(s, "reply")
    /\ SlotSets(s, st)
    /\ UNCHANGED <<redisVars, hostVars, fileVars, slotJob, faults>>

\* Generation ends, well or not, and releases the lock if it is still its own.
Generate(s, st) ==
    /\ slotPc[s] = "generating"
    /\ lock' = [lock EXCEPT ![SlotDir(s)] = IF @ = slotJob[s] THEN NoJob ELSE @]
    /\ SlotGoes(s, "generated")
    /\ SlotSets(s, st)
    /\ UNCHANGED <<redisVars, hostVars, fileVars, slotJob, faults>>

\* agent-output.json is written in place.
BeginWrite(s) ==
    /\ slotPc[s] = "generated"
    /\ output' = [output EXCEPT ![SlotDir(s)] = [job |-> slotJob[s], status |-> "torn"]]
    /\ old' = [old EXCEPT ![SlotDir(s)] = FALSE]
    /\ SlotGoes(s, "writing")
    /\ UNCHANGED <<redisVars, hostVars, lock, slotJob, slotStatus, faults>>

EndWrite(s) ==
    /\ slotPc[s] = "writing"
    /\ output' = [output EXCEPT ![SlotDir(s)] = [job |-> slotJob[s], status |-> slotStatus[s]]]
    /\ old' = [old EXCEPT ![SlotDir(s)] = FALSE]
    /\ SlotGoes(s, "reply")
    /\ UNCHANGED <<redisVars, hostVars, lock, slotJob, slotStatus, faults>>

\* publishWorkerResult: RPUSH of the result, then EXPIRE of its key.
PushResult(s) ==
    /\ slotPc[s] = "reply"
    /\ results' = [results EXCEPT ![slotJob[s]] = Append(@, slotStatus[s])]
    /\ SlotGoes(s, "expire")
    /\ UNCHANGED <<queue, hostVars, fileVars, lock, slotJob, slotStatus, faults>>

ExpireResult(s) ==
    /\ slotPc[s] = "expire"
    /\ SlotGoes(s, "idle")
    /\ UNCHANGED <<redisVars, hostVars, fileVars, lock, slotJob, slotStatus, faults>>

\* Anything inside the try throws (a step record, RPUSH, EXPIRE): the catch
\* block overwrites agent-output.json and reports the failure.
StepThrows(s) ==
    /\ slotPc[s] \in {"taken", "generated", "reply", "expire"}
    /\ slotStatus[s] # "worker_failed"
    /\ Fault
    /\ \/ results' = results
       \/ /\ slotPc[s] = "reply"
          /\ results' = [results EXCEPT ![slotJob[s]] = Append(@, slotStatus[s])]
    /\ SlotGoes(s, "generated")
    /\ SlotSets(s, "worker_failed")
    /\ UNCHANGED <<queue, hostVars, fileVars, lock, slotJob>>

\* Every slot goes with the process; run.lock files and torn files stay.
ProcessRestarts ==
    /\ slotPc' = [s \in Slots |-> "idle"]
    /\ slotJob' = [s \in Slots |-> NoJob]
    /\ slotStatus' = [s \in Slots |-> "none"]
    /\ UNCHANGED <<redisVars, hostVars, fileVars, lock>>

\* The process is killed, or a throw escapes processJob (validation of the job,
\* a failure inside the catch block) and main exits.
WorkerCrash ==
    /\ \E s \in Slots : slotPc[s] \notin {"idle", "severed"}
    /\ Fault
    /\ ProcessRestarts

\* A poll whose connection died throws after its timer, and main exits.
PollThrows ==
    /\ \E s \in Slots : slotPc[s] = "severed"
    /\ ProcessRestarts
    /\ UNCHANGED faults

\* Redis restarts empty; clients blocked in BLPOP are never answered.
RedisRestart ==
    /\ Fault
    /\ queue' = <<>>
    /\ results' = [j \in Jobs |-> <<>>]
    /\ hostPc' = [h \in Hosts |-> IF hostPc[h] = "wait" THEN "severed" ELSE hostPc[h]]
    /\ slotPc' = [s \in Slots |-> IF slotPc[s] = "idle" THEN "severed" ELSE slotPc[s]]
    /\ UNCHANGED <<hostJob, dirOf, answer, heard, fileVars, lock, slotJob, slotStatus>>

-----------------------------------------------------------------------------
HostStep(h) ==
    \/ CheckDepth(h) \/ Overloaded(h) \/ Enqueue(h) \/ HostCommandFails(h)
    \/ Receive(h) \/ WaitTimeout(h) \/ SeveredWait(h)
    \/ ReadOutput(h) \/ ReadUnusableOutput(h)

SlotStep(s) ==
    \/ Pop(s) \/ TakeRunLock(s) \/ RefusedByRunLock(s)
    \/ \E st \in PipelineStatuses : Generate(s, st)
    \/ BeginWrite(s) \/ EndWrite(s) \/ PushResult(s) \/ ExpireResult(s) \/ StepThrows(s)

Next ==
    \/ \E h \in Hosts : \/ \E j \in Jobs, d \in Dirs : Dispatch(h, j, d)
                        \/ HostStep(h)
    \/ \E s \in Slots : SlotStep(s)
    \/ HandlerCrash \/ WorkerCrash \/ PollThrows \/ RedisRestart

Spec == Init /\ [][Next]_vars

\* A pending host call is a task of a live event loop and every wait has a
\* timer; a worker slot loops for ever and every pipeline stage is bounded.
FairSpec ==
    /\ Spec
    /\ \A h \in Hosts : WF_vars(HostStep(h))
    /\ \A s \in Slots : WF_vars(SlotStep(s))
    /\ WF_vars(PollThrows)

-----------------------------------------------------------------------------
(* Properties. *)

\* The depth check and the push are two commands, so calls that checked together
\* overshoot queueMaxDepth, but by no more than the calls that run at once, even
\* when earlier calls timed out and left their jobs queued.
QueueWithinBound == Len(queue) <= MaxDepth - 1 + Cardinality(Hosts)

\* When a call hears from the worker, agent-output.json was written after the
\* call began: a rerun never returns the file of an earlier attempt.
FreshOutput == \A h \in Hosts : hostPc[h] = "got" => ~old[HostDir(h)]

\* Timeouts leave jobs behind and reruns queue new ones for the same directory,
\* yet two slots never generate in one run directory.
OneGeneratorPerDir ==
    \A s, t \in Slots :
        s # t /\ slotPc[s] = "generating" /\ slotPc[t] = "generating"
            => SlotDir(s) # SlotDir(t)

\* No other call used the directory of j.
OnlyCallIn(j) == \A k \in Jobs : dirOf[k] = dirOf[j] => k = j

\* In a directory used once the answer is the call's own: written by its own job
\* or by the host, and "completed" only if that is what the worker reported.
AnswerIsOwn ==
    \A j \in Jobs : answer[j] # NoFile /\ OnlyCallIn(j) =>
        /\ answer[j].job = j
        /\ answer[j].status = "completed" => heard[j] = "completed"

\* Every call is answered, whatever happens to the queue, the worker or Redis.
CallsReturn == \A h \in Hosts : hostPc[h] # "idle" ~> hostPc[h] = "idle"

-----------------------------------------------------------------------------
(* The delivery promise this implements. *)

Pending(j) == \E h \in Hosts : hostPc[h] # "idle" /\ hostJob[h] = j

StatusOf(j) ==
    CASE ~Issued(j) -> "new"
      [] Issued(j) /\ answer[j] = NoFile /\ Pending(j) -> "pending"
      [] Issued(j) /\ answer[j] = NoFile /\ ~Pending(j) -> "lost"
      [] Issued(j) /\ answer[j] # NoFile /\ answer[j].status = "completed" -> "completed"
      [] Issued(j) /\ answer[j] # NoFile /\ answer[j].status # "completed" -> "blocked"

CallStatus == [j \in Jobs |-> StatusOf(j)]
Produced == {d \in Dirs : output[d].status = "completed"}

Delivery == INSTANCE DocumentDelivery WITH
    status <- CallStatus,
    dir <- dirOf,
    produced <- Produced

\* Every call is answered once at most, and "completed" only while the run
\* directory holds complete documents, through timeouts, crashes and reruns.
Delivers == Delivery!Spec
=============================================================================
