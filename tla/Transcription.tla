--------------------------- MODULE Transcription ---------------------------
(***************************************************************************)
(* Transcription: how the audios of a run become a transcript.             *)
(*                                                                         *)
(* The runner of a run (ensureAsrTranscription and what it calls in        *)
(* tools/task_execution_runner.mjs) takes the transcript the run has, one  *)
(* the cache has, or has it recognised: by the cloud, through a child      *)
(* process (tools/dashscope_asr_client.mjs) that writes its artifacts and  *)
(* its result into the run's directory and is killed when it takes too     *)
(* long; or by the local service (tools/local_asr_http_service.py), whose  *)
(* one worker does the jobs one after another, chunk by chunk              *)
(* (tools/local_asr_core.py), and is not told when a runner gives up.      *)
(* What is complete is copied to the cache, which all runs share.          *)
(* Files go by position: the normalised audios of a run, their chunk files *)
(* and the texts. A position is of the audio that was there when the list  *)
(* of the run's files was read, and an audio that is gone is not in it.    *)
(***************************************************************************)
EXTENDS Integers, Sequences, FiniteSets, TLC

CONSTANTS
    Runs,         \* runs: 1 .. n
    Chunks,       \* chunks of an audio, 1 .. n
    Scenarios     \* the runs' audios, the providers, and what may go wrong

Cloud == "aliyun_dashscope_paraformer"
Local == "local_qwen3"

(* mode is the input mode, transport whether files can be uploaded, and    *)
(* realtime whether the audios have a format that can be streamed as it    *)
(* is.  Bounds: executions is how often a run is executed, trouble the     *)
(* number of calls that fail and of lists of audios that are not all of    *)
(* them, kills the number of processes that die.                           *)
Scenario == [audios : [Runs -> Seq(Nat \ {0})], provider : {Cloud, Local}, fallback : BOOLEAN,
             mode : {"auto", "file", "realtime"}, transport : BOOLEAN, realtime : BOOLEAN,
             executions : [Runs -> Nat \ {0}], trouble : Nat, kills : Nat]

ASSUME TranscriptionAssumption ==
    /\ Chunks = 1 .. Cardinality(Chunks) /\ IsFiniteSet(Chunks) /\ Chunks # {}
    /\ Scenarios \subseteq Scenario

VARIABLES
    task,        \* the scenario
    audios,      \* the audios each run's runner has found last
    normalized,  \* whose audio the normalised file of each position is
    posted,      \* how many of them each execution has posted to the service
    runner,      \* what the runner of each run is doing
    client,      \* the child process each execution has started last
    result,      \* the result file of the client in each run's directory
    artifacts,   \* transcript, evidence and summary in each run's directory
    chunks,      \* the chunk files there
    cache,       \* the artifacts in the cache, per key
    service,     \* whether the local service is up
    waiting,     \* jobs it has accepted
    job,         \* the job of its worker
    trouble, kills,
    writers,     \* history: the runs that filled an entry of the cache
    disturbed,   \* history: runs with a job or a client that nobody waits for,
                 \* or with a client over artifacts that are complete
    shifted      \* history: runs that went on with only some of their audios,
                 \* and runs that took over what such a run has put in the cache

inputs == <<audios, normalized, posted>>
files == <<result, artifacts, chunks, cache>>
localService == <<service, waiting, job>>
bounds == <<trouble, kills>>
history == <<writers, disturbed, shifted>>
vars == <<task, inputs, runner, client, files, localService, bounds, history>>

Audios(r) == task.audios[r]
Sources(r) == DOMAIN Audios(r)

(* The text of an audio says of each chunk whose it is: of an audio, of    *)
(* none when it is missing, or that it could not be recognised.            *)
Missing == 0
Failed == -1
NoText == [c \in Chunks |-> Missing]
TextOf(a) == [c \in Chunks |-> a]

None == "none"
NoTexts == [by |-> <<>>, texts |-> <<>>]
NoArtifacts == [transcript |-> NoTexts, evidence |-> NoTexts, summary |-> None]
Idle == [at |-> "idle", execution |-> 1, attempt |-> 1, provider |-> None]
Clients == UNION {{r} \X (1 .. task.executions[r]) : r \in Runs}
NoClient == [at |-> "off", source |-> 1, paths |-> <<>>, heard |-> {}, attempt |-> 1]
NoJob == [of |-> <<>>, at |-> None, source |-> 1, audio |-> Missing, chunk |-> 1, had |-> NoText,
          now |-> NoText, texts |-> <<>>]

completeAsrSummary(a) ==
    /\ a.summary = "complete"
    /\ a.transcript # NoTexts /\ a.evidence # NoTexts

(* The files of the audios that exist, in their order.                     *)
Existing(all) ==
    UNION {{[i \in 1 .. n |-> all[at[i]]] :
                at \in {f \in [1 .. n -> DOMAIN all] : \A i, j \in 1 .. n : i < j => f[i] < f[j]}} :
           n \in 0 .. Len(all)}
sourceAudioPaths(r) == Existing(Audios(r))

(* Two runs with the same audios share what a provider made of them.       *)
audioCacheKey(provider, found) == <<provider, found>>

Keys == UNION {{audioCacheKey(p, found) : p \in {Cloud, Local}, found \in Existing(s.audios[r])} :
               s \in Scenarios, r \in Runs}
KeyOf(r) == audioCacheKey(runner[r].provider, audios[r])

Init ==
    /\ task \in Scenarios
    /\ audios = [r \in Runs |-> Audios(r)]
    /\ normalized = [r \in Runs |-> [i \in Sources(r) |-> Missing]]
    /\ posted = [p \in Clients |-> 0]
    /\ runner = [r \in Runs |-> Idle]
    /\ client = [p \in Clients |-> NoClient]
    /\ result = [r \in Runs |-> None]
    /\ artifacts = [r \in Runs |-> NoArtifacts]
    /\ chunks = [r \in Runs |-> [i \in Sources(r) |-> NoText]]
    /\ cache = [k \in Keys |-> NoArtifacts]
    /\ service = "up" /\ waiting = {} /\ job = NoJob
    /\ trouble = 0 /\ kills = 0
    /\ writers = [k \in Keys |-> {}] /\ disturbed = {} /\ shifted = {}

Trouble ==
    /\ trouble < task.trouble
    /\ trouble' = trouble + 1
Outcome(best) == IF best THEN UNCHANGED trouble ELSE Trouble

At(r, stage) == runner[r].at = stage
Goes(r, stage) == runner' = [runner EXCEPT ![r].at = stage]
Ended == {"idle", "completed", "blocked", "skipped", "crashed"}
JobOf(r) == <<r, runner[r].execution>>
Running(r) == runner[r].at \notin Ended
Writes(r, part, value) == artifacts' = [artifacts EXCEPT ![r][part] = value]

-----------------------------------------------------------------------------
(* The runner.                                                             *)

(* An audio may be gone when the list is read.  No file, no transcription. *)
Finds(r, found) ==
    /\ Outcome(found = Audios(r))
    /\ audios' = [audios EXCEPT ![r] = IF found = <<>> THEN @ ELSE found]
    /\ shifted' = IF found \in {<<>>, Audios(r)} THEN shifted ELSE shifted \cup {r}

(* With the local service as the provider, the second reading counts.      *)
ensureAsrTranscription(r) ==
    /\ At(r, "idle")
    /\ \E found \in sourceAudioPaths(r) :
        /\ Finds(r, found)
        /\ runner' = [runner EXCEPT ![r].provider = task.provider,
                                    ![r].at = IF found = <<>> THEN "skipped" ELSE "lookup"]
    /\ UNCHANGED <<task, normalized, posted, client, files, localService, kills, writers, disturbed>>

(* The local service in the place of the cloud.                            *)
ensureLocalAsr(r) ==
    /\ At(r, "fallback")
    /\ \E found \in sourceAudioPaths(r) :
        /\ Finds(r, found)
        /\ runner' = [runner EXCEPT ![r].provider = Local,
                                    ![r].at = IF found = <<>> THEN "blocked" ELSE "lookup"]
    /\ UNCHANGED <<task, normalized, posted, client, files, localService, kills, writers, disturbed>>

(* A run that did not come to its end is executed again.                   *)
ExecuteAgain(r) ==
    /\ runner[r].at \in {"blocked", "crashed"}
    /\ runner[r].execution < task.executions[r]
    /\ runner' = [runner EXCEPT ![r] = [Idle EXCEPT !.execution = runner[r].execution + 1]]
    /\ UNCHANGED <<task, inputs, client, files, localService, bounds, history>>

(* ensureCloudAsr and ensureLocalAsr begin alike.                          *)
lookup(r) ==
    /\ At(r, "lookup")
    /\ Goes(r, IF completeAsrSummary(artifacts[r]) THEN "completed"
               ELSE IF completeAsrSummary(cache[KeyOf(r)]) THEN "transcript-in"
               ELSE IF runner[r].provider = Cloud THEN "gate" ELSE "preflight")
    /\ UNCHANGED <<task, inputs, client, files, localService, bounds, history>>

Parts == <<"transcript", "evidence", "summary">>
CopyIn == <<"transcript-in", "evidence-in", "summary-in">>
CopyOut == <<"transcript-out", "evidence-out", "summary-out">>
After(n, way) == IF n = Len(way) THEN "completed" ELSE way[n + 1]

(* copyAsrArtifacts: the transcript, the evidence, and then the summary.   *)
copyIn(r) ==
    \E n \in DOMAIN Parts :
        /\ At(r, CopyIn[n])
        /\ Writes(r, Parts[n], cache[KeyOf(r)][Parts[n]])
        /\ Goes(r, After(n, CopyIn))
        /\ shifted' = IF writers[KeyOf(r)] \cap shifted = {} THEN shifted ELSE shifted \cup {r}
        /\ UNCHANGED <<task, inputs, client, result, chunks, cache, localService, bounds, writers,
                       disturbed>>

copyOut(r) ==
    \E n \in DOMAIN Parts :
        /\ At(r, CopyOut[n])
        /\ cache' = [cache EXCEPT ![KeyOf(r)][Parts[n]] = artifacts[r][Parts[n]]]
        /\ Goes(r, After(n, CopyOut))
        /\ writers' = [writers EXCEPT ![KeyOf(r)] = @ \cup {r}]
        /\ UNCHANGED <<task, inputs, client, result, artifacts, chunks, localService, bounds,
                       disturbed, shifted>>

(* The cloud failed: an input it does not take is tried once more, as a    *)
(* normalised file; else it may be the local service's turn.               *)
CloudFails(r, why) ==
    runner' = [runner EXCEPT ![r] =
        IF why = "format" /\ @.attempt = 1 THEN [@ EXCEPT !.at = "normalize"]
        ELSE IF task.fallback /\ why # "auth"
        THEN [@ EXCEPT !.at = "fallback"]
        ELSE [@ EXCEPT !.at = "blocked"]]

policy_gate_check(r) ==
    /\ At(r, "gate")
    /\ \E allowed \in BOOLEAN :
        /\ Outcome(allowed)
        /\ IF allowed
           THEN /\ client' = [client EXCEPT ![JobOf(r)] =
                              [NoClient EXCEPT !.at = "plan", !.paths = audios[r],
                                               !.attempt = runner[r].attempt]]
                /\ Goes(r, "client")
                /\ disturbed' = IF completeAsrSummary(artifacts[r]) THEN disturbed \cup {r}
                                ELSE disturbed
           ELSE CloudFails(r, "policy") /\ UNCHANGED <<client, disturbed>>
    /\ UNCHANGED <<task, inputs, files, localService, kills, writers, shifted>>

(* The client is killed when its time is over.                             *)
runCommand_timeout(r) ==
    /\ At(r, "client") /\ client[JobOf(r)].at # "off"
    /\ client' = [client EXCEPT ![JobOf(r)] = NoClient]
    /\ UNCHANGED <<task, inputs, runner, files, localService, bounds, history>>

(* The result is the file's, be it the one of an earlier attempt.          *)
runDashScopeAsrClient(r) ==
    /\ At(r, "client") /\ client[JobOf(r)].at = "off"
    /\ IF result[r] # "completed" THEN CloudFails(r, result[r])
       ELSE IF completeAsrSummary(artifacts[r]) THEN Goes(r, "transcript-out")
       ELSE CloudFails(r, "incomplete")
    /\ UNCHANGED <<task, inputs, client, files, localService, bounds, history>>

(* The files are written one after another, over those of earlier runs of  *)
(* the runner; a failure or a death leaves the first ones.                 *)
Normalizes(r, n) ==
    normalized' = [normalized EXCEPT ![r] = [i \in DOMAIN @ |-> IF i <= n THEN audios[r][i] ELSE @[i]]]

normalizeAudioBatch(r) ==
    /\ At(r, "normalize")
    /\ \/ /\ Normalizes(r, Len(audios[r]))
          /\ IF runner[r].provider = Local THEN Goes(r, "post")
             ELSE runner' = [runner EXCEPT ![r].at = "gate", ![r].attempt = 2]
          /\ UNCHANGED trouble
       \/ /\ \E n \in 0 .. Len(audios[r]) : Normalizes(r, n)
          /\ Trouble
          /\ IF runner[r].provider = Local THEN Goes(r, "blocked") ELSE CloudFails(r, "normalize")
    /\ UNCHANGED <<task, audios, posted, client, files, localService, kills, history>>

preflightLocalAsrService(r) ==
    /\ At(r, "preflight")
    /\ Goes(r, IF service = "up" THEN "normalize" ELSE "blocked")
    /\ UNCHANGED <<task, inputs, client, files, localService, bounds, history>>

postJson(r) ==
    /\ At(r, "post")
    /\ IF service = "up"
       THEN /\ Goes(r, "posted") /\ waiting' = waiting \cup {JobOf(r)}
            /\ posted' = [posted EXCEPT ![JobOf(r)] = Len(audios[r])]
       ELSE Goes(r, "blocked") /\ UNCHANGED <<waiting, posted>>
    /\ UNCHANGED <<task, audios, normalized, client, files, service, job, bounds, history>>

(* The runner gives up; the service goes on with the job.                  *)
postJsonPatient(r) ==
    /\ At(r, "posted") /\ service = "down"
    /\ Goes(r, "blocked")
    /\ UNCHANGED <<task, inputs, client, files, localService, bounds, history>>
postJson_timeout(r) ==
    /\ At(r, "posted")
    /\ Goes(r, "blocked")
    /\ disturbed' = disturbed \cup {r}
    /\ UNCHANGED <<task, inputs, client, files, localService, bounds, writers, shifted>>

ensureLocalAsr_answered(r) ==
    /\ At(r, "answered")
    /\ Goes(r, IF completeAsrSummary(artifacts[r]) THEN "transcript-out" ELSE "blocked")
    /\ UNCHANGED <<task, inputs, client, files, localService, bounds, history>>

-----------------------------------------------------------------------------
(* The client of the cloud: the audios one after another.                  *)

ClientAt(p, stage) == client[p].at = stage
ClientGoes(p, stage) == client' = [client EXCEPT ![p].at = stage]

(* A file that fails is the end: nothing is written but the result.        *)
ClientFails(p, why) ==
    /\ Trouble
    /\ result' = [result EXCEPT ![p[1]] = why]
    /\ client' = [client EXCEPT ![p] = NoClient]

ClientStep(p, stage, next, reasons) ==
    /\ ClientAt(p, stage)
    /\ \/ ClientGoes(p, next) /\ UNCHANGED <<result, trouble>>
       \/ \E why \in reasons : ClientFails(p, why)
    /\ UNCHANGED <<task, inputs, runner, artifacts, chunks, cache, localService, kills, history>>

(* What the provider may say is wrong (classifyCloudError).                *)
classifyCloudError == {"auth", "format", "other"}

(* In the second attempt the paths are those of the normalised files: what *)
(* is read is what they are by then.                                       *)
PathOpened(c, file, stage) ==
    [c EXCEPT !.at = stage, !.paths[c.source] = IF c.attempt = 2 THEN file ELSE @]

planDashScopeInput(p) ==
    LET streams == task.realtime \/ client[p].attempt = 2
        file == task.mode # "realtime" /\ task.transport
        stream == task.mode # "file" /\ streams
    IN  /\ ClientAt(p, "plan")
        /\ IF file \/ stream
           THEN /\ client' = [client EXCEPT ![p] =
                      PathOpened(client[p], normalized[p[1]][client[p].source],
                                 IF file THEN "prepare" ELSE "connect")]
                /\ UNCHANGED result
           ELSE /\ result' = [result EXCEPT ![p[1]] = "format"]
                /\ client' = [client EXCEPT ![p] = NoClient]
        /\ UNCHANGED <<task, inputs, runner, artifacts, chunks, cache, localService, bounds, history>>

prepareFileDiarization(p) == ClientStep(p, "prepare", "upload", {"other"})
uploadSourceToOss(p) == ClientStep(p, "upload", "submit", {"other"})
submitFileTask(p) == ClientStep(p, "submit", "poll", classifyCloudError)
(* A poll that fails for a while is repeated until the deadline.           *)
pollFileTask(p) == ClientStep(p, "poll", "download", classifyCloudError)

(* The text of a source; the review by a second model may fail, and leaves *)
(* the text as it is.  A provider may have heard nothing.                  *)
SourceDone(p, heard) ==
    LET c == client[p]
        more == c.source + 1 \in DOMAIN c.paths
    IN  client' = [client EXCEPT ![p] =
            [c EXCEPT !.heard = IF heard THEN @ \cup {c.source} ELSE @,
                      !.at = IF more THEN "plan" ELSE "write-transcript",
                      !.source = IF more THEN c.source + 1 ELSE @]]

downloadTranscription(p) ==
    /\ ClientAt(p, "download")
    /\ \/ /\ \E heard \in BOOLEAN : Outcome(heard) /\ SourceDone(p, heard)
          /\ UNCHANGED result
       \/ ClientFails(p, "other")
    /\ UNCHANGED <<task, inputs, runner, artifacts, chunks, cache, localService, kills, history>>

(* The stream: run-task, the audio, finish-task; whichever event comes     *)
(* first settles it.                                                       *)
wsOpen(p) == ClientStep(p, "connect", "open", {"auth", "other"})
wsTaskStarted(p) == ClientStep(p, "open", "started", classifyCloudError)
wsTaskFinished(p) ==
    /\ ClientAt(p, "started")
    /\ \/ /\ \E heard \in BOOLEAN : Outcome(heard) /\ SourceDone(p, heard)
          /\ UNCHANGED result
       \/ \E why \in classifyCloudError : ClientFails(p, why)
    /\ UNCHANGED <<task, inputs, runner, artifacts, chunks, cache, localService, kills, history>>

(* buildOutputs: the summary is written last.                              *)
CloudTexts(p) ==
    [by |-> <<Cloud, p[1]>>,
     texts |-> [i \in DOMAIN client[p].paths |->
                  IF i \in client[p].heard THEN TextOf(client[p].paths[i]) ELSE NoText]]
CloudSummary(p) == IF client[p].heard = {} THEN "needs_review" ELSE "complete"

buildOutputsSummaryFirst(p) ==
    /\ \/ /\ ClientAt(p, "write-transcript")
          /\ Writes(p[1], "summary", CloudSummary(p))
          /\ ClientGoes(p, "write-evidence")
       \/ /\ ClientAt(p, "write-evidence")
          /\ Writes(p[1], "transcript", CloudTexts(p))
          /\ ClientGoes(p, "write-summary")
       \/ /\ ClientAt(p, "write-summary")
          /\ Writes(p[1], "evidence", CloudTexts(p))
          /\ ClientGoes(p, "done")
    /\ UNCHANGED <<task, inputs, runner, result, chunks, cache, localService, bounds, history>>
buildOutputs(p) ==
    /\ \/ /\ ClientAt(p, "write-transcript")
          /\ Writes(p[1], "transcript", CloudTexts(p))
          /\ ClientGoes(p, "write-evidence")
       \/ /\ ClientAt(p, "write-evidence")
          /\ Writes(p[1], "evidence", CloudTexts(p))
          /\ ClientGoes(p, "write-summary")
       \/ /\ ClientAt(p, "write-summary")
          /\ Writes(p[1], "summary", CloudSummary(p))
          /\ ClientGoes(p, "done")
    /\ UNCHANGED <<task, inputs, runner, result, chunks, cache, localService, bounds, history>>

transcribeDashScopeAsr_done(p) ==
    /\ ClientAt(p, "done")
    /\ result' = [result EXCEPT ![p[1]] = "completed"]
    /\ client' = [client EXCEPT ![p] = NoClient]
    /\ UNCHANGED <<task, inputs, runner, artifacts, chunks, cache, localService, bounds, history>>

-----------------------------------------------------------------------------
(* The local service: one job at a time.                                   *)

JobRun == job.of[1]
(* The chunk file of a source has the name of its normalised file, which   *)
(* begins with its index.                                                  *)
chunksPathOfAll(i) == 1
chunksPath(i) == i

OpensSource(j, i) == [j EXCEPT !.source = i, !.audio = normalized[j.of[1]][i], !.chunk = 1,
                               !.had = chunks[j.of[1]][chunksPath(i)], !.now = NoText]

takeJob ==
    /\ job = NoJob
    /\ \E j \in waiting :
        /\ waiting' = waiting \ {j}
        /\ job' = OpensSource([NoJob EXCEPT !.of = j, !.at = "chunk"], 1)
    /\ UNCHANGED <<task, inputs, runner, client, files, service, bounds, history>>

(* A chunk that was recognised before is taken, whatever audio it is of;   *)
(* any other is recognised, and the file is written with the chunks there  *)
(* are so far.                                                             *)
transcribeChunk ==
    /\ job.at = "chunk" /\ job.chunk \in Chunks
    /\ LET prior == job.had[job.chunk]
           Next(value) == job' = [job EXCEPT !.chunk = @ + 1, !.now[job.chunk] = value]
       IN  IF prior \notin {Missing, Failed}
           THEN Next(prior) /\ UNCHANGED <<chunks, trouble>>
           ELSE \E success \in BOOLEAN :
                  LET value == IF success THEN job.audio ELSE Failed
                  IN  /\ Outcome(success)
                      /\ Next(value)
                      /\ chunks' = [chunks EXCEPT ![JobRun][chunksPath(job.source)] =
                                        [job.now EXCEPT ![job.chunk] = value]]
    /\ UNCHANGED <<task, inputs, runner, client, result, artifacts, cache, service, waiting, kills,
                   history>>

(* The text of the source is what the file says.                           *)
transcribe_file_end ==
    /\ job.at = "chunk" /\ job.chunk \notin Chunks
    /\ LET read == [job EXCEPT !.texts = Append(@, chunks[JobRun][chunksPath(job.source)])]
       IN  job' = IF job.source + 1 \in 1 .. posted[job.of] THEN OpensSource(read, job.source + 1)
                  ELSE [read EXCEPT !.at = "write-transcript"]
    /\ UNCHANGED <<task, inputs, runner, client, files, service, waiting, bounds, history>>

LocalTexts == [by |-> <<Local, JobRun>>, texts |-> job.texts]
LocalSummary ==
    IF \E i \in DOMAIN job.texts, c \in Chunks : job.texts[i][c] = Failed
    THEN "needs_review" ELSE "complete"

build_full_outputs ==
    /\ \/ /\ job.at = "write-transcript"
          /\ Writes(JobRun, "transcript", LocalTexts)
          /\ job' = [job EXCEPT !.at = "write-evidence"]
       \/ /\ job.at = "write-evidence"
          /\ Writes(JobRun, "evidence", LocalTexts)
          /\ job' = [job EXCEPT !.at = "write-summary"]
       \/ /\ job.at = "write-summary"
          /\ Writes(JobRun, "summary", LocalSummary)
          /\ job' = [job EXCEPT !.at = "done"]
    /\ UNCHANGED <<task, inputs, runner, client, result, chunks, cache, service, waiting, bounds,
                   history>>

Answers(jobs, stage) ==
    runner' = [r \in Runs |-> IF At(r, "posted") /\ JobOf(r) \in jobs
                              THEN [runner[r] EXCEPT !.at = stage] ELSE runner[r]]

do_POST ==
    /\ job # NoJob
    /\ \/ job.at = "done" /\ Answers({job.of}, "answered") /\ UNCHANGED trouble
       \/ job.at # "done" /\ Trouble /\ Answers({job.of}, "blocked")
    /\ job' = NoJob
    /\ UNCHANGED <<task, inputs, client, files, service, waiting, kills, history>>

ServiceDies ==
    /\ service = "up"
    /\ kills < task.kills /\ kills' = kills + 1
    /\ service' = "down" /\ waiting' = {} /\ job' = NoJob
    /\ Answers(waiting \cup {job.of}, "blocked")
    /\ UNCHANGED <<task, inputs, client, files, trouble, history>>

ServiceStarts ==
    /\ service = "down"
    /\ service' = "up"
    /\ UNCHANGED <<task, inputs, runner, client, files, waiting, job, bounds, history>>

-----------------------------------------------------------------------------
(* A runner that dies leaves its job, and its client, which goes on.       *)
RunnerDies(r) ==
    /\ Running(r)
    /\ kills < task.kills /\ kills' = kills + 1
    /\ Goes(r, "crashed")
    /\ IF At(r, "normalize") THEN \E n \in 0 .. Len(audios[r]) : Normalizes(r, n)
       ELSE UNCHANGED normalized
    /\ disturbed' = IF runner[r].at \in {"client", "posted"} THEN disturbed \cup {r} ELSE disturbed
    /\ UNCHANGED <<task, audios, posted, client, files, localService, trouble, writers, shifted>>

ClientDies(p) ==
    /\ client[p].at # "off"
    /\ kills < task.kills /\ kills' = kills + 1
    /\ client' = [client EXCEPT ![p] = NoClient]
    /\ UNCHANGED <<task, inputs, runner, files, localService, trouble, history>>

Runner(r) ==
    \/ ensureAsrTranscription(r) \/ ensureLocalAsr(r) \/ lookup(r) \/ copyIn(r) \/ copyOut(r)
    \/ policy_gate_check(r) \/ runDashScopeAsrClient(r) \/ runCommand_timeout(r)
    \/ normalizeAudioBatch(r) \/ preflightLocalAsrService(r)
    \/ postJson(r) \/ postJson_timeout(r) \/ ensureLocalAsr_answered(r)

Client(p) ==
    \/ planDashScopeInput(p)
    \/ prepareFileDiarization(p) \/ uploadSourceToOss(p) \/ submitFileTask(p)
    \/ pollFileTask(p) \/ downloadTranscription(p)
    \/ wsOpen(p) \/ wsTaskStarted(p) \/ wsTaskFinished(p)
    \/ buildOutputs(p) \/ transcribeDashScopeAsr_done(p)

Service ==
    \/ takeJob \/ transcribeChunk \/ transcribe_file_end \/ build_full_outputs \/ do_POST
    \/ ServiceDies \/ ServiceStarts

Next ==
    \/ Service
    \/ \E r \in Runs : Runner(r) \/ ExecuteAgain(r) \/ RunnerDies(r)
    \/ \E p \in Clients : Client(p) \/ ClientDies(p)

(* A runner that runs goes on; that the provider, the client or the        *)
(* service ever answer is not assumed.                                     *)
Spec == Init /\ [][Next]_vars /\ \A r \in Runs : WF_vars(Runner(r))

-----------------------------------------------------------------------------
(* What a chunk of a text may say: the audio of its place, or, in a run    *)
(* whose places have shifted, an audio of a run whose places have.         *)
LostAudios == UNION {{Audios(q)[i] : i \in Sources(q)} : q \in shifted}
MayBe(audio, lost) == IF lost THEN LostAudios ELSE {audio}
HasOwn(texts, all, lost) ==
    texts # NoTexts =>
        /\ ~lost => Len(texts.texts) = Len(all)
        /\ \A i \in DOMAIN texts.texts, c \in Chunks :
             texts.texts[i][c] \in MayBe(all[i], lost) \cup {Missing, Failed}

(* What a run has a text of is its own audio, and in its place, whoever    *)
(* recognised it: this run, an earlier execution whose job or client goes  *)
(* on, or another run through the cache (audioCacheKey, chunks_path).      *)
(* Only an audio that is gone when an execution reads the list undoes it:  *)
(* the ones behind it take the places of others, whose normalised files    *)
(* and chunks are there already, and the cache hands on what comes of it.  *)
(* Even then, what gets into a run is of a run that this has happened to.  *)
OwnAudio ==
    \A r \in Runs :
        /\ HasOwn(artifacts[r].transcript, Audios(r), r \in shifted)
        /\ HasOwn(artifacts[r].evidence, Audios(r), r \in shifted)

(* Complete artifacts are of one recognition, in which something was heard *)
(* and nothing failed: a summary never vouches for a transcript or an      *)
(* evidence that a killed process, a failed audio or a half copied cache   *)
(* left behind.  Three things can mix two recognitions, and the cache then *)
(* hands the mixture to other runs: a job or a client that nobody waits    *)
(* for; an entry of the cache that two runs fill; and a client that is     *)
(* started over complete artifacts, which happens when the one before it   *)
(* is killed with its artifacts written and its result not, and the result *)
(* read is an older one that asks for a normalised file.                   *)
Complete(a) ==
    /\ a.transcript = a.evidence
    /\ \A i \in DOMAIN a.transcript.texts, c \in Chunks : a.transcript.texts[i][c] # Failed
    /\ \E i \in DOMAIN a.transcript.texts, c \in Chunks : a.transcript.texts[i][c] # Missing
MixedEntry(k) ==
    \/ writers[k] \cap disturbed # {}
    \/ \E q1, q2 \in writers[k] : q1 # q2
Mixed(r) ==
    \/ r \in disturbed
    \/ \E k \in Keys : MixedEntry(k) /\ k[2] \in sourceAudioPaths(r)
OneRecognition ==
    \A r \in Runs : completeAsrSummary(artifacts[r]) /\ ~Mixed(r) => Complete(artifacts[r])

(* A run's transcription ends, though neither the provider nor the service *)
(* may ever answer: every wait has its timeout, and what is tried again is *)
(* tried once.                                                             *)
TranscriptionEnds == \A r \in Runs : Running(r) ~> ~Running(r)

(* Artifacts that are complete have every chunk of every audio, as         *)
(* wiki/18-typescript-contract-and-package-reliability.md:78 promises:     *)
(* "不把部分结果包装成完成".  They do not: a chunk that is recognised again   *)
(* has the chunk file written without the ones after it, which are taken   *)
(* from the old file and never written back (transcribe_file).             *)
NothingPartial ==
    \A r \in Runs :
        completeAsrSummary(artifacts[r]) =>
            artifacts[r].transcript.texts = [i \in Sources(r) |-> TextOf(Audios(r)[i])]
=============================================================================
