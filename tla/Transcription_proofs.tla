------------------------ MODULE Transcription_proofs ------------------------
(***************************************************************************)
(* Safety of transcription for any number of runs, audios, chunks and      *)
(* executions, any provider and any failures and deaths.                   *)
(***************************************************************************)
EXTENDS Transcription, SequenceTheorems, FiniteSetTheorems, TLAPS

-----------------------------------------------------------------------------
(* Where a text may be, and what it may say there.                         *)

Text == [Chunks -> Int]
Own(a, lost) == [Chunks -> MayBe(a, lost) \cup {Missing, Failed}]
Texts == [by : {<<>>} \cup ({Cloud, Local} \X Runs), texts : Seq(Text)]
Artifacts == [transcript : Texts, evidence : Texts, summary : {None, "complete", "needs_review"}]
Reasons == {"auth", "format", "other"}

RunnerStages == {"idle", "skipped", "lookup", "fallback", "transcript-in", "evidence-in", "summary-in",
                 "transcript-out", "evidence-out", "summary-out", "gate", "client", "normalize",
                 "preflight", "post", "posted", "answered", "completed", "blocked", "crashed"}
RunnerState == [at : RunnerStages, execution : Nat \ {0}, attempt : {1, 2},
                provider : {None, Cloud, Local}]
RunnerOK ==
    /\ runner \in [Runs -> RunnerState]
    /\ \A r \in Runs :
         /\ JobOf(r) \in Clients
         /\ runner[r].at # "idle" => runner[r].provider # None
         /\ runner[r].at \notin {"idle", "skipped"} => Audios(r) # <<>>

(* The audios a runner has found, the normalised files, and how many of    *)
(* them the service has been given.                                        *)
InputsOK ==
    /\ audios = [r \in Runs |-> audios[r]]
    /\ \A r \in Runs :
         /\ audios[r] \in sourceAudioPaths(r)
         /\ r \notin shifted => audios[r] = Audios(r)
         /\ Audios(r) # <<>> => audios[r] # <<>>
    /\ normalized = [r \in Runs |-> [i \in Sources(r) |-> normalized[r][i]]]
    /\ \A r \in Runs : \A i \in Sources(r) :
         normalized[r][i] \in MayBe(Audios(r)[i], r \in shifted) \cup {Missing}
    /\ posted \in [Clients -> Nat]
    /\ \A p \in Clients :
         /\ posted[p] <= Len(Audios(p[1]))
         /\ p[1] \notin shifted => posted[p] \in {0, Len(Audios(p[1]))}

ClientState == [at : {"off", "plan", "prepare", "upload", "submit", "poll", "download", "connect",
                      "open", "started", "write-transcript", "write-evidence", "write-summary",
                      "done"},
                source : Nat \ {0}, paths : Seq(Nat), heard : SUBSET (Nat \ {0}),
                attempt : {1, 2}]
PathsOK(c, r) ==
    /\ Len(c.paths) <= Len(Audios(r))
    /\ c.at # "off" /\ r \notin shifted => Len(c.paths) = Len(Audios(r))
    /\ \A i \in DOMAIN c.paths : c.paths[i] \in MayBe(Audios(r)[i], r \in shifted) \cup {Missing}
ClientOK ==
    /\ client \in [Clients -> ClientState]
    /\ \A p \in Clients : PathsOK(client[p], p[1])
ResultOK == result \in [Runs -> {None, "completed"} \cup Reasons]

OwnArtifacts(a, all, lost) ==
    a \in Artifacts /\ HasOwn(a.transcript, all, lost) /\ HasOwn(a.evidence, all, lost)
ArtifactsOK ==
    /\ artifacts = [r \in Runs |-> artifacts[r]]
    /\ \A r \in Runs : OwnArtifacts(artifacts[r], Audios(r), r \in shifted)
LostEntry(k) == writers[k] \cap shifted # {}
CacheOK ==
    /\ cache = [k \in Keys |-> cache[k]]
    /\ \A k \in Keys : OwnArtifacts(cache[k], k[2], LostEntry(k))
ChunksOK ==
    /\ chunks = [r \in Runs |-> [i \in Sources(r) |-> chunks[r][i]]]
    /\ \A r \in Runs : \A i \in Sources(r) : chunks[r][i] \in Own(Audios(r)[i], r \in shifted)

(* The job the service works at: the texts of the sources it is through    *)
(* with, the chunk file of the one it is at, and what it has written of it.*)
JobState == [of : Runs \X (Nat \ {0}),
             at : {"chunk", "write-transcript", "write-evidence", "write-summary", "done"},
             source : Nat \ {0}, audio : Nat, chunk : Nat \ {0}, had : Text, now : Text,
             texts : Seq(Text)]
JobIs(j) ==
    LET r == j.of[1]
        lost == r \in shifted
    IN  /\ j \in JobState /\ j.of \in Clients
        /\ j.source \in Sources(r)
        /\ j.audio \in MayBe(Audios(r)[j.source], lost) \cup {Missing}
        /\ j.had \in Own(Audios(r)[j.source], lost)
        /\ j.now \in Own(Audios(r)[j.source], lost)
        /\ j.at = "chunk" => Len(j.texts) = j.source - 1
        /\ j.at # "chunk" /\ ~lost => Len(j.texts) = Len(Audios(r))
        /\ \A i \in 1 .. Len(j.texts) : j.texts[i] \in Own(Audios(r)[i], lost)
ServiceOK ==
    /\ service \in {"up", "down"}
    /\ waiting \in SUBSET Clients
    /\ \A p \in waiting : posted[p] # 0
    /\ job # NoJob => JobIs(job) /\ posted[job.of] # 0

BoundsOK == trouble \in Nat /\ kills \in Nat
HistoryOK ==
    /\ writers \in [Keys -> SUBSET Runs] /\ disturbed \in SUBSET Runs /\ shifted \in SUBSET Runs
    /\ \A k \in Keys : \A q \in writers[k] : k[2] \in sourceAudioPaths(q)

TypeOK ==
    /\ task \in Scenarios
    /\ RunnerOK /\ InputsOK /\ ClientOK /\ ResultOK /\ ArtifactsOK /\ CacheOK /\ ChunksOK /\ ServiceOK
    /\ BoundsOK /\ HistoryOK

-----------------------------------------------------------------------------
(* What one recognition takes.                                             *)

\* Normalised files are written before anyone is told of them.
Written(r, n) == \A i \in 1 .. n : normalized[r][i] # Missing
Normalized(r) ==
    \/ runner[r].at = "post"
    \/ runner[r].provider = Cloud /\ runner[r].attempt = 2
RunnerReady(r) ==
    /\ runner[r].at = "idle" => runner[r].attempt = 1
    /\ Normalized(r) => Written(r, Len(audios[r]))
ClientReady(p) == client[p].at # "off" =>
    /\ client[p].attempt = 2 => Written(p[1], Len(client[p].paths))
    /\ \A i \in DOMAIN client[p].paths : client[p].paths[i] # Missing
JobReady == job # NoJob => Written(JobRun, posted[job.of]) /\ job.audio # Missing
ReadyOK ==
    /\ \A r \in Runs : RunnerReady(r)
    /\ \A p \in Clients : ClientReady(p)
    /\ \A p \in waiting : Written(p[1], posted[p])
    /\ JobReady

\* Clients and jobs have heard what is there to be heard: a client of its files, the job at
\* least something of the first chunk of every source it is through with.
HeardOK == \A p \in Clients :
    client[p].at # "off" => /\ client[p].source \in DOMAIN client[p].paths
                            /\ client[p].heard \subseteq DOMAIN client[p].paths
Begun(text) == text[1] # Missing
BegunOK ==
    job # NoJob =>
        /\ job.at = "chunk" /\ job.chunk = 1 => job.had = chunks[JobRun][job.source]
        /\ job.at = "chunk" /\ job.chunk # 1 => Begun(chunks[JobRun][job.source]) /\ Begun(job.now)
        /\ job.at # "chunk" => job.texts # <<>>
        /\ \A i \in 1 .. Len(job.texts) : Begun(job.texts[i])

CloudOK(r) == runner[r].at \in {"gate", "client"} => runner[r].provider # Local

\* Whoever is at work for a run, its runner waits for it.
OneAtWork(r) ==
    /\ \A p \in Clients :
         p[1] = r /\ client[p].at # "off" => p = JobOf(r) /\ runner[r].at = "client"
    /\ job # NoJob /\ JobRun = r =>
         runner[r].at = "posted" /\ job.of = JobOf(r) /\ job.of \notin waiting
    /\ \A j \in waiting : j[1] = r => runner[r].at = "posted" /\ j = JobOf(r)

\* What goes to the cache is complete.
CopyingOut(r) ==
    /\ runner[r].at \in {"transcript-out", "evidence-out", "summary-out"} =>
         completeAsrSummary(artifacts[r])
    /\ runner[r].at \in {"evidence-out", "summary-out"} => r \in writers[KeyOf(r)]

\* An entry with one writer is its artifacts, as far as it has come; and those do not change.
Rests == {"completed", "crashed", "idle", "lookup", "skipped"}
Quiet(q, k) ==
    /\ completeAsrSummary(artifacts[q]) /\ Complete(artifacts[q])
    /\ \/ runner[q].at \in {"evidence-out", "summary-out"} /\ KeyOf(q) = k
       \/ runner[q].at \in Rests
CopyOf(k, q) ==
    /\ cache[k].transcript = artifacts[q].transcript
    /\ cache[k].evidence \in {NoTexts, artifacts[q].evidence}
    /\ runner[q].at = "summary-out" => cache[k].evidence = artifacts[q].evidence
    /\ cache[k].summary = "complete" => cache[k].evidence = artifacts[q].evidence
EntryOK(k) ==
    /\ writers[k] = {} => cache[k] = NoArtifacts
    /\ \A q \in writers[k] : Quiet(q, k) /\ CopyOf(k, q)

\* A summary vouches for what is there, unless it came with the rest from a mixed entry, and
\* there is none while it is being made.
Vouched(r) ==
    artifacts[r].summary = "complete" =>
        \/ completeAsrSummary(artifacts[r]) /\ Complete(artifacts[r])
        \/ runner[r].at = "completed" /\ Mixed(r)
Begins(r) ==
    \/ runner[r].at \in {"transcript-in", "evidence-in", "summary-in", "preflight", "post"}
    \/ runner[r].at = "normalize" /\ runner[r].provider = Local
InTheMaking(r) ==
    \/ Begins(r)
    \/ \E p \in Clients : p[1] = r /\ client[p].at \notin {"off", "done"}
    \/ \E j \in waiting : j[1] = r
    \/ job # NoJob /\ JobRun = r /\ job.at # "done"
NotVouched(r) == InTheMaking(r) => artifacts[r].summary # "complete"
WrittenByClient(r) == \A p \in Clients : p[1] = r =>
    /\ client[p].at \in {"write-evidence", "write-summary"} =>
         artifacts[r].transcript = CloudTexts(p)
    /\ client[p].at = "write-summary" => artifacts[r].evidence = CloudTexts(p)
WrittenByJob(r) == job # NoJob /\ JobRun = r =>
    /\ job.at \in {"write-evidence", "write-summary"} => artifacts[r].transcript = LocalTexts
    /\ job.at = "write-summary" => artifacts[r].evidence = LocalTexts
CopyingIn(r) ==
    runner[r].at \in {"transcript-in", "evidence-in", "summary-in"} /\ ~MixedEntry(KeyOf(r)) =>
        /\ completeAsrSummary(cache[KeyOf(r)])
        /\ runner[r].at # "transcript-in" => artifacts[r].transcript = cache[KeyOf(r)].transcript
        /\ runner[r].at = "summary-in" => artifacts[r].evidence = cache[KeyOf(r)].evidence
RecognisedOnce(r) ==
    Vouched(r) /\ NotVouched(r) /\ WrittenByClient(r) /\ WrittenByJob(r) /\ CopyingIn(r)

OnceOK ==
    /\ HeardOK /\ BegunOK
    /\ \A r \in Runs : CloudOK(r)
    /\ \A r \in Runs : r \notin disturbed => OneAtWork(r) /\ CopyingOut(r) /\ RecognisedOnce(r)
    /\ \A k \in Keys : ~MixedEntry(k) => EntryOK(k)

IInv == TypeOK /\ ReadyOK /\ OnceOK

-----------------------------------------------------------------------------
(* What stays as long as what it is about stays.                           *)

LEMMA ExistingFacts ==
  ASSUME NEW all \in Seq(Nat \ {0}), NEW found \in Existing(all)
  PROVE  /\ found \in Seq(Nat \ {0}) /\ Len(found) \in Nat /\ Len(found) <= Len(all)
         /\ DOMAIN found = 1 .. Len(found)
         /\ \A i \in 1 .. Len(found) : \E j \in DOMAIN all : found[i] = all[j]
  <1>1. PICK n \in 0 .. Len(all) :
          \E at \in [1 .. n -> DOMAIN all] : found = [i \in 1 .. n |-> all[at[i]]]
    BY DEF Existing
  <1>2. n \in Nat /\ n <= Len(all) /\ \A j \in DOMAIN all : all[j] \in Nat \ {0}
    BY <1>1
  <1>3. \A i \in 1 .. n : found[i] \in Nat \ {0} /\ \E j \in DOMAIN all : found[i] = all[j]
    BY <1>1, <1>2
  <1>4. found \in [1 .. n -> Nat \ {0}]
    BY <1>1, <1>3
  <1>5. found \in Seq(Nat \ {0}) /\ Len(found) = n /\ DOMAIN found = 1 .. n
    BY <1>2, <1>4, LenProperties
  <1> QED BY <1>2, <1>3, <1>5

LEMMA AudioFacts ==
  ASSUME task \in Scenarios
  PROVE  /\ task \in Scenario
         /\ \A r \in Runs : /\ Audios(r) \in Seq(Nat \ {0}) /\ Len(Audios(r)) \in Nat
                            /\ Sources(r) = 1 .. Len(Audios(r)) /\ DOMAIN Audios(r) = Sources(r)
                            /\ \A i \in Sources(r) : Audios(r)[i] \in Nat \ {0}
         /\ \A p \in Clients : p[1] \in Runs /\ p \in Runs \X (Nat \ {0})
  <1>1. task \in Scenario
    BY TranscriptionAssumption DEF TranscriptionAssumption
  <1>2. \A r \in Runs : Audios(r) \in Seq(Nat \ {0})
    BY <1>1 DEF Scenario, Audios
  <1>3. \A r \in Runs : /\ Len(Audios(r)) \in Nat
                        /\ Sources(r) = 1 .. Len(Audios(r)) /\ DOMAIN Audios(r) = Sources(r)
                        /\ \A i \in Sources(r) : Audios(r)[i] \in Nat \ {0}
    <2> TAKE r \in Runs
    <2> DEFINE s == Audios(r)
    <2>1. s \in Seq(Nat \ {0})
      BY <1>2
    <2> HIDE DEF s
    <2>2. Len(s) \in Nat /\ DOMAIN s = 1 .. Len(s) /\ \A i \in DOMAIN s : s[i] \in Nat \ {0}
      BY <2>1
    <2> QED BY <2>2 DEF s, Sources
  <1>4. \A p \in Clients : p[1] \in Runs /\ p \in Runs \X (Nat \ {0})
    <2>1. \A r \in Runs : task.executions[r] \in Nat
      BY <1>1 DEF Scenario
    <2> QED BY <2>1 DEF Clients
  <1> QED BY <1>1, <1>2, <1>3, <1>4

LEMMA TaskFacts ==
  ASSUME TypeOK
  PROVE  /\ task \in Scenario
         /\ \A r \in Runs : /\ Audios(r) \in Seq(Nat \ {0}) /\ Len(Audios(r)) \in Nat
                            /\ Sources(r) = 1 .. Len(Audios(r)) /\ DOMAIN Audios(r) = Sources(r)
                            /\ \A i \in Sources(r) : Audios(r)[i] \in Nat \ {0}
         /\ \A p \in Clients : p[1] \in Runs /\ p \in Runs \X (Nat \ {0})
         /\ LostAudios \subseteq Nat \ {0}
         /\ \A r \in Runs : runner[r].at # "idle" =>
              /\ runner[r].provider \in {Cloud, Local}
              /\ KeyOf(r) \in Keys /\ KeyOf(r) = <<runner[r].provider, audios[r]>>
              /\ KeyOf(r)[2] = audios[r]
  <1>1. ASSUME NEW r \in Runs, runner[r].at # "idle"
        PROVE  /\ runner[r].provider \in {Cloud, Local}
               /\ KeyOf(r) \in Keys /\ KeyOf(r) = <<runner[r].provider, audios[r]>>
               /\ KeyOf(r)[2] = audios[r]
    <2>1. runner[r].provider \in {Cloud, Local}
      BY <1>1 DEF TypeOK, RunnerOK, RunnerState
    <2>2. KeyOf(r) = audioCacheKey(runner[r].provider, audios[r])
      BY DEF KeyOf
    <2>3. task \in Scenarios /\ audios[r] \in Existing(task.audios[r])
      BY DEF TypeOK, InputsOK, sourceAudioPaths, Audios
    <2>4. KeyOf(r) \in {audioCacheKey(p, found) : p \in {Cloud, Local}, found \in Existing(task.audios[r])}
      BY <2>1, <2>2, <2>3
    <2>5. KeyOf(r) \in Keys
      <3> DEFINE Of(sc, q) == {audioCacheKey(p, found) : p \in {Cloud, Local}, found \in Existing(sc.audios[q])}
      <3>1. Keys = UNION {Of(sc, q) : sc \in Scenarios, q \in Runs}
        BY DEF Keys
      <3>2. KeyOf(r) \in Of(task, r)
        BY <2>4
      <3> HIDE DEF Of
      <3> QED BY <2>3, <3>1, <3>2
    <2> QED BY <2>1, <2>2, <2>5 DEF audioCacheKey
  <1>2. LostAudios \subseteq Nat \ {0}
    BY AudioFacts DEF LostAudios, TypeOK, HistoryOK
  <1> QED BY <1>1, <1>2, AudioFacts DEF TypeOK

\* What a runner has found is of its run.
LEMMA FoundFacts ==
  ASSUME task \in Scenarios, NEW r \in Runs, NEW found \in sourceAudioPaths(r)
  PROVE  /\ found \in Seq(Nat \ {0}) /\ Len(found) \in Nat /\ Len(found) <= Len(Audios(r))
         /\ DOMAIN found = 1 .. Len(found) /\ DOMAIN found \subseteq Sources(r)
         /\ \A i \in DOMAIN found : found[i] \in Nat \ {0}
         /\ \A i \in DOMAIN found : \E j \in Sources(r) : found[i] = Audios(r)[j]
         /\ r \in shifted => \A i \in DOMAIN found : found[i] \in LostAudios
  <1>1. Audios(r) \in Seq(Nat \ {0}) /\ Sources(r) = 1 .. Len(Audios(r)) /\ DOMAIN Audios(r) = Sources(r)
    BY AudioFacts
  <1>2. found \in Existing(Audios(r))
    BY DEF sourceAudioPaths
  <1> DEFINE all == Audios(r)
  <1>3. all \in Seq(Nat \ {0}) /\ found \in Existing(all)
    BY <1>1, <1>2
  <1> HIDE DEF all
  <1>4. /\ found \in Seq(Nat \ {0}) /\ Len(found) \in Nat /\ Len(found) <= Len(all)
        /\ DOMAIN found = 1 .. Len(found) /\ Len(all) \in Nat
        /\ \A i \in 1 .. Len(found) : \E j \in DOMAIN all : found[i] = all[j]
    BY <1>3, ExistingFacts
  <1>5. \A i \in DOMAIN found : found[i] \in Nat \ {0}
    BY <1>4
  <1>6. 1 .. Len(found) \subseteq 1 .. Len(all)
    BY <1>4
  <1>7. \A i \in DOMAIN found : \E j \in Sources(r) : found[i] = Audios(r)[j]
    BY <1>1, <1>4 DEF all
  <1>8. r \in shifted => \A j \in Sources(r) : Audios(r)[j] \in LostAudios
    BY DEF LostAudios
  <1> QED BY <1>1, <1>4, <1>5, <1>6, <1>7, <1>8 DEF all

\* Runs join those whose places have shifted, and what there is stays theirs.
Shifts ==
    /\ task' = task
    /\ shifted \subseteq shifted'
    /\ \A k \in Keys : writers[k] \subseteq writers'[k]

LEMMA AudiosGrow ==
  ASSUME TypeOK, Shifts
  PROVE  /\ LostAudios \subseteq LostAudios'
         /\ Clients' = Clients
         /\ \A r \in Runs : /\ Audios(r)' = Audios(r) /\ Sources(r)' = Sources(r)
                            /\ sourceAudioPaths(r)' = sourceAudioPaths(r)
                            /\ r \in shifted' => \A i \in Sources(r) : Audios(r)[i] \in LostAudios'
                            /\ \A i \in Sources(r) : MayBe(Audios(r)[i], r \in shifted)
                                                      \subseteq MayBe(Audios(r)[i], r \in shifted)'
  <1>1. \A r : Audios(r)' = Audios(r) /\ Sources(r)' = Sources(r)
    BY DEF Shifts, Audios, Sources
  <1>2. LostAudios \subseteq LostAudios'
    BY <1>1 DEF LostAudios, Shifts
  <1>3. Clients' = Clients
    BY DEF Clients, Shifts
  <1>4. \A r \in Runs : sourceAudioPaths(r)' = sourceAudioPaths(r)
    BY <1>1 DEF sourceAudioPaths
  <1>5. \A r \in Runs : r \in shifted' => \A i \in Sources(r) : Audios(r)[i] \in LostAudios'
    BY <1>1 DEF LostAudios
  <1>6. ASSUME NEW r \in Runs, NEW i \in Sources(r)
        PROVE  MayBe(Audios(r)[i], r \in shifted) \subseteq MayBe(Audios(r)[i], r \in shifted)'
    <2>1. r \in shifted => r \in shifted'
      BY DEF Shifts
    <2> QED BY <1>1, <1>2, <1>5, <2>1 DEF MayBe
  <1> QED BY <1>1, <1>2, <1>3, <1>4, <1>5, <1>6

\* Texts that are of somebody's own audios stay so.
LEMMA OwnGrows ==
  ASSUME NEW texts \in Texts, NEW all \in Seq(Nat \ {0}), NEW lost \in BOOLEAN, NEW more \in BOOLEAN,
         HasOwn(texts, all, lost), lost => more, LostAudios \subseteq LostAudios',
         more /\ ~lost => \A i \in DOMAIN all : all[i] \in LostAudios'
  PROVE  HasOwn(texts, all, more)'
  <1>1. CASE texts = NoTexts
    BY <1>1 DEF HasOwn
  <1>2. CASE texts # NoTexts
    <2>1. /\ ~lost => Len(texts.texts) = Len(all)
          /\ \A i \in DOMAIN texts.texts, c \in Chunks :
               texts.texts[i][c] \in MayBe(all[i], lost) \cup {Missing, Failed}
      BY <1>2 DEF HasOwn
    <2>2. ~lost => DOMAIN texts.texts = DOMAIN all
      <3> DEFINE t == texts.texts
      <3>1. t \in Seq(Text) /\ (~lost => Len(t) = Len(all))
        BY <2>1 DEF Texts
      <3> HIDE DEF t
      <3>2. DOMAIN t = 1 .. Len(t) /\ DOMAIN all = 1 .. Len(all)
        BY <3>1
      <3> QED BY <3>1, <3>2 DEF t
    <2>3. \A i \in DOMAIN texts.texts : MayBe(all[i], lost) \subseteq MayBe(all[i], more)'
      BY <2>2 DEF MayBe
    <2>4. ~more => Len(texts.texts) = Len(all)
      BY <2>1
    <2> QED BY <2>1, <2>3, <2>4 DEF HasOwn
  <1> QED BY <1>1, <1>2

LEMMA OwnArtifactsGrow ==
  ASSUME NEW a, NEW all \in Seq(Nat \ {0}), NEW lost \in BOOLEAN, NEW more \in BOOLEAN,
         OwnArtifacts(a, all, lost), lost => more, LostAudios \subseteq LostAudios',
         more /\ ~lost => \A i \in DOMAIN all : all[i] \in LostAudios'
  PROVE  OwnArtifacts(a, all, more)'
  <1>1. a.transcript \in Texts /\ a.evidence \in Texts
    BY DEF OwnArtifacts, Artifacts
  <1> QED BY <1>1, OwnGrows DEF OwnArtifacts

\* The artifacts of a run, those of an entry, and the job, as they are.
LEMMA ArtifactsHeld ==
  ASSUME TypeOK, Shifts, NEW r \in Runs, NEW a, a = artifacts[r]
  PROVE  OwnArtifacts(a, Audios(r), r \in shifted)'
  <1>2. PICK all : all = Audios(r)
    OBVIOUS
  <1>3. PICK lost \in BOOLEAN : lost = (r \in shifted)
    <2>1. (r \in shifted) \in BOOLEAN
      OBVIOUS
    <2> QED BY <2>1
  <1>4. PICK more \in BOOLEAN : more = (r \in shifted')
    <2>1. (r \in shifted') \in BOOLEAN
      OBVIOUS
    <2> QED BY <2>1
  <1>5. OwnArtifacts(a, all, lost)
    BY <1>2, <1>3 DEF TypeOK, ArtifactsOK
  <1>6. all \in Seq(Nat \ {0}) /\ DOMAIN all = Sources(r)
    BY <1>2, TaskFacts
  <1>7. /\ lost => more
        /\ LostAudios \subseteq LostAudios'
        /\ more => \A i \in DOMAIN all : all[i] \in LostAudios'
    BY <1>2, <1>3, <1>4, <1>6, AudiosGrow DEF Shifts
  <1>8. OwnArtifacts(a, all, more)'
    BY <1>5, <1>6, <1>7, OwnArtifactsGrow
  <1>9. all = Audios(r)'
    BY <1>2, AudiosGrow
  <1> QED BY <1>4, <1>8, <1>9

LEMMA ArtifactsStay ==
  ASSUME TypeOK, Shifts, NEW r \in Runs, artifacts'[r] = artifacts[r]
  PROVE  OwnArtifacts(artifacts[r], Audios(r), r \in shifted)'
  <1>1. PICK a : a = artifacts[r]
    OBVIOUS
  <1>2. OwnArtifacts(a, Audios(r), r \in shifted)'
    BY <1>1, ArtifactsHeld
  <1>3. a = artifacts'[r]
    BY <1>1
  <1> QED BY <1>2, <1>3

\* What a key says of its audios.
LEMMA KeyFacts ==
  ASSUME TypeOK, NEW k \in Keys
  PROVE  /\ k[2] \in Seq(Nat \ {0})
         /\ \A q \in writers[k] : q \in Runs /\ \A i \in DOMAIN k[2] : \E j \in Sources(q) : k[2][i] = Audios(q)[j]
         /\ LostEntry(k) => \A i \in DOMAIN k[2] : k[2][i] \in LostAudios
  <1>1. PICK sc \in Scenarios, q \in Runs :
          k \in {audioCacheKey(p, found) : p \in {Cloud, Local}, found \in Existing(sc.audios[q])}
    <2> DEFINE Of(sc, q) == {audioCacheKey(p, found) : p \in {Cloud, Local}, found \in Existing(sc.audios[q])}
    <2>1. Keys = UNION {Of(sc, q) : sc \in Scenarios, q \in Runs}
      BY DEF Keys
    <2>2. \E sc \in Scenarios, q \in Runs : k \in Of(sc, q)
      <3> HIDE DEF Of
      <3> QED BY <2>1
    <2> QED BY <2>2
  <1>2. k[2] \in Existing(sc.audios[q])
    BY <1>1 DEF audioCacheKey
  <1>3. sc.audios[q] \in Seq(Nat \ {0})
    BY TranscriptionAssumption DEF TranscriptionAssumption, Scenario
  <1>4. k[2] \in Seq(Nat \ {0})
    BY <1>2, <1>3, ExistingFacts
  <1>5. \A w \in writers[k] : w \in Runs /\ k[2] \in sourceAudioPaths(w)
    BY DEF TypeOK, HistoryOK
  <1>6. \A w \in writers[k] : /\ \A i \in DOMAIN k[2] : \E j \in Sources(w) : k[2][i] = Audios(w)[j]
                              /\ w \in shifted => \A i \in DOMAIN k[2] : k[2][i] \in LostAudios
    BY <1>5, FoundFacts DEF TypeOK
  <1> QED BY <1>4, <1>5, <1>6 DEF LostEntry

LEMMA EntryHeld ==
  ASSUME TypeOK, Shifts, NEW k \in Keys, NEW a, a = cache[k],
         \A q \in writers'[k] \ writers[k] :
           /\ q \in Runs
           /\ \A i \in DOMAIN k[2] : \E j \in Sources(q) : k[2][i] = Audios(q)[j]
  PROVE  OwnArtifacts(a, k[2], LostEntry(k))'
  <1>3. PICK lost \in BOOLEAN : lost = LostEntry(k)
    BY DEF LostEntry
  <1>4. PICK more \in BOOLEAN : more = LostEntry(k)'
    BY DEF LostEntry
  <1>5. OwnArtifacts(a, k[2], lost)
    BY <1>3 DEF TypeOK, CacheOK
  <1>6. k[2] \in Seq(Nat \ {0})
    BY KeyFacts
  <1>7. lost => more
    BY <1>3, <1>4 DEF LostEntry, Shifts
  <1>8. more => \A i \in DOMAIN k[2] : k[2][i] \in LostAudios'
    <2> SUFFICES ASSUME more PROVE \A i \in DOMAIN k[2] : k[2][i] \in LostAudios'
      OBVIOUS
    <2>1. PICK q : q \in writers'[k] /\ q \in shifted'
      BY <1>4 DEF LostEntry
    <2>2. q \in Runs /\ \A i \in DOMAIN k[2] : \E j \in Sources(q) : k[2][i] = Audios(q)[j]
      BY <2>1, KeyFacts
    <2> QED BY <2>1, <2>2, AudiosGrow
  <1>9. OwnArtifacts(a, k[2], more)'
    BY <1>5, <1>6, <1>7, <1>8, AudiosGrow, OwnArtifactsGrow
  <1> QED BY <1>4, <1>9

LEMMA EntryStays ==
  ASSUME TypeOK, Shifts, NEW k \in Keys, cache'[k] = cache[k],
         \A q \in writers'[k] \ writers[k] :
           /\ q \in Runs
           /\ \A i \in DOMAIN k[2] : \E j \in Sources(q) : k[2][i] = Audios(q)[j]
  PROVE  OwnArtifacts(cache[k], k[2], LostEntry(k))'
  <1>1. PICK a : a = cache[k]
    OBVIOUS
  <1>2. OwnArtifacts(a, k[2], LostEntry(k))'
    BY <1>1, EntryHeld
  <1> QED BY <1>1, <1>2

LEMMA JobStays ==
  ASSUME TypeOK, Shifts, job # NoJob, job' = job
  PROVE  JobIs(job)'
  <1> DEFINE r == job.of[1]
  <1>1. /\ job \in JobState /\ job.of \in Clients
        /\ job.source \in Sources(r)
        /\ job.audio \in MayBe(Audios(r)[job.source], r \in shifted) \cup {Missing}
        /\ job.had \in Own(Audios(r)[job.source], r \in shifted)
        /\ job.now \in Own(Audios(r)[job.source], r \in shifted)
        /\ job.at = "chunk" => Len(job.texts) = job.source - 1
        /\ job.at # "chunk" /\ r \notin shifted => Len(job.texts) = Len(Audios(r))
        /\ \A i \in 1 .. Len(job.texts) : job.texts[i] \in Own(Audios(r)[i], r \in shifted)
    BY DEF TypeOK, ServiceOK, JobIs
  <1>2. r \in Runs /\ Sources(r) = 1 .. Len(Audios(r)) /\ Len(Audios(r)) \in Nat
    BY <1>1, TaskFacts
  <1>3. r \in shifted => r \in shifted'
    BY DEF Shifts
  <1>4. \A i \in Sources(r) : Own(Audios(r)[i], r \in shifted) \subseteq Own(Audios(r)[i], r \in shifted)'
    BY <1>2, AudiosGrow DEF Own
  <1>5. ASSUME NEW i \in 1 .. Len(job.texts)
        PROVE  job.texts[i] \in Own(Audios(r)[i], r \in shifted)'
    <2>1. CASE i \in Sources(r)
      BY <1>1, <1>4, <2>1
    <2>2. CASE i \notin Sources(r)
      <3>1. r \in shifted
        <4> DEFINE s == job.texts
        <4>1. s \in Seq(Text) /\ job.source \in Sources(r) /\ i \in 1 .. Len(s)
          BY <1>1 DEF JobState
        <4> HIDE DEF s
        <4>2. Len(s) \in Nat /\ i \in Nat /\ i >= 1 /\ i <= Len(s)
          BY <4>1
        <4>3. i > Len(Audios(r)) /\ job.source <= Len(Audios(r)) /\ job.source \in Nat
          BY <1>2, <2>2, <4>1, <4>2
        <4> QED BY <1>1, <1>2, <4>2, <4>3 DEF s
      <3> QED BY <1>1, <1>3, <3>1, AudiosGrow DEF Own, MayBe
    <2> QED BY <2>1, <2>2
  <1>6. job.audio \in MayBe(Audios(r)[job.source], r \in shifted)' \cup {Missing}
    BY <1>1, <1>2, AudiosGrow
  <1>7. Sources(r)' = Sources(r) /\ Audios(r)' = Audios(r) /\ Clients' = Clients
    BY <1>2, AudiosGrow
  <1> HIDE DEF r
  <1> QED
    <2>1. r' = r /\ r = job.of[1]
      BY DEF r
    <2> QED BY <1>1, <1>3, <1>4, <1>5, <1>6, <1>7, <2>1 DEF JobIs

LEMMA Unchanged ==
  ASSUME TypeOK, Shifts
  PROVE  /\ task' \in Scenarios
         /\ UNCHANGED runner => RunnerOK'
         /\ UNCHANGED inputs => InputsOK'
         /\ UNCHANGED client => ClientOK'
         /\ UNCHANGED result => ResultOK'
         /\ UNCHANGED artifacts => ArtifactsOK'
         /\ UNCHANGED <<cache, writers>> => CacheOK'
         /\ UNCHANGED chunks => ChunksOK'
         /\ UNCHANGED <<localService, posted>> => ServiceOK'
         /\ UNCHANGED bounds => BoundsOK'
         /\ UNCHANGED history => HistoryOK'
  <1> USE DEF TypeOK
  <1>1. task' \in Scenarios
    BY DEF Shifts
  <1>2. UNCHANGED runner => RunnerOK'
    BY AudiosGrow DEF RunnerOK, JobOf
  <1>3. UNCHANGED inputs => InputsOK'
    <2> SUFFICES ASSUME UNCHANGED inputs PROVE InputsOK'
      OBVIOUS
    <2>1. UNCHANGED <<audios, normalized, posted>>
      BY DEF inputs
    <2>2. \A r : r \notin shifted' => r \notin shifted
      BY DEF Shifts
    <2>3. /\ \A r \in Runs : /\ audios'[r] \in sourceAudioPaths(r)'
                             /\ r \notin shifted' => audios'[r] = Audios(r)'
                             /\ Audios(r)' # <<>> => audios'[r] # <<>>
          /\ audios' = [r \in Runs |-> audios'[r]]
      BY <2>1, <2>2, AudiosGrow DEF InputsOK
    <2>4. /\ normalized' = [r \in Runs |-> [i \in Sources(r)' |-> normalized'[r][i]]]
          /\ \A r \in Runs : \A i \in Sources(r)' :
               normalized'[r][i] \in MayBe(Audios(r)[i], r \in shifted)' \cup {Missing}
      BY <2>1, AudiosGrow DEF InputsOK
    <2>5. /\ posted' \in [Clients' -> Nat]
          /\ \A p \in Clients' :
               /\ posted'[p] <= Len(Audios(p[1]))'
               /\ p[1] \notin shifted' => posted'[p] \in {0, Len(Audios(p[1]))'}
      BY <2>1, <2>2, AudiosGrow, TaskFacts DEF InputsOK
    <2> QED BY <2>3, <2>4, <2>5 DEF InputsOK
  <1>4. UNCHANGED client => ClientOK'
    <2> SUFFICES ASSUME UNCHANGED client PROVE ClientOK'
      OBVIOUS
    <2>1. ASSUME NEW p \in Clients, PathsOK(client[p], p[1]) PROVE PathsOK(client[p], p[1])'
      <3>1. p[1] \in Runs /\ Sources(p[1]) = 1 .. Len(Audios(p[1])) /\ Len(Audios(p[1])) \in Nat
        BY TaskFacts
      <3>2. DOMAIN client[p].paths \subseteq Sources(p[1])
        <4> DEFINE s == client[p].paths
        <4>1. s \in Seq(Nat) /\ Len(s) <= Len(Audios(p[1]))
          BY <2>1 DEF ClientOK, ClientState, PathsOK
        <4> HIDE DEF s
        <4>2. DOMAIN s = 1 .. Len(s) /\ Len(s) \in Nat
          BY <4>1
        <4> QED BY <3>1, <4>1, <4>2 DEF s
      <3>3. p[1] \notin shifted' => p[1] \notin shifted
        BY DEF Shifts
      <3> QED BY <2>1, <3>1, <3>2, <3>3, AudiosGrow DEF PathsOK
    <2> QED BY <2>1, AudiosGrow DEF ClientOK
  <1>5. UNCHANGED result => ResultOK'
    BY DEF ResultOK
  <1>6. UNCHANGED artifacts => ArtifactsOK'
    <2> SUFFICES ASSUME UNCHANGED artifacts PROVE ArtifactsOK'
      OBVIOUS
    <2>1. ASSUME NEW r \in Runs PROVE OwnArtifacts(artifacts[r], Audios(r), r \in shifted)'
      BY ArtifactsStay
    <2> QED BY <2>1 DEF ArtifactsOK
  <1>7. UNCHANGED <<cache, writers>> => CacheOK'
    BY EntryStays DEF CacheOK
  <1>8. UNCHANGED chunks => ChunksOK'
    BY AudiosGrow DEF ChunksOK, Own
  <1>9. UNCHANGED <<localService, posted>> => ServiceOK'
    BY JobStays, AudiosGrow DEF ServiceOK, localService
  <1>10. UNCHANGED bounds => BoundsOK'
    BY DEF BoundsOK, bounds
  <1>11. UNCHANGED history => HistoryOK'
    BY AudiosGrow DEF HistoryOK, history
  <1> QED BY <1>1, <1>2, <1>3, <1>4, <1>5, <1>6, <1>7, <1>8, <1>9, <1>10, <1>11

\* A runner goes on.
LEMMA RunnerMoves ==
  ASSUME TypeOK, task' = task, NEW r \in Runs, NEW m \in RunnerState,
         runner' = [runner EXCEPT ![r] = m],
         <<r, m.execution>> \in Clients,
         m.at # "idle" => m.provider # None,
         m.at \notin {"idle", "skipped"} => Audios(r) # <<>>
  PROVE  RunnerOK'
  <1>1. runner \in [Runs -> RunnerState] /\ \A q \in Runs : JobOf(q) \in Clients
    BY DEF TypeOK, RunnerOK
  <1>2. runner' \in [Runs -> RunnerState]
    BY <1>1
  <1>3. \A q \in Runs : q # r => runner'[q] = runner[q]
    BY <1>1
  <1>4. runner'[r] = m
    BY <1>1
  <1>5. Clients' = Clients /\ \A q \in Runs : Audios(q)' = Audios(q)
    BY DEF Audios, Clients
  <1>6. \A q \in Runs : JobOf(q)' \in Clients'
    BY <1>1, <1>3, <1>4, <1>5 DEF JobOf
  <1> QED BY <1>2, <1>3, <1>4, <1>5, <1>6 DEF TypeOK, RunnerOK

LEMMA RunnerGoes ==
  ASSUME TypeOK, task' = task, NEW r \in Runs, runner[r].at \notin {"idle", "skipped"},
         NEW stage \in RunnerStages \ {"idle"}, Goes(r, stage)
  PROVE  RunnerOK'
  <1> DEFINE m == [runner[r] EXCEPT !.at = stage]
  <1>1. runner[r] \in RunnerState
    BY DEF TypeOK, RunnerOK
  <1>2. /\ m \in RunnerState /\ m.at = stage /\ m.provider = runner[r].provider
        /\ m.execution = runner[r].execution
    BY <1>1 DEF RunnerState
  <1>3. runner' = [runner EXCEPT ![r] = m]
    BY DEF Goes
  <1>4. runner[r].provider # None /\ Audios(r) # <<>> /\ <<r, runner[r].execution>> \in Clients
    BY DEF TypeOK, RunnerOK, JobOf
  <1> HIDE DEF m
  <1> QED BY <1>2, <1>3, <1>4, RunnerMoves

LEMMA ClientMoves ==
  ASSUME TypeOK, task' = task, shifted' = shifted, NEW p \in Clients, NEW c \in ClientState,
         PathsOK(c, p[1]), client' = [client EXCEPT ![p] = c]
  PROVE  ClientOK'
  <1>1. Clients' = Clients /\ \A q : Audios(q)' = Audios(q) /\ Sources(q)' = Sources(q)
    BY DEF Clients, Audios, Sources
  <1>2. client \in [Clients -> ClientState] /\ \A q \in Clients : PathsOK(client[q], q[1])
    BY DEF TypeOK, ClientOK
  <1>3. /\ client' \in [Clients -> ClientState] /\ client'[p] = c
        /\ \A q \in Clients : q # p => client'[q] = client[q]
    BY <1>2
  <1>4. LostAudios' = LostAudios
    BY <1>1 DEF LostAudios
  <1>5. \A q \in Clients : PathsOK(client'[q], q[1])
    BY <1>2, <1>3
  <1>6. \A q \in Clients : PathsOK(client[q], q[1])'
    BY <1>1, <1>4, <1>5 DEF PathsOK, MayBe
  <1> QED BY <1>1, <1>3, <1>6 DEF ClientOK

LEMMA ClientsGo ==
  ASSUME TypeOK, task' = task, shifted' = shifted, NEW p \in Clients, client[p].at # "off",
         NEW stage, stage \in {"off", "plan", "prepare", "upload", "submit", "poll", "download",
                               "connect", "open", "started", "write-transcript", "write-evidence",
                               "write-summary", "done"},
         ClientGoes(p, stage)
  PROVE  ClientOK'
  <1> DEFINE c == [client[p] EXCEPT !.at = stage]
  <1>1. c \in ClientState /\ c.paths = client[p].paths
    BY DEF TypeOK, ClientOK, ClientState
  <1>2. client' = [client EXCEPT ![p] = c]
    BY DEF ClientGoes
  <1>3. PathsOK(client[p], p[1])
    BY DEF TypeOK, ClientOK
  <1> HIDE DEF c
  <1>4. PathsOK(c, p[1])
    BY <1>1, <1>3 DEF PathsOK
  <1> QED BY <1>1, <1>2, <1>4, ClientMoves

LEMMA NoClientState ==
  ASSUME task \in Scenarios, NEW r \in Runs
  PROVE  NoClient \in ClientState /\ PathsOK(NoClient, r)
  <1>1. NoClient \in ClientState /\ NoClient.paths = <<>> /\ NoClient.at = "off"
    BY DEF NoClient, ClientState
  <1>2. Len(<<>>) = 0 /\ DOMAIN <<>> = {} /\ Len(Audios(r)) \in Nat
    BY AudioFacts
  <1> QED BY <1>1, <1>2 DEF PathsOK

\* A result of a run.
LEMMA ResultWritten ==
  ASSUME TypeOK, NEW r, NEW why \in {"completed"} \cup Reasons,
         result' = [result EXCEPT ![r] = why]
  PROVE  ResultOK'
  BY DEF TypeOK, ResultOK

\* A part of the artifacts of a run.
Part(part, value, all, lost) ==
    \/ part \in {"transcript", "evidence"} /\ value \in Texts /\ HasOwn(value, all, lost)
    \/ part = "summary" /\ value \in {None, "complete", "needs_review"}

PartType(part, value) ==
    \/ part \in {"transcript", "evidence"} /\ value \in Texts
    \/ part = "summary" /\ value \in {None, "complete", "needs_review"}

LEMMA PartReplaced ==
  ASSUME NEW a \in Artifacts, NEW part, NEW value, PartType(part, value)
  PROVE  /\ [a EXCEPT ![part] = value] \in Artifacts
         /\ [a EXCEPT ![part] = value].transcript = IF part = "transcript" THEN value ELSE a.transcript
         /\ [a EXCEPT ![part] = value].evidence = IF part = "evidence" THEN value ELSE a.evidence
  <1>1. CASE part = "transcript"
    BY <1>1 DEF Artifacts, PartType
  <1>2. CASE part = "evidence"
    BY <1>2 DEF Artifacts, PartType
  <1>3. CASE part = "summary"
    BY <1>3 DEF Artifacts, PartType
  <1> QED BY <1>1, <1>2, <1>3 DEF PartType

LEMMA PartPut ==
  ASSUME NEW a, NEW part, NEW value, NEW all, NEW lost,
         OwnArtifacts(a, all, lost)', Part(part, value, all, lost)'
  PROVE  OwnArtifacts([a EXCEPT ![part] = value], all, lost)'
  <1> DEFINE b == [a EXCEPT ![part] = value]
  <1>1. a \in Artifacts /\ PartType(part, value)
    BY DEF OwnArtifacts, Part, PartType
  <1>2. /\ b \in Artifacts
        /\ b.transcript = IF part = "transcript" THEN value ELSE a.transcript
        /\ b.evidence = IF part = "evidence" THEN value ELSE a.evidence
    BY <1>1, PartReplaced
  <1> HIDE DEF b
  <1>3. b' = b
    BY DEF b
  <1>4. OwnArtifacts(b, all, lost)'
    BY <1>2, <1>3 DEF OwnArtifacts, Part
  <1> QED BY <1>3, <1>4 DEF b

LEMMA PartWritten ==
  ASSUME TypeOK, Shifts, NEW r \in Runs, NEW part, NEW value,
         Part(part, value, Audios(r), r \in shifted)', Writes(r, part, value)
  PROVE  ArtifactsOK'
  <1>1. PICK a : a = artifacts[r]
    OBVIOUS
  <1>2. artifacts = [q \in Runs |-> artifacts[q]] /\ artifacts[r] = a
    BY <1>1 DEF TypeOK, ArtifactsOK
  <1>3. /\ artifacts' = [q \in Runs |-> artifacts'[q]]
        /\ artifacts'[r] = [a EXCEPT ![part] = value]
        /\ \A q \in Runs : q # r => artifacts'[q] = artifacts[q]
    BY <1>2 DEF Writes
  <1>4. OwnArtifacts(a, Audios(r), r \in shifted)'
    BY <1>1, ArtifactsHeld
  <1>5. OwnArtifacts([a EXCEPT ![part] = value], Audios(r), r \in shifted)'
    <2>1. PICK all : all = Audios(r)
      OBVIOUS
    <2>2. PICK lost \in BOOLEAN : lost = (r \in shifted')
      <3>1. (r \in shifted') \in BOOLEAN
        OBVIOUS
      <3> QED BY <3>1
    <2>3. all = Audios(r)'
      BY <2>1, AudiosGrow
    <2>4. OwnArtifacts(a, all, lost)' /\ Part(part, value, all, lost)'
      BY <1>4, <2>2, <2>3
    <2>5. OwnArtifacts([a EXCEPT ![part] = value], all, lost)'
      BY <2>4, PartPut
    <2> QED BY <2>2, <2>3, <2>5
  <1>6. ASSUME NEW q \in Runs PROVE OwnArtifacts(artifacts[q], Audios(q), q \in shifted)'
    BY <1>3, <1>5, ArtifactsStay
  <1> QED BY <1>3, <1>6 DEF ArtifactsOK

-----------------------------------------------------------------------------
(* The steps of a runner.                                                  *)

\* The steps that change the runner and nothing that has a text or a client.
LEMMA RunnerOnly ==
  ASSUME TypeOK, Shifts, RunnerOK', UNCHANGED <<client, result, artifacts, chunks, cache, writers>>,
         UNCHANGED inputs \/ InputsOK', UNCHANGED <<localService, posted>> \/ ServiceOK',
         UNCHANGED bounds \/ BoundsOK', UNCHANGED history \/ HistoryOK'
  PROVE  TypeOK'
  <1>1. /\ InputsOK' /\ task' \in Scenarios /\ ClientOK' /\ ResultOK' /\ ArtifactsOK' /\ CacheOK' /\ ChunksOK'
        /\ ServiceOK' /\ BoundsOK' /\ HistoryOK'
    BY Unchanged
  <1> QED BY <1>1 DEF TypeOK

LEMMA NoShift == UNCHANGED <<task, shifted, writers>> => Shifts
  BY DEF Shifts

LEMMA TroubleTypes ==
  ASSUME TypeOK, kills' = kills, UNCHANGED trouble \/ Trouble
  PROVE  BoundsOK'
  BY DEF TypeOK, BoundsOK, Trouble

LEMMA KillTypes ==
  ASSUME TypeOK, kills < task.kills, kills' = kills + 1, trouble' = trouble
  PROVE  BoundsOK'
  BY DEF TypeOK, BoundsOK

LEMMA CloudFailsTypes ==
  ASSUME TypeOK, task' = task, NEW r \in Runs, runner[r].at \notin {"idle", "skipped"},
         NEW why, CloudFails(r, why)
  PROVE  RunnerOK'
  <1> DEFINE m == IF why = "format" /\ runner[r].attempt = 1
                  THEN [runner[r] EXCEPT !.at = "normalize"]
                  ELSE IF task.fallback /\ why # "auth"
                  THEN [runner[r] EXCEPT !.at = "fallback"]
                  ELSE [runner[r] EXCEPT !.at = "blocked"]
  <1>1. /\ runner[r] \in RunnerState /\ runner[r].provider # None /\ Audios(r) # <<>>
        /\ <<r, runner[r].execution>> \in Clients
    BY DEF TypeOK, RunnerOK, JobOf
  <1>2. m \in RunnerState /\ m.provider # None /\ m.execution = runner[r].execution
    BY <1>1 DEF RunnerState, RunnerStages, None
  <1>3. runner' = [runner EXCEPT ![r] = m]
    BY DEF CloudFails
  <1> HIDE DEF m
  <1> QED BY <1>1, <1>2, <1>3, RunnerMoves

\* The list of a run's audios is read.
LEMMA FindsTypes ==
  ASSUME TypeOK, NEW r \in Runs, NEW found \in sourceAudioPaths(r), Finds(r, found),
         UNCHANGED <<task, normalized, posted, writers, disturbed, kills>>
  PROVE  Shifts /\ InputsOK' /\ HistoryOK' /\ BoundsOK'
  <1>1. /\ audios' = [audios EXCEPT ![r] = IF found = <<>> THEN audios[r] ELSE found]
        /\ shifted' = IF found \in {<<>>, Audios(r)} THEN shifted ELSE shifted \cup {r}
        /\ UNCHANGED trouble \/ Trouble
    BY DEF Finds, Outcome
  <1>2. Shifts
    BY <1>1 DEF Shifts
  <1>3. BoundsOK'
    BY <1>1, TroubleTypes
  <1>4. HistoryOK'
    BY <1>1, <1>2, AudiosGrow DEF TypeOK, HistoryOK
  <1>5. /\ audios = [q \in Runs |-> audios[q]]
        /\ \A q \in Runs : /\ audios[q] \in sourceAudioPaths(q)
                           /\ q \notin shifted => audios[q] = Audios(q)
                           /\ Audios(q) # <<>> => audios[q] # <<>>
    BY DEF TypeOK, InputsOK
  <1>6. /\ audios' = [q \in Runs |-> audios'[q]]
        /\ audios'[r] = IF found = <<>> THEN audios[r] ELSE found
        /\ \A q \in Runs : q # r => audios'[q] = audios[q]
    BY <1>1, <1>5
  <1>7. ASSUME NEW q \in Runs
        PROVE  /\ audios'[q] \in sourceAudioPaths(q)'
               /\ q \notin shifted' => audios'[q] = Audios(q)'
               /\ Audios(q)' # <<>> => audios'[q] # <<>>
    <2>1. q \notin shifted' => q \notin shifted
      BY <1>1
    <2>2. sourceAudioPaths(q)' = sourceAudioPaths(q) /\ Audios(q)' = Audios(q)
      BY <1>2, AudiosGrow
    <2>3. CASE q # r
      BY <1>5, <1>6, <2>1, <2>2, <2>3
    <2>4. CASE q = r
      BY <1>1, <1>5, <1>6, <2>1, <2>2, <2>4
    <2> QED BY <2>3, <2>4
  <1>8. /\ normalized' = [q \in Runs |-> [i \in Sources(q)' |-> normalized'[q][i]]]
        /\ \A q \in Runs : \A i \in Sources(q)' :
             normalized'[q][i] \in MayBe(Audios(q)[i], q \in shifted)' \cup {Missing}
    BY <1>2, AudiosGrow DEF TypeOK, InputsOK
  <1>9. /\ posted' \in [Clients' -> Nat]
        /\ \A p \in Clients' :
             /\ posted'[p] <= Len(Audios(p[1]))'
             /\ p[1] \notin shifted' => posted'[p] \in {0, Len(Audios(p[1]))'}
    BY <1>1, <1>2, AudiosGrow, TaskFacts DEF TypeOK, InputsOK
  <1>10. InputsOK'
    BY <1>6, <1>7, <1>8, <1>9 DEF InputsOK
  <1> QED BY <1>2, <1>3, <1>4, <1>10

LEMMA BeginSteps ==
  ASSUME TypeOK, NEW r \in Runs, ensureAsrTranscription(r) \/ ensureLocalAsr(r)
  PROVE  TypeOK'
  <1>1. PICK found \in sourceAudioPaths(r), provider \in {Cloud, Local}, none \in {"skipped", "blocked"} :
          /\ Finds(r, found)
          /\ runner' = [runner EXCEPT ![r].provider = provider,
                                      ![r].at = IF found = <<>> THEN none ELSE "lookup"]
          /\ runner[r].at = "idle" => none = "skipped"
    <2>1. task.provider \in {Cloud, Local}
      BY TaskFacts DEF Scenario
    <2>2. CASE ensureAsrTranscription(r)
      BY <2>1, <2>2 DEF ensureAsrTranscription
    <2>3. CASE ensureLocalAsr(r)
      BY <2>3 DEF ensureLocalAsr, At
    <2> QED BY <2>2, <2>3
  <1>2. /\ UNCHANGED <<task, normalized, posted, client, files, localService, kills, writers, disturbed>>
        /\ runner[r].at \in {"idle", "fallback"}
    BY DEF ensureAsrTranscription, ensureLocalAsr, At
  <1>3. Shifts /\ InputsOK' /\ HistoryOK' /\ BoundsOK'
    BY <1>1, <1>2, FindsTypes
  <1> DEFINE m == [runner[r] EXCEPT !.provider = provider,
                                    !.at = IF found = <<>> THEN none ELSE "lookup"]
  <1>4. /\ runner \in [Runs -> RunnerState] /\ runner[r] \in RunnerState
        /\ <<r, runner[r].execution>> \in Clients
        /\ runner[r].at = "fallback" => Audios(r) # <<>>
    BY DEF TypeOK, RunnerOK, JobOf
  <1>5. found # <<>> => Audios(r) # <<>>
    <2>1. /\ found \in Seq(Nat \ {0}) /\ Len(found) \in Nat /\ Len(found) <= Len(Audios(r))
          /\ Audios(r) \in Seq(Nat \ {0})
      BY FoundFacts, TaskFacts DEF TypeOK
    <2> DEFINE all == Audios(r)
    <2>2. all \in Seq(Nat \ {0}) /\ Len(found) <= Len(all)
      BY <2>1
    <2> HIDE DEF all
    <2>3. all = <<>> => found = <<>>
      BY <2>1, <2>2
    <2> QED BY <2>3 DEF all
  <1>6. /\ m \in RunnerState /\ m.provider # None /\ m.execution = runner[r].execution
        /\ m.at \notin {"idle", "skipped"} => Audios(r) # <<>>
    BY <1>1, <1>2, <1>4, <1>5 DEF RunnerState, RunnerStages, Cloud, Local, None
  <1>7. runner' = [runner EXCEPT ![r] = m]
    BY <1>1, <1>4
  <1> HIDE DEF m
  <1>8. RunnerOK'
    BY <1>2, <1>4, <1>6, <1>7, RunnerMoves
  <1> QED BY <1>2, <1>3, <1>8, RunnerOnly DEF files, localService

LEMMA AgainStep == ASSUME TypeOK, NEW r \in Runs, ExecuteAgain(r) PROVE TypeOK'
  <1> DEFINE m == [Idle EXCEPT !.execution = runner[r].execution + 1]
  <1>1. /\ runner' = [runner EXCEPT ![r] = m]
        /\ UNCHANGED <<task, inputs, client, files, localService, bounds, history>>
        /\ runner[r].execution < task.executions[r]
    BY DEF ExecuteAgain
  <1>2. runner[r] \in RunnerState
    BY DEF TypeOK, RunnerOK
  <1>3. m \in RunnerState /\ m.at = "idle" /\ m.execution = runner[r].execution + 1
    BY <1>2 DEF RunnerState, RunnerStages, Idle
  <1>4. <<r, m.execution>> \in Clients
    <2>1. task.executions[r] \in Nat /\ runner[r].execution \in Nat \ {0}
      BY <1>2, TaskFacts DEF Scenario, RunnerState
    <2> DEFINE e == m.execution
    <2>2. e \in 1 .. task.executions[r]
      BY <1>1, <1>3, <2>1
    <2> HIDE DEF e
    <2>3. <<r, e>> \in Clients
      BY <2>2 DEF Clients
    <2> QED BY <2>3 DEF e
  <1> HIDE DEF m
  <1>5. RunnerOK'
    BY <1>1, <1>3, <1>4, RunnerMoves
  <1> QED BY <1>1, <1>5, NoShift, RunnerOnly DEF files, inputs, history

\* Normalised files are written over those there are.
LEMMA NormalizesTypes ==
  ASSUME TypeOK, NEW r \in Runs, NEW n \in 0 .. Len(audios[r]), Normalizes(r, n),
         UNCHANGED <<task, audios, posted, shifted, writers>>
  PROVE  InputsOK'
  <1>1. audios[r] \in sourceAudioPaths(r) /\ (r \notin shifted => audios[r] = Audios(r))
    BY DEF TypeOK, InputsOK
  <1>2. /\ Len(audios[r]) \in Nat /\ DOMAIN audios[r] = 1 .. Len(audios[r])
        /\ r \in shifted => \A i \in DOMAIN audios[r] : audios[r][i] \in LostAudios
    BY <1>1, FoundFacts DEF TypeOK
  <1>3. Sources(r) = 1 .. Len(Audios(r)) /\ Len(Audios(r)) \in Nat
    BY TaskFacts
  <1>4. /\ normalized = [q \in Runs |-> [i \in Sources(q) |-> normalized[q][i]]]
        /\ \A q \in Runs : \A i \in Sources(q) :
             normalized[q][i] \in MayBe(Audios(q)[i], q \in shifted) \cup {Missing}
    BY DEF TypeOK, InputsOK
  <1>5. /\ normalized' = [q \in Runs |-> normalized'[q]]
        /\ normalized'[r] = [i \in DOMAIN normalized[r] |-> IF i <= n THEN audios[r][i] ELSE normalized[r][i]]
        /\ \A q \in Runs : q # r => normalized'[q] = normalized[q]
    BY <1>4 DEF Normalizes
  <1>6. DOMAIN normalized[r] = Sources(r)
    BY <1>4
  <1>7. \A i \in Sources(r) : normalized'[r][i] \in MayBe(Audios(r)[i], r \in shifted) \cup {Missing}
    <2> SUFFICES ASSUME NEW i \in Sources(r)
                 PROVE  normalized'[r][i] \in MayBe(Audios(r)[i], r \in shifted) \cup {Missing}
      OBVIOUS
    <2>1. normalized'[r][i] = IF i <= n THEN audios[r][i] ELSE normalized[r][i]
      BY <1>5, <1>6
    <2>2. i <= n => i \in DOMAIN audios[r]
      BY <1>2, <1>3
    <2>3. i <= n => audios[r][i] \in MayBe(Audios(r)[i], r \in shifted)
      BY <1>1, <1>2, <2>2 DEF MayBe
    <2> QED BY <1>4, <2>1, <2>3
  <1>8. Shifts
    BY NoShift
  <1>9. LostAudios' = LostAudios /\ \A q \in Runs : Audios(q)' = Audios(q) /\ Sources(q)' = Sources(q)
    BY <1>8, AudiosGrow DEF LostAudios, Audios, Sources
  <1>10. /\ normalized' = [q \in Runs |-> [i \in Sources(q)' |-> normalized'[q][i]]]
         /\ \A q \in Runs : \A i \in Sources(q)' :
              normalized'[q][i] \in MayBe(Audios(q)[i], q \in shifted)' \cup {Missing}
    <2>1. \A q \in Runs : normalized'[q] = [i \in Sources(q) |-> normalized'[q][i]]
      BY <1>4, <1>5, <1>6
    <2>2. \A q \in Runs : \A i \in Sources(q) :
             normalized'[q][i] \in MayBe(Audios(q)[i], q \in shifted) \cup {Missing}
      BY <1>4, <1>5, <1>7
    <2> QED BY <1>5, <1>9, <2>1, <2>2 DEF MayBe
  <1>11. /\ audios' = [q \in Runs |-> audios'[q]]
         /\ \A q \in Runs : /\ audios'[q] \in sourceAudioPaths(q)'
                            /\ q \notin shifted' => audios'[q] = Audios(q)'
                            /\ Audios(q)' # <<>> => audios'[q] # <<>>
         /\ posted' \in [Clients' -> Nat]
         /\ \A p \in Clients' :
              /\ posted'[p] <= Len(Audios(p[1]))'
              /\ p[1] \notin shifted' => posted'[p] \in {0, Len(Audios(p[1]))'}
    BY <1>8, AudiosGrow, TaskFacts DEF TypeOK, InputsOK
  <1> QED BY <1>10, <1>11 DEF InputsOK

\* Steps after which a runner is somewhere else and no more than normalised files have changed.
LEMMA GoSteps ==
  ASSUME TypeOK, NEW r \in Runs,
         \/ lookup(r) \/ preflightLocalAsrService(r) \/ ensureLocalAsr_answered(r)
         \/ postJson_timeout(r) \/ RunnerDies(r)
  PROVE  TypeOK'
  <1>1. PICK stage \in RunnerStages \ {"idle"} : Goes(r, stage)
    <2>1. CASE lookup(r)
      BY <2>1 DEF lookup, RunnerStages
    <2>2. CASE ~lookup(r)
      BY <2>2 DEF preflightLocalAsrService, ensureLocalAsr_answered, postJson_timeout, RunnerDies,
                  RunnerStages
    <2> QED BY <2>1, <2>2
  <1>2. /\ runner[r].at \notin {"idle", "skipped"}
        /\ UNCHANGED <<task, audios, posted, client, files, localService, shifted, writers>>
    BY DEF lookup, preflightLocalAsrService, ensureLocalAsr_answered, postJson_timeout,
           RunnerDies, At, Running, Ended, inputs, history
  <1>3. RunnerOK'
    BY <1>1, <1>2, RunnerGoes
  <1>4. UNCHANGED bounds \/ BoundsOK'
    BY KillTypes DEF lookup, preflightLocalAsrService, ensureLocalAsr_answered, postJson_timeout,
           RunnerDies
  <1>5. HistoryOK'
    <2>1. disturbed' \in {disturbed, disturbed \cup {r}}
      BY DEF lookup, preflightLocalAsrService, ensureLocalAsr_answered, postJson_timeout,
             RunnerDies, history
    <2> QED BY <1>2, <2>1, NoShift, AudiosGrow DEF TypeOK, HistoryOK
  <1>6. InputsOK'
    <2>1. UNCHANGED normalized \/ \E n \in 0 .. Len(audios[r]) : Normalizes(r, n)
      BY DEF lookup, preflightLocalAsrService, ensureLocalAsr_answered, postJson_timeout,
             RunnerDies, inputs
    <2>2. CASE UNCHANGED normalized
      BY <1>2, <2>2, NoShift, Unchanged DEF inputs
    <2>3. CASE \E n \in 0 .. Len(audios[r]) : Normalizes(r, n)
      BY <1>2, <2>3, NormalizesTypes
    <2> QED BY <2>1, <2>2, <2>3
  <1> QED BY <1>2, <1>3, <1>4, <1>5, <1>6, NoShift, RunnerOnly DEF files

LEMMA PostStep == ASSUME TypeOK, NEW r \in Runs, postJson(r) PROVE TypeOK'
  <1>1. /\ runner[r].at = "post"
        /\ UNCHANGED <<task, audios, normalized, client, files, service, job, bounds, history>>
        /\ \/ /\ Goes(r, "posted") /\ waiting' = waiting \cup {JobOf(r)}
              /\ posted' = [posted EXCEPT ![JobOf(r)] = Len(audios[r])]
           \/ Goes(r, "blocked") /\ UNCHANGED <<waiting, posted>>
    BY DEF postJson, At
  <1>2. Shifts
    BY <1>1, NoShift DEF history
  <1>3. RunnerOK'
    BY <1>1, RunnerGoes DEF RunnerStages
  <1>4. CASE Goes(r, "blocked") /\ UNCHANGED <<waiting, posted>>
    BY <1>1, <1>2, <1>3, <1>4, RunnerOnly DEF files, inputs, localService, history
  <1>5. CASE /\ waiting' = waiting \cup {JobOf(r)}
             /\ posted' = [posted EXCEPT ![JobOf(r)] = Len(audios[r])]
    <2>1. /\ JobOf(r) \in Clients /\ JobOf(r)[1] = r /\ Audios(r) # <<>>
          /\ audios[r] \in sourceAudioPaths(r) /\ audios[r] # <<>>
          /\ r \notin shifted => audios[r] = Audios(r)
      BY <1>1 DEF TypeOK, RunnerOK, InputsOK, JobOf
    <2>2. /\ Len(audios[r]) \in Nat /\ Len(audios[r]) # 0 /\ Len(audios[r]) <= Len(Audios(r))
          /\ r \notin shifted => Len(audios[r]) = Len(Audios(r))
      <3> DEFINE s == audios[r]
      <3>1. s \in Seq(Nat \ {0}) /\ Len(s) \in Nat /\ Len(s) <= Len(Audios(r)) /\ s # <<>>
        BY <2>1, FoundFacts DEF TypeOK
      <3>2. r \notin shifted => Len(s) = Len(Audios(r))
        BY <2>1
      <3> HIDE DEF s
      <3>3. Len(s) # 0
        BY <3>1
      <3> QED BY <3>1, <3>2, <3>3 DEF s
    <2> DEFINE n == Len(audios[r])
    <2> HIDE DEF n
    <2>3. /\ posted \in [Clients -> Nat]
          /\ \A p \in Clients : /\ posted[p] <= Len(Audios(p[1]))
                                /\ p[1] \notin shifted => posted[p] \in {0, Len(Audios(p[1]))}
      BY DEF TypeOK, InputsOK
    <2>4. /\ posted' \in [Clients -> Nat] /\ posted'[JobOf(r)] = n
          /\ \A p \in Clients : p # JobOf(r) => posted'[p] = posted[p]
      BY <1>5, <2>1, <2>2, <2>3 DEF n
    <2>5. \A p \in Clients : /\ posted'[p] <= Len(Audios(p[1]))
                             /\ p[1] \notin shifted => posted'[p] \in {0, Len(Audios(p[1]))}
                             /\ posted[p] # 0 \/ p = JobOf(r) => posted'[p] # 0
      BY <2>1, <2>2, <2>3, <2>4 DEF n
    <2>6. InputsOK'
      <3>1. /\ audios' = [q \in Runs |-> audios'[q]]
            /\ \A q \in Runs : /\ audios'[q] \in sourceAudioPaths(q)'
                               /\ q \notin shifted' => audios'[q] = Audios(q)'
                               /\ Audios(q)' # <<>> => audios'[q] # <<>>
        BY <1>1, <1>2, AudiosGrow DEF TypeOK, InputsOK, history
      <3>2. /\ normalized' = [q \in Runs |-> [i \in Sources(q)' |-> normalized'[q][i]]]
            /\ \A q \in Runs : \A i \in Sources(q)' :
                 normalized'[q][i] \in MayBe(Audios(q)[i], q \in shifted)' \cup {Missing}
        BY <1>1, <1>2, AudiosGrow DEF TypeOK, InputsOK
      <3>3. /\ posted' \in [Clients' -> Nat]
            /\ \A p \in Clients' :
                 /\ posted'[p] <= Len(Audios(p[1]))'
                 /\ p[1] \notin shifted' => posted'[p] \in {0, Len(Audios(p[1]))'}
        BY <1>1, <1>2, <2>4, <2>5, AudiosGrow, TaskFacts DEF history
      <3> QED BY <3>1, <3>2, <3>3 DEF InputsOK
    <2>7. ServiceOK'
      <3>1. /\ service' \in {"up", "down"} /\ waiting' \in SUBSET Clients'
            /\ \A p \in waiting' : posted'[p] # 0
        BY <1>1, <1>2, <1>5, <2>1, <2>5, AudiosGrow DEF TypeOK, ServiceOK
      <3>2. job' # NoJob => JobIs(job)' /\ posted'[job'.of] # 0
        <4> SUFFICES ASSUME job' # NoJob PROVE JobIs(job)' /\ posted'[job'.of] # 0
          OBVIOUS
        <4>1. job' = job /\ job # NoJob
          BY <1>1
        <4>2. job.of \in Clients /\ posted[job.of] # 0
          BY <4>1 DEF TypeOK, ServiceOK, JobIs
        <4> QED BY <1>2, <2>5, <4>1, <4>2, JobStays
      <3> QED BY <3>1, <3>2 DEF ServiceOK
    <2> QED BY <1>1, <1>2, <1>3, <2>6, <2>7, RunnerOnly DEF files, history
  <1> QED BY <1>1, <1>4, <1>5

LEMMA NormalizeStep == ASSUME TypeOK, NEW r \in Runs, normalizeAudioBatch(r) PROVE TypeOK'
  <1>1. /\ runner[r].at = "normalize"
        /\ UNCHANGED <<task, audios, posted, client, files, localService, kills, history>>
        /\ UNCHANGED trouble \/ Trouble
        /\ \E n \in 0 .. Len(audios[r]) : Normalizes(r, n)
        /\ \/ Goes(r, "post") \/ Goes(r, "blocked") \/ CloudFails(r, "normalize")
           \/ runner' = [runner EXCEPT ![r].at = "gate", ![r].attempt = 2]
    <2>1. Len(audios[r]) \in 0 .. Len(audios[r])
      BY FoundFacts DEF TypeOK, InputsOK
    <2> QED BY <2>1 DEF normalizeAudioBatch, At
  <1>2. BoundsOK'
    BY <1>1, TroubleTypes
  <1>3. InputsOK'
    BY <1>1, NormalizesTypes DEF history
  <1>4. RunnerOK'
    <2>1. CASE runner' = [runner EXCEPT ![r].at = "gate", ![r].attempt = 2]
      <3> DEFINE m == [runner[r] EXCEPT !.at = "gate", !.attempt = 2]
      <3>1. /\ runner \in [Runs -> RunnerState] /\ runner[r].provider # None /\ Audios(r) # <<>>
            /\ <<r, runner[r].execution>> \in Clients
        BY <1>1 DEF TypeOK, RunnerOK, JobOf
      <3>2. m \in RunnerState /\ m.provider = runner[r].provider /\ m.execution = runner[r].execution
        BY <3>1 DEF RunnerState, RunnerStages
      <3>3. runner' = [runner EXCEPT ![r] = m]
        BY <2>1, <3>1
      <3> HIDE DEF m
      <3> QED BY <1>1, <3>1, <3>2, <3>3, RunnerMoves
    <2>2. CASE Goes(r, "post") \/ Goes(r, "blocked")
      BY <1>1, <2>2, RunnerGoes DEF RunnerStages
    <2>3. CASE CloudFails(r, "normalize")
      BY <1>1, <2>3, CloudFailsTypes
    <2> QED BY <1>1, <2>1, <2>2, <2>3
  <1> QED BY <1>1, <1>2, <1>3, <1>4, NoShift, RunnerOnly DEF files, history

LEMMA ClientDoneStep == ASSUME TypeOK, NEW r \in Runs, runDashScopeAsrClient(r) PROVE TypeOK'
  <1>1. /\ runner[r].at = "client"
        /\ UNCHANGED <<task, inputs, client, files, localService, bounds, history>>
        /\ \/ Goes(r, "transcript-out")
           \/ \E why : CloudFails(r, why)
    BY DEF runDashScopeAsrClient, At
  <1>2. RunnerOK'
    BY <1>1, RunnerGoes, CloudFailsTypes DEF RunnerStages
  <1> QED BY <1>1, <1>2, NoShift, RunnerOnly DEF files, inputs, history

\* Steps that start or kill the client.
Planned(s, n) == [NoClient EXCEPT !.at = "plan", !.paths = s, !.attempt = n]

LEMMA ClientBegins ==
  ASSUME NEW s \in Seq(Nat), NEW n \in {1, 2}
  PROVE  LET c == Planned(s, n)
         IN  /\ c \in ClientState
             /\ c.at = "plan" /\ c.source = 1 /\ c.paths = s /\ c.heard = {} /\ c.attempt = n
  <1> DEFINE c1 == [NoClient EXCEPT !.at = "plan"]
             c2 == [c1 EXCEPT !.paths = s]
             c3 == [c2 EXCEPT !.attempt = n]
  <1>1. NoClient \in ClientState /\ NoClient.source = 1 /\ NoClient.heard = {}
    BY DEF NoClient, ClientState
  <1>2. c1 \in ClientState /\ c1.at = "plan" /\ c1.source = 1 /\ c1.heard = {}
    BY <1>1 DEF ClientState
  <1> HIDE DEF c1
  <1>3. c2 \in ClientState /\ c2.at = "plan" /\ c2.source = 1 /\ c2.heard = {} /\ c2.paths = s
    BY <1>2 DEF ClientState
  <1> HIDE DEF c2
  <1>4. /\ c3 \in ClientState /\ c3.at = "plan" /\ c3.source = 1 /\ c3.heard = {} /\ c3.paths = s
        /\ c3.attempt = n
    BY <1>3 DEF ClientState
  <1>5. Planned(s, n) = c3
    BY DEF c1, c2, c3, Planned
  <1> QED BY <1>4, <1>5

LEMMA GateSteps ==
  ASSUME TypeOK, NEW r \in Runs,
         \/ policy_gate_check(r) \/ runCommand_timeout(r)
         \/ \E p \in Clients : ClientDies(p)
  PROVE  TypeOK'
  <1>1. /\ UNCHANGED <<task, inputs, files, localService, writers, shifted>>
        /\ disturbed' \in {disturbed, disturbed \cup {r}}
        /\ BoundsOK'
        /\ UNCHANGED runner \/ RunnerOK'
    <2>1. CASE policy_gate_check(r)
      <3>1. /\ runner[r].at = "gate"
            /\ UNCHANGED <<task, inputs, files, localService, kills, writers, shifted>>
            /\ disturbed' \in {disturbed, disturbed \cup {r}}
            /\ UNCHANGED trouble \/ Trouble
            /\ Goes(r, "client") \/ CloudFails(r, "policy")
        BY <2>1 DEF policy_gate_check, At, Outcome
      <3> QED BY <3>1, RunnerGoes, CloudFailsTypes, TroubleTypes DEF RunnerStages
    <2>2. CASE runCommand_timeout(r)
      BY <2>2, TroubleTypes DEF runCommand_timeout, bounds, history
    <2>3. CASE \E p \in Clients : ClientDies(p)
      BY <2>3, KillTypes DEF ClientDies, history
    <2> QED BY <2>1, <2>2, <2>3
  <1>2. ClientOK'
    <2> DEFINE c == [NoClient EXCEPT !.at = "plan", !.paths = audios[r], !.attempt = runner[r].attempt]
    <2>1. c \in ClientState /\ PathsOK(c, r)
      <3>1. runner[r].attempt \in {1, 2}
        BY DEF TypeOK, RunnerOK, RunnerState
      <3>2. /\ audios[r] \in sourceAudioPaths(r)
            /\ r \notin shifted => audios[r] = Audios(r)
        BY DEF TypeOK, InputsOK
      <3>3. /\ audios[r] \in Seq(Nat \ {0}) /\ Len(audios[r]) <= Len(Audios(r))
            /\ r \in shifted => \A i \in DOMAIN audios[r] : audios[r][i] \in LostAudios
        BY <3>2, FoundFacts DEF TypeOK
      <3>4. audios[r] \in Seq(Nat)
        <4> DEFINE s == audios[r]
        <4>1. s \in Seq(Nat \ {0})
          BY <3>3
        <4> HIDE DEF s
        <4>2. s \in Seq(Nat)
          BY <4>1
        <4> QED BY <4>2 DEF s
      <3>5. c \in ClientState /\ c.paths = audios[r]
        <4>1. PICK s \in Seq(Nat) : s = audios[r]
          BY <3>4
        <4>2. PICK n \in {1, 2} : n = runner[r].attempt
          BY <3>1
        <4>3. c = Planned(s, n)
          BY <4>1, <4>2 DEF Planned
        <4> HIDE DEF c
        <4>4. Planned(s, n) \in ClientState /\ Planned(s, n).paths = s
          BY <4>1, <4>2, ClientBegins
        <4> QED BY <4>1, <4>3, <4>4
      <3> HIDE DEF c
      <3> QED BY <3>2, <3>3, <3>5 DEF PathsOK, MayBe
    <2>2. \/ client' = client
          \/ client' = [client EXCEPT ![JobOf(r)] = c]
          \/ \E p : client' = [client EXCEPT ![p] = NoClient]
      BY DEF policy_gate_check, runCommand_timeout, ClientDies
    <2> HIDE DEF c
    <2>3. CASE client' = client
      BY <1>1, <2>3, NoShift, Unchanged
    <2>4. CASE client' = [client EXCEPT ![JobOf(r)] = c]
      <3>1. JobOf(r) \in Clients /\ JobOf(r)[1] = r
        BY DEF TypeOK, RunnerOK, JobOf
      <3> QED BY <1>1, <2>1, <2>4, <3>1, ClientMoves
    <2>5. ASSUME NEW p, client' = [client EXCEPT ![p] = NoClient] PROVE ClientOK'
      <3>1. CASE p \in Clients
        BY <1>1, <2>5, <3>1, NoClientState, ClientMoves, TaskFacts DEF TypeOK
      <3>2. CASE p \notin Clients
        <4>1. client' = client
          BY <2>5, <3>2 DEF TypeOK, ClientOK
        <4> QED BY <1>1, <4>1, NoShift, Unchanged
      <3> QED BY <3>1, <3>2
    <2> QED BY <2>2, <2>3, <2>4, <2>5
  <1>3. /\ task' \in Scenarios /\ InputsOK' /\ ResultOK' /\ ArtifactsOK' /\ CacheOK' /\ ChunksOK'
        /\ ServiceOK' /\ RunnerOK'
    BY <1>1, NoShift, Unchanged DEF files, inputs
  <1>4. HistoryOK'
    BY <1>1, NoShift, AudiosGrow DEF TypeOK, HistoryOK
  <1> QED BY <1>1, <1>2, <1>3, <1>4 DEF TypeOK

\* The parts of artifacts that are of a run's own audios.
LEMMA PartsOf ==
  ASSUME NEW a, NEW all, NEW lost, OwnArtifacts(a, all, lost)', NEW n \in {1, 2, 3},
         NEW value, value = a[Parts[n]]
  PROVE  Part(Parts[n], value, all, lost)'
  <1>1. a \in Artifacts /\ HasOwn(a.transcript, all, lost)' /\ HasOwn(a.evidence, all, lost)'
    BY DEF OwnArtifacts
  <1>2. a.transcript \in Texts /\ a.evidence \in Texts /\ a.summary \in {None, "complete", "needs_review"}
    BY <1>1 DEF Artifacts
  <1>3. Parts[1] = "transcript" /\ Parts[2] = "evidence" /\ Parts[3] = "summary"
    BY DEF Parts
  <1>4. CASE n = 1
    BY <1>1, <1>2, <1>3, <1>4 DEF Part
  <1>5. CASE n = 2
    BY <1>1, <1>2, <1>3, <1>5 DEF Part
  <1>6. CASE n = 3
    BY <1>2, <1>3, <1>6 DEF Part
  <1> QED BY <1>4, <1>5, <1>6

\* Where places have shifted, it does not matter which audios are compared.
LEMMA LostOwn ==
  ASSUME NEW a, NEW all, NEW other, OwnArtifacts(a, all, TRUE)'
  PROVE  OwnArtifacts(a, other, TRUE)'
  BY DEF OwnArtifacts, HasOwn, MayBe

\* Copies between a run and the cache.
LEMMA CopyInStep == ASSUME TypeOK, NEW r \in Runs, copyIn(r) PROVE TypeOK'
  <1>1. PICK n \in {1, 2, 3} :
          /\ At(r, CopyIn[n])
          /\ Writes(r, Parts[n], cache[KeyOf(r)][Parts[n]])
          /\ Goes(r, After(n, CopyIn))
          /\ shifted' = IF writers[KeyOf(r)] \cap shifted = {} THEN shifted ELSE shifted \cup {r}
          /\ UNCHANGED <<task, inputs, client, result, chunks, cache, localService, bounds, writers,
                         disturbed>>
    <2>1. DOMAIN Parts = {1, 2, 3}
      BY DEF Parts
    <2> QED BY <2>1 DEF copyIn
  <1>2. runner[r].at \in {"transcript-in", "evidence-in", "summary-in"}
    BY <1>1 DEF At, CopyIn
  <1>3. After(n, CopyIn) \in RunnerStages \ {"idle"}
    BY <1>1 DEF After, CopyIn, RunnerStages
  <1>4. RunnerOK'
    BY <1>1, <1>2, <1>3, RunnerGoes
  <1>5. Shifts
    BY <1>1 DEF Shifts
  <1>6. ArtifactsOK'
    <2>1. PICK k : k = KeyOf(r)
      OBVIOUS
    <2>2. k \in Keys /\ k[2] = audios[r]
      BY <1>2, <2>1, TaskFacts
    <2>3. PICK a : a = cache[k]
      OBVIOUS
    <2>4. PICK lost \in BOOLEAN : lost = LostEntry(k)
      BY DEF LostEntry
    <2>5. PICK more \in BOOLEAN : more = (r \in shifted')
      <3>1. (r \in shifted') \in BOOLEAN
        OBVIOUS
      <3> QED BY <3>1
    <2>6. OwnArtifacts(a, k[2], lost) /\ k[2] \in Seq(Nat \ {0})
      BY <2>2, <2>3, <2>4, KeyFacts DEF TypeOK, CacheOK
    <2>7. k[2] \in sourceAudioPaths(r) /\ (r \notin shifted => k[2] = Audios(r))
      BY <2>2 DEF TypeOK, InputsOK
    <2>8. lost => more
      BY <1>1, <2>1, <2>4, <2>5 DEF LostEntry
    <2>9. more /\ ~lost => r \in shifted
      BY <1>1, <2>1, <2>4, <2>5 DEF LostEntry
    <2>10. more /\ ~lost => \A i \in DOMAIN k[2] : k[2][i] \in LostAudios'
      BY <1>5, <2>7, <2>9, FoundFacts, AudiosGrow DEF TypeOK
    <2>11. OwnArtifacts(a, k[2], more)'
      BY <1>5, <2>6, <2>8, <2>10, AudiosGrow, OwnArtifactsGrow
    <2>12. PICK all : all = Audios(r)
      OBVIOUS
    <2>13. OwnArtifacts(a, all, more)'
      <3>1. CASE more
        BY <2>11, <3>1, LostOwn
      <3>2. CASE ~more
        <4>1. r \notin shifted
          BY <1>5, <2>5, <3>2 DEF Shifts
        <4> QED BY <2>7, <2>11, <2>12, <4>1
      <3> QED BY <3>1, <3>2
    <2>14. PICK value : value = a[Parts[n]]
      OBVIOUS
    <2>15. Part(Parts[n], value, all, more)'
      BY <2>13, <2>14, PartsOf
    <2>16. Part(Parts[n], value, Audios(r), r \in shifted)'
      <3>1. all = Audios(r)'
        BY <1>5, <2>12, AudiosGrow
      <3> QED BY <2>5, <2>15, <3>1
    <2>17. Writes(r, Parts[n], value)
      BY <1>1, <2>1, <2>3, <2>14
    <2> QED BY <1>5, <2>16, <2>17, PartWritten
  <1>7. CacheOK'
    BY <1>1, <1>5, Unchanged
  <1>8. HistoryOK'
    BY <1>1, <1>5, AudiosGrow DEF TypeOK, HistoryOK
  <1>9. /\ task' \in Scenarios /\ InputsOK' /\ ResultOK' /\ ChunksOK' /\ ServiceOK' /\ BoundsOK'
        /\ ClientOK'
    BY <1>1, <1>5, Unchanged DEF inputs
  <1> QED BY <1>4, <1>6, <1>7, <1>8, <1>9 DEF TypeOK

LEMMA CopyOutStep == ASSUME TypeOK, NEW r \in Runs, copyOut(r) PROVE TypeOK'
  <1>0. PICK k : k = KeyOf(r)
    OBVIOUS
  <1>1. PICK n \in {1, 2, 3} :
          /\ At(r, CopyOut[n])
          /\ cache' = [cache EXCEPT ![k][Parts[n]] = artifacts[r][Parts[n]]]
          /\ Goes(r, After(n, CopyOut))
          /\ writers' = [writers EXCEPT ![k] = @ \cup {r}]
          /\ UNCHANGED <<task, inputs, client, result, artifacts, chunks, localService, bounds,
                         disturbed, shifted>>
    <2>1. DOMAIN Parts = {1, 2, 3}
      BY DEF Parts
    <2> QED BY <1>0, <2>1 DEF copyOut
  <1>2. runner[r].at \in {"transcript-out", "evidence-out", "summary-out"}
    BY <1>1 DEF At, CopyOut
  <1>3. After(n, CopyOut) \in RunnerStages \ {"idle"}
    BY <1>1 DEF After, CopyOut, RunnerStages
  <1>4. RunnerOK'
    BY <1>1, <1>2, <1>3, RunnerGoes
  <1>5. k \in Keys /\ k[2] = audios[r]
    BY <1>0, <1>2, TaskFacts
  <1>6. k[2] \in sourceAudioPaths(r) /\ (r \notin shifted => k[2] = Audios(r))
    BY <1>5 DEF TypeOK, InputsOK
  <1>7. /\ writers \in [Keys -> SUBSET Runs]
        /\ writers' \in [Keys -> SUBSET Runs] /\ writers'[k] = writers[k] \cup {r}
        /\ \A q \in Keys : q # k => writers'[q] = writers[q]
    BY <1>1, <1>5 DEF TypeOK, HistoryOK
  <1>8. Shifts
    BY <1>1, <1>7 DEF Shifts
  <1>9. \A q \in writers'[k] \ writers[k] :
           q \in Runs /\ \A i \in DOMAIN k[2] : \E j \in Sources(q) : k[2][i] = Audios(q)[j]
    <2>1. \A i \in DOMAIN k[2] : \E j \in Sources(r) : k[2][i] = Audios(r)[j]
      BY <1>6, FoundFacts DEF TypeOK
    <2> QED BY <1>7, <2>1
  <1>10. CacheOK'
    <2>1. PICK a : a = cache[k]
      OBVIOUS
    <2>2. PICK v : v = artifacts[r]
      OBVIOUS
    <2>3. PICK lost \in BOOLEAN : lost = (r \in shifted)
      <3>1. (r \in shifted) \in BOOLEAN
        OBVIOUS
      <3> QED BY <3>1
    <2>4. PICK more \in BOOLEAN : more = LostEntry(k)'
      BY DEF LostEntry
    <2>5. OwnArtifacts(a, k[2], more)'
      BY <1>5, <1>8, <1>9, <2>1, <2>4, EntryHeld
    <2>6. PICK all : all = Audios(r)
      OBVIOUS
    <2>7. OwnArtifacts(v, all, lost) /\ all \in Seq(Nat \ {0})
      BY <2>2, <2>3, <2>6, TaskFacts DEF TypeOK, ArtifactsOK
    <2>8. lost => more
      BY <1>1, <1>7, <2>3, <2>4 DEF LostEntry
    <2>9. more /\ ~lost => \A i \in DOMAIN all : all[i] \in LostAudios'
      <3> SUFFICES ASSUME more, ~lost PROVE \A i \in DOMAIN all : all[i] \in LostAudios'
        OBVIOUS
      <3>1. LostEntry(k) /\ all = k[2]
        BY <1>1, <1>6, <1>7, <2>3, <2>4, <2>6 DEF LostEntry
      <3> QED BY <1>5, <1>8, <3>1, KeyFacts, AudiosGrow
    <2>10. OwnArtifacts(v, all, more)'
      BY <1>8, <2>7, <2>8, <2>9, AudiosGrow, OwnArtifactsGrow
    <2>11. OwnArtifacts(v, k[2], more)'
      <3>1. CASE more
        BY <2>10, <3>1, LostOwn
      <3>2. CASE ~more
        BY <1>6, <2>3, <2>6, <2>8, <2>10, <3>2
      <3> QED BY <3>1, <3>2
    <2>12. PICK value : value = v[Parts[n]]
      OBVIOUS
    <2>13. Part(Parts[n], value, k[2], more)'
      BY <2>11, <2>12, PartsOf
    <2>14. OwnArtifacts([a EXCEPT ![Parts[n]] = value], k[2], more)'
      BY <2>5, <2>13, PartPut
    <2>15. cache = [q \in Keys |-> cache[q]] /\ cache[k] = a
      BY <2>1 DEF TypeOK, CacheOK
    <2>16. /\ cache' = [q \in Keys |-> cache'[q]]
           /\ cache'[k] = [a EXCEPT ![Parts[n]] = value]
           /\ \A q \in Keys : q # k => cache'[q] = cache[q]
      BY <1>1, <1>5, <2>2, <2>12, <2>15
    <2>17. OwnArtifacts(cache[k], k[2], LostEntry(k))'
      BY <2>4, <2>14, <2>16
    <2>18. ASSUME NEW q \in Keys, q # k PROVE OwnArtifacts(cache[q], q[2], LostEntry(q))'
      BY <1>7, <1>8, <2>16, <2>18, EntryStays
    <2> QED BY <2>16, <2>17, <2>18 DEF CacheOK
  <1>11. HistoryOK'
    <2>1. \A q \in Keys : \A w \in writers'[q] : q[2] \in sourceAudioPaths(w)
      BY <1>6, <1>7 DEF TypeOK, HistoryOK
    <2> QED BY <1>1, <1>7, <1>8, <2>1, AudiosGrow DEF TypeOK, HistoryOK
  <1>12. /\ task' \in Scenarios /\ InputsOK' /\ ResultOK' /\ ArtifactsOK' /\ ChunksOK' /\ ServiceOK' /\ BoundsOK'
         /\ ClientOK'
    BY <1>1, <1>8, Unchanged DEF inputs
  <1> QED BY <1>4, <1>10, <1>11, <1>12 DEF TypeOK

-----------------------------------------------------------------------------
(* The steps of a client.                                                  *)

\* A client is of a run, and changes nothing but that run's result and artifacts.
LEMMA ClientOnly ==
  ASSUME TypeOK, ClientOK', UNCHANGED <<task, inputs, runner, chunks, cache, localService, history>>,
         kills' = kills, UNCHANGED trouble \/ Trouble,
         UNCHANGED result \/ ResultOK', UNCHANGED artifacts \/ ArtifactsOK'
  PROVE  TypeOK'
  <1>1. /\ task' \in Scenarios /\ RunnerOK' /\ InputsOK' /\ ResultOK' /\ ArtifactsOK' /\ CacheOK'
        /\ ChunksOK' /\ ServiceOK' /\ HistoryOK'
    BY NoShift, Unchanged DEF history, inputs
  <1>2. BoundsOK'
    BY TroubleTypes
  <1> QED BY <1>1, <1>2 DEF TypeOK

LEMMA ClientFailsTypes ==
  ASSUME TypeOK, task' = task, shifted' = shifted, NEW p \in Clients, NEW why \in Reasons,
         ClientFails(p, why)
  PROVE  ClientOK' /\ ResultOK' /\ Trouble
  <1>1. /\ Trouble /\ result' = [result EXCEPT ![p[1]] = why]
        /\ client' = [client EXCEPT ![p] = NoClient]
    BY DEF ClientFails
  <1>2. p[1] \in Runs /\ task \in Scenarios
    BY TaskFacts DEF TypeOK
  <1> QED BY <1>1, <1>2, NoClientState, ClientMoves, ResultWritten

LEMMA SourceDoneTypes ==
  ASSUME TypeOK, task' = task, shifted' = shifted, NEW p \in Clients, NEW heard \in BOOLEAN,
         client[p].at # "off", SourceDone(p, heard)
  PROVE  ClientOK'
  <1> DEFINE more == client[p].source + 1 \in DOMAIN client[p].paths
             c == [client[p] EXCEPT
                     !.heard = IF heard THEN @ \cup {client[p].source} ELSE @,
                     !.at = IF more THEN "plan" ELSE "write-transcript",
                     !.source = IF more THEN client[p].source + 1 ELSE @]
  <1>1. client' = [client EXCEPT ![p] = c]
    BY DEF SourceDone
  <1>2. client[p] \in ClientState /\ PathsOK(client[p], p[1])
    BY DEF TypeOK, ClientOK
  <1>3. /\ client[p].source \in Nat \ {0} /\ client[p].source + 1 \in Nat \ {0}
        /\ client[p].heard \in SUBSET (Nat \ {0}) /\ client[p].attempt \in {1, 2}
    BY <1>2 DEF ClientState
  <1>4. c \in ClientState /\ c.paths = client[p].paths
    <2>1. (IF heard THEN client[p].heard \cup {client[p].source} ELSE client[p].heard)
             \in SUBSET (Nat \ {0})
      BY <1>3
    <2>2. (IF more THEN client[p].source + 1 ELSE client[p].source) \in Nat \ {0}
      BY <1>3
    <2> HIDE DEF more
    <2> QED BY <1>2, <2>1, <2>2 DEF ClientState
  <1> HIDE DEF c
  <1>5. PathsOK(c, p[1])
    BY <1>2, <1>4 DEF PathsOK
  <1> QED BY <1>1, <1>4, <1>5, ClientMoves

LEMMA ClientStepTypes ==
  ASSUME TypeOK, NEW p \in Clients, NEW stage, NEW next, NEW reasons,
         next \in {"upload", "submit", "poll", "download", "open", "started"},
         stage # "off", reasons \subseteq Reasons, ClientStep(p, stage, next, reasons)
  PROVE  TypeOK'
  <1>1. /\ UNCHANGED <<task, inputs, runner, artifacts, chunks, cache, localService, kills, history>>
        /\ client[p].at # "off"
    BY DEF ClientStep, ClientAt
  <1>2. CASE ClientGoes(p, next) /\ UNCHANGED <<result, trouble>>
    BY <1>1, <1>2, ClientsGo, ClientOnly DEF history
  <1>3. CASE \E why \in reasons : ClientFails(p, why)
    BY <1>1, <1>3, ClientFailsTypes, ClientOnly DEF history
  <1> QED BY <1>2, <1>3 DEF ClientStep

\* The file of a source, normalised or not, is of its place.
LEMMA PathTypes ==
  ASSUME TypeOK, NEW p \in Clients, NEW c \in ClientState, PathsOK(c, p[1]),
         NEW stage \in {"prepare", "connect"}
  PROVE  LET d == PathOpened(c, normalized[p[1]][c.source], stage)
         IN  d \in ClientState /\ (c.at # "off" => PathsOK(d, p[1]))
  <1> DEFINE r == p[1]
             s == c.paths
             i == c.source
             v == IF c.attempt = 2 THEN normalized[r][i] ELSE s[i]
             new == [s EXCEPT ![i] = v]
             d == PathOpened(c, normalized[r][i], stage)
  <1>1. /\ s \in Seq(Nat) /\ Len(s) <= Len(Audios(r))
        /\ \A j \in DOMAIN s : s[j] \in MayBe(Audios(r)[j], r \in shifted) \cup {Missing}
        /\ c.at # "off" /\ r \notin shifted => Len(s) = Len(Audios(r))
    BY DEF ClientState, PathsOK
  <1>2. r \in Runs /\ Sources(r) = 1 .. Len(Audios(r)) /\ Len(Audios(r)) \in Nat
    BY TaskFacts
  <1>3. DOMAIN s = 1 .. Len(s) /\ Len(s) \in Nat
    <2> HIDE DEF s
    <2> QED BY <1>1
  <1>4. DOMAIN s \subseteq Sources(r)
    BY <1>1, <1>2, <1>3
  <1>5. i \in DOMAIN s => v \in MayBe(Audios(r)[i], r \in shifted) \cup {Missing}
    BY <1>1, <1>2, <1>4 DEF TypeOK, InputsOK
  <1>6. i \in DOMAIN s => v \in Nat
    <2>1. i \in DOMAIN s => Audios(r)[i] \in Nat
      BY <1>2, <1>4, TaskFacts
    <2> QED BY <1>5, <2>1, TaskFacts DEF MayBe, Missing
  <1> HIDE DEF v
  <1>7. /\ DOMAIN new = DOMAIN s
        /\ \A j \in DOMAIN s : new[j] = IF j = i THEN v ELSE s[j]
        /\ new \in Seq(Nat) /\ Len(new) = Len(s)
    <2> HIDE DEF s, i
    <2>1. DOMAIN new = DOMAIN s /\ \A j \in DOMAIN s : new[j] = IF j = i THEN v ELSE s[j]
      BY <1>1
    <2>2. \A j \in DOMAIN s : s[j] \in Nat
      BY <1>1
    <2>3. new \in [1 .. Len(s) -> Nat]
      <3>1. s \in [DOMAIN s -> Nat]
        BY <1>1, <1>3, <2>2
      <3>2. new \in [DOMAIN s -> Nat]
        BY <1>6, <3>1
      <3> QED BY <1>3, <3>2
    <2> HIDE DEF new
    <2>4. new \in Seq(Nat) /\ Len(new) = Len(s)
      BY <1>3, <2>3, LenProperties
    <2> QED BY <2>1, <2>4
  <1>8. /\ Len(new) <= Len(Audios(r))
        /\ c.at # "off" /\ r \notin shifted => Len(new) = Len(Audios(r))
        /\ \A j \in DOMAIN new : new[j] \in MayBe(Audios(r)[j], r \in shifted) \cup {Missing}
    BY <1>1, <1>5, <1>7
  <1> HIDE DEF new
  <1>9. d \in ClientState /\ d.paths = new
    <2> DEFINE c1 == [c EXCEPT !.at = stage]
    <2>1. c1 \in ClientState
      BY DEF ClientState
    <2> HIDE DEF c1
    <2>2. [c1 EXCEPT !.paths = new] \in ClientState /\ [c1 EXCEPT !.paths = new].paths = new
      BY <1>7, <2>1 DEF ClientState
    <2>3. d = [c1 EXCEPT !.paths = new]
      <3>1. [c1 EXCEPT !.paths = new] = [c EXCEPT !.at = stage, !.paths = new]
        BY DEF c1
      <3>2. d = [c EXCEPT !.at = stage, !.paths = new]
        BY DEF new, v, PathOpened, ClientState
      <3> QED BY <3>1, <3>2
    <2> QED BY <2>2, <2>3
  <1> HIDE DEF d
  <1>10. c.at # "off" => PathsOK(d, r)
    BY <1>8, <1>9 DEF PathsOK
  <1> QED BY <1>9, <1>10 DEF d

LEMMA PlanStep == ASSUME TypeOK, NEW p \in Clients, planDashScopeInput(p) PROVE TypeOK'
  <1>1. /\ UNCHANGED <<task, inputs, runner, artifacts, chunks, cache, localService, bounds, history>>
        /\ client[p].at = "plan"
    BY DEF planDashScopeInput, ClientAt
  <1>2. client[p] \in ClientState /\ PathsOK(client[p], p[1])
    BY DEF TypeOK, ClientOK
  <1> DEFINE d(stage) == PathOpened(client[p], normalized[p[1]][client[p].source], stage)
  <1>3. \/ (\E stage \in {"prepare", "connect"} : client' = [client EXCEPT ![p] = d(stage)]) /\ UNCHANGED result
        \/ /\ result' = [result EXCEPT ![p[1]] = "format"]
           /\ client' = [client EXCEPT ![p] = NoClient]
    <2> DEFINE file == task.mode # "realtime" /\ task.transport
               stage == IF file THEN "prepare" ELSE "connect"
    <2>1. \/ client' = [client EXCEPT ![p] = d(stage)] /\ UNCHANGED result
          \/ /\ result' = [result EXCEPT ![p[1]] = "format"]
             /\ client' = [client EXCEPT ![p] = NoClient]
      BY DEF planDashScopeInput
    <2>2. stage \in {"prepare", "connect"}
      OBVIOUS
    <2> HIDE DEF stage, d
    <2> QED BY <2>1, <2>2
  <1>4. \A stage \in {"prepare", "connect"} : d(stage) \in ClientState /\ PathsOK(d(stage), p[1])
    BY <1>1, <1>2, PathTypes
  <1> HIDE DEF d
  <1>5. shifted' = shifted /\ task' = task /\ p[1] \in Runs /\ task \in Scenarios
    BY <1>1, TaskFacts DEF history, TypeOK
  <1>6. ClientOK' /\ (UNCHANGED result \/ ResultOK')
    BY <1>3, <1>4, <1>5, NoClientState, ClientMoves, ResultWritten DEF Reasons
  <1> QED BY <1>1, <1>6, ClientOnly DEF bounds

LEMMA StageSteps ==
  ASSUME TypeOK, NEW p \in Clients,
         \/ prepareFileDiarization(p) \/ uploadSourceToOss(p) \/ submitFileTask(p)
         \/ pollFileTask(p) \/ wsOpen(p) \/ wsTaskStarted(p)
  PROVE  TypeOK'
  BY ClientStepTypes DEF prepareFileDiarization, uploadSourceToOss, submitFileTask, pollFileTask,
     wsOpen, wsTaskStarted, classifyCloudError, Reasons

LEMMA SourceSteps ==
  ASSUME TypeOK, NEW p \in Clients, downloadTranscription(p) \/ wsTaskFinished(p)
  PROVE  TypeOK'
  <1>1. /\ UNCHANGED <<task, inputs, runner, artifacts, chunks, cache, localService, kills, history>>
        /\ client[p].at # "off"
        /\ \/ /\ \E heard \in BOOLEAN : Outcome(heard) /\ SourceDone(p, heard)
              /\ UNCHANGED result
           \/ \E why \in Reasons : ClientFails(p, why)
    BY DEF downloadTranscription, wsTaskFinished, classifyCloudError, Reasons, ClientAt
  <1>2. CASE \E heard \in BOOLEAN : Outcome(heard) /\ SourceDone(p, heard) /\ UNCHANGED result
    BY <1>1, <1>2, SourceDoneTypes, ClientOnly DEF Outcome, history
  <1>3. CASE \E why \in Reasons : ClientFails(p, why)
    BY <1>1, <1>3, ClientFailsTypes, ClientOnly DEF history
  <1> QED BY <1>1, <1>2, <1>3

LEMMA CloudTextsAreOwn ==
  ASSUME TypeOK, NEW p \in Clients, client[p].at # "off"
  PROVE  /\ p[1] \in Runs /\ CloudTexts(p) \in Texts
         /\ HasOwn(CloudTexts(p), Audios(p[1]), p[1] \in shifted)
  <1> DEFINE r == p[1]
             s == client[p].paths
             own == [i \in DOMAIN s |-> IF i \in client[p].heard THEN TextOf(s[i]) ELSE NoText]
  <1>1. r \in Runs
    BY TaskFacts
  <1>2. /\ s \in Seq(Nat) /\ (r \notin shifted => Len(s) = Len(Audios(r)))
        /\ \A i \in DOMAIN s : s[i] \in MayBe(Audios(r)[i], r \in shifted) \cup {Missing}
    BY DEF TypeOK, ClientOK, ClientState, PathsOK
  <1>3. DOMAIN s = 1 .. Len(s) /\ Len(s) \in Nat /\ \A i \in DOMAIN s : s[i] \in Int
    <2> HIDE DEF s
    <2> QED BY <1>2
  <1>4. \A i \in DOMAIN s : own[i] \in Own(Audios(r)[i], r \in shifted) /\ own[i] \in Text
    BY <1>2, <1>3 DEF TextOf, NoText, Own, Text, Missing, Failed
  <1>5. own \in Seq(Text) /\ Len(own) = Len(s) /\ DOMAIN own = DOMAIN s
    <2> DEFINE n == Len(s)
    <2>1. n \in Nat /\ own = [i \in 1 .. n |-> own[i]] /\ \A i \in 1 .. n : own[i] \in Text
      BY <1>3, <1>4
    <2>2. own \in [1 .. n -> Text]
      <3> HIDE DEF own, n
      <3> QED BY <2>1
    <2>3. DOMAIN own = DOMAIN s
      OBVIOUS
    <2> HIDE DEF own, n
    <2>4. own \in Seq(Text) /\ Len(own) = n
      BY <2>1, <2>2, LenProperties
    <2> QED BY <2>3, <2>4 DEF n
  <1>6. CloudTexts(p) = [by |-> <<Cloud, r>>, texts |-> own]
    BY DEF CloudTexts
  <1> HIDE DEF own
  <1>7. CloudTexts(p) \in Texts
    BY <1>1, <1>5, <1>6 DEF Texts
  <1>8. HasOwn(CloudTexts(p), Audios(r), r \in shifted)
    <2>1. CloudTexts(p).texts = own
      BY <1>6
    <2>2. \A i \in DOMAIN own, c \in Chunks :
             own[i][c] \in MayBe(Audios(r)[i], r \in shifted) \cup {Missing, Failed}
      BY <1>4, <1>5 DEF Own
    <2> QED BY <1>2, <1>5, <2>1, <2>2 DEF HasOwn
  <1> QED BY <1>1, <1>7, <1>8

LEMMA OutputSteps == ASSUME TypeOK, NEW p \in Clients, buildOutputs(p) PROVE TypeOK'
  <1>1. UNCHANGED <<task, inputs, runner, result, chunks, cache, localService, bounds, history>>
    BY DEF buildOutputs
  <1>2. ClientOK'
    BY <1>1, ClientsGo DEF buildOutputs, ClientAt, history
  <1>3. ArtifactsOK'
    <2>1. PICK texts : texts = CloudTexts(p)
      OBVIOUS
    <2>2. PICK summary : summary = CloudSummary(p)
      OBVIOUS
    <2>3. /\ p[1] \in Runs /\ texts \in Texts /\ HasOwn(texts, Audios(p[1]), p[1] \in shifted)
          /\ summary \in {"complete", "needs_review"}
      BY <2>1, <2>2, CloudTextsAreOwn DEF CloudSummary, buildOutputs, ClientAt
    <2>4. HasOwn(texts, Audios(p[1]), p[1] \in shifted)'
      BY <1>1, <2>3 DEF HasOwn, MayBe, LostAudios, Audios, Sources, history
    <2>5. /\ \A part \in {"transcript", "evidence"} : Part(part, texts, Audios(p[1]), p[1] \in shifted)'
          /\ Part("summary", summary, Audios(p[1]), p[1] \in shifted)'
      BY <2>3, <2>4 DEF Part
    <2>6. \E part \in {"transcript", "evidence"} : Writes(p[1], part, texts) \/ Writes(p[1], "summary", summary)
      BY <2>1, <2>2 DEF buildOutputs
    <2>7. Shifts
      BY <1>1, NoShift DEF history
    <2> QED BY <2>3, <2>5, <2>6, <2>7, PartWritten
  <1> QED BY <1>1, <1>2, <1>3, ClientOnly DEF bounds

LEMMA CloudDoneStep == ASSUME TypeOK, NEW p \in Clients, transcribeDashScopeAsr_done(p) PROVE TypeOK'
  <1>1. /\ result' = [result EXCEPT ![p[1]] = "completed"]
        /\ client' = [client EXCEPT ![p] = NoClient]
        /\ UNCHANGED <<task, inputs, runner, artifacts, chunks, cache, localService, bounds, history>>
    BY DEF transcribeDashScopeAsr_done
  <1>2. p[1] \in Runs /\ task \in Scenarios /\ shifted' = shifted
    BY <1>1, TaskFacts DEF TypeOK, history
  <1>3. ClientOK' /\ ResultOK'
    BY <1>1, <1>2, NoClientState, ClientMoves, ResultWritten
  <1> QED BY <1>1, <1>3, ClientOnly DEF bounds

-----------------------------------------------------------------------------
(* The steps of the local service.                                         *)

LEMMA SamePlaces ==
  ASSUME task' = task, shifted' = shifted
  PROVE  /\ Clients' = Clients /\ LostAudios' = LostAudios
         /\ \A q : Audios(q)' = Audios(q) /\ Sources(q)' = Sources(q)
         /\ \A a, lost : Own(a, lost)' = Own(a, lost) /\ MayBe(a, lost)' = MayBe(a, lost)
  <1>1. \A q : Audios(q)' = Audios(q) /\ Sources(q)' = Sources(q)
    BY DEF Audios, Sources
  <1>2. LostAudios' = LostAudios
    BY <1>1 DEF LostAudios
  <1>3. Clients' = Clients
    BY DEF Clients
  <1>4. \A a, lost : MayBe(a, lost)' = MayBe(a, lost)
    BY <1>2 DEF MayBe
  <1> QED BY <1>1, <1>2, <1>3, <1>4 DEF Own

LEMMA JobTaken ==
  ASSUME TypeOK, UNCHANGED <<task, shifted, posted>>,
         job' = NoJob \/ (JobIs(job') /\ posted[job'.of] # 0),
         service' \in {"up", "down"}, waiting' \subseteq waiting
  PROVE  ServiceOK'
  <1>1. waiting' \in SUBSET Clients' /\ \A p \in waiting' : posted'[p] # 0
    BY SamePlaces DEF TypeOK, ServiceOK
  <1>2. JobIs(job') => JobIs(job)'
    BY SamePlaces DEF JobIs
  <1> QED BY <1>1, <1>2 DEF ServiceOK

LEMMA JobFacts ==
  ASSUME TypeOK, job # NoJob
  PROVE  JobIs(job) /\ JobRun \in Runs /\ posted[job.of] # 0 /\ job.of \in Clients
  <1>1. JobIs(job) /\ posted[job.of] # 0
    BY DEF TypeOK, ServiceOK
  <1> QED BY <1>1 DEF JobIs, JobState, JobRun

\* The job is at work when it is at a stage of it.
LEMMA JobAt ==
  ASSUME job.at \in {"chunk", "write-transcript", "write-evidence", "write-summary", "done"}
  PROVE  job # NoJob
  BY DEF NoJob, None

\* A service's step touches what is a job's and nothing else.
LEMMA ServiceOnly ==
  ASSUME TypeOK, ServiceOK', UNCHANGED <<task, inputs, client, result, cache, history>>,
         UNCHANGED runner \/ RunnerOK', UNCHANGED artifacts \/ ArtifactsOK',
         UNCHANGED chunks \/ ChunksOK', UNCHANGED bounds \/ BoundsOK'
  PROVE  TypeOK'
  <1>1. /\ task' \in Scenarios /\ RunnerOK' /\ InputsOK' /\ ClientOK' /\ ResultOK' /\ ArtifactsOK'
        /\ CacheOK' /\ ChunksOK' /\ BoundsOK' /\ HistoryOK'
    BY NoShift, Unchanged DEF history, inputs
  <1> QED BY <1>1 DEF TypeOK

LEMMA ChunkFacts ==
  1 \in Nat \ {0} /\ Chunks \subseteq Nat \ {0} /\ NoText \in Text /\ \A a, lost : NoText \in Own(a, lost)
  <1>1. Cardinality(Chunks) \in Nat /\ Chunks = 1 .. Cardinality(Chunks)
    BY TranscriptionAssumption, FS_CardinalityType DEF TranscriptionAssumption
  <1>2. Chunks \subseteq Nat \ {0}
    BY <1>1
  <1>3. NoText \in Text
    BY DEF NoText, Text, Missing
  <1>4. \A a, lost : NoText \in Own(a, lost)
    BY DEF NoText, Own, Missing, Failed
  <1> QED BY <1>2, <1>3, <1>4

LEMMA OwnIsText ==
  ASSUME TypeOK, NEW a \in Nat \ {0}, NEW lost
  PROVE  Own(a, lost) \subseteq Text /\ MayBe(a, lost) \subseteq Nat \ {0}
  <1>1. MayBe(a, lost) \subseteq Nat \ {0}
    BY TaskFacts DEF MayBe
  <1> QED BY <1>1 DEF Own, Text, Missing, Failed

\* A source begins with the chunk file as it is.
LEMMA SourceOpened ==
  ASSUME TypeOK, NEW j \in JobState, j.of \in Clients, j.at = "chunk",
         NEW i \in Sources(j.of[1]), Len(j.texts) = i - 1,
         \A n \in 1 .. Len(j.texts) : j.texts[n] \in Own(Audios(j.of[1])[n], j.of[1] \in shifted)
  PROVE  JobIs(OpensSource(j, i)) /\ OpensSource(j, i).of = j.of
  <1> DEFINE r == j.of[1]
             o == OpensSource(j, i)
             had == chunks[r][i]
             audio == normalized[r][i]
  <1>1. r \in Runs
    BY TaskFacts
  <1>2. Sources(r) = 1 .. Len(Audios(r)) /\ Len(Audios(r)) \in Nat /\ Audios(r)[i] \in Nat \ {0}
    BY <1>1, TaskFacts
  <1>3. /\ had \in Own(Audios(r)[i], r \in shifted)
        /\ audio \in MayBe(Audios(r)[i], r \in shifted) \cup {Missing}
    BY <1>1 DEF TypeOK, ChunksOK, InputsOK
  <1>4. /\ had \in Text /\ NoText \in Text /\ NoText \in Own(Audios(r)[i], r \in shifted)
        /\ audio \in Nat
    BY <1>2, <1>3, OwnIsText, ChunkFacts DEF Missing
  <1>5. i \in Nat \ {0} /\ 1 \in Nat \ {0}
    BY <1>2
  <1>6. o = [j EXCEPT !.source = i, !.audio = audio, !.chunk = 1, !.had = had, !.now = NoText]
    BY DEF OpensSource, chunksPath
  <1> HIDE DEF o, had, audio
  <1>7. /\ o \in JobState /\ o.of = j.of /\ o.at = "chunk" /\ o.source = i /\ o.had = had
        /\ o.audio = audio /\ o.now = NoText /\ o.texts = j.texts
    BY <1>4, <1>5, <1>6 DEF JobState
  <1> QED
    <2>1. o.of[1] = r
      BY <1>7
    <2>2. JobIs(o)
      BY <1>3, <1>4, <1>7, <2>1 DEF JobIs
    <2> QED BY <1>7, <2>2 DEF o

LEMMA TakeStep == ASSUME TypeOK, takeJob PROVE TypeOK'
  <1>1. PICK w \in waiting :
          /\ waiting' = waiting \ {w}
          /\ job' = OpensSource([NoJob EXCEPT !.of = w, !.at = "chunk"], 1)
    BY Zenon DEF takeJob
  <1>2. UNCHANGED <<task, inputs, runner, client, files, service, bounds, history>>
    BY DEF takeJob
  <1> DEFINE j == [NoJob EXCEPT !.of = w, !.at = "chunk"]
  <1>3. w \in Clients /\ posted[w] # 0
    BY DEF TypeOK, ServiceOK
  <1>4. w \in Runs \X (Nat \ {0}) /\ 1 \in Sources(w[1])
    <2>1. w[1] \in Runs /\ Sources(w[1]) = 1 .. Len(Audios(w[1])) /\ Len(Audios(w[1])) \in Nat
      BY <1>3, TaskFacts
    <2>2. posted[w] \in Nat /\ posted[w] <= Len(Audios(w[1]))
      BY <1>3 DEF TypeOK, InputsOK
    <2> QED BY <1>3, <2>1, <2>2, TaskFacts
  <1>5. j \in JobState /\ j.of = w /\ j.at = "chunk" /\ j.texts = <<>>
    <2> DEFINE First == [of : {<<>>, w}, at : {None, "chunk"}, source : {1}, audio : {Missing},
                         chunk : {1}, had : Text, now : Text, texts : {<<>>}]
    <2>1. NoJob \in First
      BY ChunkFacts DEF NoJob
    <2>2. j \in First /\ j.of = w /\ j.at = "chunk"
      BY <2>1
    <2> HIDE DEF j
    <2>3. <<>> \in Seq(Text) /\ 1 \in Nat \ {0} /\ Missing \in Nat
      BY DEF Missing
    <2> QED BY <1>4, <2>2, <2>3 DEF JobState
  <1> HIDE DEF j
  <1>6. Len(j.texts) = 1 - 1 /\ 1 .. Len(j.texts) = {}
    BY <1>5
  <1>7. JobIs(OpensSource(j, 1)) /\ OpensSource(j, 1).of = w
    BY <1>3, <1>4, <1>5, <1>6, SourceOpened
  <1>8. job' = OpensSource(j, 1)
    BY <1>1 DEF j
  <1>9. ServiceOK'
    BY <1>1, <1>2, <1>3, <1>7, <1>8, JobTaken DEF TypeOK, ServiceOK, inputs, history
  <1> QED BY <1>2, <1>9, ServiceOnly DEF files

LEMMA ChunkStep == ASSUME TypeOK, transcribeChunk PROVE TypeOK'
  <1> DEFINE r == JobRun
             i == job.source
             x == job.chunk
             a == Audios(r)[i]
             lost == r \in shifted
  <1>1. /\ job.at = "chunk" /\ x \in Chunks
        /\ UNCHANGED <<task, inputs, runner, client, result, artifacts, cache, service, waiting, kills,
                       history>>
    BY Zenon DEF transcribeChunk
  <1>2. job # NoJob
    BY <1>1, JobAt
  <1>3. JobIs(job) /\ r \in Runs /\ posted[job.of] # 0
    BY <1>2, JobFacts
  <1>4. /\ job \in JobState /\ i \in Sources(r) /\ job.had \in Own(a, lost) /\ job.now \in Own(a, lost)
        /\ job.audio \in MayBe(a, lost) \cup {Missing}
    BY <1>3 DEF JobIs, JobRun
  <1>5. a \in Nat \ {0}
    BY <1>3, <1>4, TaskFacts
  <1>6. PICK value \in {job.audio, Failed} \cup {job.had[x]} :
          /\ job' = [job EXCEPT !.chunk = @ + 1, !.now[x] = value]
          /\ UNCHANGED trouble \/ Trouble
          /\ \/ UNCHANGED chunks
             \/ chunks' = [chunks EXCEPT ![r][chunksPath(i)] = [job.now EXCEPT ![x] = value]]
    <2> DEFINE Nx(value) == job' = [job EXCEPT !.chunk = @ + 1, !.now[job.chunk] = value]
               Wr(value) == chunks' = [chunks EXCEPT ![JobRun][chunksPath(job.source)] =
                                             [job.now EXCEPT ![job.chunk] = value]]
               prior == job.had[job.chunk]
    <2>1. IF prior \notin {Missing, Failed}
          THEN Nx(prior) /\ UNCHANGED <<chunks, trouble>>
          ELSE \E success \in BOOLEAN :
                 LET value == IF success THEN job.audio ELSE Failed
                 IN  Outcome(success) /\ Nx(value) /\ Wr(value)
      BY Zenon DEF transcribeChunk
    <2> HIDE DEF Nx, Wr, prior
    <2>2. \E value \in {job.audio, Failed} \cup {prior} :
            Nx(value) /\ (UNCHANGED trouble \/ Trouble) /\ (UNCHANGED chunks \/ Wr(value))
      BY <2>1 DEF Outcome
    <2> QED BY <2>2 DEF Nx, Wr, prior
  <1>7. value \in MayBe(a, lost) \cup {Missing, Failed}
    BY <1>1, <1>4, <1>6 DEF Own
  <1> DEFINE now == [job.now EXCEPT ![x] = value]
  <1>8. now \in Own(a, lost)
    BY <1>1, <1>4, <1>7 DEF Own
  <1>9. now \in Text
    BY <1>5, <1>8, OwnIsText
  <1>10. job' = [job EXCEPT !.chunk = @ + 1, !.now = now]
    BY <1>6
  <1>11. x + 1 \in Nat \ {0}
    BY <1>4 DEF JobState
  <1> HIDE DEF now
  <1>12. /\ job' \in JobState /\ job'.of = job.of /\ job'.at = job.at /\ job'.source = job.source
         /\ job'.audio = job.audio /\ job'.had = job.had /\ job'.now = now /\ job'.texts = job.texts
    BY <1>4, <1>9, <1>10, <1>11 DEF JobState
  <1>13. JobIs(job') /\ posted[job'.of] # 0
    BY <1>3, <1>8, <1>12 DEF JobIs, JobRun
  <1>14. ServiceOK'
    BY <1>1, <1>13, JobTaken DEF TypeOK, ServiceOK, inputs, history
  <1>15. UNCHANGED chunks \/ ChunksOK'
    <2>1. CASE chunks' = [chunks EXCEPT ![r][chunksPath(i)] = now]
      <3> DEFINE row == [chunks[r] EXCEPT ![i] = now]
      <3>1. chunks' = [chunks EXCEPT ![r] = row]
        BY <2>1 DEF chunksPath
      <3>2. chunks[r] = [n \in Sources(r) |-> chunks[r][n]]
        BY <1>3 DEF TypeOK, ChunksOK
      <3>3. /\ row = [n \in Sources(r) |-> row[n]] /\ row[i] = now
            /\ \A n \in Sources(r) : n # i => row[n] = chunks[r][n]
        BY <1>4, <3>2
      <3> HIDE DEF row
      <3>4. chunks = [q \in Runs |-> chunks[q]]
        BY DEF TypeOK, ChunksOK
      <3>5. /\ chunks' = [q \in Runs |-> chunks'[q]] /\ chunks'[r] = row
            /\ \A q \in Runs : q # r => chunks'[q] = chunks[q]
        BY <1>3, <3>1, <3>4
      <3>6. shifted' = shifted
        BY <1>1 DEF history
      <3>7. \A q \in Runs : /\ Audios(q)' = Audios(q) /\ Sources(q)' = Sources(q)
                            /\ chunks[q] = [n \in Sources(q) |-> chunks[q][n]]
                            /\ \A n \in Sources(q) : chunks[q][n] \in Own(Audios(q)[n], q \in shifted)
        <4>1. /\ chunks = [q \in Runs |-> [n \in Sources(q) |-> chunks[q][n]]]
              /\ \A q \in Runs : \A n \in Sources(q) : chunks[q][n] \in Own(Audios(q)[n], q \in shifted)
          BY DEF TypeOK, ChunksOK
        <4>2. \A q \in Runs : chunks[q] = [n \in Sources(q) |-> chunks[q][n]]
          BY <4>1
        <4>3. \A q : Audios(q)' = Audios(q) /\ Sources(q)' = Sources(q)
          BY <1>1 DEF Audios, Sources
        <4>4. \A q \in Runs : \A n \in Sources(q) : chunks[q][n] \in Own(Audios(q)[n], q \in shifted)
          BY DEF TypeOK, ChunksOK
        <4> QED BY <4>2, <4>3, <4>4
      <3>8. \A q \in Runs : chunks'[q] = [n \in Sources(q)' |-> chunks'[q][n]]
        <4> SUFFICES ASSUME NEW q \in Runs PROVE chunks'[q] = [n \in Sources(q) |-> chunks'[q][n]]
          BY <3>7
        <4>1. CASE q = r
          BY <3>3, <3>5, <4>1
        <4>2. CASE q # r
          BY <3>5, <3>7, <4>2
        <4> QED BY <4>1, <4>2
      <3>9. \A q \in Runs : \A n \in Sources(q)' : chunks'[q][n] \in Own(Audios(q)[n], q \in shifted)'
        <4> SUFFICES ASSUME NEW q \in Runs, NEW n \in Sources(q)'
                     PROVE  chunks'[q][n] \in Own(Audios(q)[n], q \in shifted)'
          OBVIOUS
        <4>1. n \in Sources(q) /\ chunks[q][n] \in Own(Audios(q)[n], q \in shifted)
          BY <3>7
        <4>2. chunks'[q][n] \in Own(Audios(q)[n], q \in shifted)
          <5>1. CASE q = r /\ n = i
            BY <1>8, <3>3, <3>5, <4>1, <5>1
          <5>2. CASE ~(q = r /\ n = i)
            BY <3>3, <3>5, <4>1, <5>2
          <5> QED BY <5>1, <5>2
        <4> QED BY <1>1, <3>6, <4>2, SamePlaces
      <3>10. chunks' = [q \in Runs |-> [n \in Sources(q)' |-> chunks'[q][n]]]
        BY <3>5, <3>8
      <3> QED BY <3>9, <3>10 DEF ChunksOK
    <2> QED BY <1>6, <2>1 DEF now
  <1>16. BoundsOK'
    BY <1>1, <1>6, TroubleTypes
  <1> QED BY <1>1, <1>14, <1>15, <1>16, ServiceOnly

LEMMA SourceEndStep == ASSUME TypeOK, transcribe_file_end PROVE TypeOK'
  <1> DEFINE r == JobRun
             i == job.source
             all == Audios(r)
             lost == r \in shifted
             text == chunks[r][i]
             read == [job EXCEPT !.texts = Append(@, text)]
  <1>1. /\ job.at = "chunk"
        /\ UNCHANGED <<task, inputs, runner, client, files, service, waiting, bounds, history>>
        /\ job' = IF i + 1 \in 1 .. posted[job.of] THEN OpensSource(read, i + 1)
                  ELSE [read EXCEPT !.at = "write-transcript"]
    BY DEF transcribe_file_end, chunksPath
  <1>2. job # NoJob
    BY <1>1, JobAt
  <1>3. JobIs(job) /\ r \in Runs /\ job.of \in Clients /\ posted[job.of] # 0
    BY <1>2, JobFacts
  <1>4. /\ job \in JobState /\ i \in Sources(r) /\ Len(job.texts) = i - 1 /\ job.of[1] = r
        /\ job.had \in Own(all[i], lost) /\ job.now \in Own(all[i], lost)
        /\ job.audio \in MayBe(all[i], lost) \cup {Missing}
        /\ \A n \in 1 .. Len(job.texts) : job.texts[n] \in Own(all[n], lost)
    BY <1>1, <1>3 DEF JobIs, JobRun
  <1>5. Sources(r) = 1 .. Len(all) /\ Len(all) \in Nat /\ all[i] \in Nat \ {0}
    BY <1>3, <1>4, TaskFacts
  <1>6. text \in Own(all[i], lost) /\ text \in Text
    BY <1>3, <1>4, <1>5, OwnIsText DEF TypeOK, ChunksOK
  <1>7. /\ posted[job.of] \in Nat /\ posted[job.of] <= Len(all)
        /\ r \notin shifted => posted[job.of] = Len(all)
    BY <1>3, <1>4 DEF TypeOK, InputsOK
  <1> HIDE DEF text, all
  <1> DEFINE texts == Append(job.texts, text)
  <1>8. /\ texts \in Seq(Text) /\ Len(texts) = i
        /\ \A n \in 1 .. Len(texts) : texts[n] \in Own(all[n], lost)
    <2>1. job.texts \in Seq(Text) /\ i \in Nat \ {0}
      BY <1>4, <1>5 DEF JobState
    <2> DEFINE s == job.texts
    <2>2. s \in Seq(Text) /\ Len(s) = i - 1 /\ \A n \in 1 .. Len(s) : s[n] \in Own(all[n], lost)
      BY <1>4, <2>1
    <2>3. texts = Append(s, text)
      OBVIOUS
    <2> HIDE DEF s, texts
    <2>4. /\ texts \in Seq(Text) /\ Len(texts) = Len(s) + 1 /\ texts[Len(s) + 1] = text
          /\ \A n \in 1 .. Len(s) : texts[n] = s[n]
      BY <1>6, <2>2, <2>3
    <2>5. ASSUME NEW n \in 1 .. Len(texts) PROVE texts[n] \in Own(all[n], lost)
      <3>1. CASE n = i
        BY <1>6, <2>1, <2>2, <2>4, <3>1
      <3>2. CASE n # i
        <4>1. n \in 1 .. Len(s)
          <5> DEFINE m == Len(s)
                     k == Len(texts)
          <5>1. m = i - 1 /\ k = m + 1 /\ n \in 1 .. k
            BY <2>2, <2>4
          <5>2. i \in Nat \ {0} /\ n # i
            BY <2>1, <3>2
          <5> HIDE DEF m, k, i
          <5>3. n \in 1 .. m
            BY <5>1, <5>2
          <5> QED BY <5>3 DEF m
        <4> QED BY <2>2, <2>4, <4>1
      <3> QED BY <3>1, <3>2
    <2> QED BY <2>1, <2>2, <2>4, <2>5
  <1>9. read = [job EXCEPT !.texts = texts]
    OBVIOUS
  <1> HIDE DEF read, texts
  <1>10. /\ read \in JobState /\ read.of = job.of /\ read.at = "chunk" /\ read.source = i
         /\ read.audio = job.audio /\ read.texts = texts /\ read.had = job.had /\ read.now = job.now
    BY <1>1, <1>4, <1>8, <1>9 DEF JobState
  <1>11. JobIs(job') /\ job'.of = job.of
    <2>1. CASE i + 1 \in 1 .. posted[job.of]
      <3>1. read.of[1] = r
        BY <1>4, <1>10
      <3>2. i + 1 \in Sources(read.of[1]) /\ Len(read.texts) = (i + 1) - 1
        <4> DEFINE m == posted[job.of]
        <4>1. m \in Nat /\ m <= Len(all) /\ Len(all) \in Nat /\ i + 1 \in 1 .. m /\ i \in Nat
          BY <1>4, <1>5, <1>7, <2>1
        <4> HIDE DEF m
        <4>2. i + 1 \in 1 .. Len(all) /\ i = (i + 1) - 1
          BY <4>1
        <4> QED BY <1>5, <1>8, <1>10, <3>1, <4>2
      <3>3. \A n \in 1 .. Len(read.texts) : read.texts[n] \in Own(Audios(read.of[1])[n], read.of[1] \in shifted)
        BY <1>8, <1>10, <3>1 DEF all
      <3>4. JobIs(OpensSource(read, i + 1)) /\ OpensSource(read, i + 1).of = read.of
        BY <1>3, <1>10, <3>2, <3>3, SourceOpened
      <3> QED BY <1>1, <1>10, <2>1, <3>4
    <2>2. CASE i + 1 \notin 1 .. posted[job.of]
      <3> DEFINE o == [read EXCEPT !.at = "write-transcript"]
      <3>1. /\ o \in JobState /\ o.of = job.of /\ o.at = "write-transcript" /\ o.source = i
            /\ o.texts = texts /\ o.had = job.had /\ o.now = job.now /\ o.audio = job.audio
        BY <1>10 DEF JobState
      <3>2. r \notin shifted => i = Len(all)
        BY <1>4, <1>5, <1>7, <2>2
      <3>3. job' = o
        BY <1>1, <2>2
      <3> HIDE DEF o
      <3>4. job'.of[1] = r
        BY <1>4, <3>1, <3>3
      <3>5. JobIs(o)
        BY <1>3, <1>4, <1>8, <3>1, <3>2, <3>3, <3>4 DEF JobIs, all
      <3> QED BY <3>1, <3>3, <3>5
    <2> QED BY <2>1, <2>2
  <1>12. ServiceOK'
    BY <1>1, <1>3, <1>11, JobTaken DEF TypeOK, ServiceOK, inputs, history
  <1> QED BY <1>1, <1>12, ServiceOnly DEF files

LEMMA FullOutputSteps == ASSUME TypeOK, build_full_outputs PROVE TypeOK'
  <1> DEFINE r == JobRun
             lost == r \in shifted
  <1>1. UNCHANGED <<task, inputs, runner, client, result, chunks, cache, service, waiting, bounds, history>>
    BY DEF build_full_outputs
  <1>2. PICK stage \in {"write-evidence", "write-summary", "done"} :
          /\ job.at \in {"write-transcript", "write-evidence", "write-summary"}
          /\ job' = [job EXCEPT !.at = stage]
    BY DEF build_full_outputs
  <1>3. job # NoJob
    BY <1>2, JobAt
  <1>4. JobIs(job) /\ r \in Runs /\ posted[job.of] # 0
    BY <1>3, JobFacts
  <1>5. /\ job \in JobState /\ job.of[1] = r /\ (r \notin shifted => Len(job.texts) = Len(Audios(r)))
        /\ \A i \in 1 .. Len(job.texts) : job.texts[i] \in Own(Audios(r)[i], lost)
    BY <1>2, <1>4 DEF JobIs, JobRun
  <1>6. /\ job' \in JobState /\ job'.of = job.of /\ job'.at = stage /\ job'.source = job.source
        /\ job'.audio = job.audio /\ job'.had = job.had /\ job'.now = job.now /\ job'.texts = job.texts
    BY <1>2, <1>5 DEF JobState
  <1>7. JobIs(job')
    BY <1>4, <1>5, <1>6 DEF JobIs
  <1>8. ServiceOK'
    BY <1>1, <1>4, <1>6, <1>7, JobTaken DEF TypeOK, ServiceOK, inputs, history
  <1>9. LocalTexts \in Texts /\ HasOwn(LocalTexts, Audios(r), lost)
    <2>1. job.texts \in Seq(Text) /\ LocalTexts = [by |-> <<Local, r>>, texts |-> job.texts]
      BY <1>5 DEF JobState, LocalTexts
    <2>2. LocalTexts \in Texts
      BY <1>4, <2>1 DEF Texts
    <2>3. DOMAIN job.texts = 1 .. Len(job.texts)
      BY <2>1
    <2>4. \A i \in DOMAIN job.texts, c \in Chunks :
             job.texts[i][c] \in MayBe(Audios(r)[i], lost) \cup {Missing, Failed}
      BY <1>5, <2>3 DEF Own
    <2>5. LocalTexts.texts = job.texts
      BY <2>1
    <2> QED BY <1>5, <2>2, <2>4, <2>5 DEF HasOwn
  <1>10. ArtifactsOK'
    <2>1. PICK texts : texts = LocalTexts
      OBVIOUS
    <2>2. PICK summary : summary = LocalSummary
      OBVIOUS
    <2>3. texts \in Texts /\ HasOwn(texts, Audios(r), lost) /\ summary \in {"complete", "needs_review"}
      BY <1>9, <2>1, <2>2 DEF LocalSummary
    <2>4. PICK q \in Runs : q = r
      BY <1>4
    <2>5. Shifts /\ shifted' = shifted
      BY <1>1, NoShift DEF history
    <2>6. HasOwn(texts, Audios(q), q \in shifted)'
      BY <1>1, <2>3, <2>4, <2>5, SamePlaces DEF HasOwn
    <2>7. /\ \A part \in {"transcript", "evidence"} : Part(part, texts, Audios(q), q \in shifted)'
          /\ Part("summary", summary, Audios(q), q \in shifted)'
      BY <2>3, <2>6 DEF Part
    <2>8. \E part \in {"transcript", "evidence"} : Writes(q, part, texts) \/ Writes(q, "summary", summary)
      BY <2>1, <2>2, <2>4 DEF build_full_outputs
    <2> QED BY <2>5, <2>7, <2>8, PartWritten
  <1> QED BY <1>1, <1>8, <1>10, ServiceOnly

\* Runners that are waiting are answered.
LEMMA AnsweredTypes ==
  ASSUME TypeOK, task' = task, NEW jobs, NEW stage \in {"answered", "blocked"}, Answers(jobs, stage)
  PROVE  RunnerOK'
  <1>1. runner \in [Runs -> RunnerState]
    BY DEF TypeOK, RunnerOK
  <1>2. Clients' = Clients /\ \A q \in Runs : Audios(q)' = Audios(q)
    BY DEF Audios, Clients
  <1>3. ASSUME NEW q \in Runs
        PROVE  /\ runner'[q] \in RunnerState /\ <<q, runner'[q].execution>> \in Clients
               /\ runner'[q].at # "idle" => runner'[q].provider # None
               /\ runner'[q].at \notin {"idle", "skipped"} => Audios(q) # <<>>
    <2> DEFINE m == [runner[q] EXCEPT !.at = stage]
    <2>1. runner'[q] = IF At(q, "posted") /\ JobOf(q) \in jobs THEN m ELSE runner[q]
      BY DEF Answers
    <2>2. /\ m \in RunnerState /\ m.at = stage /\ m.provider = runner[q].provider
          /\ m.execution = runner[q].execution
      BY <1>1 DEF RunnerState, RunnerStages
    <2>3. /\ runner[q].at # "idle" => runner[q].provider # None
          /\ runner[q].at \notin {"idle", "skipped"} => Audios(q) # <<>>
          /\ <<q, runner[q].execution>> \in Clients
      BY DEF TypeOK, RunnerOK, JobOf
    <2> HIDE DEF m
    <2> QED BY <1>1, <2>1, <2>2, <2>3 DEF At
  <1>4. runner' \in [Runs -> RunnerState]
    BY <1>3 DEF Answers
  <1>5. ASSUME NEW q \in Runs PROVE JobOf(q)' \in Clients'
    <2>1. JobOf(q)' = <<q, runner'[q].execution>>
      BY DEF JobOf
    <2> QED BY <1>2, <1>3, <2>1
  <1> QED BY <1>2, <1>3, <1>4, <1>5 DEF RunnerOK

LEMMA ServiceEndSteps ==
  ASSUME TypeOK, do_POST \/ ServiceDies \/ ServiceStarts
  PROVE  TypeOK'
  <1>1. /\ UNCHANGED <<task, inputs, client, files, history>>
        /\ service' \in {"up", "down"} /\ waiting' \subseteq waiting
        /\ job' = NoJob \/ job' = job
    BY DEF do_POST, ServiceDies, ServiceStarts, TypeOK, ServiceOK
  <1>2. ServiceOK'
    BY <1>1, JobTaken, JobFacts DEF inputs, history
  <1>3. UNCHANGED runner \/ RunnerOK'
    BY <1>1, AnsweredTypes DEF do_POST, ServiceDies, ServiceStarts
  <1>4. UNCHANGED bounds \/ BoundsOK'
    BY KillTypes, TroubleTypes DEF do_POST, ServiceDies, ServiceStarts
  <1> QED BY <1>1, <1>2, <1>3, <1>4, ServiceOnly DEF files

-----------------------------------------------------------------------------
(* Types, and whose the texts are.                                         *)

LEMMA InitTypes == Init => TypeOK
  <1> SUFFICES ASSUME Init PROVE TypeOK
    OBVIOUS
  <1>1. task \in Scenarios /\ task \in Scenario
    BY TranscriptionAssumption DEF Init, TranscriptionAssumption
  <1>2. RunnerOK
    <2>1. Idle \in RunnerState /\ Idle.at = "idle"
      BY DEF Idle, RunnerState, RunnerStages
    <2>2. ASSUME NEW r \in Runs PROVE JobOf(r) \in Clients
      <3>1. task.executions[r] \in Nat \ {0}
        BY <1>1 DEF Scenario
      <3>2. 1 \in 1 .. task.executions[r]
        BY <3>1
      <3>3. <<r, 1>> \in Clients
        BY <3>2 DEF Clients
      <3> QED BY <3>3 DEF Init, JobOf, Idle
    <2> QED BY <2>1, <2>2 DEF Init, RunnerOK
  <1>3. ClientOK /\ ResultOK
    BY <1>1, AudioFacts, NoClientState DEF Init, ClientOK, ResultOK
  <1>4. \A all, lost : OwnArtifacts(NoArtifacts, all, lost)
    <2>1. NoTexts \in Texts
      BY DEF NoTexts, Texts
    <2>2. NoArtifacts \in Artifacts
      BY <2>1 DEF NoArtifacts, Artifacts
    <2> QED BY <2>2 DEF NoArtifacts, OwnArtifacts, HasOwn
  <1>5. ArtifactsOK /\ CacheOK
    BY <1>4 DEF Init, ArtifactsOK, CacheOK
  <1>6. ChunksOK
    BY ChunkFacts DEF Init, ChunksOK
  <1>7. ServiceOK /\ BoundsOK /\ HistoryOK
    BY DEF Init, ServiceOK, BoundsOK, HistoryOK
  <1>8. InputsOK
    <2>1. ASSUME NEW r \in Runs PROVE Audios(r) \in sourceAudioPaths(r)
      <3> DEFINE all == Audios(r)
                 n == Len(all)
                 at == [i \in 1 .. n |-> i]
      <3>1. all \in Seq(Nat \ {0}) /\ n \in Nat /\ DOMAIN all = 1 .. n
        BY <1>1, AudioFacts
      <3> HIDE DEF all, n
      <3>2. at \in {f \in [1 .. n -> DOMAIN all] : \A i, j \in 1 .. n : i < j => f[i] < f[j]}
        BY <3>1
      <3>3. all = [i \in 1 .. n |-> all[at[i]]]
        BY <3>1
      <3>4. n \in 0 .. Len(all)
        BY <3>1 DEF n
      <3> HIDE DEF at
      <3>5. all \in Existing(all)
        BY <3>2, <3>3, <3>4 DEF Existing
      <3> QED BY <3>5 DEF all, sourceAudioPaths
    <2>2. \A p \in Clients : p[1] \in Runs /\ Len(Audios(p[1])) \in Nat
      BY <1>1, AudioFacts
    <2> QED BY <2>1, <2>2 DEF Init, InputsOK
  <1> QED BY <1>1, <1>2, <1>3, <1>5, <1>6, <1>7, <1>8 DEF TypeOK

LEMMA TypesStep == TypeOK /\ [Next]_vars => TypeOK'
  <1> SUFFICES ASSUME TypeOK, [Next]_vars PROVE TypeOK'
    OBVIOUS
  <1>1. CASE Service
    BY <1>1, TakeStep, ChunkStep, SourceEndStep, FullOutputSteps, ServiceEndSteps DEF Service
  <1>2. ASSUME NEW r \in Runs, Runner(r) PROVE TypeOK'
    BY <1>2, BeginSteps, GoSteps, CopyInStep, CopyOutStep, GateSteps, ClientDoneStep,
       NormalizeStep, PostStep DEF Runner
  <1>3. ASSUME NEW r \in Runs, ExecuteAgain(r) \/ RunnerDies(r) PROVE TypeOK'
    BY <1>3, AgainStep, GoSteps
  <1>4. ASSUME NEW p \in Clients, Client(p) PROVE TypeOK'
    BY <1>4, PlanStep, StageSteps, SourceSteps, OutputSteps, CloudDoneStep DEF Client
  <1>5. ASSUME NEW p \in Clients, ClientDies(p) PROVE TypeOK'
    BY <1>5, GateSteps, TaskFacts
  <1>6. CASE UNCHANGED vars
    BY <1>6, NoShift, Unchanged DEF vars, files, history, inputs, TypeOK
  <1> QED BY <1>1, <1>2, <1>3, <1>4, <1>5, <1>6 DEF Next

(* At every time every part of the state is what it is meant to be, and    *)
(* every text that is kept, in a run's directory, in the cache, in a chunk *)
(* file or in the hands of the service, is of the audio it stands for; or, *)
(* where a run whose places have shifted has written, of an audio of such  *)
(* a run.                                                                  *)
THEOREM TypeCorrect == Spec => []TypeOK
  BY InitTypes, TypesStep, PTL DEF Spec

(* The transcript and the evidence of a run that found all its audios, and *)
(* took nothing over from one that did not, are of its own audios, each    *)
(* text in its place, whoever recognised them: this run, an earlier        *)
(* execution whose job or client went on, or another run through the       *)
(* cache.  A run that went on with some of its audios may have texts of    *)
(* the others in their place, and hand them on; never of a run this has    *)
(* not happened to.                                                        *)
THEOREM TextsAreOwn == Spec => []OwnAudio
  <1>1. TypeOK => OwnAudio
    BY DEF TypeOK, ArtifactsOK, OwnArtifacts, OwnAudio
  <1> QED BY <1>1, TypeCorrect, PTL

-----------------------------------------------------------------------------
(* Nobody is told of a normalised file that has not been written.          *)

LEMMA SameTask ==
  ASSUME task' = task
  PROVE  /\ Clients' = Clients
         /\ \A r : Audios(r)' = Audios(r) /\ Sources(r)' = Sources(r)
  BY DEF Clients, Audios, Sources

FilesStay == \A r \in Runs : \A i \in Sources(r) :
                 normalized[r][i] # Missing => normalized'[r][i] # Missing

LEMMA WrittenStays ==
  ASSUME TypeOK, FilesStay, NEW r \in Runs, NEW n, n \in 0 .. Len(Audios(r)), Written(r, n)
  PROVE  \A i \in 1 .. n : normalized'[r][i] # Missing
  <1>1. Sources(r) = 1 .. Len(Audios(r)) /\ Len(Audios(r)) \in Nat
    BY TaskFacts
  <1>2. \A i \in 1 .. n : i \in Sources(r)
    BY <1>1
  <1> QED BY <1>2 DEF FilesStay, Written

\* Runners and clients that are told nothing new.
RunnerStays(r) ==
    /\ audios'[r] = audios[r]
    /\ \/ runner'[r] = runner[r]
       \/ /\ runner'[r].at \notin {"idle", "post"}
          /\ runner'[r].provider = runner[r].provider
          /\ runner'[r].attempt = runner[r].attempt

LEMMA RunnersReady ==
  ASSUME TypeOK, ReadyOK, FilesStay, \A r \in Runs : RunnerStays(r) \/ RunnerReady(r)'
  PROVE  \A r \in Runs : RunnerReady(r)'
  <1> SUFFICES ASSUME NEW r \in Runs, RunnerStays(r) PROVE RunnerReady(r)'
    OBVIOUS
  <1>1. RunnerReady(r)
    BY DEF ReadyOK
  <1>2. runner'[r].at = "idle" => runner'[r].attempt = 1
    BY <1>1 DEF RunnerStays, RunnerReady
  <1>3. Normalized(r)' => Normalized(r)
    BY DEF RunnerStays, Normalized
  <1>4. audios[r] \in sourceAudioPaths(r) /\ task \in Scenarios
    BY DEF TypeOK, InputsOK
  <1>5. Len(audios[r]) \in 0 .. Len(Audios(r))
    BY <1>4, FoundFacts, TaskFacts
  <1>6. ASSUME Normalized(r)' PROVE \A i \in 1 .. Len(audios[r]) : normalized'[r][i] # Missing
    <2>1. Written(r, Len(audios[r]))
      BY <1>1, <1>3, <1>6 DEF RunnerReady
    <2> QED BY <1>5, <2>1, WrittenStays
  <1> QED BY <1>2, <1>6 DEF RunnerReady, Written, RunnerStays

ClientStays(p) ==
    \/ client'[p].at = "off"
    \/ /\ client[p].at # "off"
       /\ client'[p].paths = client[p].paths /\ client'[p].attempt = client[p].attempt

LEMMA ClientsReady ==
  ASSUME TypeOK, ReadyOK, FilesStay, task' = task,
         \A p \in Clients : client'[p] = client[p] \/ ClientStays(p) \/ ClientReady(p)'
  PROVE  \A p \in Clients' : ClientReady(p)'
  <1> SUFFICES ASSUME NEW p \in Clients, client'[p] = client[p] \/ ClientStays(p),
                      client'[p].at # "off"
               PROVE  /\ client'[p].attempt = 2 =>
                           \A i \in 1 .. Len(client'[p].paths) : normalized'[p[1]][i] # Missing
                      /\ \A i \in DOMAIN client'[p].paths : client'[p].paths[i] # Missing
    BY SameTask DEF ClientReady, Written
  <1>1. client[p].at # "off" /\ client'[p].paths = client[p].paths /\ client'[p].attempt = client[p].attempt
    BY DEF ClientStays
  <1>2. ClientReady(p)
    BY DEF ReadyOK
  <1>3. PathsOK(client[p], p[1]) /\ client[p] \in ClientState /\ p[1] \in Runs
    BY TaskFacts DEF TypeOK, ClientOK
  <1>4. Len(client[p].paths) \in 0 .. Len(Audios(p[1]))
    <2> DEFINE s == client[p].paths
    <2>1. s \in Seq(Nat) /\ Len(s) <= Len(Audios(p[1])) /\ Len(Audios(p[1])) \in Nat
      BY <1>3, TaskFacts DEF PathsOK, ClientState
    <2> HIDE DEF s
    <2>2. Len(s) \in Nat
      BY <2>1
    <2> QED BY <2>1, <2>2 DEF s
  <1>5. ASSUME client[p].attempt = 2
        PROVE  \A i \in 1 .. Len(client[p].paths) : normalized'[p[1]][i] # Missing
    <2>1. Written(p[1], Len(client[p].paths))
      BY <1>1, <1>2, <1>5 DEF ClientReady
    <2> QED BY <1>3, <1>4, <2>1, WrittenStays
  <1> QED BY <1>1, <1>2, <1>5 DEF ClientReady

\* The service that is given nothing new.
LEMMA ServiceReady ==
  ASSUME TypeOK, ReadyOK, FilesStay, posted' = posted, waiting' \subseteq waiting,
         job' # NoJob => job # NoJob /\ job'.of = job.of /\ job'.audio = job.audio
  PROVE  (\A p \in waiting : Written(p[1], posted[p]))' /\ JobReady'
  <1>1. ASSUME NEW p \in Clients, Written(p[1], posted[p])
        PROVE  \A i \in 1 .. posted[p] : normalized'[p[1]][i] # Missing
    <2>1. p[1] \in Runs /\ posted[p] \in 0 .. Len(Audios(p[1]))
      BY TaskFacts DEF TypeOK, InputsOK
    <2> QED BY <1>1, <2>1, WrittenStays
  <1>2. \A p \in waiting' : p \in Clients /\ Written(p[1], posted[p])
    BY DEF TypeOK, ServiceOK, ReadyOK
  <1>3. ASSUME job' # NoJob PROVE job.of \in Clients /\ Written(JobRun, posted[job.of]) /\ job.audio # Missing
    BY <1>3, JobFacts DEF ReadyOK, JobReady
  <1>4. (\A p \in waiting : Written(p[1], posted[p]))'
    BY <1>1, <1>2 DEF Written
  <1>5. JobReady'
    BY <1>1, <1>3 DEF JobReady, JobRun, Written
  <1> QED BY <1>4, <1>5

LEMMA SameFiles == ASSUME normalized' = normalized PROVE FilesStay
  BY DEF FilesStay

\* Runners that go on, and those whose waiting is over, are told nothing new.
LEMMA GoesStays ==
  ASSUME TypeOK, NEW r \in Runs, NEW stage, stage \notin {"idle", "post"}, Goes(r, stage),
         audios' = audios
  PROVE  \A q \in Runs : RunnerStays(q)
  <1>1. runner \in [Runs -> RunnerState] /\ runner[r] \in RunnerState
    BY DEF TypeOK, RunnerOK
  <1> DEFINE m == [runner[r] EXCEPT !.at = stage]
  <1>2. \A q \in Runs : runner'[q] = IF q = r THEN m ELSE runner[q]
    BY <1>1 DEF Goes
  <1>3. m.at = stage /\ m.provider = runner[r].provider /\ m.attempt = runner[r].attempt
    BY <1>1 DEF RunnerState
  <1> HIDE DEF m
  <1> QED BY <1>2, <1>3 DEF RunnerStays

LEMMA CloudFailsStays ==
  ASSUME TypeOK, NEW r \in Runs, NEW why, CloudFails(r, why), audios' = audios
  PROVE  \A q \in Runs : RunnerStays(q)
  <1>1. runner \in [Runs -> RunnerState] /\ runner[r] \in RunnerState
    BY DEF TypeOK, RunnerOK
  <1> DEFINE m(stage) == [runner[r] EXCEPT !.at = stage]
  <1>2. PICK stage \in {"normalize", "fallback", "blocked"} : runner' = [runner EXCEPT ![r] = m(stage)]
    BY DEF CloudFails
  <1>3. m(stage).at = stage /\ m(stage).provider = runner[r].provider /\ m(stage).attempt = runner[r].attempt
    BY <1>1 DEF RunnerState
  <1> HIDE DEF m
  <1>4. \A q \in Runs : runner'[q] = IF q = r THEN m(stage) ELSE runner[q]
    BY <1>1, <1>2
  <1> QED BY <1>3, <1>4 DEF RunnerStays

LEMMA AnswersStay ==
  ASSUME TypeOK, NEW jobs, NEW stage \in {"answered", "blocked"}, Answers(jobs, stage),
         audios' = audios
  PROVE  \A q \in Runs : RunnerStays(q)
  <1> SUFFICES ASSUME NEW q \in Runs PROVE RunnerStays(q)
    OBVIOUS
  <1> DEFINE m == [runner[q] EXCEPT !.at = stage]
  <1>1. runner[q] \in RunnerState
    BY DEF TypeOK, RunnerOK
  <1>2. m.at = stage /\ m.provider = runner[q].provider /\ m.attempt = runner[q].attempt
    BY <1>1 DEF RunnerState
  <1>3. runner'[q] = m \/ runner'[q] = runner[q]
    BY DEF Answers
  <1> HIDE DEF m
  <1> QED BY <1>2, <1>3 DEF RunnerStays

LEMMA RunnersStay ==
  ASSUME UNCHANGED <<runner, audios>>
  PROVE  \A q \in Runs : RunnerStays(q)
  BY DEF RunnerStays

\* The steps of runners that tell nobody of files.
LEMMA RunnerStepsReady ==
  ASSUME TypeOK, ReadyOK, NEW r \in Runs,
         \/ lookup(r) \/ copyIn(r) \/ copyOut(r) \/ runDashScopeAsrClient(r)
         \/ preflightLocalAsrService(r) \/ postJson_timeout(r) \/ ensureLocalAsr_answered(r)
  PROVE  ReadyOK'
  <1>1. UNCHANGED <<task, inputs, client, localService>>
    BY DEF lookup, copyIn, copyOut, runDashScopeAsrClient, preflightLocalAsrService, postJson_timeout,
       ensureLocalAsr_answered
  <1>2. (\E stage : stage \notin {"idle", "post"} /\ Goes(r, stage)) \/ \E why : CloudFails(r, why)
    <2>1. CASE copyIn(r) \/ copyOut(r)
      <3>1. PICK n \in DOMAIN Parts : Goes(r, After(n, CopyIn)) \/ Goes(r, After(n, CopyOut))
        BY <2>1 DEF copyIn, copyOut
      <3>2. n \in {1, 2, 3}
        BY DEF Parts
      <3>3. After(n, CopyIn) \notin {"idle", "post"} /\ After(n, CopyOut) \notin {"idle", "post"}
        BY <3>2 DEF After, CopyIn, CopyOut
      <3> QED BY <3>1, <3>3
    <2>2. CASE lookup(r)
      <3> DEFINE stage == IF completeAsrSummary(artifacts[r]) THEN "completed"
                          ELSE IF completeAsrSummary(cache[KeyOf(r)]) THEN "transcript-in"
                          ELSE IF runner[r].provider = Cloud THEN "gate" ELSE "preflight"
      <3>1. stage \notin {"idle", "post"} /\ Goes(r, stage)
        BY <2>2 DEF lookup
      <3> HIDE DEF stage
      <3> QED BY <3>1
    <2>3. CASE runDashScopeAsrClient(r)
      <3>1. Goes(r, "transcript-out") \/ \E why : CloudFails(r, why)
        BY <2>3 DEF runDashScopeAsrClient
      <3> QED BY <3>1
    <2>4. CASE \/ preflightLocalAsrService(r) \/ postJson_timeout(r) \/ ensureLocalAsr_answered(r)
      <3>1. Goes(r, "normalize") \/ Goes(r, "blocked") \/ Goes(r, "transcript-out")
        BY <2>4 DEF preflightLocalAsrService, postJson_timeout, ensureLocalAsr_answered
      <3> QED BY <3>1
    <2> QED BY <2>1, <2>2, <2>3, <2>4
  <1>3. \A q \in Runs : RunnerStays(q)
    BY <1>1, <1>2, GoesStays, CloudFailsStays DEF inputs
  <1>4. FilesStay
    BY <1>1, SameFiles DEF inputs
  <1>5. \A q \in Runs : RunnerReady(q)'
    BY <1>3, <1>4, RunnersReady
  <1>6. \A p \in Clients' : ClientReady(p)'
    BY <1>1, <1>4, ClientsReady
  <1>7. (\A p \in waiting : Written(p[1], posted[p]))' /\ JobReady'
    BY <1>1, <1>4, ServiceReady DEF inputs, localService
  <1> QED BY <1>5, <1>6, <1>7 DEF ReadyOK

\* A reading, and the beginning of another execution.
LEMMA BeginReady ==
  ASSUME TypeOK, ReadyOK, NEW r \in Runs,
         ensureAsrTranscription(r) \/ ensureLocalAsr(r) \/ ExecuteAgain(r)
  PROVE  ReadyOK'
  <1>1. UNCHANGED <<task, normalized, posted, client, localService>>
    BY DEF ensureAsrTranscription, ensureLocalAsr, ExecuteAgain, inputs
  <1>2. runner \in [Runs -> RunnerState] /\ runner[r] \in RunnerState
    BY DEF TypeOK, RunnerOK
  <1>3. audios = [q \in Runs |-> audios[q]]
    BY DEF TypeOK, InputsOK
  <1>4. \A q \in Runs : q # r => RunnerStays(q)
    <2>1. \A q \in Runs : q # r => runner'[q] = runner[q]
      BY <1>2 DEF ensureAsrTranscription, ensureLocalAsr, ExecuteAgain
    <2>2. audios' = audios \/ \E x : audios' = [audios EXCEPT ![r] = x]
      BY DEF ensureAsrTranscription, ensureLocalAsr, ExecuteAgain, Finds, inputs
    <2>3. \A q \in Runs : q # r => audios'[q] = audios[q]
      BY <1>3, <2>2
    <2> QED BY <2>1, <2>3 DEF RunnerStays
  <1>5. RunnerReady(r)'
    <2>1. CASE ensureAsrTranscription(r)
      <3> DEFINE m(provider, stage) == [runner[r] EXCEPT !.provider = provider, !.at = stage]
      <3>1. PICK stage \in {"skipped", "lookup"} : runner' = [runner EXCEPT ![r] = m(task.provider, stage)]
        BY <2>1 DEF ensureAsrTranscription
      <3>2. m(task.provider, stage).at = stage /\ m(task.provider, stage).attempt = runner[r].attempt
        BY <1>2 DEF RunnerState
      <3> HIDE DEF m
      <3>3. runner'[r].at = stage /\ runner'[r].attempt = runner[r].attempt
        BY <1>2, <3>1, <3>2
      <3>4. runner[r].attempt = 1
        BY <2>1 DEF ensureAsrTranscription, At, ReadyOK, RunnerReady
      <3> QED BY <3>3, <3>4 DEF RunnerReady, Normalized
    <2>2. CASE ensureLocalAsr(r)
      <3> DEFINE m(stage) == [runner[r] EXCEPT !.provider = Local, !.at = stage]
      <3>1. PICK stage \in {"blocked", "lookup"} : runner' = [runner EXCEPT ![r] = m(stage)]
        BY <2>2 DEF ensureLocalAsr
      <3>2. m(stage).at = stage /\ m(stage).provider = Local
        BY <1>2 DEF RunnerState
      <3> HIDE DEF m
      <3>3. runner'[r].at = stage /\ runner'[r].provider = Local
        BY <1>2, <3>1, <3>2
      <3> QED BY <3>3 DEF RunnerReady, Normalized, Cloud, Local
    <2>3. CASE ExecuteAgain(r)
      <3> DEFINE m == [Idle EXCEPT !.execution = runner[r].execution + 1]
      <3>1. m.at = "idle" /\ m.attempt = 1
        BY DEF Idle
      <3>2. runner'[r] = m
        BY <1>2, <2>3 DEF ExecuteAgain
      <3> HIDE DEF m
      <3> QED BY <3>1, <3>2 DEF RunnerReady, Normalized
    <2> QED BY <2>1, <2>2, <2>3
  <1>6. FilesStay
    BY <1>1, SameFiles
  <1>7. \A q \in Runs : RunnerReady(q)'
    BY <1>4, <1>5, <1>6, RunnersReady
  <1>8. \A p \in Clients' : ClientReady(p)'
    BY <1>1, <1>6, ClientsReady
  <1>9. (\A p \in waiting : Written(p[1], posted[p]))' /\ JobReady'
    BY <1>1, <1>6, ServiceReady DEF localService
  <1> QED BY <1>7, <1>8, <1>9 DEF ReadyOK

\* The client is told of the files that are there, or is no more.
LEMMA ClientsReadyIs ==
  ASSUME TypeOK, ReadyOK, UNCHANGED <<task, inputs, localService>>,
         \A r \in Runs : RunnerStays(r),
         \A p \in Clients : client'[p] = client[p] \/ ClientStays(p) \/ ClientReady(p)'
  PROVE  ReadyOK'
  <1>1. FilesStay
    BY SameFiles DEF inputs
  <1>2. \A q \in Runs : RunnerReady(q)'
    BY <1>1, RunnersReady
  <1>3. \A p \in Clients' : ClientReady(p)'
    BY <1>1, ClientsReady
  <1>4. (\A p \in waiting : Written(p[1], posted[p]))' /\ JobReady'
    BY <1>1, ServiceReady DEF inputs, localService
  <1> QED BY <1>2, <1>3, <1>4 DEF ReadyOK

LEMMA ClientOffReady ==
  ASSUME TypeOK, ReadyOK, UNCHANGED <<task, inputs, runner, localService>>,
         NEW p, client' = [client EXCEPT ![p] = NoClient]
  PROVE  ReadyOK'
  <1>1. \A q \in Clients : client'[q] = client[q] \/ client'[q] = NoClient
    BY DEF TypeOK, ClientOK
  <1>2. \A q \in Clients : client'[q] = client[q] \/ ClientStays(q)
    BY <1>1 DEF ClientStays, NoClient
  <1> QED BY <1>2, RunnersStay, ClientsReadyIs DEF inputs

LEMMA GateReady == ASSUME IInv, NEW r \in Runs, policy_gate_check(r) PROVE ReadyOK'
  <1>1. /\ UNCHANGED <<task, inputs, localService>> /\ runner[r].at = "gate"
        /\ TypeOK /\ ReadyOK
    BY DEF policy_gate_check, At, IInv
  <1>2. audios[r] \in sourceAudioPaths(r) /\ task \in Scenarios
    BY <1>1 DEF TypeOK, InputsOK
  <1>3. audios[r] \in Seq(Nat) /\ \A i \in DOMAIN audios[r] : audios[r][i] # Missing
    <2> DEFINE s == audios[r]
    <2>1. s \in Seq(Nat \ {0}) /\ \A i \in DOMAIN s : s[i] \in Nat \ {0}
      BY <1>2, FoundFacts
    <2> HIDE DEF s
    <2>2. s \in Seq(Nat) /\ \A i \in DOMAIN s : s[i] # Missing
      BY <2>1 DEF Missing
    <2> QED BY <2>2 DEF s
  <1>4. runner \in [Runs -> RunnerState] /\ runner[r] \in RunnerState /\ runner[r].attempt \in {1, 2}
    BY <1>1 DEF TypeOK, RunnerOK, RunnerState
  <1>5. runner[r].provider = Cloud
    BY <1>1, TaskFacts DEF IInv, OnceOK, CloudOK
  <1>6. PICK s \in Seq(Nat), n \in {1, 2} : s = audios[r] /\ n = runner[r].attempt
    BY <1>3, <1>4
  <1>7. PICK p \in Clients : p = JobOf(r) /\ p[1] = r
    BY <1>1 DEF TypeOK, RunnerOK, JobOf
  <1>8. CASE client' = [client EXCEPT ![p] = Planned(s, n)] /\ Goes(r, "client")
    <2>1. Planned(s, n).paths = s /\ Planned(s, n).attempt = n
      BY ClientBegins
    <2>2. client'[p] = Planned(s, n) /\ \A q \in Clients : q # p => client'[q] = client[q]
      BY <1>1, <1>8 DEF TypeOK, ClientOK
    <2>3. n = 2 => Written(r, Len(s))
      BY <1>1, <1>5, <1>6 DEF ReadyOK, RunnerReady, Normalized
    <2>4. \A i \in DOMAIN s : s[i] # Missing
      BY <1>3, <1>6
    <2>5. ClientReady(p)'
      BY <1>1, <1>7, <2>1, <2>2, <2>3, <2>4 DEF ClientReady, Written, inputs
    <2>6. \A q \in Runs : RunnerStays(q)
      BY <1>1, <1>8, GoesStays DEF inputs
    <2> QED BY <1>1, <2>2, <2>5, <2>6, ClientsReadyIs
  <1>9. CASE CloudFails(r, "policy") /\ UNCHANGED client
    <2>1. \A q \in Runs : RunnerStays(q)
      BY <1>1, <1>9, CloudFailsStays DEF inputs
    <2> QED BY <1>1, <1>9, <2>1, ClientsReadyIs
  <1> QED BY <1>6, <1>7, <1>8, <1>9 DEF policy_gate_check, Planned

LEMMA PlanReady == ASSUME TypeOK, ReadyOK, NEW p \in Clients, planDashScopeInput(p) PROVE ReadyOK'
  <1>1. /\ UNCHANGED <<task, inputs, runner, localService>>
        /\ client[p].at = "plan"
    BY DEF planDashScopeInput, ClientAt
  <1>2. /\ client[p] \in ClientState /\ PathsOK(client[p], p[1]) /\ ClientReady(p)
        /\ client \in [Clients -> ClientState]
    BY DEF TypeOK, ClientOK, ReadyOK
  <1> DEFINE file == normalized[p[1]][client[p].source]
             c(stage) == PathOpened(client[p], file, stage)
  <1>3. \/ \E stage \in {"prepare", "connect"} : client' = [client EXCEPT ![p] = c(stage)]
        \/ client' = [client EXCEPT ![p] = NoClient]
    <2> DEFINE stage == IF task.mode # "realtime" /\ task.transport THEN "prepare" ELSE "connect"
    <2>1. \/ client' = [client EXCEPT ![p] = c(stage)]
          \/ client' = [client EXCEPT ![p] = NoClient]
      BY DEF planDashScopeInput
    <2>2. stage \in {"prepare", "connect"}
      OBVIOUS
    <2> HIDE DEF stage, c
    <2> QED BY <2>1, <2>2
  <1>4. ASSUME NEW stage \in {"prepare", "connect"}, client' = [client EXCEPT ![p] = c(stage)]
        PROVE  ReadyOK'
    <2> DEFINE was == client[p].paths
               i == client[p].source
    <2>1. /\ was \in Seq(Nat) /\ DOMAIN was = 1 .. Len(was)
          /\ client[p].attempt = 2 => Written(p[1], Len(was))
          /\ \A n \in DOMAIN was : was[n] # Missing
      <3>1. was \in Seq(Nat)
        BY <1>2 DEF ClientState
      <3> HIDE DEF was
      <3>2. DOMAIN was = 1 .. Len(was)
        BY <3>1
      <3> QED BY <1>1, <1>2, <3>1, <3>2 DEF ClientReady, was
    <2>2. /\ c(stage).attempt = client[p].attempt
          /\ c(stage).paths = [was EXCEPT ![i] = IF client[p].attempt = 2 THEN file ELSE @]
      BY <1>2 DEF ClientState, PathOpened
    <2> HIDE DEF c, was
    <2>3. \A n \in DOMAIN was : n = i /\ client[p].attempt = 2 => file # Missing
      BY <2>1 DEF Written
    <2> HIDE DEF file, i
    <2>4. Len(c(stage).paths) = Len(was) /\ \A n \in DOMAIN c(stage).paths : c(stage).paths[n] # Missing
      BY <2>1, <2>2, <2>3
    <2>5. client'[p] = c(stage) /\ \A q \in Clients : q # p => client'[q] = client[q]
      BY <1>2, <1>4
    <2>6. ClientReady(p)'
      BY <1>1, <2>1, <2>2, <2>4, <2>5 DEF ClientReady, Written, inputs
    <2> QED BY <1>1, <2>5, <2>6, RunnersStay, ClientsReadyIs DEF inputs
  <1> HIDE DEF c
  <1> QED BY <1>1, <1>3, <1>4, ClientOffReady

LEMMA SourceDoneReady ==
  ASSUME TypeOK, ReadyOK, NEW p \in Clients, NEW heard \in BOOLEAN, SourceDone(p, heard),
         client[p].at # "off", UNCHANGED <<task, inputs, runner, localService>>
  PROVE  ReadyOK'
  <1>1. client \in [Clients -> ClientState] /\ client[p] \in ClientState
    BY DEF TypeOK, ClientOK
  <1> DEFINE more == client[p].source + 1 \in DOMAIN client[p].paths
             h == IF heard THEN client[p].heard \cup {client[p].source} ELSE client[p].heard
             stage == IF more THEN "plan" ELSE "write-transcript"
             n == IF more THEN client[p].source + 1 ELSE client[p].source
  <1>2. client' = [client EXCEPT ![p] = [client[p] EXCEPT !.heard = h, !.at = stage, !.source = n]]
    BY DEF SourceDone
  <1> HIDE DEF more, h, stage, n
  <1> DEFINE c == [client[p] EXCEPT !.heard = h, !.at = stage, !.source = n]
  <1>3. c.paths = client[p].paths /\ c.attempt = client[p].attempt
    BY <1>1 DEF ClientState
  <1> HIDE DEF c
  <1>4. client'[p] = c /\ \A q \in Clients : q # p => client'[q] = client[q]
    BY <1>1, <1>2 DEF c
  <1>5. \A q \in Clients : client'[q] = client[q] \/ ClientStays(q)
    BY <1>3, <1>4 DEF ClientStays
  <1> QED BY <1>5, RunnersStay, ClientsReadyIs DEF inputs

LEMMA ClientStepsReady ==
  ASSUME TypeOK, ReadyOK, NEW p \in Clients,
         \/ prepareFileDiarization(p) \/ uploadSourceToOss(p) \/ submitFileTask(p)
         \/ pollFileTask(p) \/ wsOpen(p) \/ wsTaskStarted(p)
         \/ downloadTranscription(p) \/ wsTaskFinished(p)
         \/ buildOutputs(p) \/ transcribeDashScopeAsr_done(p)
  PROVE  ReadyOK'
  <1>1. UNCHANGED <<task, inputs, runner, localService>> /\ client[p].at # "off"
    BY DEF prepareFileDiarization, uploadSourceToOss, submitFileTask, pollFileTask, wsOpen,
       wsTaskStarted, ClientStep, downloadTranscription, wsTaskFinished, buildOutputs,
       transcribeDashScopeAsr_done, ClientAt
  <1>2. \/ \E stage : ClientGoes(p, stage)
        \/ \E why : ClientFails(p, why)
        \/ \E heard \in BOOLEAN : SourceDone(p, heard)
        \/ client' = [client EXCEPT ![p] = NoClient]
    <2>1. CASE \/ prepareFileDiarization(p) \/ uploadSourceToOss(p) \/ submitFileTask(p)
               \/ pollFileTask(p) \/ wsOpen(p) \/ wsTaskStarted(p)
      BY <2>1 DEF prepareFileDiarization, uploadSourceToOss, submitFileTask, pollFileTask, wsOpen,
         wsTaskStarted, ClientStep
    <2>2. CASE downloadTranscription(p) \/ wsTaskFinished(p)
      BY <2>2 DEF downloadTranscription, wsTaskFinished
    <2>3. CASE buildOutputs(p) \/ transcribeDashScopeAsr_done(p)
      BY <2>3 DEF buildOutputs, transcribeDashScopeAsr_done
    <2> QED BY <2>1, <2>2, <2>3
  <1>3. ASSUME NEW stage, ClientGoes(p, stage) PROVE ReadyOK'
    <2> DEFINE c == [client[p] EXCEPT !.at = stage]
    <2>1. client \in [Clients -> ClientState] /\ client[p] \in ClientState
      BY DEF TypeOK, ClientOK
    <2>2. c.paths = client[p].paths /\ c.attempt = client[p].attempt
      BY <2>1 DEF ClientState
    <2>3. client'[p] = c /\ \A q \in Clients : q # p => client'[q] = client[q]
      BY <1>3, <2>1 DEF ClientGoes
    <2> HIDE DEF c
    <2>4. \A q \in Clients : client'[q] = client[q] \/ ClientStays(q)
      BY <1>1, <2>2, <2>3 DEF ClientStays
    <2> QED BY <1>1, <2>4, RunnersStay, ClientsReadyIs DEF inputs
  <1>4. ASSUME NEW why, ClientFails(p, why) PROVE ReadyOK'
    BY <1>1, <1>4, ClientOffReady DEF ClientFails
  <1> QED BY <1>1, <1>2, <1>3, <1>4, SourceDoneReady, ClientOffReady

\* What the service's steps make of its job.
LEMMA TakeIs ==
  ASSUME TypeOK, takeJob
  PROVE  \E w \in waiting :
           /\ waiting' = waiting \ {w}
           /\ job'.of = w /\ job'.at = "chunk" /\ job'.source = 1 /\ job'.chunk = 1
           /\ job'.audio = normalized[w[1]][1] /\ job'.had = chunks[w[1]][1] /\ job'.texts = <<>>
  <1>1. PICK w \in waiting :
          /\ waiting' = waiting \ {w}
          /\ job' = OpensSource([NoJob EXCEPT !.of = w, !.at = "chunk"], 1)
    BY Zenon DEF takeJob
  <1> DEFINE j == [NoJob EXCEPT !.of = w, !.at = "chunk"]
             had == chunks[w[1]][1]
             audio == normalized[w[1]][1]
             First == [of : {<<>>, w}, at : {None, "chunk"}, source : {1}, audio : {Missing},
                       chunk : {1}, had : Text, now : Text, texts : {<<>>}]
  <1>2. NoJob \in First
    BY ChunkFacts DEF NoJob
  <1>3. j \in First /\ j.of = w /\ j.at = "chunk" /\ j.texts = <<>>
    BY <1>2
  <1> HIDE DEF j
  <1>4. job' = [j EXCEPT !.source = 1, !.audio = audio, !.chunk = 1, !.had = had, !.now = NoText]
    BY <1>1, <1>3 DEF OpensSource, chunksPath, j
  <1> HIDE DEF had, audio
  <1>5. /\ job'.of = w /\ job'.at = "chunk" /\ job'.source = 1 /\ job'.chunk = 1
        /\ job'.audio = audio /\ job'.had = had /\ job'.texts = <<>>
    BY <1>3, <1>4
  <1> QED BY <1>1, <1>5 DEF audio, had

LEMMA ChunkIs ==
  ASSUME TypeOK, transcribeChunk
  PROVE  \E value \in {job.audio, Failed, job.had[job.chunk]} :
           LET now == [job.now EXCEPT ![job.chunk] = value]
           IN  /\ job.at = "chunk" /\ job \in JobState
               /\ job' = [job EXCEPT !.chunk = @ + 1, !.now = now]
               /\ job'.of = job.of /\ job'.at = "chunk" /\ job'.source = job.source
               /\ job'.audio = job.audio /\ job'.texts = job.texts
               /\ job'.chunk = job.chunk + 1 /\ job'.now = now
               /\ \/ chunks' = chunks /\ value = job.had[job.chunk] /\ value \notin {Missing, Failed}
                  \/ /\ chunks' = [chunks EXCEPT ![JobRun][job.source] = now]
                     /\ value \in {job.audio, Failed}
  <1> DEFINE Nx(value) == job' = [job EXCEPT !.chunk = @ + 1, !.now[job.chunk] = value]
             Wr(value) == chunks' = [chunks EXCEPT ![JobRun][chunksPath(job.source)] =
                                           [job.now EXCEPT ![job.chunk] = value]]
             prior == job.had[job.chunk]
  <1>1. IF prior \notin {Missing, Failed}
        THEN Nx(prior) /\ UNCHANGED <<chunks, trouble>>
        ELSE \E success \in BOOLEAN :
               LET value == IF success THEN job.audio ELSE Failed
               IN  Outcome(success) /\ Nx(value) /\ Wr(value)
    BY Zenon DEF transcribeChunk
  <1> HIDE DEF Nx, Wr
  <1>2. \E value \in {job.audio, Failed, prior} :
          /\ Nx(value)
          /\ \/ chunks' = chunks /\ value = prior /\ value \notin {Missing, Failed}
             \/ Wr(value) /\ value \in {job.audio, Failed}
    BY <1>1
  <1>3. PICK value \in {job.audio, Failed, prior} :
          /\ Nx(value)
          /\ \/ chunks' = chunks /\ value = prior /\ value \notin {Missing, Failed}
             \/ Wr(value) /\ value \in {job.audio, Failed}
    BY <1>2
  <1> DEFINE now == [job.now EXCEPT ![job.chunk] = value]
  <1>4. job' = [job EXCEPT !.chunk = @ + 1, !.now = now]
    BY <1>3 DEF Nx
  <1>5. Wr(value) => chunks' = [chunks EXCEPT ![JobRun][job.source] = now]
    BY DEF Wr, chunksPath
  <1>6. job.at = "chunk"
    BY Zenon DEF transcribeChunk
  <1>7. job \in JobState
    BY <1>6, JobAt, JobFacts DEF JobIs
  <1> HIDE DEF now
  <1>8. /\ job'.of = job.of /\ job'.at = "chunk" /\ job'.source = job.source
        /\ job'.audio = job.audio /\ job'.texts = job.texts
        /\ job'.chunk = job.chunk + 1 /\ job'.now = now
    BY <1>4, <1>6, <1>7 DEF JobState
  <1> QED BY <1>3, <1>4, <1>5, <1>6, <1>7, <1>8 DEF now

LEMMA SourceEndIs ==
  ASSUME TypeOK, transcribe_file_end
  PROVE  LET i == job.source
         IN  /\ job.at = "chunk" /\ job \in JobState
             /\ job'.of = job.of /\ job'.texts = Append(job.texts, chunks[JobRun][i])
             /\ \/ /\ i + 1 \in 1 .. posted[job.of]
                   /\ job'.at = "chunk" /\ job'.source = i + 1 /\ job'.chunk = 1
                   /\ job'.audio = normalized[JobRun][i + 1] /\ job'.had = chunks[JobRun][i + 1]
                \/ job'.at = "write-transcript" /\ job'.audio = job.audio
  <1> DEFINE i == job.source
             texts == Append(job.texts, chunks[JobRun][i])
             read == [job EXCEPT !.texts = Append(@, chunks[JobRun][i])]
             had == chunks[JobRun][i + 1]
             audio == normalized[JobRun][i + 1]
  <1>1. /\ job.at = "chunk"
        /\ job' = IF i + 1 \in 1 .. posted[job.of] THEN OpensSource(read, i + 1)
                  ELSE [read EXCEPT !.at = "write-transcript"]
    BY DEF transcribe_file_end, chunksPath
  <1>2. job \in JobState
    BY <1>1, JobAt, JobFacts DEF JobIs
  <1>3. read = [job EXCEPT !.texts = texts]
    OBVIOUS
  <1> HIDE DEF read, texts
  <1>4. read \in [of : {job.of}, at : {"chunk"}, source : Nat \ {0}, audio : {job.audio},
                  chunk : Nat \ {0}, had : Text, now : Text, texts : {texts}]
    BY <1>1, <1>2, <1>3 DEF JobState
  <1>5. CASE i + 1 \in 1 .. posted[job.of]
    <2>1. job' = [read EXCEPT !.source = i + 1, !.audio = audio, !.chunk = 1, !.had = had, !.now = NoText]
      <3>1. read.of = job.of
        BY <1>4
      <3> QED BY <1>1, <1>5, <3>1 DEF OpensSource, chunksPath, JobRun
    <2> HIDE DEF audio, had
    <2>2. /\ job'.of = job.of /\ job'.texts = texts /\ job'.at = "chunk" /\ job'.source = i + 1
          /\ job'.chunk = 1 /\ job'.audio = audio /\ job'.had = had
      BY <1>4, <2>1
    <2> QED BY <1>1, <1>2, <1>5, <2>2 DEF texts, audio, had
  <1>6. CASE i + 1 \notin 1 .. posted[job.of]
    <2>1. job' = [read EXCEPT !.at = "write-transcript"]
      BY <1>1, <1>6
    <2>2. job'.of = job.of /\ job'.texts = texts /\ job'.at = "write-transcript" /\ job'.audio = job.audio
      BY <1>4, <2>1
    <2> QED BY <1>1, <1>2, <2>2 DEF texts
  <1> QED BY <1>5, <1>6

\* The service's job, and its end.
LEMMA JobReadyIs ==
  ASSUME TypeOK, ReadyOK, UNCHANGED <<task, inputs, client>>, \A r \in Runs : RunnerStays(r),
         waiting' \subseteq waiting,
         job' # NoJob => Written(job'.of[1], posted[job'.of]) /\ job'.audio # Missing
  PROVE  ReadyOK'
  <1>1. FilesStay
    BY SameFiles DEF inputs
  <1>2. \A q \in Runs : RunnerReady(q)'
    BY <1>1, RunnersReady
  <1>3. \A p \in Clients' : ClientReady(p)'
    BY <1>1, ClientsReady
  <1>4. \A p \in waiting' : Written(p[1], posted[p])
    BY DEF ReadyOK
  <1>5. (\A p \in waiting : Written(p[1], posted[p]))' /\ JobReady'
    BY <1>4 DEF Written, inputs, JobReady, JobRun
  <1> QED BY <1>2, <1>3, <1>5 DEF ReadyOK

LEMMA TakeReady == ASSUME TypeOK, ReadyOK, takeJob PROVE ReadyOK'
  <1>1. UNCHANGED <<task, inputs, runner, client>>
    BY DEF takeJob
  <1>2. PICK w \in waiting : waiting' = waiting \ {w} /\ job'.of = w /\ job'.audio = normalized[w[1]][1]
    BY TakeIs
  <1>3. Written(w[1], posted[w]) /\ 1 \in 1 .. posted[w]
    BY TaskFacts DEF TypeOK, ServiceOK, InputsOK, ReadyOK
  <1> QED BY <1>1, <1>2, <1>3, RunnersStay, JobReadyIs DEF Written, inputs

LEMMA JobStepsReady ==
  ASSUME TypeOK, ReadyOK, transcribeChunk \/ transcribe_file_end \/ build_full_outputs
  PROVE  ReadyOK'
  <1>1. UNCHANGED <<task, inputs, runner, client, waiting>> /\ job # NoJob
    <2>1. CASE transcribeChunk
      <3>1. UNCHANGED <<task, inputs, runner, client, waiting>> /\ job.at = "chunk"
        BY <2>1, Zenon DEF transcribeChunk
      <3> QED BY <3>1, JobAt
    <2>2. CASE transcribe_file_end \/ build_full_outputs
      BY <2>2, JobAt DEF transcribe_file_end, build_full_outputs
    <2> QED BY <2>1, <2>2
  <1>2. job \in JobState /\ Written(JobRun, posted[job.of]) /\ job.audio # Missing
    BY <1>1, JobFacts DEF ReadyOK, JobReady, JobIs
  <1>3. job'.of = job.of /\ job'.audio # Missing
    <2>1. CASE transcribeChunk
      BY <1>2, <2>1, ChunkIs
    <2>2. CASE transcribe_file_end
      BY <1>2, <2>2, SourceEndIs DEF Written
    <2>3. CASE build_full_outputs
      <3>1. PICK stage : job' = [job EXCEPT !.at = stage]
        BY <2>3 DEF build_full_outputs
      <3> QED BY <1>2, <3>1 DEF JobState
    <2> QED BY <2>1, <2>2, <2>3
  <1> QED BY <1>1, <1>2, <1>3, RunnersStay, JobReadyIs DEF JobRun, inputs

LEMMA ServiceStepsReady ==
  ASSUME TypeOK, ReadyOK, do_POST \/ ServiceDies \/ ServiceStarts \/ UNCHANGED vars
  PROVE  ReadyOK'
  <1>1. CASE do_POST \/ ServiceDies
    <2>1. UNCHANGED <<task, inputs, client>> /\ job' = NoJob /\ waiting' \subseteq waiting
      BY <1>1 DEF do_POST, ServiceDies
    <2>2. \E jobs, stage : stage \in {"answered", "blocked"} /\ Answers(jobs, stage)
      BY <1>1 DEF do_POST, ServiceDies
    <2>3. \A q \in Runs : RunnerStays(q)
      BY <2>1, <2>2, AnswersStay DEF inputs
    <2> QED BY <2>1, <2>3, JobReadyIs
  <1>2. CASE ServiceStarts \/ UNCHANGED vars
    <2>1. UNCHANGED <<task, inputs, runner, client, waiting, job>>
      BY <1>2 DEF ServiceStarts, vars, localService
    <2>2. job # NoJob => Written(JobRun, posted[job.of]) /\ job.audio # Missing
      BY DEF ReadyOK, JobReady
    <2> QED BY <2>1, <2>2, RunnersStay, JobReadyIs DEF inputs, JobRun
  <1> QED BY <1>1, <1>2

\* A batch of normalised files, whole or as far as it came.
LEMMA NormalizesIs ==
  ASSUME TypeOK, NEW r \in Runs, NEW n \in 0 .. Len(audios[r]), Normalizes(r, n)
  PROVE  FilesStay /\ \A i \in 1 .. n : normalized'[r][i] # Missing
  <1>1. audios[r] \in sourceAudioPaths(r) /\ task \in Scenarios
    BY DEF TypeOK, InputsOK
  <1>2. /\ Len(audios[r]) \in Nat /\ Len(audios[r]) <= Len(Audios(r))
        /\ DOMAIN audios[r] = 1 .. Len(audios[r])
        /\ \A i \in DOMAIN audios[r] : audios[r][i] \in Nat \ {0}
    BY <1>1, FoundFacts
  <1>3. Sources(r) = 1 .. Len(Audios(r)) /\ Len(Audios(r)) \in Nat
    BY TaskFacts
  <1>4. normalized = [q \in Runs |-> [i \in Sources(q) |-> normalized[q][i]]]
    BY DEF TypeOK, InputsOK
  <1>5. DOMAIN normalized[r] = Sources(r)
    BY <1>4
  <1>6. /\ normalized'[r] = [i \in Sources(r) |-> IF i <= n THEN audios[r][i] ELSE normalized[r][i]]
        /\ \A q \in Runs : q # r => normalized'[q] = normalized[q]
    BY <1>4, <1>5 DEF Normalizes
  <1>7. \A i \in 1 .. n : i \in DOMAIN audios[r] /\ i \in Sources(r)
    BY <1>2, <1>3
  <1>8. \A i \in Sources(r) : i <= n => i \in 1 .. n
    BY <1>3
  <1>9. \A i \in Sources(r) : normalized'[r][i] = IF i <= n THEN audios[r][i] ELSE normalized[r][i]
    BY <1>6
  <1>10. \A i \in Sources(r) : i <= n => normalized'[r][i] # Missing
    BY <1>2, <1>7, <1>8, <1>9 DEF Missing
  <1>11. FilesStay
    BY <1>6, <1>9, <1>10 DEF FilesStay
  <1>12. \A i \in 1 .. n : normalized'[r][i] # Missing
    BY <1>2, <1>3, <1>7, <1>10
  <1> QED BY <1>11, <1>12

\* Runners that write the files, and those that tell the service of them.
LEMMA FilesReady ==
  ASSUME TypeOK, ReadyOK, UNCHANGED <<task, posted, client, localService>>, FilesStay,
         \A r \in Runs : RunnerStays(r) \/ RunnerReady(r)'
  PROVE  ReadyOK'
  <1>1. \A q \in Runs : RunnerReady(q)'
    BY RunnersReady
  <1>2. \A p \in Clients' : ClientReady(p)'
    BY ClientsReady
  <1>3. (\A p \in waiting : Written(p[1], posted[p]))' /\ JobReady'
    BY ServiceReady DEF localService
  <1> QED BY <1>1, <1>2, <1>3 DEF ReadyOK

LEMMA NormalizeReady == ASSUME TypeOK, ReadyOK, NEW r \in Runs, normalizeAudioBatch(r) PROVE ReadyOK'
  <1>1. UNCHANGED <<task, audios, posted, client, localService>>
    BY DEF normalizeAudioBatch
  <1>2. runner \in [Runs -> RunnerState] /\ runner[r] \in RunnerState
    BY DEF TypeOK, RunnerOK
  <1>3. audios[r] \in sourceAudioPaths(r) /\ task \in Scenarios
    BY DEF TypeOK, InputsOK
  <1>4. Len(audios[r]) \in Nat
    BY <1>3, FoundFacts
  <1>5. CASE /\ Normalizes(r, Len(audios[r]))
             /\ IF runner[r].provider = Local THEN Goes(r, "post")
                ELSE runner' = [runner EXCEPT ![r].at = "gate", ![r].attempt = 2]
    <2>1. FilesStay /\ \A i \in 1 .. Len(audios[r]) : normalized'[r][i] # Missing
      BY <1>4, <1>5, NormalizesIs
    <2>2. runner'[r].at # "idle" /\ \A q \in Runs : q # r => runner'[q] = runner[q]
      <3>1. CASE Goes(r, "post")
        <4>1. runner'[r] = [runner[r] EXCEPT !.at = "post"]
          BY <1>2, <3>1 DEF Goes
        <4> QED BY <1>2, <3>1, <4>1 DEF Goes, RunnerState
      <3>2. CASE runner' = [runner EXCEPT ![r].at = "gate", ![r].attempt = 2]
        <4>1. runner'[r] = [runner[r] EXCEPT !.at = "gate", !.attempt = 2]
          BY <1>2, <3>2
        <4> QED BY <1>2, <3>2, <4>1 DEF RunnerState
      <3> QED BY <1>5, <3>1, <3>2
    <2>3. RunnerReady(r)'
      BY <1>1, <2>1, <2>2 DEF RunnerReady, Written
    <2>4. \A q \in Runs : q # r => RunnerStays(q)
      BY <1>1, <2>2 DEF RunnerStays
    <2> QED BY <1>1, <2>1, <2>3, <2>4, FilesReady
  <1>6. CASE /\ \E n \in 0 .. Len(audios[r]) : Normalizes(r, n)
             /\ IF runner[r].provider = Local THEN Goes(r, "blocked") ELSE CloudFails(r, "normalize")
    <2>1. FilesStay
      BY <1>6, NormalizesIs
    <2>2. \A q \in Runs : RunnerStays(q)
      BY <1>1, <1>6, GoesStays, CloudFailsStays
    <2> QED BY <1>1, <2>1, <2>2, FilesReady
  <1> QED BY <1>5, <1>6 DEF normalizeAudioBatch

LEMMA DiesReady == ASSUME TypeOK, ReadyOK, NEW r \in Runs, RunnerDies(r) PROVE ReadyOK'
  <1>1. UNCHANGED <<task, audios, posted, client, localService>> /\ Goes(r, "crashed")
    BY DEF RunnerDies
  <1>2. FilesStay
    BY NormalizesIs, SameFiles DEF RunnerDies
  <1>3. \A q \in Runs : RunnerStays(q)
    BY <1>1, GoesStays
  <1> QED BY <1>1, <1>2, <1>3, FilesReady

LEMMA PostReady == ASSUME TypeOK, ReadyOK, NEW r \in Runs, postJson(r) PROVE ReadyOK'
  <1>1. UNCHANGED <<task, audios, normalized, client, service, job>> /\ runner[r].at = "post"
    BY DEF postJson, At
  <1>2. FilesStay
    BY <1>1, SameFiles
  <1>3. \A q \in Runs : RunnerStays(q)
    BY <1>1, GoesStays DEF postJson
  <1>4. (\A q \in Runs : RunnerReady(q)') /\ \A p \in Clients' : ClientReady(p)'
    BY <1>1, <1>2, <1>3, RunnersReady, ClientsReady
  <1>5. JobOf(r) \in Clients /\ JobOf(r)[1] = r
    BY DEF TypeOK, RunnerOK, JobOf
  <1>6. \A p \in Clients : \/ posted'[p] = posted[p]
                           \/ p = JobOf(r) /\ posted'[p] = Len(audios[r])
    BY <1>5 DEF postJson, TypeOK, InputsOK
  <1>7. Written(r, Len(audios[r]))
    BY <1>1 DEF ReadyOK, RunnerReady, Normalized
  <1>8. \A p \in Clients : Written(p[1], posted[p]) => Written(p[1], posted'[p])
    BY <1>5, <1>6, <1>7
  <1>9. \A p \in waiting' : p \in Clients /\ Written(p[1], posted'[p])
    <2>1. \A p \in waiting : p \in Clients /\ Written(p[1], posted'[p])
      BY <1>8 DEF TypeOK, ServiceOK, ReadyOK
    <2>2. waiting' = waiting \/ (waiting' = waiting \cup {JobOf(r)} /\ posted' = [posted EXCEPT ![JobOf(r)] = Len(audios[r])])
      BY DEF postJson
    <2>3. posted' = [posted EXCEPT ![JobOf(r)] = Len(audios[r])] => Written(r, posted'[JobOf(r)])
      BY <1>5, <1>7 DEF TypeOK, InputsOK
    <2> QED BY <1>5, <2>1, <2>2, <2>3
  <1>10. job # NoJob => Written(JobRun, posted'[job.of]) /\ job.audio # Missing
    BY <1>8, JobFacts DEF ReadyOK, JobReady, JobRun
  <1>11. (\A p \in waiting : Written(p[1], posted[p]))' /\ JobReady'
    BY <1>1, <1>9, <1>10 DEF Written, JobReady, JobRun
  <1> QED BY <1>4, <1>11 DEF ReadyOK

LEMMA ReadyStep == IInv /\ [Next]_vars => ReadyOK'
  <1> SUFFICES ASSUME IInv, [Next]_vars PROVE ReadyOK'
    OBVIOUS
  <1>1. TypeOK /\ ReadyOK
    BY DEF IInv
  <1>2. CASE Service
    BY <1>1, <1>2, TakeReady, JobStepsReady, ServiceStepsReady DEF Service
  <1>3. ASSUME NEW p \in Clients, Client(p) PROVE ReadyOK'
    BY <1>1, <1>3, PlanReady, ClientStepsReady DEF Client
  <1>4. ASSUME NEW p, client' = [client EXCEPT ![p] = NoClient],
               UNCHANGED <<task, inputs, runner, localService>>
        PROVE  ReadyOK'
    BY <1>1, <1>4, ClientOffReady
  <1>5. ASSUME NEW p \in Clients, ClientDies(p) PROVE ReadyOK'
    BY <1>4, <1>5 DEF ClientDies
  <1>6. ASSUME NEW r \in Runs, Runner(r) PROVE ReadyOK'
    <2>1. CASE runCommand_timeout(r)
      BY <1>4, <2>1 DEF runCommand_timeout
    <2>2. CASE ~runCommand_timeout(r)
      BY <1>1, <1>6, <2>2, RunnerStepsReady, BeginReady, GateReady, NormalizeReady, PostReady DEF Runner
    <2> QED BY <2>1, <2>2
  <1>7. ASSUME NEW r \in Runs, ExecuteAgain(r) \/ RunnerDies(r) PROVE ReadyOK'
    BY <1>1, <1>7, BeginReady, DiesReady
  <1>8. CASE UNCHANGED vars
    BY <1>1, <1>8, ServiceStepsReady
  <1> QED BY <1>2, <1>3, <1>5, <1>6, <1>7, <1>8 DEF Next

-----------------------------------------------------------------------------
(* What is mixed stays mixed, and what nobody touches stays as it is.      *)

Later ==
    /\ task' = task
    /\ disturbed \subseteq disturbed'
    /\ \A k \in Keys : writers[k] \subseteq writers'[k]

LEMMA MixedLater ==
  ASSUME Later
  PROVE  /\ \A k \in Keys : MixedEntry(k) => MixedEntry(k)'
         /\ \A r \in Runs : Mixed(r) => Mixed(r)'
  <1>1. \A k \in Keys : MixedEntry(k) => MixedEntry(k)'
    <2> SUFFICES ASSUME NEW k \in Keys, MixedEntry(k) PROVE MixedEntry(k)'
      OBVIOUS
    <2>1. writers[k] \subseteq writers'[k] /\ disturbed \subseteq disturbed'
      BY DEF Later
    <2> QED BY <2>1 DEF MixedEntry
  <1>2. \A r \in Runs : Mixed(r) => Mixed(r)'
    <2> SUFFICES ASSUME NEW r \in Runs, Mixed(r) PROVE Mixed(r)'
      OBVIOUS
    <2>1. sourceAudioPaths(r)' = sourceAudioPaths(r)
      BY SameTask DEF Later, sourceAudioPaths
    <2>2. r \in disturbed => r \in disturbed'
      BY DEF Later
    <2> HIDE DEF Mixed
    <2>3. r \in disturbed \/ \E k \in Keys : MixedEntry(k) /\ k[2] \in sourceAudioPaths(r)
      BY DEF Mixed
    <2>4. Keys' = Keys
      BY DEF Keys
    <2>5. r \in disturbed' \/ \E k \in Keys' : MixedEntry(k)' /\ k[2] \in sourceAudioPaths(r)'
      BY <1>1, <2>1, <2>2, <2>3, <2>4
    <2> QED BY <2>5 DEF Mixed
  <1> QED BY <1>1, <1>2

\* A step in which nothing of a run changes.
SameRun(r) ==
    /\ runner'[r] = runner[r] /\ artifacts'[r] = artifacts[r] /\ audios'[r] = audios[r]
    /\ \A p \in Clients : p[1] = r => client'[p] = client[p]
    /\ \A j \in waiting' : j[1] = r => j \in waiting
    /\ job' # NoJob /\ job'.of[1] = r => job' = job

LEMMA SameKey ==
  ASSUME NEW r, runner'[r] = runner[r], audios'[r] = audios[r]
  PROVE  KeyOf(r)' = KeyOf(r)
  BY DEF KeyOf, audioCacheKey

LEMMA SameWork ==
  ASSUME task' = task, NEW r \in Runs, SameRun(r)
  PROVE  /\ OneAtWork(r) /\ (job' # NoJob /\ job'.of[1] = r => job'.of \notin waiting')
              => OneAtWork(r)'
         /\ CloudOK(r) => CloudOK(r)'
  <1>1. Clients' = Clients /\ JobOf(r)' = JobOf(r)
    BY SameTask DEF SameRun, JobOf
  <1>2. ASSUME OneAtWork(r), job' # NoJob /\ job'.of[1] = r => job'.of \notin waiting'
        PROVE  OneAtWork(r)'
    <2>1. \A p \in Clients' : p[1] = r /\ client'[p].at # "off"
              => p = JobOf(r)' /\ runner'[r].at = "client"
      BY <1>1, <1>2 DEF SameRun, OneAtWork
    <2>2. job' # NoJob /\ job'.of[1] = r =>
              runner'[r].at = "posted" /\ job'.of = JobOf(r)' /\ job'.of \notin waiting'
      BY <1>1, <1>2 DEF SameRun, OneAtWork, JobRun
    <2>3. \A j \in waiting' : j[1] = r => runner'[r].at = "posted" /\ j = JobOf(r)'
      BY <1>1, <1>2 DEF SameRun, OneAtWork
    <2> QED BY <2>1, <2>2, <2>3 DEF OneAtWork, JobRun
  <1> QED BY <1>2 DEF CloudOK, SameRun

LEMMA SameCopying ==
  ASSUME Later, NEW r \in Runs, SameRun(r), TypeOK, CopyingOut(r)
  PROVE  CopyingOut(r)'
  <1>1. runner'[r] = runner[r] /\ artifacts'[r] = artifacts[r] /\ KeyOf(r)' = KeyOf(r)
    BY SameKey DEF SameRun
  <1>2. runner[r].at # "idle" => KeyOf(r) \in Keys
    BY TaskFacts
  <1> QED BY <1>1, <1>2 DEF CopyingOut, Later, completeAsrSummary

LEMMA SameCloudTexts ==
  ASSUME NEW p, client'[p].heard = client[p].heard, client'[p].paths = client[p].paths
  PROVE  CloudTexts(p)' = CloudTexts(p)
  BY DEF CloudTexts, TextOf, NoText

CopyInStages == {"transcript-in", "evidence-in", "summary-in"}
CopyOutStages == {"transcript-out", "evidence-out", "summary-out"}

LEMMA SameRecognition ==
  ASSUME TypeOK, Later, NEW r \in Runs, SameRun(r), RecognisedOnce(r),
         runner[r].at \in CopyInStages /\ ~MixedEntry(KeyOf(r))' =>
            /\ cache'[KeyOf(r)].transcript = cache[KeyOf(r)].transcript
            /\ cache'[KeyOf(r)].evidence = cache[KeyOf(r)].evidence
            /\ cache'[KeyOf(r)].summary = cache[KeyOf(r)].summary
  PROVE  RecognisedOnce(r)'
  <1>1. Clients' = Clients
    BY SameTask DEF Later
  <1>2. runner'[r] = runner[r] /\ artifacts'[r] = artifacts[r] /\ KeyOf(r)' = KeyOf(r)
    BY SameKey DEF SameRun
  <1>3. Vouched(r)'
    <2>1. Mixed(r) => Mixed(r)'
      BY MixedLater
    <2> HIDE DEF Mixed
    <2> QED BY <1>2, <2>1 DEF RecognisedOnce, Vouched, completeAsrSummary, Complete
  <1>4. NotVouched(r)'
    <2>1. InTheMaking(r)' => InTheMaking(r)
      BY <1>1, <1>2 DEF SameRun, InTheMaking, Begins, JobRun
    <2> QED BY <1>2, <2>1 DEF RecognisedOnce, NotVouched
  <1>5. WrittenByClient(r)'
    <2> SUFFICES ASSUME NEW p \in Clients, p[1] = r
                 PROVE  /\ client'[p].at \in {"write-evidence", "write-summary"} =>
                             artifacts'[r].transcript = CloudTexts(p)'
                        /\ client'[p].at = "write-summary" => artifacts'[r].evidence = CloudTexts(p)'
      BY <1>1 DEF WrittenByClient
    <2>1. client'[p] = client[p]
      BY DEF SameRun
    <2>2. CloudTexts(p)' = CloudTexts(p)
      BY <2>1, SameCloudTexts
    <2> QED BY <1>2, <2>1, <2>2 DEF RecognisedOnce, WrittenByClient
  <1>6. WrittenByJob(r)'
    BY <1>2 DEF SameRun, RecognisedOnce, WrittenByJob, JobRun, LocalTexts
  <1>7. CopyingIn(r)'
    <2> SUFFICES ASSUME runner'[r].at \in CopyInStages, ~MixedEntry(KeyOf(r))'
                 PROVE  CopyingIn(r)'
      BY DEF CopyingIn, CopyInStages
    <2>1. runner[r].at \in CopyInStages /\ runner[r].at # "idle"
      BY <1>2 DEF CopyInStages
    <2>2. PICK k \in Keys : k = KeyOf(r)
      BY <2>1, TaskFacts
    <2>3. ~MixedEntry(k)' /\ ~MixedEntry(k)
      BY <1>2, <2>2, MixedLater
    <2>4. /\ cache'[k].transcript = cache[k].transcript
          /\ cache'[k].evidence = cache[k].evidence
          /\ cache'[k].summary = cache[k].summary
      BY <2>1, <2>2, <2>3
    <2>5. /\ completeAsrSummary(cache[k])
          /\ runner[r].at # "transcript-in" => artifacts[r].transcript = cache[k].transcript
          /\ runner[r].at = "summary-in" => artifacts[r].evidence = cache[k].evidence
      BY <2>1, <2>2, <2>3 DEF RecognisedOnce, CopyingIn, CopyInStages
    <2>6. completeAsrSummary(cache'[k])
      BY <2>4, <2>5 DEF completeAsrSummary
    <2>7. /\ completeAsrSummary(cache'[k])
          /\ runner'[r].at # "transcript-in" => artifacts'[r].transcript = cache'[k].transcript
          /\ runner'[r].at = "summary-in" => artifacts'[r].evidence = cache'[k].evidence
      BY <1>2, <2>4, <2>5, <2>6
    <2> QED BY <1>2, <2>2, <2>7 DEF CopyingIn
  <1> QED BY <1>3, <1>4, <1>5, <1>6, <1>7 DEF RecognisedOnce

\* An entry of the cache stays as long as those who filled it are at rest.
StaysQuiet(r, k) ==
    /\ artifacts'[r] = artifacts[r]
    /\ \/ runner'[r] = runner[r] /\ audios'[r] = audios[r]
       \/ runner'[r].at \in Rests

LEMMA SameEntry ==
  ASSUME NEW k, EntryOK(k), cache'[k] = cache[k], writers'[k] = writers[k],
         \A q \in writers[k] : StaysQuiet(q, k)
  PROVE  EntryOK(k)'
  <1>1. ASSUME NEW q \in writers[k] PROVE Quiet(q, k)' /\ CopyOf(k, q)'
    <2>1. Quiet(q, k) /\ CopyOf(k, q)
      BY DEF EntryOK
    <2>2. /\ artifacts'[q] = artifacts[q]
          /\ \/ runner'[q] = runner[q] /\ audios'[q] = audios[q]
             \/ runner'[q].at \in Rests
      BY DEF StaysQuiet
    <2>3. runner'[q] = runner[q] /\ audios'[q] = audios[q] => KeyOf(q)' = KeyOf(q)
      BY SameKey
    <2>4. completeAsrSummary(artifacts[q])' = completeAsrSummary(artifacts[q])
      BY <2>2 DEF completeAsrSummary
    <2>5. Complete(artifacts[q])' = Complete(artifacts[q])
      BY <2>2 DEF Complete
    <2>6. Quiet(q, k)'
      BY <2>1, <2>2, <2>3, <2>4, <2>5 DEF Quiet
    <2>7. runner'[q].at = "summary-out" => runner[q].at = "summary-out"
      BY <2>2 DEF Rests
    <2> QED BY <2>1, <2>2, <2>6, <2>7 DEF CopyOf
  <1> QED BY <1>1 DEF EntryOK

\* A step of the runs R, which fills no entry of the cache.
LEMMA StepOf ==
  ASSUME IInv, HeardOK', BegunOK', Later, UNCHANGED <<cache, writers>>,
         NEW R \in SUBSET Runs,
         \A q \in Runs \ R : /\ SameRun(q)
                             /\ job' # NoJob /\ job'.of[1] = q =>
                                  job'.of \notin waiting' \/ q \in disturbed',
         \A r \in R : r \notin disturbed' => OneAtWork(r)' /\ CopyingOut(r)' /\ RecognisedOnce(r)',
         \A r \in R : CloudOK(r)',
         \A r \in R, k \in Keys : r \in writers[k] /\ ~MixedEntry(k)' => StaysQuiet(r, k)
  PROVE  OnceOK'
  <1>1. task' = task /\ Keys' = Keys /\ TypeOK
    BY DEF Later, Keys, IInv
  <1>2. \A q \in Runs : CloudOK(q)'
    BY <1>1, SameWork DEF IInv, OnceOK
  <1>3. ASSUME NEW q \in Runs, q \notin disturbed'
        PROVE  OneAtWork(q)' /\ CopyingOut(q)' /\ RecognisedOnce(q)'
    <2>1. q \notin disturbed
      BY <1>3 DEF Later
    <2>2. OneAtWork(q) /\ CopyingOut(q) /\ RecognisedOnce(q)
      BY <2>1 DEF IInv, OnceOK
    <2>3. CASE q \notin R
      <3>1. SameRun(q)
        BY <2>3
      <3> QED BY <1>1, <1>3, <2>2, <2>3, <3>1, SameWork, SameCopying, SameRecognition
    <2> QED BY <1>3, <2>3
  <1>4. ASSUME NEW k \in Keys, ~MixedEntry(k)' PROVE EntryOK(k)'
    <2>1. EntryOK(k)
      BY <1>4, MixedLater DEF IInv, OnceOK
    <2>2. ASSUME NEW q \in writers[k] PROVE StaysQuiet(q, k)
      <3>1. q \in Runs
        BY <1>1 DEF TypeOK, HistoryOK
      <3>2. CASE q \in R
        BY <1>4, <3>2
      <3>3. CASE q \notin R
        <4>1. SameRun(q)
          BY <3>1, <3>3
        <4> QED BY <4>1 DEF SameRun, StaysQuiet
      <3> QED BY <3>2, <3>3
    <2> QED BY <2>1, <2>2, SameEntry
  <1> QED BY <1>1, <1>2, <1>3, <1>4 DEF OnceOK

LEMMA StepOfOne ==
  ASSUME IInv, HeardOK', BegunOK', Later, UNCHANGED <<cache, writers>>,
         NEW r \in Runs,
         \A q \in Runs \ {r} : /\ SameRun(q)
                               /\ job' # NoJob /\ job'.of[1] = q =>
                                    job'.of \notin waiting' \/ q \in disturbed',
         r \notin disturbed' => OneAtWork(r)' /\ CopyingOut(r)' /\ RecognisedOnce(r)',
         CloudOK(r)',
         \A k \in Keys : r \in writers[k] /\ ~MixedEntry(k)' => StaysQuiet(r, k)
  PROVE  OnceOK'
  <1> DEFINE R == {r}
  <1>1. R \in SUBSET Runs /\ \A q : q \in R <=> q = r
    OBVIOUS
  <1>2. \A q \in Runs \ R : /\ SameRun(q)
                            /\ job' # NoJob /\ job'.of[1] = q =>
                                 job'.of \notin waiting' \/ q \in disturbed'
    OBVIOUS
  <1> HIDE DEF R
  <1>3. \A q \in R : q \notin disturbed' => OneAtWork(q)' /\ CopyingOut(q)' /\ RecognisedOnce(q)'
    BY <1>1
  <1>4. \A q \in R : CloudOK(q)'
    BY <1>1
  <1>5. \A q \in R, k \in Keys : q \in writers[k] /\ ~MixedEntry(k)' => StaysQuiet(q, k)
    BY <1>1
  <1> QED BY <1>1, <1>2, <1>3, <1>4, <1>5, StepOf

LEMMA HeardKept ==
  ASSUME HeardOK, task' = task,
         \A p \in Clients : \/ client'[p] = client[p] \/ client'[p].at = "off"
                            \/ /\ client'[p].source \in DOMAIN client'[p].paths
                               /\ client'[p].heard \subseteq DOMAIN client'[p].paths
  PROVE  HeardOK'
  BY SameTask DEF HeardOK

LEMMA BegunKept == ASSUME BegunOK, UNCHANGED <<job, chunks>> PROVE BegunOK'
  BY DEF BegunOK, Begun, JobRun

\* Nobody is at work for a run, but perhaps its runner.
Alone(r) ==
    /\ \A p \in Clients : p[1] = r => client[p].at = "off"
    /\ job # NoJob => JobRun # r
    /\ \A j \in waiting : j[1] # r

LEMMA AloneAt ==
  ASSUME IInv, NEW r \in Runs, r \notin disturbed, runner[r].at \notin {"client", "posted"}
  PROVE  Alone(r)
  <1>1. OneAtWork(r)
    BY DEF IInv, OnceOK
  <1> QED BY <1>1 DEF OneAtWork, Alone

LEMMA AloneStays ==
  ASSUME NEW r \in Runs, Alone(r), UNCHANGED <<task, client, localService>>
  PROVE  Alone(r)'
  BY SameTask DEF Alone, JobRun, localService

LEMMA AloneNext == ASSUME NEW r \in Runs, Alone(r)'
  PROVE  /\ OneAtWork(r)' /\ WrittenByClient(r)' /\ WrittenByJob(r)'
         /\ InTheMaking(r)' => Begins(r)'
  <1>1. OneAtWork(r)'
    BY DEF Alone, OneAtWork
  <1>2. WrittenByClient(r)' /\ WrittenByJob(r)'
    BY DEF Alone, WrittenByClient, WrittenByJob
  <1> QED BY <1>1, <1>2 DEF Alone, InTheMaking

LEMMA QuietIs ==
  ASSUME IInv, Later, NEW r \in Runs, NEW k \in Keys, r \in writers[k], ~MixedEntry(k)'
  PROVE  r \notin disturbed /\ Quiet(r, k) /\ CopyOf(k, r)
  <1>1. ~MixedEntry(k)
    BY MixedLater
  <1> QED BY <1>1 DEF MixedEntry, IInv, OnceOK, EntryOK

\* A runner for which nobody is at work goes somewhere.
LEMMA RunnerStep ==
  ASSUME IInv, UNCHANGED <<task, client, files, localService, writers>>,
         disturbed \subseteq disturbed', NEW r \in Runs,
         \A q \in Runs : q # r => runner'[q] = runner[q] /\ audios'[q] = audios[q],
         r \notin disturbed' => Alone(r),
         CloudOK(r)', runner[r].at # "completed",
         runner'[r].at \notin {"evidence-out", "summary-out", "evidence-in", "summary-in"},
         runner'[r].at = "transcript-out" => completeAsrSummary(artifacts[r]),
         r \notin disturbed /\ Begins(r)' => artifacts[r].summary # "complete",
         runner'[r].at = "transcript-in" => completeAsrSummary(cache[KeyOf(r)']),
         runner[r].at \in {"evidence-out", "summary-out"} \cup Rests /\ completeAsrSummary(artifacts[r])
            => runner'[r].at \in Rests
  PROVE  OnceOK'
  <1>1. Later
    BY DEF Later
  <1>2. HeardOK' /\ BegunOK'
    BY HeardKept, BegunKept DEF IInv, OnceOK, files, localService
  <1>3. \A q \in Runs \ {r} : SameRun(q) /\ (job' # NoJob /\ job'.of[1] = q => job'.of \notin waiting' \/ q \in disturbed')
    <2> SUFFICES ASSUME NEW q \in Runs \ {r}
                 PROVE  SameRun(q) /\ (job' # NoJob /\ job'.of[1] = q => job'.of \notin waiting' \/ q \in disturbed')
      OBVIOUS
    <2>1. SameRun(q)
      BY DEF SameRun, files, localService
    <2>2. q \notin disturbed => OneAtWork(q)
      BY DEF IInv, OnceOK
    <2> QED BY <2>1, <2>2 DEF OneAtWork, JobRun, localService
  <1>4. r \notin disturbed' => OneAtWork(r)' /\ CopyingOut(r)' /\ RecognisedOnce(r)'
    <2> SUFFICES ASSUME r \notin disturbed' PROVE OneAtWork(r)' /\ CopyingOut(r)' /\ RecognisedOnce(r)'
      OBVIOUS
    <2>1. r \notin disturbed /\ Alone(r)'
      BY AloneStays
    <2>2. completeAsrSummary(artifacts[r])' = completeAsrSummary(artifacts[r])
      BY DEF files, completeAsrSummary
    <2>3. CopyingOut(r)'
      BY <2>2 DEF CopyingOut
    <2>4. /\ OneAtWork(r)' /\ WrittenByClient(r)' /\ WrittenByJob(r)'
          /\ InTheMaking(r)' => Begins(r)'
      BY <2>1, AloneNext
    <2>5. RecognisedOnce(r)
      BY <2>1 DEF IInv, OnceOK
    <2>6. Vouched(r)' /\ NotVouched(r)'
      BY <2>1, <2>4, <2>5 DEF RecognisedOnce, Vouched, NotVouched, files, completeAsrSummary, Complete
    <2>7. CopyingIn(r)'
      BY DEF CopyingIn, files, completeAsrSummary
    <2> QED BY <2>3, <2>4, <2>6, <2>7 DEF RecognisedOnce
  <1>5. \A k \in Keys : r \in writers[k] /\ ~MixedEntry(k)' => StaysQuiet(r, k)
    BY <1>1, QuietIs DEF Quiet, StaysQuiet, files
  <1> QED BY <1>1, <1>2, <1>3, <1>4, <1>5, StepOfOne DEF files

LEMMA GoesIs ==
  ASSUME TypeOK, NEW r \in Runs, NEW stage, Goes(r, stage)
  PROVE  /\ runner'[r].at = stage /\ runner'[r].provider = runner[r].provider
         /\ runner'[r].execution = runner[r].execution
         /\ \A q \in Runs : q # r => runner'[q] = runner[q]
  <1>1. runner \in [Runs -> RunnerState] /\ runner[r] \in RunnerState
    BY DEF TypeOK, RunnerOK
  <1>2. runner'[r] = [runner[r] EXCEPT !.at = stage]
    BY <1>1 DEF Goes
  <1>3. \A q \in Runs : q # r => runner'[q] = runner[q]
    BY <1>1 DEF Goes
  <1> QED BY <1>1, <1>2, <1>3 DEF RunnerState

LEMMA CloudFailsIs ==
  ASSUME TypeOK, NEW r \in Runs, NEW why, CloudFails(r, why)
  PROVE  /\ runner'[r].at \in {"normalize", "fallback", "blocked"}
         /\ runner'[r].provider = runner[r].provider
         /\ runner'[r].at = "normalize" => why = "format"
         /\ \A q \in Runs : q # r => runner'[q] = runner[q]
  <1> DEFINE m == IF why = "format" /\ runner[r].attempt = 1
                  THEN [runner[r] EXCEPT !.at = "normalize"]
                  ELSE IF task.fallback /\ why # "auth"
                  THEN [runner[r] EXCEPT !.at = "fallback"]
                  ELSE [runner[r] EXCEPT !.at = "blocked"]
  <1>1. runner \in [Runs -> RunnerState] /\ runner[r] \in RunnerState
    BY DEF TypeOK, RunnerOK
  <1>2. runner' = [runner EXCEPT ![r] = m]
    BY DEF CloudFails
  <1>3. /\ m.at \in {"normalize", "fallback", "blocked"}
        /\ m.provider = runner[r].provider
        /\ m.at = "normalize" => why = "format"
    BY <1>1 DEF RunnerState
  <1> HIDE DEF m
  <1> QED BY <1>1, <1>2, <1>3

\* The stages of a runner that a cloud failure leads to promise nothing.
LEMMA CloudFailsStep ==
  ASSUME IInv, UNCHANGED <<task, audios, client, files, localService, history>>,
         NEW r \in Runs, NEW why, CloudFails(r, why), runner[r].at \in {"gate", "client", "normalize"},
         runner[r].provider # Local, r \notin disturbed => Alone(r)
  PROVE  OnceOK'
  <1>1. /\ runner'[r].at \in {"normalize", "fallback", "blocked"}
        /\ runner'[r].provider = runner[r].provider
        /\ \A q \in Runs : q # r => runner'[q] = runner[q]
    BY CloudFailsIs DEF IInv
  <1>2. ~Begins(r)' /\ CloudOK(r)'
    BY <1>1 DEF Begins, CloudOK
  <1>3. runner[r].at \notin {"evidence-out", "summary-out"} \cup Rests
    BY DEF Rests
  <1> QED BY <1>1, <1>2, <1>3, RunnerStep DEF history

LEMMA BeginKeeps ==
  ASSUME IInv, NEW r \in Runs, ensureAsrTranscription(r) \/ ensureLocalAsr(r) \/ ExecuteAgain(r)
  PROVE  OnceOK'
  <1>1. /\ runner[r].at \in {"idle", "fallback", "blocked", "crashed"}
        /\ UNCHANGED <<task, client, files, localService, writers, disturbed>>
    BY DEF ensureAsrTranscription, ensureLocalAsr, ExecuteAgain, At, history
  <1>2. runner \in [Runs -> RunnerState] /\ runner[r] \in RunnerState
    BY DEF IInv, TypeOK, RunnerOK
  <1>3. audios = [q \in Runs |-> audios[q]]
    BY DEF IInv, TypeOK, InputsOK
  <1>4. \A q \in Runs : q # r => audios'[q] = audios[q]
    <2>1. audios' = audios \/ \E x : audios' = [audios EXCEPT ![r] = x]
      BY DEF ensureAsrTranscription, ensureLocalAsr, ExecuteAgain, Finds, inputs
    <2> QED BY <1>3, <2>1
  <1>5. /\ runner'[r].at \in {"idle", "lookup", "skipped", "blocked"}
        /\ runner'[r].at = "blocked" => runner[r].at = "fallback"
        /\ \A q \in Runs : q # r => runner'[q] = runner[q]
    <2>1. CASE ensureAsrTranscription(r)
      <3> DEFINE m(stage) == [runner[r] EXCEPT !.provider = task.provider, !.at = stage]
      <3>1. PICK stage \in {"skipped", "lookup"} : runner' = [runner EXCEPT ![r] = m(stage)]
        BY <2>1 DEF ensureAsrTranscription
      <3>2. m(stage).at = stage
        BY <1>2 DEF RunnerState
      <3> HIDE DEF m
      <3> QED BY <1>2, <3>1, <3>2
    <2>2. CASE ensureLocalAsr(r)
      <3> DEFINE m(stage) == [runner[r] EXCEPT !.provider = Local, !.at = stage]
      <3>1. PICK stage \in {"blocked", "lookup"} : runner' = [runner EXCEPT ![r] = m(stage)]
        BY <2>2 DEF ensureLocalAsr
      <3>2. m(stage).at = stage
        BY <1>2 DEF RunnerState
      <3> HIDE DEF m
      <3>3. runner[r].at = "fallback"
        BY <2>2 DEF ensureLocalAsr, At
      <3> QED BY <1>2, <3>1, <3>2, <3>3
    <2>3. CASE ExecuteAgain(r)
      <3> DEFINE m == [Idle EXCEPT !.execution = runner[r].execution + 1]
      <3>1. runner' = [runner EXCEPT ![r] = m]
        BY <2>3 DEF ExecuteAgain
      <3>2. m.at = "idle"
        BY DEF Idle
      <3> HIDE DEF m
      <3> QED BY <1>2, <3>1, <3>2
    <2> QED BY <2>1, <2>2, <2>3
  <1>6. r \notin disturbed => Alone(r)
    BY <1>1, AloneAt
  <1>7. /\ ~Begins(r)' /\ CloudOK(r)'
        /\ runner[r].at \in {"evidence-out", "summary-out"} \cup Rests => runner'[r].at \in Rests
    BY <1>1, <1>5 DEF Begins, CloudOK, Rests
  <1> QED BY <1>1, <1>4, <1>5, <1>6, <1>7, RunnerStep

LEMMA LookupKeeps == ASSUME IInv, NEW r \in Runs, lookup(r) PROVE OnceOK'
  <1>1. TypeOK
    BY DEF IInv
  <1> DEFINE stage == IF completeAsrSummary(artifacts[r]) THEN "completed"
                      ELSE IF completeAsrSummary(cache[KeyOf(r)]) THEN "transcript-in"
                      ELSE IF runner[r].provider = Cloud THEN "gate" ELSE "preflight"
  <1>2. /\ runner[r].at = "lookup" /\ Goes(r, stage)
        /\ UNCHANGED <<task, inputs, client, files, localService, bounds, history>>
    BY DEF lookup, At
  <1>3. /\ runner'[r].at = stage /\ runner'[r].provider = runner[r].provider
        /\ \A q \in Runs : q # r => runner'[q] = runner[q]
    BY <1>1, <1>2, GoesIs
  <1>4. r \notin disturbed => Alone(r)
    BY <1>2, AloneAt
  <1>5. KeyOf(r)' = KeyOf(r)
    BY <1>2, <1>3 DEF KeyOf, audioCacheKey, inputs
  <1>6. CloudOK(r)'
    BY <1>3 DEF CloudOK, Cloud, Local
  <1>7. r \notin disturbed => (Begins(r)' => artifacts[r].summary # "complete")
    <2>1. r \notin disturbed => Vouched(r)
      BY DEF IInv, OnceOK, RecognisedOnce
    <2>2. Begins(r)' => ~completeAsrSummary(artifacts[r])
      BY <1>3 DEF Begins
    <2> QED BY <1>2, <2>1, <2>2 DEF Vouched
  <1>8. stage = "transcript-in" => completeAsrSummary(cache[KeyOf(r)])
    OBVIOUS
  <1>9. completeAsrSummary(artifacts[r]) => stage \in Rests
    BY DEF Rests
  <1>10. stage \in {"completed", "transcript-in", "gate", "preflight"}
    OBVIOUS
  <1> HIDE DEF stage
  <1> QED BY <1>1, <1>2, <1>3, <1>4, <1>5, <1>6, <1>7, <1>8, <1>9, <1>10, RunnerStep DEF inputs, history

LEMMA ClientDoneKeeps == ASSUME IInv, NEW r \in Runs, runDashScopeAsrClient(r) PROVE OnceOK'
  <1>1. TypeOK
    BY DEF IInv
  <1>2. /\ runner[r].at = "client" /\ client[JobOf(r)].at = "off"
        /\ UNCHANGED <<task, inputs, client, files, localService, bounds, history>>
    BY DEF runDashScopeAsrClient, At, ClientAt
  <1>3. r \notin disturbed => Alone(r)
    <2>1. r \notin disturbed => OneAtWork(r)
      BY DEF IInv, OnceOK
    <2> QED BY <1>2, <2>1 DEF OneAtWork, Alone
  <1>4. CASE Goes(r, "transcript-out") /\ completeAsrSummary(artifacts[r])
    <2>1. /\ runner'[r].at = "transcript-out"
          /\ \A q \in Runs : q # r => runner'[q] = runner[q]
      BY <1>1, <1>4, GoesIs
    <2>2. ~Begins(r)' /\ CloudOK(r)' /\ runner[r].at \notin {"evidence-out", "summary-out"} \cup Rests
      BY <1>2, <2>1 DEF Begins, CloudOK, Rests
    <2> QED BY <1>1, <1>2, <1>3, <1>4, <2>1, <2>2, RunnerStep DEF inputs, history
  <1>5. CASE \E why : CloudFails(r, why)
    <2>1. runner[r].provider # Local
      BY <1>2 DEF IInv, OnceOK, CloudOK
    <2> QED BY <1>1, <1>2, <1>3, <1>5, <2>1, CloudFailsStep DEF inputs
  <1> QED BY <1>4, <1>5 DEF runDashScopeAsrClient

LEMMA NormalizeKeeps == ASSUME IInv, NEW r \in Runs, normalizeAudioBatch(r) PROVE OnceOK'
  <1>1. TypeOK
    BY DEF IInv
  <1>2. /\ runner[r].at = "normalize"
        /\ UNCHANGED <<task, audios, client, files, localService, kills, history>>
    BY DEF normalizeAudioBatch, At
  <1>3. r \notin disturbed => Alone(r)
    BY <1>2, AloneAt
  <1>4. runner[r].at \notin {"evidence-out", "summary-out"} \cup Rests
    BY <1>2 DEF Rests
  <1>5. CASE runner[r].provider = Local /\ (Goes(r, "post") \/ Goes(r, "blocked"))
    <2>1. /\ runner'[r].at \in {"post", "blocked"}
          /\ \A q \in Runs : q # r => runner'[q] = runner[q]
      BY <1>1, <1>5, GoesIs
    <2>2. CloudOK(r)'
      BY <2>1 DEF CloudOK
    <2>3. r \notin disturbed => artifacts[r].summary # "complete"
      BY <1>2, <1>5 DEF IInv, OnceOK, RecognisedOnce, NotVouched, InTheMaking, Begins
    <2> QED BY <1>1, <1>2, <1>3, <1>4, <2>1, <2>2, <2>3, RunnerStep DEF inputs, history
  <1>6. CASE runner[r].provider # Local /\ runner' = [runner EXCEPT ![r].at = "gate", ![r].attempt = 2]
    <2>1. runner \in [Runs -> RunnerState] /\ runner[r] \in RunnerState
      BY <1>1 DEF TypeOK, RunnerOK
    <2>2. runner'[r] = [runner[r] EXCEPT !.at = "gate", !.attempt = 2]
      BY <1>6, <2>1
    <2>3. /\ runner'[r].at = "gate" /\ runner'[r].provider = runner[r].provider
          /\ \A q \in Runs : q # r => runner'[q] = runner[q]
      BY <1>6, <2>1, <2>2 DEF RunnerState
    <2>4. ~Begins(r)' /\ CloudOK(r)'
      BY <1>6, <2>3 DEF Begins, CloudOK
    <2> QED BY <1>1, <1>2, <1>3, <1>4, <2>3, <2>4, RunnerStep DEF inputs, history
  <1>7. CASE runner[r].provider # Local /\ CloudFails(r, "normalize")
    BY <1>1, <1>2, <1>3, <1>7, CloudFailsStep DEF inputs
  <1> QED BY <1>5, <1>6, <1>7 DEF normalizeAudioBatch

LEMMA PreflightKeeps == ASSUME IInv, NEW r \in Runs, preflightLocalAsrService(r) PROVE OnceOK'
  <1>1. TypeOK
    BY DEF IInv
  <1>2. /\ runner[r].at = "preflight" /\ (Goes(r, "normalize") \/ Goes(r, "blocked"))
        /\ UNCHANGED <<task, inputs, client, files, localService, bounds, history>>
    BY DEF preflightLocalAsrService, At
  <1>3. /\ runner'[r].at \in {"normalize", "blocked"}
        /\ \A q \in Runs : q # r => runner'[q] = runner[q]
    BY <1>1, <1>2, GoesIs
  <1>4. r \notin disturbed => Alone(r)
    BY <1>2, AloneAt
  <1>5. CloudOK(r)' /\ runner[r].at \notin {"evidence-out", "summary-out"} \cup Rests
    BY <1>2, <1>3 DEF CloudOK, Rests
  <1>6. r \notin disturbed => artifacts[r].summary # "complete"
    BY <1>2 DEF IInv, OnceOK, RecognisedOnce, NotVouched, InTheMaking, Begins
  <1> QED BY <1>1, <1>2, <1>3, <1>4, <1>5, <1>6, RunnerStep DEF inputs, history

LEMMA AnsweredKeeps == ASSUME IInv, NEW r \in Runs, ensureLocalAsr_answered(r) PROVE OnceOK'
  <1>1. TypeOK
    BY DEF IInv
  <1> DEFINE stage == IF completeAsrSummary(artifacts[r]) THEN "transcript-out" ELSE "blocked"
  <1>2. /\ runner[r].at = "answered" /\ Goes(r, stage)
        /\ UNCHANGED <<task, inputs, client, files, localService, bounds, history>>
    BY DEF ensureLocalAsr_answered, At
  <1>3. /\ runner'[r].at = stage
        /\ \A q \in Runs : q # r => runner'[q] = runner[q]
    BY <1>1, <1>2, GoesIs
  <1>4. r \notin disturbed => Alone(r)
    BY <1>2, AloneAt
  <1>5. ~Begins(r)' /\ CloudOK(r)' /\ runner[r].at \notin {"evidence-out", "summary-out"} \cup Rests
    BY <1>2, <1>3 DEF Begins, CloudOK, Rests
  <1> QED BY <1>1, <1>2, <1>3, <1>4, <1>5, RunnerStep DEF inputs, history

\* A runner that gives up or dies leaves who works for it, and is disturbed.
LEMMA GiveUpKeeps == ASSUME IInv, NEW r \in Runs, postJson_timeout(r) \/ RunnerDies(r) PROVE OnceOK'
  <1>1. TypeOK
    BY DEF IInv
  <1>2. /\ UNCHANGED <<task, audios, client, files, localService, writers>>
        /\ disturbed \subseteq disturbed'
        /\ runner[r].at \in {"client", "posted"} => r \in disturbed'
    BY DEF postJson_timeout, RunnerDies, inputs
  <1>3. (Goes(r, "blocked") /\ runner[r].at = "posted") \/ Goes(r, "crashed")
    BY DEF postJson_timeout, RunnerDies, At
  <1>4. /\ runner'[r].at \in {"blocked", "crashed"}
        /\ runner'[r].at = "crashed" \/ runner[r].at = "posted"
        /\ \A q \in Runs : q # r => runner'[q] = runner[q]
    BY <1>1, <1>3, GoesIs
  <1>7. runner[r].at # "completed"
    BY DEF postJson_timeout, RunnerDies, Running, Ended, At
  <1>5. r \notin disturbed' => Alone(r)
    BY <1>2, AloneAt
  <1>6. ~Begins(r)' /\ CloudOK(r)'
    BY <1>4 DEF Begins, CloudOK
  <1> QED BY <1>1, <1>2, <1>4, <1>5, <1>6, <1>7, RunnerStep DEF Rests

\* A run that is past its beginning has audios.
LEMMA FirstSource ==
  ASSUME TypeOK, NEW r \in Runs, Audios(r) # <<>>
  PROVE  1 \in Sources(r) /\ Len(Audios(r)) \in Nat \ {0}
  <1>1. Audios(r) \in Seq(Nat \ {0}) /\ Sources(r) = 1 .. Len(Audios(r))
    BY TaskFacts
  <1> DEFINE s == Audios(r)
  <1>2. s \in Seq(Nat \ {0}) /\ s # <<>>
    BY <1>1
  <1> HIDE DEF s
  <1>3. Len(s) \in Nat /\ Len(s) # 0
    BY <1>2
  <1> QED BY <1>1, <1>3 DEF s

LEMMA OtherRuns ==
  ASSUME IInv, UNCHANGED <<task, audios>>, NEW r \in Runs, disturbed \subseteq disturbed',
         \A q \in Runs : q # r => runner'[q] = runner[q] /\ artifacts'[q] = artifacts[q],
         \A p \in Clients : p[1] # r => client'[p] = client[p],
         \A j \in waiting' : j[1] # r => j \in waiting,
         job' # NoJob /\ job'.of[1] # r => job' = job
  PROVE  \A q \in Runs \ {r} : /\ SameRun(q)
                               /\ job' # NoJob /\ job'.of[1] = q =>
                                    job'.of \notin waiting' \/ q \in disturbed'
  <1> SUFFICES ASSUME NEW q \in Runs \ {r}
               PROVE  /\ SameRun(q)
                      /\ job' # NoJob /\ job'.of[1] = q =>
                           job'.of \notin waiting' \/ q \in disturbed'
    OBVIOUS
  <1>1. SameRun(q)
    BY DEF SameRun
  <1>2. q \notin disturbed => OneAtWork(q)
    BY DEF IInv, OnceOK
  <1> QED BY <1>1, <1>2 DEF OneAtWork, JobRun

\* A client that is no more.
LEMMA ClientGone ==
  ASSUME IInv,
         UNCHANGED <<task, audios, runner, artifacts, chunks, cache, localService, writers, disturbed>>,
         NEW p, client' = [client EXCEPT ![p] = NoClient]
  PROVE  OnceOK'
  <1>1. \A c \in Clients : client'[c] = client[c] \/ client'[c] = NoClient
    BY DEF IInv, TypeOK, ClientOK
  <1>2. NoClient.at = "off"
    BY DEF NoClient
  <1>3. \A c \in Clients : client'[c] = client[c] \/ client'[c].at = "off"
    BY <1>1, <1>2
  <1>4. HeardOK' /\ BegunOK' /\ Later
    BY <1>3, HeardKept, BegunKept DEF IInv, OnceOK, localService, Later
  <1>5. Clients' = Clients
    BY SameTask
  <1>6. ASSUME NEW r \in Runs, r \notin disturbed'
        PROVE  OneAtWork(r)' /\ CopyingOut(r)' /\ RecognisedOnce(r)'
    <2>1. OneAtWork(r) /\ CopyingOut(r) /\ RecognisedOnce(r)
      BY <1>6 DEF IInv, OnceOK
    <2>2. OneAtWork(r)'
      BY <2>1, <1>3, <1>5 DEF OneAtWork, JobOf, JobRun, localService
    <2>3. KeyOf(r)' = KeyOf(r)
      BY SameKey
    <2>4. CopyingOut(r)'
      BY <2>1, <2>3 DEF CopyingOut, completeAsrSummary
    <2>5. Vouched(r)' /\ CopyingIn(r)'
      <3>1. Mixed(r) => Mixed(r)'
        BY <1>4, MixedLater
      <3>2. MixedEntry(KeyOf(r))' = MixedEntry(KeyOf(r))
        BY <2>3 DEF MixedEntry
      <3> HIDE DEF Mixed, MixedEntry
      <3>3. Vouched(r)'
        BY <2>1, <3>1 DEF RecognisedOnce, Vouched, completeAsrSummary, Complete
      <3>4. CopyingIn(r)'
        BY <2>1, <2>3, <3>2 DEF RecognisedOnce, CopyingIn, completeAsrSummary
      <3> QED BY <3>3, <3>4
    <2>6. NotVouched(r)'
      <3>1. InTheMaking(r)' => InTheMaking(r)
        BY <1>3, <1>5 DEF InTheMaking, Begins, JobRun, localService
      <3> QED BY <2>1, <3>1 DEF RecognisedOnce, NotVouched
    <2>7. WrittenByClient(r)'
      <3> SUFFICES ASSUME NEW c \in Clients, c[1] = r, client'[c].at # "off"
                   PROVE  /\ client'[c].at \in {"write-evidence", "write-summary"} =>
                               artifacts'[r].transcript = CloudTexts(c)'
                          /\ client'[c].at = "write-summary" =>
                               artifacts'[r].evidence = CloudTexts(c)'
        BY <1>5 DEF WrittenByClient
      <3>1. client'[c] = client[c] /\ CloudTexts(c)' = CloudTexts(c)
        BY <1>3, SameCloudTexts
      <3> QED BY <2>1, <3>1 DEF RecognisedOnce, WrittenByClient
    <2>8. WrittenByJob(r)'
      BY <2>1 DEF RecognisedOnce, WrittenByJob, JobRun, LocalTexts, localService
    <2> QED BY <2>2, <2>4, <2>5, <2>6, <2>7, <2>8 DEF RecognisedOnce
  <1>7. ASSUME NEW r \in Runs PROVE CloudOK(r)'
    BY DEF IInv, OnceOK, CloudOK
  <1>8. \A r \in Runs, k \in Keys : StaysQuiet(r, k)
    BY DEF StaysQuiet
  <1> DEFINE R == Runs
  <1>9. R \in SUBSET Runs /\ Runs \ R = {}
    OBVIOUS
  <1> HIDE DEF R
  <1> QED BY <1>4, <1>6, <1>7, <1>8, <1>9, StepOf

LEMMA GateKeeps == ASSUME IInv, NEW r \in Runs, policy_gate_check(r) PROVE OnceOK'
  <1>1. TypeOK
    BY DEF IInv
  <1>2. runner[r].at = "gate" /\ UNCHANGED <<task, audios, files, localService, kills, writers>>
    BY DEF policy_gate_check, At, inputs
  <1>3. r \notin disturbed => Alone(r)
    BY <1>2, AloneAt
  <1>4. /\ audios[r] \in sourceAudioPaths(r) /\ task \in Scenarios /\ audios[r] # <<>>
        /\ runner[r].attempt \in {1, 2}
    BY <1>1, <1>2 DEF TypeOK, InputsOK, RunnerOK, RunnerState
  <1>5. audios[r] \in Seq(Nat) /\ 1 \in DOMAIN audios[r]
    <2> DEFINE t == audios[r]
    <2>1. t \in Seq(Nat \ {0}) /\ t # <<>>
      BY <1>4, FoundFacts
    <2> HIDE DEF t
    <2>2. t \in Seq(Nat) /\ 1 \in DOMAIN t
      BY <2>1
    <2> QED BY <2>2 DEF t
  <1>6. PICK s \in Seq(Nat), n \in {1, 2} : s = audios[r] /\ n = runner[r].attempt
    BY <1>4, <1>5
  <1> DEFINE c == Planned(s, n)
  <1>7. CASE /\ client' = [client EXCEPT ![JobOf(r)] = c]
             /\ Goes(r, "client")
             /\ disturbed' = IF completeAsrSummary(artifacts[r]) THEN disturbed \cup {r} ELSE disturbed
    <2>1. /\ runner'[r].at = "client" /\ runner'[r].provider = runner[r].provider
          /\ runner'[r].execution = runner[r].execution
          /\ \A q \in Runs : q # r => runner'[q] = runner[q]
      BY <1>1, <1>7, GoesIs
    <2>2. c.at = "plan" /\ c.source = 1 /\ c.heard = {} /\ c.paths = s
      BY ClientBegins
    <2> HIDE DEF c
    <2>3. \A p \in Clients : client'[p] = client[p] \/ (p = JobOf(r) /\ client'[p] = c)
      BY <1>1, <1>7 DEF TypeOK, ClientOK
    <2>4. JobOf(r)[1] = r /\ JobOf(r)' = JobOf(r)
      BY <2>1 DEF JobOf
    <2>5. Later /\ Clients' = Clients /\ disturbed \subseteq disturbed'
      BY <1>2, <1>7, SameTask DEF Later
    <2>6. HeardOK' /\ BegunOK'
      <3>1. c.source \in DOMAIN c.paths /\ c.heard \subseteq DOMAIN c.paths
        BY <1>5, <1>6, <2>2
      <3>2. HeardOK'
        BY <1>2, <2>3, <3>1, HeardKept DEF IInv, OnceOK
      <3> QED BY <1>2, <3>2, BegunKept DEF IInv, OnceOK, files, localService
    <2>7. \A q \in Runs \ {r} : /\ SameRun(q)
                                /\ job' # NoJob /\ job'.of[1] = q =>
                                     job'.of \notin waiting' \/ q \in disturbed'
      BY <1>2, <2>1, <2>3, <2>4, <2>5, OtherRuns DEF files, localService
    <2>8. r \notin disturbed' => OneAtWork(r)' /\ CopyingOut(r)' /\ RecognisedOnce(r)'
      <3> SUFFICES ASSUME r \notin disturbed'
                   PROVE  OneAtWork(r)' /\ CopyingOut(r)' /\ RecognisedOnce(r)'
        OBVIOUS
      <3>1. r \notin disturbed /\ Alone(r) /\ ~completeAsrSummary(artifacts[r])
        BY <1>3, <1>7, <2>5
      <3>2. OneAtWork(r)'
        BY <1>2, <2>1, <2>3, <2>4, <2>5, <3>1 DEF OneAtWork, Alone, JobRun, localService
      <3>3. RecognisedOnce(r)
        BY <3>1 DEF IInv, OnceOK
      <3>4. artifacts'[r] = artifacts[r] /\ artifacts[r].summary # "complete"
        BY <1>2, <3>1, <3>3 DEF RecognisedOnce, Vouched, files
      <3>5. Vouched(r)' /\ NotVouched(r)'
        BY <3>4 DEF Vouched, NotVouched
      <3>6. WrittenByClient(r)'
        BY <2>2, <2>3, <2>5, <3>1 DEF WrittenByClient, Alone
      <3>7. WrittenByJob(r)'
        BY <1>2, <3>1 DEF WrittenByJob, Alone, JobRun, localService
      <3>8. CopyingIn(r)' /\ CopyingOut(r)'
        BY <2>1 DEF CopyingIn, CopyingOut
      <3> QED BY <3>2, <3>5, <3>6, <3>7, <3>8 DEF RecognisedOnce
    <2>9. CloudOK(r)'
      BY <1>2, <2>1 DEF IInv, OnceOK, CloudOK
    <2>10. \A k \in Keys : r \in writers[k] /\ ~MixedEntry(k)' => StaysQuiet(r, k)
      BY <1>2, <2>5, QuietIs DEF Quiet, Rests
    <2> QED BY <1>2, <2>5, <2>6, <2>7, <2>8, <2>9, <2>10, StepOfOne DEF files
  <1>8. CASE CloudFails(r, "policy") /\ UNCHANGED <<client, disturbed, shifted>>
    <2>1. runner[r].provider # Local
      BY <1>2 DEF IInv, OnceOK, CloudOK
    <2> QED BY <1>2, <1>3, <1>8, <2>1, CloudFailsStep DEF history
  <1> QED BY <1>6, <1>7, <1>8 DEF policy_gate_check, Planned

LEMMA ClientOffKeeps ==
  ASSUME IInv, (\E r \in Runs : runCommand_timeout(r)) \/ (\E p \in Clients : ClientDies(p))
  PROVE  OnceOK'
  <1>1. PICK p : client' = [client EXCEPT ![p] = NoClient]
    BY DEF runCommand_timeout, ClientDies
  <1>2. UNCHANGED <<task, inputs, runner, files, localService, history>>
    BY DEF runCommand_timeout, ClientDies
  <1> QED BY <1>1, <1>2, ClientGone DEF files, inputs, history

LEMMA PostKeeps == ASSUME IInv, NEW r \in Runs, postJson(r) PROVE OnceOK'
  <1>1. TypeOK
    BY DEF IInv
  <1>2. /\ runner[r].at = "post"
        /\ UNCHANGED <<task, audios, client, files, service, job, bounds, history>>
    BY DEF postJson, At
  <1>3. r \notin disturbed => Alone(r)
    BY <1>2, AloneAt
  <1>4. r \notin disturbed => artifacts[r].summary # "complete"
    BY <1>2 DEF IInv, OnceOK, RecognisedOnce, NotVouched, InTheMaking, Begins
  <1>5. CASE Goes(r, "blocked") /\ UNCHANGED waiting
    <2>1. /\ runner'[r].at = "blocked"
          /\ \A q \in Runs : q # r => runner'[q] = runner[q]
      BY <1>1, <1>5, GoesIs
    <2>2. ~Begins(r)' /\ CloudOK(r)' /\ runner[r].at \notin {"evidence-out", "summary-out"} \cup Rests
      BY <1>2, <2>1 DEF Begins, CloudOK, Rests
    <2> QED BY <1>2, <1>3, <1>5, <2>1, <2>2, RunnerStep DEF history, localService
  <1>6. CASE Goes(r, "posted") /\ waiting' = waiting \cup {JobOf(r)}
    <2>1. /\ runner'[r].at = "posted" /\ runner'[r].execution = runner[r].execution
          /\ \A q \in Runs : q # r => runner'[q] = runner[q]
      BY <1>1, <1>6, GoesIs
    <2>2. JobOf(r)[1] = r /\ JobOf(r)' = JobOf(r)
      BY <2>1 DEF JobOf
    <2>3. Later /\ Clients' = Clients
      BY <1>2, SameTask DEF Later, history
    <2>4. HeardOK' /\ BegunOK'
      BY <1>2, HeardKept, BegunKept DEF IInv, OnceOK, files
    <2>5. \A q \in Runs \ {r} : /\ SameRun(q)
                                /\ job' # NoJob /\ job'.of[1] = q =>
                                     job'.of \notin waiting' \/ q \in disturbed'
      BY <1>2, <1>6, <2>1, <2>2, OtherRuns DEF files, history
    <2>6. r \notin disturbed' => OneAtWork(r)' /\ CopyingOut(r)' /\ RecognisedOnce(r)'
      <3> SUFFICES ASSUME r \notin disturbed'
                   PROVE  OneAtWork(r)' /\ CopyingOut(r)' /\ RecognisedOnce(r)'
        OBVIOUS
      <3>1. r \notin disturbed /\ Alone(r)
        BY <1>2, <1>3 DEF history
      <3>2. OneAtWork(r)' /\ CopyingOut(r)'
        BY <1>2, <1>6, <2>1, <2>2, <2>3, <3>1 DEF OneAtWork, CopyingOut, Alone, JobRun
      <3>3. artifacts'[r] = artifacts[r] /\ artifacts[r].summary # "complete"
        BY <1>2, <1>4, <3>1 DEF files
      <3>4. Vouched(r)' /\ NotVouched(r)'
        BY <3>3 DEF Vouched, NotVouched
      <3>5. WrittenByClient(r)' /\ WrittenByJob(r)'
        BY <1>2, <2>3, <3>1 DEF WrittenByClient, WrittenByJob, Alone, JobRun
      <3>6. CopyingIn(r)'
        BY <2>1 DEF CopyingIn
      <3> QED BY <3>2, <3>4, <3>5, <3>6 DEF RecognisedOnce
    <2>7. CloudOK(r)'
      BY <2>1 DEF CloudOK
    <2>8. \A k \in Keys : r \in writers[k] /\ ~MixedEntry(k)' => StaysQuiet(r, k)
      BY <1>2, <2>3, QuietIs DEF Quiet, Rests
    <2> QED BY <1>2, <2>3, <2>4, <2>5, <2>6, <2>7, <2>8, StepOfOne DEF files, history
  <1> QED BY <1>5, <1>6 DEF postJson

LEMMA WritesIs ==
  ASSUME TypeOK, NEW r \in Runs, NEW part, NEW v, Writes(r, part, v)
  PROVE  /\ \A q \in Runs : q # r => artifacts'[q] = artifacts[q]
         /\ part = "transcript" => /\ artifacts'[r].transcript = v
                                   /\ artifacts'[r].evidence = artifacts[r].evidence
                                   /\ artifacts'[r].summary = artifacts[r].summary
         /\ part = "evidence" => /\ artifacts'[r].evidence = v
                                 /\ artifacts'[r].transcript = artifacts[r].transcript
                                 /\ artifacts'[r].summary = artifacts[r].summary
         /\ part = "summary" => /\ artifacts'[r].summary = v
                                /\ artifacts'[r].transcript = artifacts[r].transcript
                                /\ artifacts'[r].evidence = artifacts[r].evidence
  <1>1. artifacts = [q \in Runs |-> artifacts[q]] /\ artifacts[r] \in Artifacts
    BY DEF TypeOK, ArtifactsOK, OwnArtifacts
  <1>2. \A q \in Runs : q # r => artifacts'[q] = artifacts[q]
    BY <1>1 DEF Writes
  <1>3. artifacts'[r] = [artifacts[r] EXCEPT ![part] = v]
    BY <1>1 DEF Writes
  <1>4. CASE part = "transcript"
    <2>1. artifacts'[r] = [artifacts[r] EXCEPT !.transcript = v]
      BY <1>3, <1>4
    <2> QED BY <1>1, <1>2, <1>4, <2>1 DEF Artifacts
  <1>5. CASE part = "evidence"
    <2>1. artifacts'[r] = [artifacts[r] EXCEPT !.evidence = v]
      BY <1>3, <1>5
    <2> QED BY <1>1, <1>2, <1>5, <2>1 DEF Artifacts
  <1>6. CASE part = "summary"
    <2>1. artifacts'[r] = [artifacts[r] EXCEPT !.summary = v]
      BY <1>3, <1>6
    <2> QED BY <1>1, <1>2, <1>6, <2>1 DEF Artifacts
  <1> QED BY <1>2, <1>4, <1>5, <1>6

\* A complete entry of the cache that is not mixed is what its one writer has.
LEMMA EntryVouched ==
  ASSUME IInv, NEW k \in Keys, ~MixedEntry(k), completeAsrSummary(cache[k])
  PROVE  /\ \E q \in Runs : /\ q \in writers[k] /\ Quiet(q, k)
                            /\ cache[k].transcript = artifacts[q].transcript
                            /\ cache[k].evidence = artifacts[q].evidence
         /\ Complete(cache[k])
  <1>1. EntryOK(k)
    BY DEF IInv, OnceOK
  <1>2. writers[k] # {}
    BY <1>1 DEF EntryOK, NoArtifacts, completeAsrSummary, None
  <1>3. PICK q \in writers[k] : TRUE
    BY <1>2
  <1>4. q \in Runs
    BY DEF IInv, TypeOK, HistoryOK
  <1>5. /\ Quiet(q, k) /\ cache[k].transcript = artifacts[q].transcript
        /\ cache[k].evidence = artifacts[q].evidence
    BY <1>1 DEF EntryOK, CopyOf, completeAsrSummary
  <1>6. Complete(cache[k])
    BY <1>5 DEF Complete, Quiet
  <1> QED BY <1>3, <1>4, <1>5, <1>6

LEMMA CopyInKeeps == ASSUME IInv, NEW r \in Runs, copyIn(r) PROVE OnceOK'
  <1>1. TypeOK
    BY DEF IInv
  <1> DEFINE k == KeyOf(r)
             a == artifacts[r]
             b == artifacts'[r]
  <1>2. PICK n \in {1, 2, 3} :
          /\ At(r, CopyIn[n])
          /\ Writes(r, Parts[n], cache[KeyOf(r)][Parts[n]])
          /\ Goes(r, After(n, CopyIn))
          /\ UNCHANGED <<task, inputs, client, result, chunks, cache, localService, bounds, writers,
                         disturbed>>
    <2>1. DOMAIN Parts = {1, 2, 3}
      BY DEF Parts
    <2> QED BY <2>1 DEF copyIn
  <1>3. runner[r].at \in CopyInStages
    BY <1>2 DEF At, CopyIn, CopyInStages
  <1>4. k \in Keys /\ k[2] = audios[r] /\ audios[r] \in sourceAudioPaths(r)
    BY <1>1, <1>3, TaskFacts DEF CopyInStages, TypeOK, InputsOK
  <1>5. /\ \A q \in Runs : q # r => artifacts'[q] = artifacts[q]
        /\ n = 1 => b.transcript = cache[k].transcript /\ b.evidence = a.evidence /\ b.summary = a.summary
        /\ n = 2 => b.evidence = cache[k].evidence /\ b.transcript = a.transcript /\ b.summary = a.summary
        /\ n = 3 => b.summary = cache[k].summary /\ b.transcript = a.transcript /\ b.evidence = a.evidence
    <2>1. Parts[1] = "transcript" /\ Parts[2] = "evidence" /\ Parts[3] = "summary"
      BY DEF Parts
    <2>2. CASE n = 1
      BY <1>1, <1>2, <2>1, <2>2, WritesIs
    <2>3. CASE n = 2
      BY <1>1, <1>2, <2>1, <2>3, WritesIs
    <2>4. CASE n = 3
      BY <1>1, <1>2, <2>1, <2>4, WritesIs
    <2> QED BY <2>2, <2>3, <2>4
  <1>6. /\ runner'[r].at = After(n, CopyIn) /\ runner'[r].provider = runner[r].provider
        /\ \A q \in Runs : q # r => runner'[q] = runner[q]
    BY <1>1, <1>2, GoesIs
  <1>7. /\ n = 1 => runner[r].at = "transcript-in" /\ runner'[r].at = "evidence-in"
        /\ n = 2 => runner[r].at = "evidence-in" /\ runner'[r].at = "summary-in"
        /\ n = 3 => runner[r].at = "summary-in" /\ runner'[r].at = "completed"
    BY <1>2, <1>6 DEF At, CopyIn, After
  <1>8. KeyOf(r)' = k
    BY <1>2, <1>6 DEF KeyOf, audioCacheKey, inputs
  <1>9. MixedEntry(KeyOf(r))' = MixedEntry(k)
    BY <1>2, <1>8 DEF MixedEntry
  <1> HIDE DEF k, a, b
  <1>10. Later /\ disturbed' = disturbed
    BY <1>2 DEF Later
  <1>11. HeardOK' /\ BegunOK'
    BY <1>2, HeardKept, BegunKept DEF IInv, OnceOK, localService
  <1>12. \A q \in Runs \ {r} : /\ SameRun(q)
                               /\ job' # NoJob /\ job'.of[1] = q =>
                                    job'.of \notin waiting' \/ q \in disturbed'
    BY <1>2, <1>5, <1>6, <1>10, OtherRuns DEF localService, inputs
  <1>13. r \notin disturbed' => OneAtWork(r)' /\ CopyingOut(r)' /\ RecognisedOnce(r)'
    <2> SUFFICES ASSUME r \notin disturbed'
                 PROVE  OneAtWork(r)' /\ CopyingOut(r)' /\ RecognisedOnce(r)'
      OBVIOUS
    <2>1. r \notin disturbed /\ RecognisedOnce(r)
      BY <1>10 DEF IInv, OnceOK
    <2>2. Alone(r)'
      BY <1>2, <1>3, <2>1, AloneAt, AloneStays DEF CopyInStages
    <2>3. /\ OneAtWork(r)' /\ WrittenByClient(r)' /\ WrittenByJob(r)'
          /\ InTheMaking(r)' => Begins(r)'
      BY <2>2, AloneNext
    <2>4. CopyingOut(r)'
      BY <1>7 DEF CopyingOut
    <2>5. a.summary # "complete"
      BY <1>3, <2>1 DEF RecognisedOnce, NotVouched, InTheMaking, Begins, CopyInStages, a
    <2>6. NotVouched(r)'
      <3>1. CASE n = 3
        BY <1>7, <2>3, <3>1 DEF NotVouched, Begins
      <3>2. CASE n # 3
        BY <1>5, <2>5, <3>2 DEF NotVouched, b
      <3> QED BY <3>1, <3>2
    <2>7. CASE ~MixedEntry(k)
      <3>1. completeAsrSummary(cache[k])
        BY <1>3, <2>1, <2>7 DEF RecognisedOnce, CopyingIn, CopyInStages, k
      <3>2. Complete(cache[k])
        BY <1>4, <2>7, <3>1, EntryVouched
      <3>3. /\ n = 2 => a.transcript = cache[k].transcript
            /\ n = 3 => a.transcript = cache[k].transcript /\ a.evidence = cache[k].evidence
        BY <1>7, <2>1, <2>7 DEF RecognisedOnce, CopyingIn, k, a
      <3>4. Vouched(r)'
        <4>1. CASE n = 3
          <5>1. b.summary = cache[k].summary /\ b.transcript = cache[k].transcript /\ b.evidence = cache[k].evidence
            BY <1>5, <3>3, <4>1
          <5>2. completeAsrSummary(b) /\ Complete(b)
            BY <3>1, <3>2, <5>1 DEF completeAsrSummary, Complete
          <5> QED BY <5>2 DEF Vouched, b, completeAsrSummary, Complete
        <4>2. CASE n # 3
          BY <1>5, <2>5, <4>2 DEF Vouched, b
        <4> QED BY <4>1, <4>2
      <3>5. CopyingIn(r)'
        <4>1. cache' = cache
          BY <1>2
        <4>2. completeAsrSummary(cache[KeyOf(r)])'
          BY <1>8, <3>1, <4>1 DEF completeAsrSummary
        <4>3. CASE n = 1
          BY <1>5, <1>7, <1>8, <4>1, <4>2, <4>3 DEF CopyingIn, b
        <4>4. CASE n = 2
          BY <1>5, <1>7, <1>8, <3>3, <4>1, <4>2, <4>4 DEF CopyingIn, b
        <4>5. CASE n = 3
          BY <1>7, <4>5 DEF CopyingIn
        <4> QED BY <4>3, <4>4, <4>5
      <3> QED BY <2>3, <2>4, <2>6, <3>4, <3>5 DEF RecognisedOnce
    <2>8. CASE MixedEntry(k)
      <3>1. CopyingIn(r)'
        BY <1>9, <2>8 DEF CopyingIn
      <3>2. Mixed(r)'
        <4>1. Mixed(r)
          BY <1>4, <2>8 DEF Mixed
        <4> QED BY <1>10, <4>1, MixedLater
      <3>3. Vouched(r)'
        <4>1. CASE n = 3
          BY <1>7, <3>2, <4>1 DEF Vouched
        <4>2. CASE n # 3
          BY <1>5, <2>5, <4>2 DEF Vouched, b
        <4> QED BY <4>1, <4>2
      <3> QED BY <2>3, <2>4, <2>6, <3>1, <3>3 DEF RecognisedOnce
    <2> QED BY <2>7, <2>8
  <1>14. CloudOK(r)'
    BY <1>7 DEF CloudOK
  <1>15. \A q \in Keys : r \in writers[q] /\ ~MixedEntry(q)' => StaysQuiet(r, q)
    BY <1>3, <1>10, QuietIs DEF Quiet, Rests, CopyInStages
  <1> QED BY <1>2, <1>10, <1>11, <1>12, <1>13, <1>14, <1>15, StepOfOne

LEMMA CopyOutKeeps == ASSUME IInv, NEW r \in Runs, copyOut(r) PROVE OnceOK'
  <1>1. TypeOK
    BY DEF IInv
  <1>0. PICK k : k = KeyOf(r)
    OBVIOUS
  <1> DEFINE a == artifacts[r]
  <1>2. PICK n \in {1, 2, 3} :
          /\ At(r, CopyOut[n])
          /\ cache' = [cache EXCEPT ![k][Parts[n]] = a[Parts[n]]]
          /\ Goes(r, After(n, CopyOut))
          /\ writers' = [writers EXCEPT ![k] = @ \cup {r}]
          /\ UNCHANGED <<task, inputs, client, result, artifacts, chunks, localService, bounds, disturbed>>
    <2>1. DOMAIN Parts = {1, 2, 3}
      BY DEF Parts
    <2> QED BY <1>0, <2>1 DEF copyOut
  <1>3. runner[r].at \in CopyOutStages
    BY <1>2 DEF At, CopyOut, CopyOutStages
  <1>4. k \in Keys
    BY <1>0, <1>1, <1>3, TaskFacts DEF CopyOutStages
  <1>5. /\ runner'[r].at = After(n, CopyOut) /\ runner'[r].provider = runner[r].provider
        /\ \A q \in Runs : q # r => runner'[q] = runner[q]
    BY <1>1, <1>2, GoesIs
  <1>6. /\ n = 1 => runner[r].at = "transcript-out" /\ runner'[r].at = "evidence-out"
        /\ n = 2 => runner[r].at = "evidence-out" /\ runner'[r].at = "summary-out"
        /\ n = 3 => runner[r].at = "summary-out" /\ runner'[r].at = "completed"
    BY <1>2, <1>5 DEF At, CopyOut, After
  <1>7. KeyOf(r)' = k
    BY <1>0, <1>2, <1>5 DEF KeyOf, audioCacheKey, inputs
  <1>8. /\ \A q \in Keys : q # k => cache'[q] = cache[q]
        /\ n = 1 => /\ cache'[k].transcript = a.transcript
                    /\ cache'[k].evidence = cache[k].evidence /\ cache'[k].summary = cache[k].summary
        /\ n = 2 => /\ cache'[k].evidence = a.evidence
                    /\ cache'[k].transcript = cache[k].transcript /\ cache'[k].summary = cache[k].summary
        /\ n = 3 => /\ cache'[k].summary = a.summary
                    /\ cache'[k].transcript = cache[k].transcript /\ cache'[k].evidence = cache[k].evidence
    <2>1. Parts[1] = "transcript" /\ Parts[2] = "evidence" /\ Parts[3] = "summary"
      BY DEF Parts
    <2>2. cache = [q \in Keys |-> cache[q]] /\ cache[k] \in Artifacts
      BY <1>1, <1>4 DEF TypeOK, CacheOK, OwnArtifacts
    <2>3. /\ \A q \in Keys : q # k => cache'[q] = cache[q]
          /\ cache'[k] = [cache[k] EXCEPT ![Parts[n]] = a[Parts[n]]]
      BY <1>2, <1>4, <2>2
    <2>4. CASE n = 1
      <3>1. cache'[k] = [cache[k] EXCEPT !.transcript = a.transcript]
        BY <2>1, <2>3, <2>4
      <3> HIDE DEF a
      <3> QED BY <2>2, <2>3, <2>4, <3>1 DEF Artifacts
    <2>5. CASE n = 2
      <3>1. cache'[k] = [cache[k] EXCEPT !.evidence = a.evidence]
        BY <2>1, <2>3, <2>5
      <3> HIDE DEF a
      <3> QED BY <2>2, <2>3, <2>5, <3>1 DEF Artifacts
    <2>6. CASE n = 3
      <3>1. cache'[k] = [cache[k] EXCEPT !.summary = a.summary]
        BY <2>1, <2>3, <2>6
      <3> HIDE DEF a
      <3> QED BY <2>2, <2>3, <2>6, <3>1 DEF Artifacts
    <2> QED BY <2>4, <2>5, <2>6
  <1>9. /\ writers'[k] = writers[k] \cup {r}
        /\ \A q \in Keys : q # k => writers'[q] = writers[q]
    BY <1>1, <1>2, <1>4 DEF TypeOK, HistoryOK
  <1>10. Later /\ disturbed' = disturbed /\ artifacts' = artifacts
    <2>1. \A q \in Keys : writers[q] \subseteq writers'[q]
      BY <1>9
    <2> QED BY <1>2, <2>1 DEF Later
  <1>11. HeardOK' /\ BegunOK'
    BY <1>2, HeardKept, BegunKept DEF IInv, OnceOK, localService
  <1>12. Keys' = Keys
    BY DEF Keys
  <1>14. \A q \in Runs \ {r} : SameRun(q)
    BY <1>2, <1>5 DEF SameRun, localService, inputs
  <1>15. r \notin disturbed => Alone(r)'
    BY <1>2, <1>3, AloneAt, AloneStays DEF CopyOutStages
  <1>16. r \notin disturbed =>
           completeAsrSummary(a) /\ Complete(a) /\ (n # 1 => r \in writers[k])
    <2>1. r \notin disturbed => CopyingOut(r) /\ Vouched(r)
      BY DEF IInv, OnceOK, RecognisedOnce
    <2>2. r \notin disturbed => completeAsrSummary(a) /\ (n # 1 => r \in writers[k])
      BY <1>0, <1>3, <1>6, <2>1 DEF CopyingOut, CopyOutStages
    <2> QED BY <1>3, <2>1, <2>2 DEF Vouched, CopyOutStages, completeAsrSummary
  <1>17. ASSUME NEW q \in Runs PROVE CloudOK(q)'
    <2>1. CASE q = r
      BY <1>6, <2>1 DEF CloudOK
    <2>2. CASE q # r
      BY <1>2, <1>14, <2>2, SameWork DEF IInv, OnceOK
    <2> QED BY <2>1, <2>2
  <1>19. ASSUME ~MixedEntry(k)'
         PROVE  /\ ~MixedEntry(k) /\ r \notin disturbed /\ EntryOK(k)
                /\ writers'[k] = {r}
                /\ n = 1 => cache[k] = NoArtifacts
                /\ n # 1 => Quiet(r, k) /\ CopyOf(k, r)
    <2>1. ~MixedEntry(k) /\ EntryOK(k)
      BY <1>4, <1>10, <1>19, MixedLater DEF IInv, OnceOK
    <2>2. r \notin disturbed /\ writers'[k] = {r}
      BY <1>9, <1>10, <1>19 DEF MixedEntry
    <2>3. n = 1 => r \notin writers[k]
      BY <1>6, <2>1 DEF EntryOK, Quiet, Rests
    <2>4. n = 1 => writers[k] = {}
      BY <1>9, <2>2, <2>3
    <2> QED BY <1>16, <2>1, <2>2, <2>4 DEF EntryOK
  <1>20. ASSUME NEW q \in Keys, ~MixedEntry(q)' PROVE EntryOK(q)'
    <2>1. CASE q # k
      <3>1. ~MixedEntry(q) /\ EntryOK(q)
        BY <1>10, <1>20, MixedLater DEF IInv, OnceOK
      <3>2. r \notin writers[q]
        <4>1. r \in writers[q] => Quiet(r, q)
          BY <3>1 DEF EntryOK
        <4> QED BY <1>0, <1>3, <2>1, <4>1 DEF Quiet, Rests, CopyOutStages
      <3>3. \A x \in writers[q] : StaysQuiet(x, q)
        <4> SUFFICES ASSUME NEW x \in writers[q] PROVE StaysQuiet(x, q)
          OBVIOUS
        <4>1. x \in Runs \ {r}
          BY <1>1, <3>2 DEF TypeOK, HistoryOK
        <4> QED BY <1>14, <4>1 DEF SameRun, StaysQuiet
      <3> QED BY <1>2, <1>8, <1>9, <2>1, <3>1, <3>3, SameEntry
    <2>2. CASE q = k
      <3>1. /\ r \notin disturbed /\ EntryOK(k) /\ writers'[k] = {r}
            /\ n = 1 => cache[k] = NoArtifacts
            /\ n # 1 => Quiet(r, k) /\ CopyOf(k, r)
        BY <1>19, <1>20, <2>2
      <3>2. completeAsrSummary(a) /\ Complete(a)
        BY <1>16, <3>1
      <3>3. Quiet(r, k)'
        <4>1. completeAsrSummary(artifacts[r])' /\ Complete(artifacts[r])'
          BY <1>10, <3>2 DEF completeAsrSummary, Complete
        <4> QED BY <1>6, <1>7, <4>1 DEF Quiet, Rests
      <3>4. CopyOf(k, r)'
        <4>1. CASE n = 1
          <5>1. /\ cache'[k].transcript = a.transcript /\ cache'[k].evidence = NoTexts
                /\ cache'[k].summary # "complete"
            BY <1>8, <3>1, <4>1 DEF NoArtifacts, None
          <5> QED BY <1>6, <1>10, <4>1, <5>1 DEF CopyOf
        <4>2. CASE n = 2
          BY <1>6, <1>8, <1>10, <3>1, <4>2 DEF CopyOf
        <4>3. CASE n = 3
          <5>1. cache[k].evidence = a.evidence /\ cache[k].transcript = a.transcript
            BY <1>6, <3>1, <4>3 DEF CopyOf
          <5> QED BY <1>6, <1>8, <1>10, <4>3, <5>1 DEF CopyOf
        <4> QED BY <4>1, <4>2, <4>3
      <3> QED BY <2>2, <3>1, <3>3, <3>4 DEF EntryOK
    <2> QED BY <2>1, <2>2
  <1>21. ASSUME NEW q \in Runs, q \notin disturbed'
         PROVE  OneAtWork(q)' /\ CopyingOut(q)' /\ RecognisedOnce(q)'
    <2>1. q \notin disturbed
      BY <1>10, <1>21
    <2>2. OneAtWork(q) /\ CopyingOut(q) /\ RecognisedOnce(q)
      BY <2>1 DEF IInv, OnceOK
    <2>3. CASE q = r
      <3>1. Alone(r)'
        BY <1>15, <2>1, <2>3
      <3>2. /\ OneAtWork(r)' /\ WrittenByClient(r)' /\ WrittenByJob(r)'
            /\ InTheMaking(r)' => Begins(r)'
        BY <3>1, AloneNext
      <3>3. completeAsrSummary(artifacts[r])' /\ Complete(artifacts[r])'
        BY <1>10, <1>16, <2>1, <2>3 DEF completeAsrSummary, Complete
      <3>4. r \in writers'[KeyOf(r)']
        BY <1>4, <1>7, <1>9
      <3>5. CopyingOut(r)'
        BY <3>3, <3>4 DEF CopyingOut
      <3>6. Vouched(r)' /\ NotVouched(r)' /\ CopyingIn(r)'
        BY <1>6, <3>2, <3>3 DEF Vouched, NotVouched, Begins, CopyingIn
      <3> QED BY <2>3, <3>2, <3>5, <3>6 DEF RecognisedOnce
    <2>4. CASE q # r
      <3>1. SameRun(q)
        BY <1>14, <2>4
      <3>2. job' # NoJob /\ job'.of[1] = q => job'.of \notin waiting'
        BY <1>2, <2>2 DEF OneAtWork, JobRun, localService
      <3>3. ASSUME runner[q].at \in CopyInStages, ~MixedEntry(KeyOf(q))'
            PROVE  /\ cache'[KeyOf(q)].transcript = cache[KeyOf(q)].transcript
                   /\ cache'[KeyOf(q)].evidence = cache[KeyOf(q)].evidence
                   /\ cache'[KeyOf(q)].summary = cache[KeyOf(q)].summary
        <4>1. KeyOf(q) \in Keys
          BY <1>1, <3>3, TaskFacts DEF CopyInStages
        <4>2. CASE KeyOf(q) # k
          BY <1>8, <4>1, <4>2
        <4>3. CASE KeyOf(q) = k
          <5>1. KeyOf(q)' = k
            BY <3>1, <4>3, SameKey DEF SameRun
          <5>2. ~MixedEntry(k)'
            BY <3>3, <5>1 DEF MixedEntry
          <5>3. ~MixedEntry(k) /\ r \notin disturbed /\ writers'[k] = {r}
            BY <1>19, <5>2
          <5>4. completeAsrSummary(cache[k])
            BY <2>2, <3>3, <4>3, <5>3 DEF RecognisedOnce, CopyingIn, CopyInStages
          <5>5. PICK x \in Runs : /\ x \in writers[k]
                                  /\ cache[k].transcript = artifacts[x].transcript
                                  /\ cache[k].evidence = artifacts[x].evidence
            BY <1>4, <5>3, <5>4, EntryVouched
          <5>6. x = r
            BY <1>9, <5>3, <5>5
          <5>7. a.summary = "complete" /\ cache[k].summary = "complete"
            BY <1>16, <5>3, <5>4 DEF completeAsrSummary
          <5> QED BY <1>8, <4>3, <5>5, <5>6, <5>7
        <4> QED BY <4>2, <4>3
      <3>4. OneAtWork(q)' /\ CopyingOut(q)'
        BY <1>1, <1>2, <1>10, <2>2, <3>1, <3>2, SameWork, SameCopying
      <3>5. RecognisedOnce(q)'
        BY <1>1, <1>10, <2>2, <3>1, <3>3, SameRecognition
      <3> QED BY <3>4, <3>5
    <2> QED BY <2>3, <2>4
  <1> QED BY <1>11, <1>12, <1>17, <1>20, <1>21 DEF OnceOK

\* A client that is at work goes on, and has written nothing yet.
LEMMA ClientWorks ==
  ASSUME IInv, UNCHANGED <<task, inputs, runner, artifacts, chunks, cache, localService, history>>,
         NEW p \in Clients, NEW c, client' = [client EXCEPT ![p] = c],
         client[p].at \notin {"off", "done"},
         c.at \notin {"write-evidence", "write-summary"},
         c.source \in DOMAIN c.paths, c.heard \subseteq DOMAIN c.paths
  PROVE  OnceOK'
  <1> DEFINE r == p[1]
  <1>1. r \in Runs
    BY DEF Clients
  <1>2. client'[p] = c /\ \A q \in Clients : q # p => client'[q] = client[q]
    BY DEF IInv, TypeOK, ClientOK
  <1> HIDE DEF r
  <1>3. Later /\ Clients' = Clients /\ disturbed' = disturbed
    BY SameTask DEF Later, history
  <1>4. HeardOK' /\ BegunOK'
    BY <1>2, HeardKept, BegunKept DEF IInv, OnceOK, localService
  <1>5. \A q \in Runs \ {r} : /\ SameRun(q)
                              /\ job' # NoJob /\ job'.of[1] = q =>
                                   job'.of \notin waiting' \/ q \in disturbed'
    BY <1>1, <1>2, <1>3, OtherRuns DEF inputs, localService, r
  <1>6. r \notin disturbed => p = JobOf(r) /\ runner[r].at = "client"
    BY <1>1 DEF IInv, OnceOK, OneAtWork, r
  <1>7. r \notin disturbed' => OneAtWork(r)' /\ CopyingOut(r)' /\ RecognisedOnce(r)'
    <2> SUFFICES ASSUME r \notin disturbed'
                 PROVE  OneAtWork(r)' /\ CopyingOut(r)' /\ RecognisedOnce(r)'
      OBVIOUS
    <2>1. OneAtWork(r) /\ RecognisedOnce(r) /\ p = JobOf(r) /\ runner[r].at = "client"
      BY <1>1, <1>3, <1>6 DEF IInv, OnceOK
    <2>2. JobOf(r)' = JobOf(r)
      BY DEF JobOf
    <2>3. OneAtWork(r)' /\ CopyingOut(r)'
      BY <1>2, <1>3, <2>1, <2>2 DEF OneAtWork, CopyingOut, JobRun, localService
    <2>4. artifacts[r].summary # "complete"
      BY <2>1 DEF RecognisedOnce, NotVouched, InTheMaking, r
    <2>5. Vouched(r)' /\ NotVouched(r)'
      BY <2>4 DEF Vouched, NotVouched
    <2>6. WrittenByClient(r)'
      BY <1>2, <1>3, <2>1 DEF WrittenByClient, OneAtWork, r
    <2>7. WrittenByJob(r)'
      BY <2>1 DEF RecognisedOnce, WrittenByJob, JobRun, LocalTexts, localService
    <2>8. CopyingIn(r)'
      BY <2>1 DEF CopyingIn
    <2> QED BY <2>3, <2>5, <2>6, <2>7, <2>8 DEF RecognisedOnce
  <1>8. CloudOK(r)'
    BY <1>1 DEF IInv, OnceOK, CloudOK
  <1>9. \A k \in Keys : r \in writers[k] /\ ~MixedEntry(k)' => StaysQuiet(r, k)
    BY DEF StaysQuiet, inputs
  <1> QED BY <1>1, <1>3, <1>4, <1>5, <1>7, <1>8, <1>9, StepOfOne DEF inputs, history

LEMMA ClientFailsKeeps ==
  ASSUME IInv, NEW p \in Clients, NEW why, ClientFails(p, why),
         UNCHANGED <<task, inputs, runner, artifacts, chunks, cache, localService, history>>
  PROVE  OnceOK'
  <1>1. client' = [client EXCEPT ![p] = NoClient]
    BY DEF ClientFails
  <1> QED BY <1>1, ClientGone DEF inputs, history

LEMMA ClientGoesKeeps ==
  ASSUME IInv, UNCHANGED <<task, inputs, runner, artifacts, chunks, cache, localService, history>>,
         NEW p \in Clients, NEW stage, ClientGoes(p, stage),
         client[p].at \notin {"off", "done"}, stage \notin {"write-evidence", "write-summary"}
  PROVE  OnceOK'
  <1> DEFINE c == [client[p] EXCEPT !.at = stage]
  <1>1. client' = [client EXCEPT ![p] = c]
    BY DEF ClientGoes
  <1>2. client[p] \in ClientState
    BY DEF IInv, TypeOK, ClientOK
  <1>3. /\ c.at = stage /\ c.source = client[p].source /\ c.heard = client[p].heard
        /\ c.paths = client[p].paths
    BY <1>2 DEF ClientState
  <1>4. c.source \in DOMAIN c.paths /\ c.heard \subseteq DOMAIN c.paths
    BY <1>3 DEF IInv, OnceOK, HeardOK
  <1> HIDE DEF c
  <1> QED BY <1>1, <1>3, <1>4, ClientWorks

LEMMA ClientStepKeeps ==
  ASSUME IInv, NEW p \in Clients, NEW stage, NEW next, NEW reasons,
         stage \notin {"off", "done"}, next \notin {"write-evidence", "write-summary"},
         ClientStep(p, stage, next, reasons)
  PROVE  OnceOK'
  <1>1. UNCHANGED <<task, inputs, runner, artifacts, chunks, cache, localService, history>>
        /\ client[p].at = stage
    BY DEF ClientStep, ClientAt
  <1> QED BY <1>1, ClientGoesKeeps, ClientFailsKeeps DEF ClientStep

LEMMA StagesKeep ==
  ASSUME IInv, NEW p \in Clients,
         \/ prepareFileDiarization(p) \/ uploadSourceToOss(p) \/ submitFileTask(p)
         \/ pollFileTask(p) \/ wsOpen(p) \/ wsTaskStarted(p)
  PROVE  OnceOK'
  <1> QED BY ClientStepKeeps DEF prepareFileDiarization, uploadSourceToOss, submitFileTask,
     pollFileTask, wsOpen, wsTaskStarted

LEMMA PlanKeeps == ASSUME IInv, NEW p \in Clients, planDashScopeInput(p) PROVE OnceOK'
  <1>1. /\ client[p].at = "plan"
        /\ UNCHANGED <<task, inputs, runner, artifacts, chunks, cache, localService, bounds, history>>
    BY DEF planDashScopeInput, ClientAt
  <1> DEFINE file == normalized[p[1]][client[p].source]
             c(stage) == PathOpened(client[p], file, stage)
  <1>2. \/ \E stage \in {"prepare", "connect"} : client' = [client EXCEPT ![p] = c(stage)]
        \/ client' = [client EXCEPT ![p] = NoClient]
    <2> DEFINE stage == IF task.mode # "realtime" /\ task.transport THEN "prepare" ELSE "connect"
    <2>1. \/ client' = [client EXCEPT ![p] = c(stage)]
          \/ client' = [client EXCEPT ![p] = NoClient]
      BY DEF planDashScopeInput
    <2>2. stage \in {"prepare", "connect"}
      OBVIOUS
    <2> HIDE DEF stage, c
    <2> QED BY <2>1, <2>2
  <1>3. client[p] \in ClientState
    BY DEF IInv, TypeOK, ClientOK
  <1>4. client[p].source \in DOMAIN client[p].paths /\ client[p].heard \subseteq DOMAIN client[p].paths
    BY <1>1 DEF IInv, OnceOK, HeardOK
  <1>5. ASSUME NEW stage \in {"prepare", "connect"}, client' = [client EXCEPT ![p] = c(stage)]
        PROVE  OnceOK'
    <2> DEFINE was == client[p].paths
               i == client[p].source
    <2>1. /\ c(stage).at = stage /\ c(stage).source = i /\ c(stage).heard = client[p].heard
          /\ c(stage).paths = [was EXCEPT ![i] = IF client[p].attempt = 2 THEN file ELSE @]
      BY <1>3 DEF ClientState, PathOpened
    <2>2. DOMAIN c(stage).paths = DOMAIN was
      BY <2>1
    <2> HIDE DEF c, was, i
    <2>3. c(stage).source \in DOMAIN c(stage).paths /\ c(stage).heard \subseteq DOMAIN c(stage).paths
      BY <1>4, <2>1, <2>2 DEF was, i
    <2> QED BY <1>1, <1>5, <2>1, <2>3, ClientWorks
  <1> HIDE DEF c
  <1> QED BY <1>1, <1>2, <1>5, ClientGone DEF inputs, history

LEMMA SourcesKeep ==
  ASSUME IInv, NEW p \in Clients, downloadTranscription(p) \/ wsTaskFinished(p)
  PROVE  OnceOK'
  <1>2. /\ client[p].at \in {"download", "started"}
        /\ UNCHANGED <<task, inputs, runner, artifacts, chunks, cache, localService, kills, history>>
        /\ \/ \E heard \in BOOLEAN : SourceDone(p, heard)
           \/ \E why : ClientFails(p, why)
    BY DEF downloadTranscription, wsTaskFinished, ClientAt
  <1>3. ASSUME NEW heard \in BOOLEAN, SourceDone(p, heard) PROVE OnceOK'
    <2> DEFINE more == client[p].source + 1 \in DOMAIN client[p].paths
               c == [client[p] EXCEPT
                       !.heard = IF heard THEN @ \cup {client[p].source} ELSE @,
                       !.at = IF more THEN "plan" ELSE "write-transcript",
                       !.source = IF more THEN client[p].source + 1 ELSE @]
    <2>1. client' = [client EXCEPT ![p] = c]
      BY <1>3 DEF SourceDone
    <2>2. client[p] \in ClientState
      BY DEF IInv, TypeOK, ClientOK
    <2>3. client[p].source \in DOMAIN client[p].paths /\ client[p].heard \subseteq DOMAIN client[p].paths
      BY <1>2 DEF IInv, OnceOK, HeardOK
    <2>4. /\ c.at \in {"plan", "write-transcript"}
          /\ c.source = IF more THEN client[p].source + 1 ELSE client[p].source
          /\ c.heard = IF heard THEN client[p].heard \cup {client[p].source} ELSE client[p].heard
          /\ c.paths = client[p].paths
      BY <2>2 DEF ClientState
    <2>5. c.source \in DOMAIN c.paths /\ c.heard \subseteq DOMAIN c.paths
      BY <2>3, <2>4
    <2> HIDE DEF c, more
    <2> QED BY <1>2, <2>1, <2>4, <2>5, ClientWorks
  <1> QED BY <1>2, <1>3, ClientFailsKeeps

LEMMA CloudDoneKeeps == ASSUME IInv, NEW p \in Clients, transcribeDashScopeAsr_done(p) PROVE OnceOK'
  <1> QED BY ClientGone DEF inputs, history, transcribeDashScopeAsr_done

\* What a client has heard is complete, if it is anything.
LEMMA CloudComplete ==
  ASSUME TypeOK, NEW p \in Clients, ClientReady(p), client[p].at # "off",
         client[p].heard \subseteq DOMAIN client[p].paths, client[p].heard # {},
         NEW a, a.transcript = CloudTexts(p), a.evidence = CloudTexts(p)
  PROVE  Complete(a) /\ CloudTexts(p) # NoTexts
  <1> DEFINE r == p[1]
             paths == client[p].paths
             texts == [i \in DOMAIN paths |-> IF i \in client[p].heard THEN TextOf(paths[i]) ELSE NoText]
  <1>1. \A i \in DOMAIN paths : paths[i] \in Nat /\ paths[i] # Missing
    <2>1. paths \in Seq(Nat)
      BY DEF TypeOK, ClientOK, ClientState
    <2>2. \A i \in DOMAIN paths : paths[i] # Missing
      BY DEF ClientReady
    <2> HIDE DEF paths
    <2> QED BY <2>1, <2>2
  <1>2. CloudTexts(p) = [by |-> <<Cloud, r>>, texts |-> texts]
    BY DEF CloudTexts
  <1>3. CloudTexts(p) # NoTexts
    <2>1. CloudTexts(p).by = <<Cloud, r>> /\ NoTexts.by = <<>>
      BY <1>2 DEF NoTexts
    <2>2. <<Cloud, r>> # <<>>
      OBVIOUS
    <2> QED BY <2>1, <2>2
  <1>4. DOMAIN texts = DOMAIN paths
    OBVIOUS
  <1>5. \A i \in DOMAIN paths, c \in Chunks :
           texts[i][c] = IF i \in client[p].heard THEN paths[i] ELSE Missing
    BY DEF TextOf, NoText
  <1> HIDE DEF texts
  <1>6. a.transcript.texts = texts /\ a.transcript = a.evidence
    BY <1>2
  <1>7. PICK i \in DOMAIN paths, c \in Chunks : i \in client[p].heard
    BY TranscriptionAssumption DEF TranscriptionAssumption
  <1> HIDE DEF paths
  <1>8. texts[i][c] # Missing
    BY <1>1, <1>5, <1>7 DEF Missing
  <1>9. \A x \in DOMAIN paths, y \in Chunks : texts[x][y] # Failed
    BY <1>1, <1>5 DEF Missing, Failed
  <1> QED BY <1>3, <1>4, <1>6, <1>7, <1>8, <1>9 DEF Complete

LEMMA OutputKeeps == ASSUME IInv, NEW p \in Clients, buildOutputs(p) PROVE OnceOK'
  <1>1. TypeOK
    BY DEF IInv
  <1> DEFINE r == p[1]
             a == artifacts[r]
             b == artifacts'[r]
  <1>2. r \in Runs
    BY DEF Clients
  <1>3. UNCHANGED <<task, inputs, runner, result, chunks, cache, localService, bounds, history>>
    BY DEF buildOutputs
  <1>4. PICK stage : /\ ClientGoes(p, stage)
                     /\ \/ /\ client[p].at = "write-transcript" /\ stage = "write-evidence"
                           /\ Writes(r, "transcript", CloudTexts(p))
                        \/ /\ client[p].at = "write-evidence" /\ stage = "write-summary"
                           /\ Writes(r, "evidence", CloudTexts(p))
                        \/ /\ client[p].at = "write-summary" /\ stage = "done"
                           /\ Writes(r, "summary", CloudSummary(p))
    BY DEF buildOutputs, ClientAt
  <1>5. /\ client'[p].at = stage /\ client'[p].heard = client[p].heard
        /\ client'[p].source = client[p].source /\ client'[p].paths = client[p].paths
        /\ \A q \in Clients : q # p => client'[q] = client[q]
    <2>1. client \in [Clients -> ClientState] /\ client[p] \in ClientState
      BY <1>1 DEF TypeOK, ClientOK
    <2>2. client'[p] = [client[p] EXCEPT !.at = stage]
      BY <1>4, <2>1 DEF ClientGoes
    <2>3. \A q \in Clients : q # p => client'[q] = client[q]
      BY <1>4, <2>1 DEF ClientGoes
    <2> QED BY <2>1, <2>2, <2>3 DEF ClientState
  <1>6. /\ \A q \in Runs : q # r => artifacts'[q] = artifacts[q]
        /\ stage = "write-evidence" => /\ b.transcript = CloudTexts(p)
                                       /\ b.summary = a.summary
        /\ stage = "write-summary" => /\ b.evidence = CloudTexts(p) /\ b.transcript = a.transcript
                                      /\ b.summary = a.summary
        /\ stage = "done" => /\ b.summary = CloudSummary(p) /\ b.transcript = a.transcript
                             /\ b.evidence = a.evidence
    <2> HIDE DEF r
    <2>1. CASE stage = "write-evidence"
      BY <1>1, <1>2, <1>4, <2>1, WritesIs
    <2>2. CASE stage = "write-summary"
      BY <1>1, <1>2, <1>4, <2>2, WritesIs
    <2>3. CASE stage = "done"
      BY <1>1, <1>2, <1>4, <2>3, WritesIs
    <2> QED BY <1>4, <2>1, <2>2, <2>3
  <1>7. Later /\ Clients' = Clients /\ disturbed' = disturbed
    BY <1>3, SameTask DEF Later, history
  <1>8. client[p].at \notin {"off", "done"} /\ client[p].heard \subseteq DOMAIN client[p].paths
        /\ client[p].source \in DOMAIN client[p].paths
    BY <1>4 DEF IInv, OnceOK, HeardOK
  <1>9. r \notin disturbed => p = JobOf(r) /\ runner[r].at = "client"
    BY <1>2, <1>8 DEF IInv, OnceOK, OneAtWork
  <1>10. HeardOK' /\ BegunOK'
    BY <1>3, <1>5, <1>8, HeardKept, BegunKept DEF IInv, OnceOK, HeardOK, localService
  <1>11. CloudTexts(p)' = CloudTexts(p)
    BY <1>3, <1>5, SameCloudTexts
  <1> HIDE DEF r, a, b
  <1>12. \A q \in Runs \ {r} : /\ SameRun(q)
                               /\ job' # NoJob /\ job'.of[1] = q =>
                                    job'.of \notin waiting' \/ q \in disturbed'
    BY <1>2, <1>3, <1>5, <1>6, <1>7, OtherRuns DEF inputs, localService, r
  <1>13. CloudOK(r)'
    BY <1>2, <1>3 DEF IInv, OnceOK, CloudOK
  <1>14. r \notin disturbed' => OneAtWork(r)' /\ CopyingOut(r)' /\ RecognisedOnce(r)'
    <2> SUFFICES ASSUME r \notin disturbed'
                 PROVE  OneAtWork(r)' /\ CopyingOut(r)' /\ RecognisedOnce(r)'
      OBVIOUS
    <2>1. RecognisedOnce(r) /\ r \notin disturbed /\ OneAtWork(r)
      BY <1>2, <1>7 DEF IInv, OnceOK
    <2>2. p = JobOf(r) /\ runner[r].at = "client" /\ p[1] = r
      BY <1>9, <2>1 DEF r
    <2>3. a.summary # "complete"
      BY <1>8, <2>1, <2>2 DEF RecognisedOnce, NotVouched, InTheMaking, a
    <2>4. /\ stage = "write-summary" => a.transcript = CloudTexts(p)
          /\ stage = "done" => a.transcript = CloudTexts(p) /\ a.evidence = CloudTexts(p)
      BY <1>4, <2>1, <2>2 DEF RecognisedOnce, WrittenByClient, a
    <2>5. \A q \in Clients : q[1] = r /\ q # p => client'[q].at = "off"
      BY <1>5, <2>1, <2>2 DEF OneAtWork
    <2>6. job' # NoJob => job'.of[1] # r
      BY <1>3, <2>1, <2>2 DEF OneAtWork, JobRun, localService
    <2>7. Vouched(r)'
      <3>1. CASE stage = "done"
        <4>1. b.transcript = CloudTexts(p) /\ b.evidence = CloudTexts(p)
          BY <1>6, <2>4, <3>1
        <4>2. b.summary = "complete" => client[p].heard # {}
          BY <1>6, <3>1 DEF CloudSummary
        <4>3. b.summary = "complete" => Complete(b) /\ CloudTexts(p) # NoTexts
          BY <1>1, <1>8, <4>1, <4>2, CloudComplete DEF IInv, ReadyOK
        <4> QED BY <4>1, <4>3 DEF Vouched, completeAsrSummary, Complete, b
      <3>2. CASE stage # "done"
        BY <1>4, <1>6, <2>3, <3>2 DEF Vouched, b
      <3> QED BY <3>1, <3>2
    <2>8. NotVouched(r)'
      <3>1. CASE stage = "done"
        <4>1. ~Begins(r)'
          BY <1>3, <2>2 DEF Begins
        <4>2. \A j \in waiting' : j[1] # r
          BY <1>3, <2>1, <2>2 DEF OneAtWork, localService
        <4>3. \A q \in Clients' : q[1] = r => client'[q].at \in {"off", "done"}
          BY <1>5, <1>7, <2>5, <3>1
        <4> QED BY <2>6, <4>1, <4>2, <4>3 DEF NotVouched, InTheMaking, JobRun
      <3>2. CASE stage # "done"
        BY <1>4, <1>6, <2>3, <3>2 DEF NotVouched, b
      <3> QED BY <3>1, <3>2
    <2>9. WrittenByClient(r)'
      <3> SUFFICES ASSUME NEW q \in Clients, q[1] = r
                   PROVE  /\ client'[q].at \in {"write-evidence", "write-summary"} =>
                               artifacts'[r].transcript = CloudTexts(q)'
                          /\ client'[q].at = "write-summary" => artifacts'[r].evidence = CloudTexts(q)'
        BY <1>7 DEF WrittenByClient
      <3>1. CASE q = p
        BY <1>4, <1>5, <1>6, <1>11, <2>4, <3>1 DEF b
      <3>2. CASE q # p
        BY <2>5, <3>2
      <3> QED BY <3>1, <3>2
    <2>10. WrittenByJob(r)'
      BY <2>6 DEF WrittenByJob, JobRun
    <2>11. CopyingIn(r)'
      BY <1>3, <2>2 DEF CopyingIn
    <2>12. OneAtWork(r)' /\ CopyingOut(r)'
      <3>1. JobOf(r)' = JobOf(r)
        BY <1>3 DEF JobOf
      <3> QED BY <1>3, <1>5, <1>7, <2>1, <2>2, <3>1 DEF OneAtWork, CopyingOut, JobRun, localService
    <2> QED BY <2>12, <2>7, <2>8, <2>9, <2>10, <2>11 DEF RecognisedOnce
  <1>15. \A k \in Keys : r \in writers[k] /\ ~MixedEntry(k)' => StaysQuiet(r, k)
    BY <1>2, <1>7, <1>9, QuietIs DEF Quiet, Rests
  <1> QED BY <1>1, <1>2, <1>3, <1>7, <1>10, <1>12, <1>13, <1>14, <1>15, StepOfOne DEF inputs, history

\* The job goes on, and has written nothing yet.
LEMMA JobWorks ==
  ASSUME IInv, BegunOK', UNCHANGED <<task, inputs, runner, client, artifacts, cache, history>>,
         job' # NoJob, job'.at \in {"chunk", "write-transcript"}, waiting' \subseteq waiting,
         \/ job # NoJob /\ job.at # "done" /\ job'.of = job.of
         \/ job = NoJob /\ job'.of \in waiting /\ job'.of \notin waiting'
  PROVE  OnceOK'
  <1> DEFINE r == job'.of[1]
  <1>1. r \in Runs
    <2>1. job'.of \in Clients
      BY JobFacts DEF IInv, TypeOK, ServiceOK, JobIs
    <2> QED BY <2>1, TaskFacts DEF IInv
  <1>2. PICK s \in Runs : s = r
    BY <1>1
  <1>3. Later /\ Clients' = Clients /\ disturbed' = disturbed
    BY SameTask DEF Later, history
  <1>4. HeardOK'
    BY HeardKept DEF IInv, OnceOK
  <1>5. \A q \in Runs \ {s} : /\ SameRun(q)
                              /\ job' # NoJob /\ job'.of[1] = q =>
                                   job'.of \notin waiting' \/ q \in disturbed'
    BY <1>2 DEF SameRun, inputs
  <1>6. s \notin disturbed => /\ runner[s].at = "posted" /\ job'.of = JobOf(s) /\ job'.of \notin waiting'
                              /\ \A p \in Clients : p[1] = s => client[p].at = "off"
    <2> SUFFICES ASSUME s \notin disturbed
                 PROVE  /\ runner[s].at = "posted" /\ job'.of = JobOf(s) /\ job'.of \notin waiting'
                        /\ \A p \in Clients : p[1] = s => client[p].at = "off"
      OBVIOUS
    <2>1. OneAtWork(s)
      BY DEF IInv, OnceOK
    <2>2. runner[s].at = "posted" /\ job'.of = JobOf(s) /\ job'.of \notin waiting'
      BY <1>2, <2>1 DEF OneAtWork, JobRun
    <2> QED BY <2>1, <2>2 DEF OneAtWork
  <1>7. JobOf(s)' = JobOf(s)
    BY DEF JobOf
  <1>8. s \notin disturbed' => OneAtWork(s)' /\ CopyingOut(s)' /\ RecognisedOnce(s)'
    <2> SUFFICES ASSUME s \notin disturbed'
                 PROVE  OneAtWork(s)' /\ CopyingOut(s)' /\ RecognisedOnce(s)'
      OBVIOUS
    <2>1. OneAtWork(s) /\ RecognisedOnce(s) /\ s \notin disturbed
      BY <1>3 DEF IInv, OnceOK
    <2>2. OneAtWork(s)' /\ CopyingOut(s)'
      BY <1>2, <1>3, <1>6, <1>7, <2>1 DEF OneAtWork, CopyingOut, JobRun
    <2>3. InTheMaking(s)
      BY <1>2 DEF InTheMaking, JobRun
    <2>4. artifacts[s].summary # "complete"
      BY <2>1, <2>3 DEF RecognisedOnce, NotVouched
    <2>5. Vouched(s)' /\ NotVouched(s)'
      BY <2>4 DEF Vouched, NotVouched
    <2>6. WrittenByClient(s)'
      BY <1>3, <1>6, <2>1 DEF WrittenByClient
    <2>7. WrittenByJob(s)'
      BY DEF WrittenByJob
    <2>8. CopyingIn(s)'
      BY <1>6, <2>1 DEF CopyingIn
    <2> QED BY <2>2, <2>5, <2>6, <2>7, <2>8 DEF RecognisedOnce
  <1>9. CloudOK(s)'
    BY DEF IInv, OnceOK, CloudOK
  <1>10. \A k \in Keys : s \in writers[k] /\ ~MixedEntry(k)' => StaysQuiet(s, k)
    BY DEF StaysQuiet, inputs
  <1> QED BY <1>3, <1>4, <1>5, <1>8, <1>9, <1>10, StepOfOne DEF history

LEMMA FirstChunk ==
  1 \in Chunks /\ Chunks \subseteq Nat \ {0} /\ \A n \in Nat \ {0} : n \notin Chunks => n # 1
  <1>1. Cardinality(Chunks) \in Nat /\ Chunks = 1 .. Cardinality(Chunks) /\ Chunks # {}
    BY TranscriptionAssumption, FS_CardinalityType DEF TranscriptionAssumption
  <1> QED BY <1>1

LEMMA TakeKeeps == ASSUME IInv, takeJob PROVE OnceOK'
  <1>1. job = NoJob /\ UNCHANGED <<task, inputs, runner, client, files, service, bounds, history>>
    BY DEF takeJob
  <1>2. PICK w \in waiting :
          /\ waiting' = waiting \ {w}
          /\ job'.of = w /\ job'.at = "chunk" /\ job'.source = 1 /\ job'.chunk = 1
          /\ job'.had = chunks[w[1]][1] /\ job'.texts = <<>>
    BY TakeIs DEF IInv
  <1>3. job' # NoJob
    BY <1>2 DEF NoJob, None
  <1>4. BegunOK'
    <2>1. chunks' = chunks /\ 1 .. Len(job'.texts) = {}
      BY <1>1, <1>2 DEF files
    <2> QED BY <1>2, <2>1 DEF BegunOK, JobRun
  <1> QED BY <1>1, <1>2, <1>3, <1>4, JobWorks DEF files

LEMMA ChunkKeeps == ASSUME IInv, transcribeChunk PROVE OnceOK'
  <1> DEFINE r == JobRun
             i == job.source
             x == job.chunk
  <1>1. TypeOK
    BY DEF IInv
  <1>2. /\ job.at = "chunk" /\ x \in Chunks
        /\ UNCHANGED <<task, inputs, runner, client, result, artifacts, cache, service, waiting, kills,
                       history>>
    BY Zenon DEF transcribeChunk
  <1>3. job # NoJob
    BY <1>2, JobAt
  <1>4. JobIs(job) /\ r \in Runs /\ job.audio # Missing
    BY <1>1, <1>3, JobFacts DEF IInv, ReadyOK, JobReady
  <1>5. job \in JobState /\ i \in Sources(r)
    BY <1>4 DEF JobIs, JobRun
  <1> DEFINE now(value) == [job.now EXCEPT ![x] = value]
  <1>6. PICK value :
          /\ job'.of = job.of /\ job'.at = "chunk" /\ job'.source = i
          /\ job'.texts = job.texts /\ job'.chunk = x + 1 /\ job'.now = now(value)
          /\ \/ chunks' = chunks /\ value = job.had[x] /\ value \notin {Missing, Failed}
             \/ chunks' = [chunks EXCEPT ![r][i] = now(value)] /\ value \in {job.audio, Failed}
    BY <1>1, <1>2, ChunkIs
  <1>7. value # Missing /\ job' # NoJob
    BY <1>4, <1>6 DEF Missing, Failed, NoJob, None
  <1>8. /\ x \in Nat \ {0} /\ x + 1 # 1 /\ 1 \in Chunks
        /\ job.now \in Text
    BY <1>2, <1>5, FirstChunk DEF JobState
  <1>9. /\ x = 1 => job.had = chunks[r][i]
        /\ x # 1 => Begun(chunks[r][i]) /\ Begun(job.now)
        /\ \A n \in 1 .. Len(job.texts) : Begun(job.texts[n])
    BY <1>2, <1>3 DEF IInv, OnceOK, BegunOK
  <1>10. Begun(now(value))
    <2>1. CASE x = 1
      BY <1>7, <1>8, <2>1 DEF Begun, Text
    <2>2. CASE x # 1
      BY <1>8, <1>9, <2>2 DEF Begun, Text
    <2> QED BY <2>1, <2>2
  <1>11. Begun(chunks'[r][i])
    <2>1. CASE chunks' = chunks /\ value = job.had[x]
      <3>1. x = 1 => chunks[r][i][1] = value
        BY <1>9, <2>1
      <3> QED BY <1>7, <1>9, <2>1, <3>1 DEF Begun
    <2>2. CASE chunks' = [chunks EXCEPT ![r][i] = now(value)]
      <3>1. chunks = [q \in Runs |-> [n \in Sources(q) |-> chunks[q][n]]]
        BY <1>1 DEF TypeOK, ChunksOK
      <3>2. chunks'[r][i] = now(value)
        BY <1>4, <1>5, <2>2, <3>1
      <3> QED BY <1>10, <3>2
    <2> QED BY <1>6, <2>1, <2>2
  <1>12. BegunOK'
    BY <1>6, <1>8, <1>9, <1>10, <1>11 DEF BegunOK, JobRun
  <1> QED BY <1>2, <1>3, <1>6, <1>7, <1>12, JobWorks

LEMMA SourceEndKeeps == ASSUME IInv, transcribe_file_end PROVE OnceOK'
  <1> DEFINE r == JobRun
             i == job.source
             text == chunks[r][i]
             texts == Append(job.texts, text)
  <1>1. /\ job.at = "chunk" /\ job.chunk \notin Chunks
        /\ UNCHANGED <<task, inputs, runner, client, files, service, waiting, bounds, history>>
    BY DEF transcribe_file_end
  <1>2. /\ job \in JobState /\ job'.of = job.of /\ job'.texts = texts
        /\ \/ /\ job'.at = "chunk" /\ job'.source = i + 1 /\ job'.chunk = 1
              /\ job'.had = chunks[r][i + 1]
           \/ job'.at = "write-transcript"
    BY SourceEndIs DEF IInv
  <1>3. job # NoJob
    BY <1>1, JobAt
  <1>4. Begun(text) /\ \A n \in 1 .. Len(job.texts) : Begun(job.texts[n])
    <2>1. job.chunk # 1
      BY <1>1, <1>2, FirstChunk DEF JobState
    <2> QED BY <1>1, <1>3, <2>1 DEF IInv, OnceOK, BegunOK
  <1> HIDE DEF text
  <1>5. texts # <<>> /\ \A n \in 1 .. Len(texts) : Begun(texts[n])
    <2> DEFINE s == job.texts
    <2>1. s \in Seq(Text)
      BY <1>2 DEF JobState
    <2>2. /\ Len(texts) = Len(s) + 1 /\ texts[Len(s) + 1] = text /\ Len(s) \in Nat
          /\ \A n \in 1 .. Len(s) : texts[n] = s[n]
      <3> HIDE DEF s
      <3>1. /\ Len(Append(s, text)) = Len(s) + 1 /\ Append(s, text)[Len(s) + 1] = text /\ Len(s) \in Nat
            /\ \A n \in 1 .. Len(s) : Append(s, text)[n] = s[n]
        BY <2>1
      <3> QED BY <3>1 DEF s
    <2> HIDE DEF texts
    <2> QED BY <1>4, <2>2
  <1> HIDE DEF texts
  <1>6. job' # NoJob
    BY <1>2 DEF NoJob, None
  <1>7. BegunOK'
    <2>1. chunks' = chunks
      BY <1>1 DEF files
    <2> QED BY <1>2, <1>5, <2>1 DEF BegunOK, JobRun
  <1> QED BY <1>1, <1>2, <1>3, <1>6, <1>7, JobWorks DEF files

\* What a job has written is complete, if nothing failed.
LEMMA LocalComplete ==
  ASSUME IInv, job # NoJob, job.at # "chunk", LocalSummary = "complete",
         NEW a, a.transcript = LocalTexts, a.evidence = LocalTexts
  PROVE  Complete(a) /\ LocalTexts # NoTexts
  <1> DEFINE r == JobRun
  <1>1. JobIs(job) /\ r \in Runs
    BY JobFacts DEF IInv
  <1>2. job.texts \in Seq(Text) /\ job.texts # <<>>
    BY <1>1 DEF JobIs, JobState, IInv, OnceOK, BegunOK
  <1> DEFINE s == job.texts
  <1>3. DOMAIN s = 1 .. Len(s) /\ 1 \in 1 .. Len(s)
    <2>1. s \in Seq(Text) /\ s # <<>>
      BY <1>2
    <2> HIDE DEF s
    <2> QED BY <2>1
  <1>4. s[1][1] # Missing
    BY <1>3 DEF IInv, OnceOK, BegunOK, Begun
  <1>5. \A i \in DOMAIN s, c \in Chunks : s[i][c] # Failed
    BY DEF LocalSummary
  <1>6. LocalTexts = [by |-> <<Local, r>>, texts |-> s]
    BY DEF LocalTexts
  <1>7. LocalTexts # NoTexts
    <2>1. LocalTexts.by = <<Local, r>> /\ NoTexts.by = <<>>
      BY <1>6 DEF NoTexts
    <2>2. <<Local, r>> # <<>>
      OBVIOUS
    <2> QED BY <2>1, <2>2
  <1>8. a.transcript.texts = s /\ a.transcript = a.evidence
    BY <1>6
  <1> HIDE DEF s
  <1> QED BY <1>3, <1>4, <1>5, <1>7, <1>8, FirstChunk DEF Complete

LEMMA FullOutputKeeps == ASSUME IInv, build_full_outputs PROVE OnceOK'
  <1>1. TypeOK
    BY DEF IInv
  <1>2. PICK stage : /\ job' = [job EXCEPT !.at = stage]
                     /\ \/ /\ job.at = "write-transcript" /\ stage = "write-evidence"
                           /\ Writes(JobRun, "transcript", LocalTexts)
                        \/ /\ job.at = "write-evidence" /\ stage = "write-summary"
                           /\ Writes(JobRun, "evidence", LocalTexts)
                        \/ /\ job.at = "write-summary" /\ stage = "done"
                           /\ Writes(JobRun, "summary", LocalSummary)
    BY DEF build_full_outputs
  <1>3. UNCHANGED <<task, inputs, runner, client, result, chunks, cache, service, waiting, bounds, history>>
    BY DEF build_full_outputs
  <1>4. job # NoJob /\ job.at \notin {"chunk", "done"}
    BY <1>2, JobAt
  <1>5. JobIs(job) /\ JobRun \in Runs /\ job \in JobState
    BY <1>1, <1>4, JobFacts DEF JobIs
  <1>6. /\ job'.of = job.of /\ job'.at = stage /\ job'.texts = job.texts /\ job'.source = job.source
        /\ job'.had = job.had /\ job'.now = job.now /\ job'.chunk = job.chunk
        /\ job' # NoJob
    <2>1. /\ job'.of = job.of /\ job'.at = stage /\ job'.texts = job.texts /\ job'.source = job.source
          /\ job'.had = job.had /\ job'.now = job.now /\ job'.chunk = job.chunk
      BY <1>2, <1>5 DEF JobState
    <2> QED BY <1>2, <2>1 DEF NoJob, None
  <1>7. PICK r \in Runs : r = JobRun
    BY <1>5
  <1> DEFINE a == artifacts[r]
             b == artifacts'[r]
  <1>8. /\ \A q \in Runs : q # r => artifacts'[q] = artifacts[q]
        /\ stage = "write-evidence" => /\ b.transcript = LocalTexts
                                       /\ b.summary = a.summary
        /\ stage = "write-summary" => /\ b.evidence = LocalTexts /\ b.transcript = a.transcript
                                      /\ b.summary = a.summary
        /\ stage = "done" => /\ b.summary = LocalSummary /\ b.transcript = a.transcript
                             /\ b.evidence = a.evidence
    <2>1. CASE stage = "write-evidence"
      BY <1>1, <1>2, <1>7, <2>1, WritesIs
    <2>2. CASE stage = "write-summary"
      BY <1>1, <1>2, <1>7, <2>2, WritesIs
    <2>3. CASE stage = "done"
      BY <1>1, <1>2, <1>7, <2>3, WritesIs
    <2> QED BY <1>2, <2>1, <2>2, <2>3
  <1> HIDE DEF a, b
  <1>9. Later /\ Clients' = Clients /\ disturbed' = disturbed
    BY <1>3, SameTask DEF Later, history
  <1>10. HeardOK'
    BY <1>3, HeardKept DEF IInv, OnceOK
  <1>11. BegunOK'
    BY <1>2, <1>3, <1>4, <1>6 DEF IInv, OnceOK, BegunOK
  <1>12. LocalTexts' = LocalTexts /\ JobRun' = r
    BY <1>6, <1>7 DEF LocalTexts, JobRun
  <1>13. \A q \in Runs \ {r} : /\ SameRun(q)
                               /\ job' # NoJob /\ job'.of[1] = q =>
                                    job'.of \notin waiting' \/ q \in disturbed'
    <2>1. job'.of[1] = r
      BY <1>12 DEF JobRun
    <2> QED BY <1>3, <1>8, <2>1 DEF SameRun, inputs
  <1>14. r \notin disturbed => /\ runner[r].at = "posted" /\ job.of = JobOf(r) /\ job.of \notin waiting
                               /\ \A p \in Clients : p[1] = r => client[p].at = "off"
                               /\ \A j \in waiting : j[1] # r
    <2> SUFFICES ASSUME r \notin disturbed
                 PROVE  /\ runner[r].at = "posted" /\ job.of = JobOf(r) /\ job.of \notin waiting
                        /\ \A p \in Clients : p[1] = r => client[p].at = "off"
                        /\ \A j \in waiting : j[1] # r
      OBVIOUS
    <2>1. OneAtWork(r)
      BY DEF IInv, OnceOK
    <2>2. runner[r].at = "posted" /\ job.of = JobOf(r) /\ job.of \notin waiting
      BY <1>4, <1>7, <2>1 DEF OneAtWork
    <2> QED BY <2>1, <2>2 DEF OneAtWork
  <1>15. CloudOK(r)'
    BY <1>3 DEF IInv, OnceOK, CloudOK
  <1>16. r \notin disturbed' => OneAtWork(r)' /\ CopyingOut(r)' /\ RecognisedOnce(r)'
    <2> SUFFICES ASSUME r \notin disturbed'
                 PROVE  OneAtWork(r)' /\ CopyingOut(r)' /\ RecognisedOnce(r)'
      OBVIOUS
    <2>1. RecognisedOnce(r) /\ r \notin disturbed
      BY <1>9 DEF IInv, OnceOK
    <2>2. a.summary # "complete"
      BY <1>4, <1>7, <2>1 DEF RecognisedOnce, NotVouched, InTheMaking, a
    <2>3. /\ stage = "write-summary" => a.transcript = LocalTexts
          /\ stage = "done" => a.transcript = LocalTexts /\ a.evidence = LocalTexts
      BY <1>2, <1>4, <1>7, <2>1 DEF RecognisedOnce, WrittenByJob, a
    <2>4. Vouched(r)'
      <3>1. CASE stage = "done"
        <4>1. b.transcript = LocalTexts /\ b.evidence = LocalTexts
          BY <1>8, <2>3, <3>1
        <4>2. b.summary = "complete" => Complete(b) /\ LocalTexts # NoTexts
          BY <1>4, <1>8, <3>1, <4>1, LocalComplete
        <4> QED BY <4>1, <4>2 DEF Vouched, completeAsrSummary, Complete, b
      <3>2. CASE stage # "done"
        BY <1>2, <1>8, <2>2, <3>2 DEF Vouched, b
      <3> QED BY <3>1, <3>2
    <2>5. NotVouched(r)'
      <3>1. CASE stage = "done"
        <4>1. ~Begins(r)'
          BY <1>3, <1>14, <2>1 DEF Begins
        <4> QED BY <1>3, <1>6, <1>9, <1>14, <2>1, <3>1, <4>1 DEF NotVouched, InTheMaking
      <3>2. CASE stage # "done"
        BY <1>2, <1>8, <2>2, <3>2 DEF NotVouched, b
      <3> QED BY <3>1, <3>2
    <2>6. WrittenByClient(r)'
      BY <1>3, <1>9, <1>14, <2>1 DEF WrittenByClient
    <2>7. WrittenByJob(r)'
      BY <1>2, <1>6, <1>8, <1>12, <2>3 DEF WrittenByJob, b
    <2>8. CopyingIn(r)'
      BY <1>3, <1>14, <2>1 DEF CopyingIn
    <2>9. OneAtWork(r)' /\ CopyingOut(r)'
      <3>1. JobOf(r)' = JobOf(r)
        BY <1>3 DEF JobOf
      <3> QED BY <1>3, <1>6, <1>9, <1>14, <2>1, <3>1 DEF OneAtWork, CopyingOut, JobRun
    <2> QED BY <2>9, <2>4, <2>5, <2>6, <2>7, <2>8 DEF RecognisedOnce
  <1>17. \A k \in Keys : r \in writers[k] /\ ~MixedEntry(k)' => StaysQuiet(r, k)
    BY <1>9, <1>14, QuietIs DEF Quiet, Rests
  <1> QED BY <1>1, <1>3, <1>9, <1>10, <1>11, <1>13, <1>15, <1>16, <1>17, StepOfOne DEF history

\* The service ends jobs, and tells the runners that wait for them.
LEMMA ServiceEndsKeep == ASSUME IInv, do_POST \/ ServiceDies PROVE OnceOK'
  <1>1. TypeOK
    BY DEF IInv
  <1>2. /\ UNCHANGED <<task, inputs, client, files, history>>
        /\ job' = NoJob /\ waiting' \subseteq waiting
    BY DEF do_POST, ServiceDies
  <1> DEFINE Ends(jobs, stage) ==
               /\ Answers(jobs, stage)
               /\ \A j \in jobs : j \notin waiting' \/ (job # NoJob /\ j = job.of)
  <1>3. PICK jobs, stage : stage \in {"answered", "blocked"} /\ Ends(jobs, stage)
    <2>1. CASE do_POST
      <3>1. Ends({job.of}, "answered") \/ Ends({job.of}, "blocked")
        BY <2>1 DEF do_POST
      <3> HIDE DEF Ends
      <3> QED BY <3>1
    <2>2. CASE ServiceDies
      <3>1. Ends(waiting \cup {job.of}, "blocked")
        <4>1. Answers(waiting \cup {job.of}, "blocked") /\ waiting' = {}
          BY <2>2 DEF ServiceDies
        <4> QED BY <4>1
      <3> HIDE DEF Ends
      <3> QED BY <3>1
    <2> QED BY <2>1, <2>2
  <1> DEFINE Told(q) == runner[q].at = "posted" /\ JobOf(q) \in jobs
             R == {q \in Runs : Told(q)}
  <1>4. ASSUME NEW r \in Runs
        PROVE  /\ r \in R => runner'[r].at \in {"answered", "blocked"}
               /\ r \notin R => runner'[r] = runner[r]
    <2> DEFINE m == [runner[r] EXCEPT !.at = stage]
    <2>1. runner[r] \in RunnerState
      BY <1>1 DEF TypeOK, RunnerOK
    <2>2. m.at = stage
      BY <2>1 DEF RunnerState
    <2>3. runner'[r] = IF At(r, "posted") /\ JobOf(r) \in jobs THEN m ELSE runner[r]
      BY <1>3 DEF Answers
    <2> HIDE DEF m
    <2> QED BY <1>3, <2>2, <2>3 DEF At
  <1>5. Later /\ Clients' = Clients /\ disturbed' = disturbed
    BY <1>2, SameTask DEF Later, history
  <1>6. HeardOK' /\ BegunOK'
    BY <1>2, HeardKept DEF IInv, OnceOK, BegunOK
  <1>7. R \in SUBSET Runs /\ \A r \in R : runner[r].at = "posted" /\ JobOf(r) \in jobs
    OBVIOUS
  <1> HIDE DEF R
  <1>8. ASSUME NEW r \in R, r \notin disturbed PROVE Alone(r)'
    <2>1. OneAtWork(r) /\ runner[r].at = "posted" /\ JobOf(r) \in jobs
      BY <1>7, <1>8 DEF IInv, OnceOK
    <2>2. \A p \in Clients : p[1] = r => client[p].at = "off"
      BY <2>1 DEF OneAtWork
    <2>3. JobOf(r) \notin waiting'
      <3>1. CASE job # NoJob /\ JobOf(r) = job.of
        <4>1. JobRun = r
          BY <3>1 DEF JobRun, JobOf
        <4> QED BY <1>2, <2>1, <3>1, <4>1 DEF OneAtWork
      <3>2. CASE ~(job # NoJob /\ JobOf(r) = job.of)
        BY <1>3, <2>1, <3>2
      <3> QED BY <3>1, <3>2
    <2>4. \A j \in waiting' : j[1] # r
      BY <1>2, <2>1, <2>3 DEF OneAtWork
    <2> QED BY <1>2, <1>5, <2>2, <2>4 DEF Alone
  <1>9. \A q \in Runs \ R : /\ SameRun(q)
                            /\ job' # NoJob /\ job'.of[1] = q =>
                                 job'.of \notin waiting' \/ q \in disturbed'
    BY <1>2, <1>4 DEF SameRun, files, inputs
  <1>10. ASSUME NEW r \in R, r \notin disturbed'
         PROVE  OneAtWork(r)' /\ CopyingOut(r)' /\ RecognisedOnce(r)'
    <2>1. r \in Runs /\ runner'[r].at \in {"answered", "blocked"} /\ r \notin disturbed
      BY <1>4, <1>5, <1>7, <1>10
    <2>2. RecognisedOnce(r) /\ runner[r].at = "posted"
      BY <1>7, <2>1 DEF IInv, OnceOK
    <2>3. Alone(r)'
      BY <1>8, <2>1
    <2>4. OneAtWork(r)' /\ CopyingOut(r)'
      BY <2>1, <2>3, AloneNext DEF CopyingOut
    <2>5. artifacts'[r] = artifacts[r]
      BY <1>2 DEF files
    <2>6. Vouched(r)'
      BY <2>2, <2>5 DEF RecognisedOnce, Vouched, completeAsrSummary, Complete
    <2>7. NotVouched(r)' /\ WrittenByClient(r)' /\ WrittenByJob(r)'
      BY <2>1, <2>3, AloneNext DEF NotVouched, Begins
    <2>8. CopyingIn(r)'
      BY <2>1 DEF CopyingIn
    <2> QED BY <2>4, <2>6, <2>7, <2>8 DEF RecognisedOnce
  <1>11. \A r \in R : CloudOK(r)'
    BY <1>4, <1>7 DEF CloudOK
  <1>12. ASSUME NEW r \in R, NEW k \in Keys, r \in writers[k], ~MixedEntry(k)'
         PROVE  StaysQuiet(r, k)
    BY <1>5, <1>7, <1>12, QuietIs DEF Quiet, Rests
  <1>13. UNCHANGED <<cache, writers>>
    BY <1>2 DEF files, history
  <1> QED BY <1>1, <1>5, <1>6, <1>7, <1>9, <1>10, <1>11, <1>12, <1>13, StepOf

\* The service starts again, or nothing happens.
LEMMA StillKeeps ==
  ASSUME IInv, UNCHANGED <<task, inputs, runner, client, files, waiting, job, history>>
  PROVE  OnceOK'
  <1> DEFINE R == {}
  <1>1. Later
    BY DEF Later, history
  <1>2. HeardOK' /\ BegunOK'
    BY HeardKept, BegunKept DEF IInv, OnceOK, files
  <1>3. ASSUME NEW q \in Runs
        PROVE  /\ SameRun(q)
               /\ job' # NoJob /\ job'.of[1] = q => job'.of \notin waiting' \/ q \in disturbed'
    <2>1. SameRun(q)
      BY DEF SameRun, files, inputs
    <2>2. q \notin disturbed => OneAtWork(q)
      BY DEF IInv, OnceOK
    <2> QED BY <2>1, <2>2 DEF OneAtWork, JobRun, history
  <1>4. R \in SUBSET Runs /\ (\A r : r \notin R) /\ UNCHANGED <<cache, writers>>
    BY DEF files, history
  <1> HIDE DEF R
  <1> QED BY <1>1, <1>2, <1>3, <1>4, StepOf

-----------------------------------------------------------------------------
(* The inductive invariant holds at all times.                             *)

LEMMA InitIInv == Init => IInv
  <1> SUFFICES ASSUME Init PROVE IInv
    OBVIOUS
  <1>1. TypeOK
    BY InitTypes
  <1>2. \A p \in Clients : client[p].at = "off"
    BY DEF Init, NoClient
  <1>3. HeardOK /\ BegunOK
    BY <1>2 DEF Init, HeardOK, BegunOK
  <1>4. \A r \in Runs : /\ runner[r].at = "idle" /\ runner[r].attempt = 1 /\ runner[r].provider = None
                       /\ artifacts[r] = NoArtifacts
    BY DEF Init, Idle
  <1>5. ReadyOK
    <2>1. ASSUME NEW r \in Runs PROVE RunnerReady(r)
      BY <1>4 DEF RunnerReady, Normalized
    <2>2. ASSUME NEW p \in Clients PROVE ClientReady(p)
      BY <1>2 DEF ClientReady
    <2> QED BY <2>1, <2>2 DEF Init, ReadyOK, JobReady
  <1>6. ASSUME NEW r \in Runs PROVE CloudOK(r) /\ OneAtWork(r) /\ CopyingOut(r)
    BY <1>2, <1>4 DEF Init, CloudOK, OneAtWork, CopyingOut
  <1>7. ASSUME NEW k \in Keys PROVE EntryOK(k)
    BY DEF Init, EntryOK
  <1>8. ASSUME NEW r \in Runs PROVE RecognisedOnce(r)
    <2>1. artifacts[r].summary # "complete"
      BY <1>4 DEF NoArtifacts, None
    <2>2. Vouched(r) /\ NotVouched(r)
      BY <2>1 DEF Vouched, NotVouched
    <2>3. WrittenByClient(r) /\ WrittenByJob(r) /\ CopyingIn(r)
      BY <1>2, <1>4 DEF Init, WrittenByClient, WrittenByJob, CopyingIn
    <2> QED BY <2>2, <2>3 DEF RecognisedOnce
  <1>9. OnceOK
    BY <1>3, <1>6, <1>7, <1>8 DEF OnceOK
  <1> QED BY <1>1, <1>5, <1>9 DEF IInv

LEMMA OnceStep == IInv /\ [Next]_vars => OnceOK'
  <1> SUFFICES ASSUME IInv, [Next]_vars PROVE OnceOK'
    OBVIOUS
  <1>1. CASE Service
    <2>1. ASSUME ServiceStarts PROVE OnceOK'
      BY <2>1, StillKeeps DEF ServiceStarts
    <2> QED BY <1>1, <2>1, TakeKeeps, ChunkKeeps, SourceEndKeeps, FullOutputKeeps, ServiceEndsKeep
        DEF Service
  <1>2. ASSUME NEW r \in Runs, Runner(r) PROVE OnceOK'
    BY <1>2, BeginKeeps, LookupKeeps, CopyInKeeps, CopyOutKeeps, GateKeeps, ClientDoneKeeps,
       ClientOffKeeps, NormalizeKeeps, PreflightKeeps, PostKeeps, GiveUpKeeps, AnsweredKeeps
    DEF Runner
  <1>3. ASSUME NEW r \in Runs, ExecuteAgain(r) \/ RunnerDies(r) PROVE OnceOK'
    BY <1>3, BeginKeeps, GiveUpKeeps
  <1>4. ASSUME NEW p \in Clients, Client(p) PROVE OnceOK'
    BY <1>4, PlanKeeps, StagesKeep, SourcesKeep, OutputKeeps, CloudDoneKeeps DEF Client
  <1>5. ASSUME NEW p \in Clients, ClientDies(p) PROVE OnceOK'
    BY <1>5, ClientOffKeeps DEF Clients
  <1>6. CASE UNCHANGED vars
    BY <1>6, StillKeeps DEF vars, localService
  <1> QED BY <1>1, <1>2, <1>3, <1>4, <1>5, <1>6 DEF Next

LEMMA IInvStep == IInv /\ [Next]_vars => IInv'
  BY TypesStep, ReadyStep, OnceStep DEF IInv

(* At every time: nobody is told of a normalised file that is not there;   *)
(* whoever is at work for a run has the runner wait for it, and follows on *)
(* what is there; an entry of the cache with one writer is a copy of that  *)
(* run's artifacts, which are at rest and complete; and a summary that     *)
(* says complete stands beside what it vouches for.                        *)
THEOREM Invariant == Spec => []IInv
  BY InitIInv, IInvStep, PTL DEF Spec

(* Complete artifacts are of one recognition, in which something was heard *)
(* and nothing failed, for any number of runs, audios, chunks, executions, *)
(* failures and deaths, as long as none of the three causes of a mixture   *)
(* has come about.                                                         *)
THEOREM OneRecognised == Spec => []OneRecognition
  <1>1. ASSUME IInv, NEW r \in Runs, completeAsrSummary(artifacts[r]), ~Mixed(r)
        PROVE  Complete(artifacts[r])
    <2>1. r \notin disturbed
      BY <1>1 DEF Mixed
    <2>2. Vouched(r)
      BY <1>1, <2>1 DEF IInv, OnceOK, RecognisedOnce
    <2> QED BY <1>1, <2>2 DEF Vouched, completeAsrSummary
  <1>2. IInv => OneRecognition
    BY <1>1 DEF OneRecognition
  <1> QED BY <1>2, Invariant, PTL

=============================================================================
