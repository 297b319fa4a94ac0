--------------------------- MODULE MeetingMemory ---------------------------
(***************************************************************************)
(* MeetingMemory: what later meetings are told of earlier ones             *)
(* (runMeetingMemoryCuration of tools/task_execution_runner.mjs and        *)
(* tools/meeting_memory_helpers.mjs).                                      *)
(*                                                                         *)
(* Each run understands its meeting, has the minutes checked, and lets a   *)
(* curator propose memories.  What survives is written under a lock file   *)
(* to the directory that all runs of the workspace share: the ledger, the  *)
(* conflicts, and MEMORY.md, which is what is read.  The runs are          *)
(* processes of their own that may die or be suspended at any point.       *)
(***************************************************************************)
EXTENDS MeetingIntelligence, Sequences

CONSTANTS
    Runs,       \* runs of the workspace that hold a meeting each
    Meetings,   \* what a meeting may be
    Answers,    \* topics the model may answer with
    Children,   \* what a sub-agent that reviews the analysis may come to
    Minutes,    \* what the minutes may say
    Words,      \* the grounding tokens of a text
    Payloads,   \* what the curator may propose: sequences of candidates
    Earlier,    \* ledgers that earlier runs may have left
    Accidents,  \* bound: runs that die, or fail at a step under the lock
    Suspends,   \* bound: locks that grow old while their owner is alive
    Shown       \* how many entries MEMORY.md shows

Proposed == UNION {{p[i] : i \in DOMAIN p} : p \in Payloads}
Known == UNION {{l[i] : i \in DOMAIN l} : l \in Earlier}

(* What earlier runs left are lists in which a key is once; their runs are *)
(* not these.                                                              *)
ASSUME MemoryAssumption ==
    /\ None \notin Runs
    /\ \A m \in Meetings : \A s \in DOMAIN m.segments : m.segments[s] \in Qualities
    /\ \A p \in Payloads : p \in Seq(Proposed)
    /\ \A l \in Earlier :
        /\ l \in Seq(Known)
        /\ \A i, j \in DOMAIN l : l[i].key = l[j].key => i = j
    /\ \A n \in Known : n.run \notin Runs
    /\ Accidents \in Nat /\ Suspends \in Nat /\ Shown \in Nat \ {0}

VARIABLES
    meeting,    \* the meeting of each run
    stage,      \* where each run stands
    analysis,   \* meeting-analysis.json of each run, None before
    review,     \* its delegated review
    gate,       \* status of its quality gate
    work,       \* what it is about to write
    result,     \* its curation-result.json
    lockFile,   \* .write.lock
    memoryLedger, \* ledger.jsonl
    conflicts,  \* conflicts.jsonl
    memory,     \* MEMORY.md
    accidents, suspends,
    lost,       \* history: the lock of a run at work was removed by another
    torn        \* history: the ledger was written and MEMORY.md was not

understanding == <<analysis, review, gate>>
files == <<memoryLedger, conflicts, memory>>
history == <<lost, torn>>
memoryVars == <<meeting, stage, understanding, work, result, lockFile, files, accidents, suspends,
                history>>

NoLock == [by |-> None, old |-> FALSE]
Stale == [by |-> "earlier", old |-> TRUE]
Rejected == [run |-> None]
NoWork == [found |-> <<>>, next |-> 1, existing |-> <<>>, fresh |-> <<>>, conflicts |-> <<>>,
           base |-> <<>>]
Inside == {"read", "persist", "reread", "replace", "conflict", "show", "unlock"}

Segments(e) == normalizeMeetingSegments(meeting[e].segments)
Participants(e) == buildParticipantMap(meeting[e].speakers, meeting[e].named)

(* MEMORY.md has the newest entry of each key.  The keys are in the order  *)
(* in which they came first, and only the last ones are shown.             *)
First(entries) ==
    {i \in DOMAIN entries : \A j \in DOMAIN entries : entries[j].key = entries[i].key => i <= j}
activeByKey(entries) ==
    {i \in DOMAIN entries : \A j \in DOMAIN entries : entries[j].key = entries[i].key => j <= i}
Behind(i, entries) ==
    {f \in First(entries) : \A g \in First(entries) : entries[g].key = entries[i].key => g < f}
renderMemory(entries) ==
    {entries[i] : i \in {n \in activeByKey(entries) : Cardinality(Behind(n, entries)) < Shown}}

InitMemory ==
    /\ meeting \in [Runs -> Meetings]
    /\ stage = [e \in Runs |-> "understand"]
    /\ analysis = [e \in Runs |-> None]
    /\ review = [e \in Runs |-> NoReview]
    /\ gate = [e \in Runs |-> None]
    /\ work = [e \in Runs |-> NoWork]
    /\ result = [e \in Runs |-> None]
    /\ lockFile \in {NoLock, Stale}
    /\ memoryLedger \in Earlier
    /\ conflicts = <<>>
    /\ memory = renderMemory(memoryLedger)
    /\ accidents = 0 /\ suspends = 0
    /\ lost = FALSE /\ torn = FALSE

Enters(e, s) == stage' = [stage EXCEPT ![e] = s]
Ends(e, r) == Enters(e, "end") /\ result' = [result EXCEPT ![e] = r]

-----------------------------------------------------------------------------
(* The meeting is understood, reviewed and written up.                     *)

(* The model may not answer.                                               *)
understandMeeting(e) ==
    /\ stage[e] = "understand"
    /\ \E answer \in Answers \cup {{}} :
        analysis' = [analysis EXCEPT ![e] =
            normalizeMeetingAnalysisResponse(answer, Segments(e), Participants(e))]
    /\ Enters(e, "review")
    /\ UNCHANGED <<meeting, review, gate, work, result, lockFile, files, accidents, suspends, history>>

(* The candidates are tried until one of them completes; the last try      *)
(* counts.  It may come to nothing.                                        *)
executeMeetingAgenticOrchestration(e) ==
    /\ stage[e] = "review"
    /\ LET plan == buildMeetingOrchestrationPlan(analysis[e])
       IN  IF shouldRunPiMeetingOrchestration(plan, TRUE)
           THEN \E child \in Children :
                   review' = [review EXCEPT ![e] =
                       IF parsePiMeetingOrchestrationOutput(child, plan)
                       THEN reconcilePiMeetingOrchestrationResult(child, Segments(e))
                       ELSE NoReview]
           ELSE UNCHANGED review
    /\ Enters(e, "check")
    /\ UNCHANGED <<meeting, analysis, gate, work, result, lockFile, files, accidents, suspends, history>>

(* The minutes, and the gate they come to.                                 *)
checkMinutes(e) ==
    /\ stage[e] = "check"
    /\ \E minutes \in Minutes :
        LET found == buildMeetingQaFindings(analysis[e], review[e], minutes)
            input == EvaluationInput("meeting_minutes", meeting[e].publish, found,
                                     [d \in {"minutes"} |-> minutes.flaws])
        IN  gate' = [gate EXCEPT ![e] = Evaluation(input).status]
    /\ Enters(e, "curate")
    /\ UNCHANGED <<meeting, analysis, review, work, result, lockFile, files, accidents, suspends, history>>

-----------------------------------------------------------------------------
(* The curator proposes.                                                   *)

Types == {"project_fact", "decision", "participant_identity", "terminology", "open_question"}

(* A payload with a candidate out of shape is none.                        *)
meetingMemoryPayloadShapeValid(payload) ==
    \A i \in DOMAIN payload :
        payload[i].type \in Types /\ payload[i].confidence \in {"high", "medium"}

(* An alias stands for itself and the name the user gave it: the content   *)
(* has to mention them, and may say more.                                  *)
participantIdentityValid(c, participants) ==
    /\ c.key \in DOMAIN participants /\ participants[c.key] = "user_confirmed"
    /\ c.key \in Words[c.content]

claimTypesAllowed(type) ==
    CASE type = "decision" -> {"decision"}
      [] type = "open_question" -> {"open_question"}
      [] OTHER -> {"core_judgment", "decision"}

(* Half of the words of what is to be remembered have to occur in the      *)
(* claims it cites.                                                        *)
Cited(c, claims) == {k \in claims : k.text \in c.claims}
contentGroundedInClaims(content, sourceClaims) ==
    LET words == Words[content]
        matched == words \cap UNION {Words[k.text] : k \in sourceClaims}
    IN  words # {} /\ 2 * Cardinality(matched) >= Cardinality(words)

(* Every claim a candidate cites (by its text, which stands for its id)    *)
(* has to be there, of the right type, clear and supported; its content    *)
(* has to be grounded in them, and its evidence theirs.                    *)
Grounded(c, claims) ==
    LET cited == Cited(c, claims)
    IN  /\ c.claims # {} /\ c.evidence # {}
        /\ c.claims \subseteq {k.text : k \in cited}
        /\ \A k \in cited :
            /\ k.type \in claimTypesAllowed(c.type)
            /\ k.status = (IF c.type = "open_question" THEN "open" ELSE "supported")
            /\ k.quality = "ready"
        /\ contentGroundedInClaims(c.content, cited)
        /\ c.evidence \subseteq UNION {k.evidence : k \in cited}

Accepted(c, e) ==
    /\ c.clean /\ c.confidence = "high"
    /\ c.evidence \subseteq DOMAIN Segments(e)
    /\ IF c.type = "participant_identity"
       THEN c.claims = {} /\ c.evidence = {} /\ participantIdentityValid(c, analysis[e].participants)
       ELSE Grounded(c, analysis[e].claims)

Entry(c, e) ==
    [type |-> c.type, key |-> c.key, content |-> c.content, claims |-> c.claims,
     evidence |-> c.evidence, run |-> e]

reconcileMeetingMemoryCandidates(payload, e) ==
    [i \in DOMAIN payload |-> IF Accepted(payload[i], e) THEN Entry(payload[i], e) ELSE Rejected]

mayCurate(e) == meeting[e].curates /\ analysis[e].validated /\ gate[e] = "pass"

(* Only a validated, checked meeting is curated; the curator may fail or   *)
(* answer out of shape.                                                    *)
runMeetingMemoryCuration(e) ==
    /\ stage[e] = "curate"
    /\ IF ~mayCurate(e) THEN Ends(e, "skipped") /\ UNCHANGED work
       ELSE \/ \E payload \in Payloads :
                /\ meetingMemoryPayloadShapeValid(payload)
                /\ work' = [work EXCEPT ![e].found = reconcileMeetingMemoryCandidates(payload, e)]
                /\ Enters(e, "lock") /\ UNCHANGED result
            \/ Ends(e, "blocked") /\ UNCHANGED work
    /\ UNCHANGED <<meeting, understanding, lockFile, files, accidents, suspends, history>>

-----------------------------------------------------------------------------
(* The lock: a file that only one can create.  One that has been there for *)
(* a minute is taken for left behind and removed, whoever has it by then.  *)

AtWork(e) == e \in Runs /\ stage[e] \in Inside
Removes(e) ==
    /\ lockFile' = NoLock
    /\ lost' = (lost \/ (lockFile.by # e /\ AtWork(lockFile.by)))

createLock(e) ==
    /\ stage[e] = "lock"
    /\ IF lockFile = NoLock
       THEN lockFile' = [by |-> e, old |-> FALSE] /\ Enters(e, "read")
       ELSE Enters(e, "stat") /\ UNCHANGED lockFile
    /\ UNCHANGED <<meeting, understanding, work, result, files, accidents, suspends, history>>

(* It waits while the lock is young; five seconds at most.                 *)
statLock(e) ==
    /\ stage[e] = "stat"
    /\ IF lockFile # NoLock /\ lockFile.old THEN Enters(e, "steal") /\ UNCHANGED result
       ELSE \/ Enters(e, "lock") /\ UNCHANGED result
            \/ lockFile # NoLock /\ Ends(e, "blocked")
    /\ UNCHANGED <<meeting, understanding, work, lockFile, files, accidents, suspends, history>>

stealLock(e) ==
    /\ stage[e] = "steal"
    /\ Removes(e)
    /\ Enters(e, "lock")
    /\ UNCHANGED <<meeting, understanding, work, result, files, accidents, suspends, torn>>

(* A lock grows old when its owner is gone, or is suspended.               *)
Age ==
    /\ lockFile # NoLock /\ ~lockFile.old
    /\ lockFile' = [lockFile EXCEPT !.old = TRUE]
    /\ IF AtWork(lockFile.by) THEN suspends < Suspends /\ suspends' = suspends + 1
       ELSE UNCHANGED suspends
    /\ UNCHANGED <<meeting, stage, understanding, work, result, files, accidents, history>>

-----------------------------------------------------------------------------
(* Under the lock.                                                         *)

readLedger(e) ==
    /\ stage[e] = "read"
    /\ work' = [work EXCEPT ![e].existing = memoryLedger]
    /\ Enters(e, "persist")
    /\ UNCHANGED <<meeting, understanding, result, lockFile, files, accidents, suspends, history>>

(* One candidate after another: what is there already is a duplicate, what *)
(* has the key of something else a conflict.                               *)
Same(a, b) == a.type = b.type /\ a.key = b.key /\ a.content = b.content
Accept(w, c) == [w EXCEPT !.existing = Append(@, c), !.fresh = Append(@, c)]
persistAnyKey(w, c) ==
    IF c = Rejected \/ \E i \in DOMAIN w.existing : Same(w.existing[i], c) THEN w ELSE Accept(w, c)
persist(w, c) ==
    IF c = Rejected \/ \E i \in DOMAIN w.existing : Same(w.existing[i], c) THEN w
    ELSE IF \E i \in DOMAIN w.existing : w.existing[i].key = c.key
         THEN [w EXCEPT !.conflicts = Append(@, c)]
         ELSE Accept(w, c)

AfterLedger(w) ==
    IF w.conflicts # <<>> THEN "conflict" ELSE IF w.existing # <<>> THEN "show" ELSE "unlock"

persistMeetingMemory(e) ==
    LET w == work[e]
    IN  /\ stage[e] = "persist"
        /\ IF w.next <= Len(w.found)
           THEN /\ work' = [work EXCEPT ![e] = [persist(w, w.found[w.next]) EXCEPT !.next = @ + 1]]
                /\ UNCHANGED stage
           ELSE /\ Enters(e, IF w.fresh # <<>> THEN "reread" ELSE AfterLedger(w))
                /\ UNCHANGED work
        /\ UNCHANGED <<meeting, understanding, result, lockFile, files, accidents, suspends, history>>

rereadLedger(e) ==
    /\ stage[e] = "reread"
    /\ work' = [work EXCEPT ![e].base = memoryLedger]
    /\ Enters(e, "replace")
    /\ UNCHANGED <<meeting, understanding, result, lockFile, files, accidents, suspends, history>>

replaceLedger(e) ==
    /\ stage[e] = "replace"
    /\ memoryLedger' = work[e].base \o work[e].fresh
    /\ Enters(e, AfterLedger(work[e]))
    /\ UNCHANGED <<meeting, understanding, work, result, lockFile, conflicts, memory, accidents,
                   suspends, history>>

(* Read and replaced in one step: nothing here depends on what another run *)
(* that lost its lock does to it in between.                               *)
replaceConflicts(e) ==
    /\ stage[e] = "conflict"
    /\ conflicts' = conflicts \o work[e].conflicts
    /\ Enters(e, "show")
    /\ UNCHANGED <<meeting, understanding, work, result, lockFile, memoryLedger, memory, accidents,
                   suspends, history>>

showMemory(e) ==
    /\ stage[e] = "show"
    /\ memory' = renderMemory(work[e].existing)
    /\ torn' = FALSE
    /\ Enters(e, "unlock")
    /\ UNCHANGED <<meeting, understanding, work, result, lockFile, memoryLedger, conflicts,
                   accidents, suspends, lost>>

HasRejects(e) == \E i \in DOMAIN work[e].found : work[e].found[i] = Rejected

(* Whatever lock is there is removed, and the curation has its result.     *)
unlock(e) ==
    /\ stage[e] = "unlock"
    /\ Removes(e)
    /\ Ends(e, IF result[e] = "blocked" THEN "blocked"
               ELSE IF work[e].conflicts # <<>> \/ HasRejects(e) THEN "needs_review" ELSE "completed")
    /\ UNCHANGED <<meeting, understanding, work, files, accidents, suspends, torn>>

(* The ledger is written, MEMORY.md not yet.                               *)
HalfDone(e) == stage[e] \in {"conflict", "show"} /\ work[e].fresh # <<>>

(* A step under the lock throws: the lock is given back.                   *)
Fails(e) ==
    /\ stage[e] \in Inside \ {"unlock"}
    /\ accidents < Accidents
    /\ accidents' = accidents + 1
    /\ torn' = (torn \/ HalfDone(e))
    /\ Enters(e, "unlock")
    /\ result' = [result EXCEPT ![e] = "blocked"]
    /\ UNCHANGED <<meeting, understanding, work, lockFile, files, suspends, lost>>

(* It is not: what the run held is left behind.                            *)
Dies(e) ==
    /\ stage[e] \notin {"end", "crashed"}
    /\ accidents < Accidents
    /\ accidents' = accidents + 1
    /\ torn' = (torn \/ HalfDone(e))
    /\ Enters(e, "crashed")
    /\ UNCHANGED <<meeting, understanding, work, result, lockFile, files, suspends, lost>>

Understand(e) ==
    \/ understandMeeting(e) \/ executeMeetingAgenticOrchestration(e)
    \/ checkMinutes(e) \/ runMeetingMemoryCuration(e)
Lock(e) == createLock(e) \/ statLock(e) \/ stealLock(e)
Persist(e) ==
    \/ readLedger(e) \/ persistMeetingMemory(e) \/ rereadLedger(e) \/ replaceLedger(e)
    \/ replaceConflicts(e) \/ showMemory(e) \/ unlock(e)

NextMemory ==
    Age \/ \E e \in Runs : Understand(e) \/ Lock(e) \/ Persist(e) \/ Fails(e) \/ Dies(e)

MemorySpec == InitMemory /\ [][NextMemory]_memoryVars

-----------------------------------------------------------------------------
(* What is remembered has its ground in a meeting of this workspace: the   *)
(* run's analysis was the model's, put right against the transcript; its   *)
(* minutes passed the gate; what is said of a person names one the user    *)
(* has named; and anything else cites only claims that are not unresolved  *)
(* and were heard clearly in all their segments of that meeting, has its   *)
(* evidence from them, and shares half of its words with them.  It need    *)
(* not be the text of a claim: with the other half of its words it may say *)
(* what nobody said.                                                       *)
FromMeeting(n, e) ==
    /\ analysis[e].validated /\ gate[e] = "pass" /\ meeting[e].curates
    /\ IF n.type = "participant_identity"
       THEN /\ n.key \in meeting[e].named \cap meeting[e].speakers
            /\ n.key \in Words[n.content]
       ELSE LET cited == {k \in analysis[e].claims : k.text \in n.claims}
                shared == {w \in Words[n.content] : \E k \in cited : w \in Words[k.text]}
            IN  /\ n.evidence # {} /\ n.evidence \subseteq UNION {k.evidence : k \in cited}
                /\ n.evidence \subseteq DOMAIN Segments(e)
                /\ \A k \in cited :
                    /\ k.status # "unresolved"
                    /\ \A s \in k.evidence \cap DOMAIN Segments(e) : Segments(e)[s] = "ready"
                /\ Words[n.content] # {}
                /\ 2 * Cardinality(shared) >= Cardinality(Words[n.content])
Remembered == {memoryLedger[i] : i \in DOMAIN memoryLedger} \cup memory
EntriesAreGrounded == \A n \in Remembered : n.run \in Runs => FromMeeting(n, n.run)

(* As long as no run at work loses its lock, the shared memory is one: the *)
(* ledger holds a key once, nothing that a run has reported as remembered  *)
(* is missing from it, and whenever the lock is free MEMORY.md shows it,   *)
(* unless a run came to grief between the two and none has come after it   *)
(* (persistMeetingMemory, withMemoryWriteLock).                            *)
LedgerIsOneMemory ==
    ~lost =>
        /\ \A i, j \in DOMAIN memoryLedger :
              memoryLedger[i].key = memoryLedger[j].key => i = j
        /\ \A e \in Runs : result[e] \in {"completed", "needs_review"} =>
            \A i \in DOMAIN work[e].fresh :
                \E j \in DOMAIN memoryLedger : memoryLedger[j] = work[e].fresh[i]
        /\ lockFile = NoLock /\ ~torn => memory = renderMemory(memoryLedger)
=============================================================================
