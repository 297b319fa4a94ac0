------------------------- MODULE TaskRunner_proofs -------------------------
(***************************************************************************)
(* Safety of the task runner: of the memory that the runs of a workspace   *)
(* share, and of the executions of one run.  The first for any runs,       *)
(* meetings, answers, reviews, minutes, proposals, earlier ledgers,        *)
(* deaths, failures and suspensions; the second for any executions,        *)
(* scenarios, texts of a source, findings, flaws and chapters.             *)
(***************************************************************************)
EXTENDS TaskExecution, MeetingMemory, SequenceTheorems, FiniteSetTheorems, TLAPS

-----------------------------------------------------------------------------
(* Types.                                                                  *)

Early == {"understand", "review", "check", "curate"}
Stages == Early \cup {"lock", "stat", "steal"} \cup Inside \cup {"end", "crashed"}
Entries == Known \cup {Entry(c, e) : c \in Proposed, e \in Runs}
WorkRecords == [found : Seq(Entries \cup {Rejected}), next : Nat \ {0}, existing : Seq(Entries),
         fresh : Seq(Entries), conflicts : Seq(Entries), base : Seq(Entries)]
Results == {None, "skipped", "blocked", "needs_review", "completed"}

MemoryTypeOK ==
    /\ meeting \in [Runs -> Meetings]
    /\ stage \in [Runs -> Stages]
    /\ DOMAIN analysis = Runs /\ DOMAIN gate = Runs /\ DOMAIN review = Runs
    /\ work \in [Runs -> WorkRecords]
    /\ result \in [Runs -> Results]
    /\ lockFile \in [by : Runs \cup {None, "earlier"}, old : BOOLEAN]
    /\ memoryLedger \in Seq(Entries)
    /\ conflicts \in Seq(Entries)
    /\ memory \in SUBSET Entries
    /\ accidents \in Nat /\ suspends \in Nat
    /\ lost \in BOOLEAN /\ torn \in BOOLEAN

-----------------------------------------------------------------------------
(* The inductive invariant.                                                *)

In(s) == {s[i] : i \in DOMAIN s}
Distinct(s) == \A i, j \in DOMAIN s : s[i].key = s[j].key => i = j

(* Once a meeting is understood, the analysis is of its own segments and   *)
(* participants: that is what a proposal is judged by.                     *)
Understood ==
    \A e \in Runs : stage[e] \in Early \ {"understand"} =>
        /\ analysis[e].participants = Participants(e)
        /\ \A k \in analysis[e].claims : k.quality = evidenceQuality(k.evidence, Segments(e))

(* Whatever is written, or about to be, is from a meeting, and nothing     *)
(* about that meeting can change any more.                                 *)
InWork(w) == In(w.existing) \cup In(w.fresh) \cup In(w.base) \cup (In(w.found) \ {Rejected})
Said == In(memoryLedger) \cup memory \cup UNION {InWork(work[e]) : e \in Runs}
Settled(n) == n.run \in Runs => stage[n.run] \notin Early /\ FromMeeting(n, n.run)
AllSettled == \A n \in Said : Settled(n)

(* Unless a lock was lost, who is inside has it.                           *)
HoldsLock(e) == ~lost /\ stage[e] \in Inside => lockFile # NoLock /\ lockFile.by = e

(* What a run inside knows of the ledger.                                  *)
Before == Early \cup {"lock", "stat", "steal", "read"}
Reading == {"persist", "reread", "replace"}
Writing == {"reread", "replace"}
Adding(e) == work[e].existing = memoryLedger \o work[e].fresh /\ Distinct(work[e].existing)
KnowsLedger(e) == ~lost =>
    /\ stage[e] \in Reading => Adding(e)
    /\ stage[e] \in Writing => work[e].fresh # <<>>
    /\ stage[e] = "replace" => work[e].base = memoryLedger
    /\ stage[e] \in {"conflict", "show"} => work[e].existing = memoryLedger

(* What it has added stays there.                                          *)
Reported(e) == result[e] \in {"completed", "needs_review"}
Written(e) ==
    stage[e] \in {"conflict", "show"} \/ (stage[e] = "unlock" /\ result[e] # "blocked") \/ Reported(e)
KeepsFresh(e) ==
    /\ stage[e] \in Before => work[e].fresh = <<>>
    /\ Reported(e) => stage[e] = "end"
    /\ ~lost /\ Written(e) => In(work[e].fresh) \subseteq In(memoryLedger)
RunOK(e) == HoldsLock(e) /\ KnowsLedger(e) /\ KeepsFresh(e)

Shows == ~lost /\ ~torn /\ (\A e \in Runs : ~HalfDone(e)) => memory = renderMemory(memoryLedger)

OneMemory == (\A e \in Runs : RunOK(e)) /\ (~lost => Distinct(memoryLedger)) /\ Shows
IInv == MemoryTypeOK /\ Understood /\ AllSettled /\ OneMemory

-----------------------------------------------------------------------------
(* Lists and what is shown of them.                                        *)

LEMMA InOf == ASSUME NEW S, NEW s \in Seq(S) PROVE In(s) \subseteq S
  BY ElementOfSeq, LenProperties DEF In

LEMMA InEmpty == In(<<>>) = {}
  BY DEF In

LEMMA InAppend ==
  ASSUME NEW S, NEW s \in Seq(S), NEW c \in S
  PROVE  In(Append(s, c)) = In(s) \cup {c}
  <1>1. /\ Append(s, c) \in Seq(S) /\ Len(Append(s, c)) = Len(s) + 1
        /\ \A i \in 1 .. Len(s) : Append(s, c)[i] = s[i]
        /\ Append(s, c)[Len(s) + 1] = c
    BY AppendProperties
  <1>2. DOMAIN s = 1 .. Len(s) /\ DOMAIN Append(s, c) = 1 .. Len(s) + 1 /\ Len(s) \in Nat
    BY <1>1, LenProperties
  <1>3. ASSUME NEW x \in In(Append(s, c)) PROVE x \in In(s) \cup {c}
    <2>1. PICK i \in 1 .. Len(s) + 1 : x = Append(s, c)[i]
      BY <1>2 DEF In
    <2>2. CASE i = Len(s) + 1
      BY <2>1, <2>2, <1>1
    <2>3. CASE i # Len(s) + 1
      <3>1. i \in 1 .. Len(s)
        BY <2>3, <1>2
      <3> QED BY <3>1, <2>1, <1>1, <1>2 DEF In
    <2> QED BY <2>2, <2>3
  <1>4. ASSUME NEW x \in In(s) \cup {c} PROVE x \in In(Append(s, c))
    <2>1. CASE x \in In(s)
      <3>1. PICK i \in 1 .. Len(s) : x = s[i]
        BY <2>1, <1>2 DEF In
      <3>2. i \in 1 .. Len(s) + 1 /\ x = Append(s, c)[i]
        BY <3>1, <1>1, <1>2
      <3> QED BY <3>2, <1>2 DEF In
    <2>2. CASE x = c
      BY <2>2, <1>1, <1>2 DEF In
    <2> QED BY <2>1, <2>2
  <1> QED BY <1>3, <1>4

LEMMA InConcat ==
  ASSUME NEW S, NEW s \in Seq(S), NEW t \in Seq(S)
  PROVE  In(s \o t) = In(s) \cup In(t)
  <1>1. /\ s \o t \in Seq(S) /\ Len(s \o t) = Len(s) + Len(t)
        /\ \A i \in 1 .. Len(s) + Len(t) :
              (s \o t)[i] = IF i <= Len(s) THEN s[i] ELSE t[i - Len(s)]
    BY ConcatProperties
  <1>2. /\ DOMAIN s = 1 .. Len(s) /\ DOMAIN t = 1 .. Len(t) /\ DOMAIN (s \o t) = 1 .. Len(s) + Len(t)
        /\ Len(s) \in Nat /\ Len(t) \in Nat
    BY <1>1, LenProperties
  <1>3. ASSUME NEW x \in In(s \o t) PROVE x \in In(s) \cup In(t)
    <2>1. PICK i \in 1 .. Len(s) + Len(t) : x = (s \o t)[i]
      BY <1>2 DEF In
    <2>2. CASE i <= Len(s)
      <3>1. i \in DOMAIN s /\ x = s[i]
        BY <2>1, <2>2, <1>1, <1>2
      <3> QED BY <3>1 DEF In
    <2>3. CASE ~(i <= Len(s))
      <3>1. i - Len(s) \in DOMAIN t /\ x = t[i - Len(s)]
        BY <2>1, <2>3, <1>1, <1>2
      <3> QED BY <3>1 DEF In
    <2> QED BY <2>2, <2>3
  <1>4. ASSUME NEW x \in In(s) PROVE x \in In(s \o t)
    <2>1. PICK i \in 1 .. Len(s) : x = s[i]
      BY <1>2 DEF In
    <2>2. i \in 1 .. Len(s) + Len(t) /\ (s \o t)[i] = s[i]
      BY <1>1, <1>2
    <2> QED BY <2>1, <2>2, <1>2 DEF In
  <1>5. ASSUME NEW x \in In(t) PROVE x \in In(s \o t)
    <2>1. PICK i \in 1 .. Len(t) : x = t[i]
      BY <1>2 DEF In
    <2>2. Len(s) + i \in 1 .. Len(s) + Len(t) /\ (s \o t)[Len(s) + i] = t[i]
      BY <1>1, <1>2
    <2> QED BY <2>1, <2>2, <1>2 DEF In
  <1> QED BY <1>3, <1>4, <1>5

LEMMA AppendToConcat ==
  ASSUME NEW s \in Seq(Entries), NEW t \in Seq(Entries), NEW c \in Entries
  PROVE  Append(s \o t, c) = s \o Append(t, c)
  <1>1. s \o t \in Seq(Entries) /\ <<c>> \in Seq(Entries)
    BY ConcatProperties
  <1>2. Append(s \o t, c) = (s \o t) \o <<c>> /\ Append(t, c) = t \o <<c>>
    BY <1>1, AppendIsConcat
  <1> QED BY <1>1, <1>2, ConcatAssociative

(* A key that is not in a list yet can be added.                           *)
LEMMA DistinctAppend ==
  ASSUME NEW S, NEW s \in Seq(S), NEW c \in S, Distinct(s), \A i \in DOMAIN s : s[i].key # c.key
  PROVE  Distinct(Append(s, c))
  <1>1. /\ Append(s, c) \in Seq(S) /\ Len(Append(s, c)) = Len(s) + 1
        /\ \A i \in 1 .. Len(s) : Append(s, c)[i] = s[i]
        /\ Append(s, c)[Len(s) + 1] = c
    BY AppendProperties
  <1>2. DOMAIN s = 1 .. Len(s) /\ DOMAIN Append(s, c) = 1 .. Len(s) + 1 /\ Len(s) \in Nat
    BY <1>1, LenProperties
  <1>3. \A i \in 1 .. Len(s) + 1 : i = Len(s) + 1 \/ i \in 1 .. Len(s)
    BY <1>2
  <1> QED BY <1>1, <1>2, <1>3 DEF Distinct

LEMMA ShownIsIn == ASSUME NEW s PROVE renderMemory(s) \subseteq In(s)
  BY DEF renderMemory, activeByKey, In

-----------------------------------------------------------------------------
(* What a candidate does to what is about to be written.                   *)

LEMMA NoWorkIsWork == NoWork \in WorkRecords
  BY EmptySeq DEF NoWork, WorkRecords

LEMMA PersistEffect ==
  ASSUME NEW w \in WorkRecords, NEW c \in Entries \cup {Rejected}
  PROVE  /\ persist(w, c) \in WorkRecords
         /\ persist(w, c).found = w.found /\ persist(w, c).next = w.next
         /\ persist(w, c).base = w.base
         /\ \/ persist(w, c).existing = w.existing /\ persist(w, c).fresh = w.fresh
            \/ /\ c \in Entries /\ c # Rejected
               /\ persist(w, c).existing = Append(w.existing, c)
               /\ persist(w, c).fresh = Append(w.fresh, c)
               /\ \A i \in DOMAIN w.existing : w.existing[i].key # c.key
  <1>1. CASE c = Rejected \/ \E i \in DOMAIN w.existing : Same(w.existing[i], c)
    BY <1>1 DEF persist
  <1>2. CASE /\ ~(c = Rejected \/ \E i \in DOMAIN w.existing : Same(w.existing[i], c))
             /\ \E i \in DOMAIN w.existing : w.existing[i].key = c.key
    <2>1. persist(w, c) = [w EXCEPT !.conflicts = Append(w.conflicts, c)]
      BY <1>2 DEF persist
    <2>2. Append(w.conflicts, c) \in Seq(Entries)
      BY <1>2, AppendProperties DEF WorkRecords
    <2> QED BY <2>1, <2>2 DEF WorkRecords
  <1>3. CASE /\ ~(c = Rejected \/ \E i \in DOMAIN w.existing : Same(w.existing[i], c))
             /\ ~(\E i \in DOMAIN w.existing : w.existing[i].key = c.key)
    <2>1. persist(w, c) = [w EXCEPT !.existing = Append(w.existing, c), !.fresh = Append(w.fresh, c)]
      BY <1>3 DEF persist, Accept
    <2>2. Append(w.existing, c) \in Seq(Entries) /\ Append(w.fresh, c) \in Seq(Entries)
      BY <1>3, AppendProperties DEF WorkRecords
    <2> QED BY <1>3, <2>1, <2>2 DEF WorkRecords
  <1> QED BY <1>1, <1>2, <1>3

LEMMA Reconciled ==
  ASSUME NEW payload \in Payloads, NEW e \in Runs
  PROVE  reconcileMeetingMemoryCandidates(payload, e) \in Seq(Entries \cup {Rejected})
  <1>1. payload \in Seq(Proposed)
    BY MemoryAssumption
  <1>2. Len(payload) \in Nat /\ DOMAIN payload = 1 .. Len(payload)
    BY <1>1, LenProperties
  <1>3. \A i \in 1 .. Len(payload) : payload[i] \in Proposed
    BY <1>1, ElementOfSeq
  <1>4. \A i \in 1 .. Len(payload) :
            (IF Accepted(payload[i], e) THEN Entry(payload[i], e) ELSE Rejected)
                \in Entries \cup {Rejected}
    BY <1>3 DEF Entries
  <1>5. [i \in 1 .. Len(payload) |->
            IF Accepted(payload[i], e) THEN Entry(payload[i], e) ELSE Rejected]
                \in [1 .. Len(payload) -> Entries \cup {Rejected}]
    BY <1>4
  <1> QED BY <1>2, <1>5, SeqDef DEF reconcileMeetingMemoryCandidates

LEMMA EarlierIsEntries ==
  ASSUME NEW l \in Earlier
  PROVE  l \in Seq(Entries) /\ Distinct(l) /\ \A n \in In(l) : n.run \notin Runs
  <1>1. l \in Seq(Known) /\ Distinct(l)
    BY MemoryAssumption DEF Distinct
  <1>2. l \in Seq(Entries)
    BY <1>1, SeqMonotonic DEF Entries
  <1>3. In(l) \subseteq Known
    BY <1>1, InOf
  <1> QED BY <1>1, <1>2, <1>3, MemoryAssumption

-----------------------------------------------------------------------------
(* Types.                                                                  *)

LEMMA InitTypes == InitMemory => MemoryTypeOK
  <1> SUFFICES ASSUME InitMemory PROVE MemoryTypeOK
    OBVIOUS
  <1>1. memoryLedger \in Seq(Entries)
    BY EarlierIsEntries DEF InitMemory
  <1>2. memory \in SUBSET Entries
    BY <1>1, ShownIsIn, InOf DEF InitMemory
  <1>3. work \in [Runs -> WorkRecords]
    BY NoWorkIsWork DEF InitMemory
  <1>4. conflicts \in Seq(Entries)
    BY EmptySeq DEF InitMemory
  <1>5. stage \in [Runs -> Stages] /\ result \in [Runs -> Results]
    BY DEF InitMemory, Stages, Early, Results
  <1>6. lockFile \in [by : Runs \cup {None, "earlier"}, old : BOOLEAN]
    <2>1. NoLock \in [by : Runs \cup {None, "earlier"}, old : BOOLEAN]
      BY DEF NoLock
    <2>2. Stale \in [by : Runs \cup {None, "earlier"}, old : BOOLEAN]
      BY DEF Stale
    <2> QED BY <2>1, <2>2 DEF InitMemory
  <1>7. DOMAIN analysis = Runs /\ DOMAIN gate = Runs /\ DOMAIN review = Runs
    BY DEF InitMemory
  <1> QED BY <1>1, <1>2, <1>3, <1>4, <1>5, <1>6, <1>7 DEF InitMemory, MemoryTypeOK

LEMMA AfterLedgerStage == \A w : AfterLedger(w) \in {"conflict", "show", "unlock"}
  BY DEF AfterLedger

LEMMA WorkKept ==
  ASSUME work \in [Runs -> WorkRecords], NEW e \in Runs, NEW w \in WorkRecords, work' = [work EXCEPT ![e] = w]
  PROVE  work' \in [Runs -> WorkRecords] /\ work'[e] = w /\ \A r \in Runs \ {e} : work'[r] = work[r]
  OBVIOUS

(* The work of a run is written by four of its steps.                      *)
LEMMA CurationWork ==
  ASSUME MemoryTypeOK, NEW e \in Runs, NEW payload \in Payloads,
         work' = [work EXCEPT ![e].found = reconcileMeetingMemoryCandidates(payload, e)]
  PROVE  /\ work' \in [Runs -> WorkRecords]
         /\ \A r \in Runs \ {e} : work'[r] = work[r]
         /\ work'[e].found = reconcileMeetingMemoryCandidates(payload, e)
         /\ work'[e].existing = work[e].existing /\ work'[e].fresh = work[e].fresh
         /\ work'[e].base = work[e].base
  <1>1. work[e] \in WorkRecords
    BY DEF MemoryTypeOK
  <1>2. [work[e] EXCEPT !.found = reconcileMeetingMemoryCandidates(payload, e)] \in WorkRecords
    BY <1>1, Reconciled DEF WorkRecords
  <1> QED BY <1>1, <1>2 DEF MemoryTypeOK, WorkRecords

LEMMA ReadWork ==
  ASSUME MemoryTypeOK, NEW e \in Runs, work' = [work EXCEPT ![e].existing = memoryLedger]
  PROVE  /\ work' \in [Runs -> WorkRecords]
         /\ \A r \in Runs \ {e} : work'[r] = work[r]
         /\ work'[e].existing = memoryLedger
         /\ work'[e].found = work[e].found /\ work'[e].fresh = work[e].fresh
         /\ work'[e].base = work[e].base
  <1>1. work[e] \in WorkRecords /\ memoryLedger \in Seq(Entries)
    BY DEF MemoryTypeOK
  <1>2. [work[e] EXCEPT !.existing = memoryLedger] \in WorkRecords
    BY <1>1 DEF WorkRecords
  <1> QED BY <1>1, <1>2 DEF MemoryTypeOK, WorkRecords

LEMMA RereadWork ==
  ASSUME MemoryTypeOK, NEW e \in Runs, work' = [work EXCEPT ![e].base = memoryLedger]
  PROVE  /\ work' \in [Runs -> WorkRecords]
         /\ \A r \in Runs \ {e} : work'[r] = work[r]
         /\ work'[e].base = memoryLedger
         /\ work'[e].found = work[e].found /\ work'[e].fresh = work[e].fresh
         /\ work'[e].existing = work[e].existing
  <1>1. work[e] \in WorkRecords /\ memoryLedger \in Seq(Entries)
    BY DEF MemoryTypeOK
  <1>2. [work[e] EXCEPT !.base = memoryLedger] \in WorkRecords
    BY <1>1 DEF WorkRecords
  <1> QED BY <1>1, <1>2 DEF MemoryTypeOK, WorkRecords

LEMMA NextCandidate ==
  ASSUME NEW p \in WorkRecords
  PROVE  LET v == [p EXCEPT !.next = @ + 1]
         IN  /\ v \in WorkRecords /\ v.found = p.found /\ v.base = p.base
             /\ v.existing = p.existing /\ v.fresh = p.fresh
  <1> DEFINE n == p.next + 1
             v == [p EXCEPT !.next = n]
  <1>1. n \in Nat \ {0}
    <2>1. p.next \in Nat \ {0}
      BY DEF WorkRecords
    <2> QED BY <2>1
  <1> HIDE DEF n
  <1>2. v \in WorkRecords
    BY <1>1 DEF WorkRecords
  <1>3. v.found = p.found /\ v.base = p.base /\ v.existing = p.existing /\ v.fresh = p.fresh
    BY DEF WorkRecords
  <1> QED BY <1>2, <1>3 DEF n

LEMMA PersistWork ==
  ASSUME MemoryTypeOK, NEW e \in Runs, work[e].next <= Len(work[e].found),
         work' = [work EXCEPT ![e] =
                     [persist(work[e], work[e].found[work[e].next]) EXCEPT !.next = @ + 1]]
  PROVE  /\ work' \in [Runs -> WorkRecords]
         /\ \A r \in Runs \ {e} : work'[r] = work[r]
         /\ work'[e].found = work[e].found /\ work'[e].base = work[e].base
         /\ \/ work'[e].existing = work[e].existing /\ work'[e].fresh = work[e].fresh
            \/ \E c \in Entries :
                 /\ c \in In(work[e].found) \ {Rejected}
                 /\ work'[e].existing = Append(work[e].existing, c)
                 /\ work'[e].fresh = Append(work[e].fresh, c)
                 /\ \A i \in DOMAIN work[e].existing : work[e].existing[i].key # c.key
  <1> DEFINE w == work[e]
             c == w.found[w.next]
             p == persist(w, c)
             v == [p EXCEPT !.next = @ + 1]
  <1>1. w \in WorkRecords
    BY DEF MemoryTypeOK
  <1>2. w.found \in Seq(Entries \cup {Rejected}) /\ w.next \in Nat \ {0}
    BY <1>1 DEF WorkRecords
  <1>3. Len(w.found) \in Nat /\ DOMAIN w.found = 1 .. Len(w.found)
    BY <1>2, LenProperties
  <1>4. w.next \in 1 .. Len(w.found)
    BY <1>2, <1>3
  <1>5. c \in Entries \cup {Rejected} /\ c \in In(w.found)
    BY <1>2, <1>3, <1>4, ElementOfSeq DEF In
  <1> HIDE DEF w, c
  <1>6. /\ p \in WorkRecords /\ p.found = w.found /\ p.next = w.next /\ p.base = w.base
        /\ \/ p.existing = w.existing /\ p.fresh = w.fresh
           \/ /\ c \in Entries /\ c # Rejected
              /\ p.existing = Append(w.existing, c)
              /\ p.fresh = Append(w.fresh, c)
              /\ \A i \in DOMAIN w.existing : w.existing[i].key # c.key
    BY <1>1, <1>5, PersistEffect
  <1> HIDE DEF p
  <1>7. /\ v \in WorkRecords /\ v.found = p.found /\ v.base = p.base /\ v.existing = p.existing
        /\ v.fresh = p.fresh
    BY <1>6, NextCandidate
  <1> HIDE DEF v
  <1>8. work' = [work EXCEPT ![e] = v]
    BY DEF v, p, c, w
  <1>9. work' \in [Runs -> WorkRecords] /\ work'[e] = v /\ \A r \in Runs \ {e} : work'[r] = work[r]
    BY <1>7, <1>8, WorkKept DEF MemoryTypeOK
  <1> QED BY <1>5, <1>6, <1>7, <1>9 DEF w


LEMMA StageKept ==
  ASSUME MemoryTypeOK, NEW e \in Runs, NEW s \in Stages, Enters(e, s)
  PROVE  stage' \in [Runs -> Stages] /\ stage'[e] = s /\ \A r \in Runs \ {e} : stage'[r] = stage[r]
  BY DEF MemoryTypeOK, Enters

LEMMA ResultKept ==
  ASSUME MemoryTypeOK, NEW e \in Runs, NEW r \in Results, Ends(e, r)
  PROVE  /\ stage' \in [Runs -> Stages] /\ stage'[e] = "end"
         /\ \A f \in Runs \ {e} : stage'[f] = stage[f]
         /\ result' \in [Runs -> Results] /\ result'[e] = r
         /\ \A f \in Runs \ {e} : result'[f] = result[f]
  <1>1. Enters(e, "end") /\ result' = [result EXCEPT ![e] = r]
    BY DEF Ends
  <1>2. "end" \in Stages
    BY DEF Stages
  <1> QED BY <1>1, <1>2, StageKept DEF MemoryTypeOK

LEMMA InsideIsStage == Inside \subseteq Stages /\ Early \subseteq Stages
  BY DEF Stages

LEMMA UnderstandTypes ==
  ASSUME MemoryTypeOK, NEW e \in Runs, Understand(e)
  PROVE  MemoryTypeOK'
  <1>1. ASSUME understandMeeting(e) PROVE MemoryTypeOK'
    BY <1>1, StageKept, InsideIsStage DEF understandMeeting, MemoryTypeOK, Early, files, history
  <1>2. ASSUME executeMeetingAgenticOrchestration(e) PROVE MemoryTypeOK'
    <2>1. stage' \in [Runs -> Stages]
      BY <1>2, StageKept, InsideIsStage DEF executeMeetingAgenticOrchestration, Early
    <2>2. DOMAIN review' = Runs
      BY <1>2 DEF executeMeetingAgenticOrchestration, MemoryTypeOK
    <2> QED BY <1>2, <2>1, <2>2 DEF executeMeetingAgenticOrchestration, MemoryTypeOK, files, history
  <1>3. ASSUME checkMinutes(e) PROVE MemoryTypeOK'
    BY <1>3, StageKept, InsideIsStage DEF checkMinutes, MemoryTypeOK, Early, files, history
  <1>4. ASSUME runMeetingMemoryCuration(e) PROVE MemoryTypeOK'
    <2>1. UNCHANGED <<meeting, understanding, lockFile, files, accidents, suspends, history>>
      BY <1>4 DEF runMeetingMemoryCuration
    <2>2. ASSUME NEW payload \in Payloads,
                 work' = [work EXCEPT ![e].found = reconcileMeetingMemoryCandidates(payload, e)],
                 Enters(e, "lock"), UNCHANGED result
          PROVE  MemoryTypeOK'
      <3>1. "lock" \in Stages
        BY DEF Stages
      <3>2. stage' \in [Runs -> Stages]
        BY <2>2, <3>1, StageKept
      <3>3. work' \in [Runs -> WorkRecords]
        BY <2>2, CurationWork
      <3> QED BY <2>1, <2>2, <3>2, <3>3 DEF MemoryTypeOK, understanding, files, history
    <2>3. ASSUME NEW r \in {"skipped", "blocked"}, Ends(e, r), UNCHANGED work PROVE MemoryTypeOK'
      <3>1. r \in Results
        BY DEF Results
      <3>2. stage' \in [Runs -> Stages] /\ result' \in [Runs -> Results]
        BY <2>3, <3>1, ResultKept
      <3> QED BY <2>1, <2>3, <3>2 DEF MemoryTypeOK, understanding, files, history
    <2> QED BY <1>4, <2>2, <2>3 DEF runMeetingMemoryCuration
  <1> QED BY <1>1, <1>2, <1>3, <1>4 DEF Understand

LEMMA RemovesTypes ==
  ASSUME MemoryTypeOK, NEW e \in Runs, Removes(e)
  PROVE  lockFile' \in [by : Runs \cup {None, "earlier"}, old : BOOLEAN] /\ lost' \in BOOLEAN
  <1>1. NoLock \in [by : Runs \cup {None, "earlier"}, old : BOOLEAN]
    BY DEF NoLock
  <1>2. lockFile' = NoLock
    BY DEF Removes
  <1>3. lost' \in BOOLEAN
    BY DEF Removes
  <1> QED BY <1>1, <1>2, <1>3

LEMMA LockTypes ==
  ASSUME MemoryTypeOK, NEW e \in Runs, Lock(e)
  PROVE  MemoryTypeOK'
  <1>s. {"read", "stat", "steal", "lock", "end"} \subseteq Stages
    BY DEF Stages, Inside
  <1>1. ASSUME createLock(e) PROVE MemoryTypeOK'
    <2>1. stage' \in [Runs -> Stages]
      BY <1>1, <1>s, StageKept DEF createLock
    <2>2. [by |-> e, old |-> FALSE] \in [by : Runs \cup {None, "earlier"}, old : BOOLEAN]
      OBVIOUS
    <2>3. lockFile' \in [by : Runs \cup {None, "earlier"}, old : BOOLEAN]
      BY <1>1, <2>2 DEF createLock, MemoryTypeOK
    <2> QED BY <1>1, <2>1, <2>3 DEF createLock, MemoryTypeOK, understanding, files, history
  <1>2. ASSUME statLock(e) PROVE MemoryTypeOK'
    <2>1. "blocked" \in Results
      BY DEF Results
    <2>2. stage' \in [Runs -> Stages] /\ result' \in [Runs -> Results]
      <3>1. CASE Ends(e, "blocked")
        BY <3>1, <2>1, ResultKept
      <3>2. CASE (Enters(e, "steal") \/ Enters(e, "lock")) /\ UNCHANGED result
        BY <3>2, <1>s, StageKept DEF MemoryTypeOK
      <3> QED BY <1>2, <3>1, <3>2 DEF statLock
    <2> QED BY <1>2, <2>2 DEF statLock, MemoryTypeOK, understanding, files, history
  <1>3. ASSUME stealLock(e) PROVE MemoryTypeOK'
    <2>1. stage' \in [Runs -> Stages]
      BY <1>3, <1>s, StageKept DEF stealLock
    <2>2. lockFile' \in [by : Runs \cup {None, "earlier"}, old : BOOLEAN] /\ lost' \in BOOLEAN
      BY <1>3, RemovesTypes DEF stealLock
    <2> QED BY <1>3, <2>1, <2>2 DEF stealLock, MemoryTypeOK, understanding, files
  <1> QED BY <1>1, <1>2, <1>3 DEF Lock

LEMMA PersistTypes ==
  ASSUME MemoryTypeOK, NEW e \in Runs, Persist(e)
  PROVE  MemoryTypeOK'
  <1>s. Inside \subseteq Stages
    BY InsideIsStage
  <1>w. work[e] \in WorkRecords
    BY DEF MemoryTypeOK
  <1>1. ASSUME readLedger(e) PROVE MemoryTypeOK'
    <2>1. stage' \in [Runs -> Stages] /\ work' \in [Runs -> WorkRecords]
      BY <1>1, <1>s, StageKept, ReadWork DEF readLedger, Inside
    <2> QED BY <1>1, <2>1 DEF readLedger, MemoryTypeOK, understanding, files, history
  <1>2. ASSUME persistMeetingMemory(e) PROVE MemoryTypeOK'
    <2>1. stage' \in [Runs -> Stages] /\ work' \in [Runs -> WorkRecords]
      <3>1. CASE work[e].next <= Len(work[e].found)
        <4>1. UNCHANGED stage
          BY <1>2, <3>1 DEF persistMeetingMemory
        <4>2. work' = [work EXCEPT ![e] =
                          [persist(work[e], work[e].found[work[e].next]) EXCEPT !.next = @ + 1]]
          BY <1>2, <3>1 DEF persistMeetingMemory
        <4>3. work' \in [Runs -> WorkRecords]
          BY <3>1, <4>2, PersistWork
        <4> QED BY <4>1, <4>3 DEF MemoryTypeOK
      <3>2. CASE ~(work[e].next <= Len(work[e].found))
        <4>1. PICK s \in {"reread", "conflict", "show", "unlock"} : Enters(e, s) /\ UNCHANGED work
          BY <1>2, <3>2, AfterLedgerStage DEF persistMeetingMemory
        <4>2. s \in Stages
          BY <1>s DEF Inside
        <4> QED BY <4>1, <4>2, StageKept DEF MemoryTypeOK
      <3> QED BY <3>1, <3>2
    <2> QED BY <1>2, <2>1 DEF persistMeetingMemory, MemoryTypeOK, understanding, files, history
  <1>3. ASSUME rereadLedger(e) PROVE MemoryTypeOK'
    <2>1. stage' \in [Runs -> Stages] /\ work' \in [Runs -> WorkRecords]
      BY <1>3, <1>s, StageKept, RereadWork DEF rereadLedger, Inside
    <2> QED BY <1>3, <2>1 DEF rereadLedger, MemoryTypeOK, understanding, files, history
  <1>4. ASSUME replaceLedger(e) PROVE MemoryTypeOK'
    <2>1. AfterLedger(work[e]) \in Stages
      BY <1>s, AfterLedgerStage DEF Inside
    <2>2. stage' \in [Runs -> Stages]
      BY <1>4, <2>1, StageKept DEF replaceLedger
    <2>3. memoryLedger' \in Seq(Entries)
      BY <1>4, <1>w, ConcatProperties DEF replaceLedger, WorkRecords
    <2> QED BY <1>4, <2>2, <2>3 DEF replaceLedger, MemoryTypeOK, understanding, history
  <1>5. ASSUME replaceConflicts(e) PROVE MemoryTypeOK'
    <2>1. stage' \in [Runs -> Stages]
      BY <1>5, <1>s, StageKept DEF replaceConflicts, Inside
    <2>2. conflicts \in Seq(Entries) /\ work[e].conflicts \in Seq(Entries)
      BY <1>w DEF MemoryTypeOK, WorkRecords
    <2>3. conflicts' \in Seq(Entries)
      BY <1>5, <2>2, ConcatProperties DEF replaceConflicts
    <2> QED BY <1>5, <2>1, <2>3 DEF replaceConflicts, MemoryTypeOK, understanding, history
  <1>6. ASSUME showMemory(e) PROVE MemoryTypeOK'
    <2>1. stage' \in [Runs -> Stages]
      BY <1>6, <1>s, StageKept DEF showMemory, Inside
    <2>2. In(work[e].existing) \subseteq Entries
      BY <1>w, InOf DEF WorkRecords
    <2>3. memory' \in SUBSET Entries
      BY <1>6, <2>2, ShownIsIn DEF showMemory
    <2> QED BY <1>6, <2>1, <2>3 DEF showMemory, MemoryTypeOK, understanding
  <1>7. ASSUME unlock(e) PROVE MemoryTypeOK'
    <2>1. PICK r \in {"blocked", "needs_review", "completed"} : Ends(e, r)
      BY <1>7 DEF unlock
    <2>2. r \in Results
      BY DEF Results
    <2>3. stage' \in [Runs -> Stages] /\ result' \in [Runs -> Results]
      BY <2>1, <2>2, ResultKept
    <2>4. lockFile' \in [by : Runs \cup {None, "earlier"}, old : BOOLEAN] /\ lost' \in BOOLEAN
      BY <1>7, RemovesTypes DEF unlock
    <2> QED BY <1>7, <2>3, <2>4 DEF unlock, MemoryTypeOK, understanding, files
  <1> QED BY <1>1, <1>2, <1>3, <1>4, <1>5, <1>6, <1>7 DEF Persist

LEMMA TypesStep ==
  ASSUME MemoryTypeOK, [NextMemory]_memoryVars
  PROVE  MemoryTypeOK'
  <1>1. CASE Age
    <2>1. lockFile' \in [by : Runs \cup {None, "earlier"}, old : BOOLEAN]
      BY <1>1 DEF Age, MemoryTypeOK
    <2>2. suspends' \in Nat
      BY <1>1 DEF Age, MemoryTypeOK
    <2> QED BY <1>1, <2>1, <2>2 DEF Age, MemoryTypeOK, understanding, files, history
  <1>2. ASSUME NEW e \in Runs, Fails(e) PROVE MemoryTypeOK'
    <2>1. stage' \in [Runs -> Stages]
      BY <1>2, StageKept, InsideIsStage DEF Fails, Inside
    <2>2. result' \in [Runs -> Results]
      BY <1>2 DEF Fails, MemoryTypeOK, Results
    <2>3. torn' \in BOOLEAN /\ accidents' \in Nat
      BY <1>2 DEF Fails, MemoryTypeOK
    <2> QED BY <1>2, <2>1, <2>2, <2>3 DEF Fails, MemoryTypeOK, understanding, files
  <1>3. ASSUME NEW e \in Runs, Dies(e) PROVE MemoryTypeOK'
    <2>1. "crashed" \in Stages
      BY DEF Stages
    <2>2. stage' \in [Runs -> Stages]
      BY <1>3, <2>1, StageKept DEF Dies
    <2>3. torn' \in BOOLEAN /\ accidents' \in Nat
      BY <1>3 DEF Dies, MemoryTypeOK
    <2> QED BY <1>3, <2>2, <2>3 DEF Dies, MemoryTypeOK, understanding, files
  <1>4. CASE UNCHANGED memoryVars
    BY <1>4 DEF memoryVars, MemoryTypeOK, understanding, files, history
  <1> QED BY <1>1, <1>2, <1>3, <1>4, UnderstandTypes, LockTypes, PersistTypes DEF NextMemory

(* The types, which every other proof rests on.                            *)
THEOREM MemoryTypes == MemorySpec => []MemoryTypeOK
  BY InitTypes, TypesStep, PTL DEF MemorySpec


-----------------------------------------------------------------------------
(* What an analysis is, and what a memory that it accepts is worth.        *)

LEMMA ClaimsAreJudged ==
  ASSUME NEW topics, NEW segments, NEW k \in buildEvidenceMap(topics, segments)
  PROVE  k.quality = evidenceQuality(k.evidence, segments)
  BY DEF buildEvidenceMap, Claim

LEMMA AnalysisIsRight ==
  ASSUME NEW answer, NEW segments, NEW participants
  PROVE  LET a == normalizeMeetingAnalysisResponse(answer, segments, participants)
         IN  /\ a.participants = participants
             /\ \A k \in a.claims : k.quality = evidenceQuality(k.evidence, segments)
  <1> DEFINE topics == normalizeTopics(answer, segments)
             a == normalizeMeetingAnalysisResponse(answer, segments, participants)
  <1>1. CASE topics = {}
    <2>1. a = buildFallbackMeetingAnalysis(segments, participants)
      BY <1>1 DEF normalizeMeetingAnalysisResponse
    <2>2. a.participants = participants /\ a.claims = {}
      BY <2>1 DEF buildFallbackMeetingAnalysis, Analysis
    <2> QED BY <2>2
  <1>2. CASE topics # {}
    <2>1. a = Analysis("complete", topics, buildEvidenceMap(topics, segments), participants)
      BY <1>2 DEF normalizeMeetingAnalysisResponse
    <2>2. a.participants = participants /\ a.claims = buildEvidenceMap(topics, segments)
      BY <2>1 DEF Analysis
    <2> QED BY <2>2, ClaimsAreJudged
  <1> QED BY <1>1, <1>2

(* Only a claim all of whose segments are clear is of ready evidence.      *)
LEMMA ReadyIsClear ==
  ASSUME NEW segments, \A s \in DOMAIN segments : segments[s] \in {"ready", "needs_review"},
         NEW ids, evidenceQuality(ids, segments) = "ready", NEW s \in ids \cap DOMAIN segments
  PROVE  segments[s] = "ready"
  <1> DEFINE qualities == {segments[t] : t \in ids \cap DOMAIN segments}
  <1>1. segments[s] \in qualities /\ qualities \subseteq {"ready", "needs_review"}
    OBVIOUS
  <1>2. qualities # {"needs_review"}
    <2>1. SUFFICES ASSUME qualities = {"needs_review"} PROVE FALSE
      OBVIOUS
    <2>2. evidenceQuality(ids, segments) = "needs_review_only"
      <3>1. qualities # {} /\ ~({"needs_review", "ready"} \subseteq qualities)
        BY <2>1
      <3> QED BY <2>1, <3>1 DEF evidenceQuality
    <2> QED BY <2>2
  <1>3. ~({"needs_review", "ready"} \subseteq qualities)
    <2>1. SUFFICES ASSUME {"needs_review", "ready"} \subseteq qualities PROVE FALSE
      OBVIOUS
    <2>2. evidenceQuality(ids, segments) = "mixed"
      <3>1. qualities # {} /\ qualities # {"needs_review"}
        BY <2>1
      <3> QED BY <2>1, <3>1 DEF evidenceQuality
    <2> QED BY <2>2
  <1> HIDE DEF qualities
  <1>4. "needs_review" \notin qualities
    <2>1. SUFFICES ASSUME "needs_review" \in qualities PROVE FALSE
      OBVIOUS
    <2>2. "ready" \notin qualities
      BY <2>1, <1>3
    <2>3. qualities = {"needs_review"}
      BY <2>1, <2>2, <1>1
    <2> QED BY <2>3, <1>2
  <1> QED BY <1>1, <1>4

LEMMA SegmentsAreHeard ==
  ASSUME MemoryTypeOK, NEW e \in Runs, NEW s \in DOMAIN Segments(e)
  PROVE  /\ s \in DOMAIN meeting[e].segments
         /\ Segments(e)[s] = meeting[e].segments[s]
         /\ Segments(e)[s] \in {"ready", "needs_review"}
  <1>1. meeting[e] \in Meetings
    BY DEF MemoryTypeOK
  <1>2. \A t \in DOMAIN meeting[e].segments : meeting[e].segments[t] \in Qualities
    BY <1>1, MemoryAssumption
  <1> QED BY <1>2 DEF Segments, normalizeMeetingSegments, Qualities

LEMMA AcceptedIsSaid ==
  ASSUME MemoryTypeOK, NEW e \in Runs, NEW c, Accepted(c, e), mayCurate(e),
         analysis[e].participants = Participants(e),
         \A k \in analysis[e].claims : k.quality = evidenceQuality(k.evidence, Segments(e))
  PROVE  FromMeeting(Entry(c, e), e)
  <1> DEFINE n == Entry(c, e)
  <1>1. /\ n.type = c.type /\ n.key = c.key /\ n.content = c.content
        /\ n.claims = c.claims /\ n.evidence = c.evidence
    BY DEF Entry
  <1> HIDE DEF n
  <1>2. analysis[e].validated /\ gate[e] = "pass" /\ meeting[e].curates
    BY DEF mayCurate
  <1>3. CASE c.type = "participant_identity"
    <2>1. participantIdentityValid(c, buildParticipantMap(meeting[e].speakers, meeting[e].named))
      BY <1>3 DEF Accepted, Participants
    <2>2. c.key \in meeting[e].named \cap meeting[e].speakers /\ c.key \in Words[c.content]
      BY <2>1 DEF participantIdentityValid, buildParticipantMap
    <2> QED BY <1>1, <1>2, <1>3, <2>2 DEF FromMeeting, n
  <1>4. CASE c.type # "participant_identity"
    <2> DEFINE cited == {k \in analysis[e].claims : k.text \in c.claims}
               shared == {w \in Words[c.content] : \E k \in cited : w \in Words[k.text]}
    <2>1. Grounded(c, analysis[e].claims) /\ c.evidence \subseteq DOMAIN Segments(e)
      BY <1>4 DEF Accepted
    <2>2. /\ c.evidence # {} /\ c.evidence \subseteq UNION {k.evidence : k \in cited}
          /\ contentGroundedInClaims(c.content, cited)
      BY <2>1 DEF Grounded, Cited
    <2>3. \A k \in cited : k.quality = "ready" /\ k.status # "unresolved"
      BY <2>1 DEF Grounded, Cited
    <2>4. ASSUME NEW k \in cited, NEW s \in k.evidence \cap DOMAIN Segments(e)
          PROVE  Segments(e)[s] = "ready"
      <3>1. evidenceQuality(k.evidence, Segments(e)) = "ready"
        BY <2>3
      <3> QED BY <3>1, ReadyIsClear, SegmentsAreHeard
    <2>5. Words[c.content] # {} /\ 2 * Cardinality(shared) >= Cardinality(Words[c.content])
      <3>1. shared = Words[c.content] \cap UNION {Words[k.text] : k \in cited}
        OBVIOUS
      <3> QED BY <2>2, <3>1 DEF contentGroundedInClaims
    <2> QED BY <1>1, <1>2, <1>4, <2>1, <2>2, <2>3, <2>4, <2>5 DEF FromMeeting, n
  <1> QED BY <1>3, <1>4


-----------------------------------------------------------------------------
(* What a step leaves alone.                                               *)

(* A meeting whose memories are being written is over: its analysis and    *)
(* its gate do not change.                                                 *)
Past(r) ==
    stage[r] \notin Early =>
        stage'[r] \notin Early /\ analysis'[r] = analysis[r] /\ gate'[r] = gate[r]

LEMMA UnderstandPast ==
  ASSUME MemoryTypeOK, NEW e \in Runs, Understand(e), NEW r \in Runs
  PROVE  Past(r) /\ meeting' = meeting
  <1>1. CASE understandMeeting(e)
    BY <1>1 DEF understandMeeting, MemoryTypeOK, Enters, Past, Early
  <1>2. CASE executeMeetingAgenticOrchestration(e)
    BY <1>2 DEF executeMeetingAgenticOrchestration, MemoryTypeOK, Enters, Past, Early
  <1>3. CASE checkMinutes(e)
    BY <1>3 DEF checkMinutes, MemoryTypeOK, Enters, Past, Early
  <1>4. CASE runMeetingMemoryCuration(e)
    <2>1. /\ stage[e] = "curate" /\ UNCHANGED <<meeting, understanding>>
          /\ \E t \in {"end", "lock"} : Enters(e, t)
      BY <1>4 DEF runMeetingMemoryCuration, Ends
    <2> QED BY <2>1 DEF MemoryTypeOK, Enters, Past, Early, understanding
  <1> QED BY <1>1, <1>2, <1>3, <1>4 DEF Understand

LEMMA LaterPast ==
  ASSUME MemoryTypeOK, NEW e \in Runs, NEW t, t \notin Early, Enters(e, t),
         UNCHANGED <<analysis, gate>>, NEW r \in Runs
  PROVE  Past(r)
  BY DEF MemoryTypeOK, Enters, Past

LEMMA LaterEnters ==
  ASSUME NEW e \in Runs, Lock(e) \/ Persist(e) \/ Fails(e) \/ Dies(e)
  PROVE  /\ UNCHANGED <<meeting, understanding>>
         /\ UNCHANGED stage \/ \E t : t \notin Early /\ Enters(e, t)
  <1>1. CASE Lock(e)
    BY <1>1 DEF Lock, createLock, statLock, stealLock, Ends, Early
  <1>2. CASE Persist(e)
    <2>1. CASE persistMeetingMemory(e)
      BY <2>1, AfterLedgerStage DEF persistMeetingMemory, Early
    <2>2. CASE replaceLedger(e)
      BY <2>2, AfterLedgerStage DEF replaceLedger, Early
    <2>3. CASE readLedger(e) \/ rereadLedger(e)
      BY <2>3 DEF readLedger, rereadLedger, Early
    <2>4. CASE replaceConflicts(e) \/ showMemory(e)
      BY <2>4 DEF replaceConflicts, showMemory, Early
    <2>5. CASE unlock(e)
      BY <2>5 DEF unlock, Ends, Early
    <2> QED BY <1>2, <2>1, <2>2, <2>3, <2>4, <2>5 DEF Persist
  <1>3. CASE Fails(e) \/ Dies(e)
    BY <1>3 DEF Fails, Dies, Early
  <1> QED BY <1>1, <1>2, <1>3

LEMMA EveryPast ==
  ASSUME MemoryTypeOK, [NextMemory]_memoryVars, NEW r \in Runs
  PROVE  Past(r) /\ meeting' = meeting
  <1>1. CASE UNCHANGED <<meeting, stage, analysis, gate>>
    BY <1>1 DEF Past
  <1>2. CASE Age \/ UNCHANGED memoryVars
    <2>1. UNCHANGED <<meeting, stage, analysis, gate>>
      BY <1>2 DEF Age, memoryVars, understanding
    <2> QED BY <1>1, <2>1
  <1>3. ASSUME NEW e \in Runs, Lock(e) \/ Persist(e) \/ Fails(e) \/ Dies(e)
        PROVE  Past(r) /\ meeting' = meeting
    <2>1. UNCHANGED <<meeting, analysis, gate>>
      BY <1>3, LaterEnters DEF understanding
    <2>2. UNCHANGED stage \/ \E t : t \notin Early /\ Enters(e, t)
      BY <1>3, LaterEnters
    <2> QED BY <1>1, <2>1, <2>2, LaterPast
  <1> QED BY <1>2, <1>3, UnderstandPast DEF NextMemory

LEMMA StillSettled ==
  ASSUME MemoryTypeOK, [NextMemory]_memoryVars, NEW n, Settled(n)
  PROVE  Settled(n)'
  <1>1. SUFFICES ASSUME n.run \in Runs PROVE stage'[n.run] \notin Early /\ FromMeeting(n, n.run)'
    BY DEF Settled
  <1>2. stage[n.run] \notin Early /\ FromMeeting(n, n.run)
    BY <1>1 DEF Settled
  <1>3. /\ stage'[n.run] \notin Early /\ analysis'[n.run] = analysis[n.run]
        /\ gate'[n.run] = gate[n.run] /\ meeting' = meeting
    BY <1>1, <1>2, EveryPast DEF Past
  <1> QED BY <1>2, <1>3 DEF FromMeeting, Segments

(* A meeting that is being reviewed was understood by itself.              *)
LEMMA UnderstoodStep ==
  ASSUME MemoryTypeOK, Understood, [NextMemory]_memoryVars
  PROVE  Understood'
  <1> SUFFICES ASSUME NEW r \in Runs, stage'[r] \in Early \ {"understand"}
               PROVE  /\ analysis'[r].participants = Participants(r)'
                      /\ \A k \in analysis'[r].claims :
                            k.quality = evidenceQuality(k.evidence, Segments(r)')
    BY DEF Understood
  <1>0. meeting' = meeting
    BY EveryPast
  <1>1. Participants(r)' = Participants(r) /\ Segments(r)' = Segments(r)
    BY <1>0 DEF Participants, Segments
  <1>2. CASE analysis'[r] = analysis[r] /\ stage[r] \in Early \ {"understand"}
    BY <1>1, <1>2 DEF Understood
  <1>3. CASE UNCHANGED <<stage, analysis>>
    BY <1>2, <1>3
  <1>4. CASE Age \/ UNCHANGED memoryVars
    BY <1>3, <1>4 DEF Age, memoryVars, understanding
  <1>5. ASSUME NEW e \in Runs, Lock(e) \/ Persist(e) \/ Fails(e) \/ Dies(e)
        PROVE  analysis'[r] = analysis[r] /\ stage[r] \in Early \ {"understand"}
    <2>1. UNCHANGED analysis
      BY <1>5, LaterEnters DEF understanding
    <2>2. CASE UNCHANGED stage
      BY <2>1, <2>2
    <2>3. ASSUME NEW t, t \notin Early, Enters(e, t) PROVE stage[r] \in Early \ {"understand"}
      BY <2>3 DEF Enters, MemoryTypeOK
    <2> QED BY <1>5, <2>1, <2>2, <2>3, LaterEnters
  <1>6. ASSUME NEW e \in Runs, Understand(e), e # r
        PROVE  analysis'[r] = analysis[r] /\ stage[r] \in Early \ {"understand"}
    <2>1. CASE understandMeeting(e)
      BY <1>6, <2>1 DEF understandMeeting, Enters, MemoryTypeOK
    <2>2. CASE executeMeetingAgenticOrchestration(e) \/ checkMinutes(e)
      BY <1>6, <2>2 DEF executeMeetingAgenticOrchestration, checkMinutes, Enters, MemoryTypeOK
    <2>3. CASE runMeetingMemoryCuration(e)
      <3>1. UNCHANGED understanding /\ \E t \in {"end", "lock"} : Enters(e, t)
        BY <2>3 DEF runMeetingMemoryCuration, Ends
      <3> QED BY <1>6, <3>1 DEF Enters, MemoryTypeOK, understanding
    <2> QED BY <1>6, <2>1, <2>2, <2>3 DEF Understand
  <1>7. CASE understandMeeting(r)
    <2>1. PICK answer : analysis' = [analysis EXCEPT ![r] =
              normalizeMeetingAnalysisResponse(answer, Segments(r), Participants(r))]
      BY <1>7 DEF understandMeeting
    <2>2. analysis'[r] = normalizeMeetingAnalysisResponse(answer, Segments(r), Participants(r))
      BY <2>1 DEF MemoryTypeOK
    <2> QED BY <1>1, <2>2, AnalysisIsRight
  <1>8. CASE executeMeetingAgenticOrchestration(r) \/ checkMinutes(r)
    BY <1>2, <1>8 DEF executeMeetingAgenticOrchestration, checkMinutes, Early
  <1>9. CASE runMeetingMemoryCuration(r)
    <2>1. \E t \in {"end", "lock"} : Enters(r, t)
      BY <1>9 DEF runMeetingMemoryCuration, Ends
    <2> QED BY <2>1 DEF Enters, MemoryTypeOK, Early
  <1> QED BY <1>2, <1>4, <1>5, <1>6, <1>7, <1>8, <1>9 DEF NextMemory, Understand


-----------------------------------------------------------------------------
(* Whatever is written down has been proposed and accepted before.         *)

LEMMA SaidBy ==
  ASSUME NEW e \in Runs, NEW S, Said \subseteq S, \A r \in Runs \ {e} : work'[r] = work[r],
         InWork(work'[e]) \subseteq S, In(memoryLedger') \subseteq S, memory' \subseteq S
  PROVE  Said' \subseteq S
  <1>1. \A r \in Runs : InWork(work'[r]) \subseteq S
    <2> SUFFICES ASSUME NEW r \in Runs, r # e PROVE InWork(work'[r]) \subseteq S
      OBVIOUS
    <2>1. work'[r] = work[r] /\ InWork(work[r]) \subseteq Said
      BY DEF Said
    <2> QED BY <2>1
  <1> QED BY <1>1 DEF Said

LEMMA SaidSame ==
  ASSUME UNCHANGED <<work, memoryLedger, memory>>
  PROVE  Said' = Said
  BY DEF Said

LEMMA PersistSays ==
  ASSUME MemoryTypeOK, NEW e \in Runs, Persist(e)
  PROVE  Said' \subseteq Said
  <1>w. work[e] \in WorkRecords
    BY DEF MemoryTypeOK
  <1>s. In(memoryLedger) \subseteq Said /\ memory \subseteq Said /\ InWork(work[e]) \subseteq Said
    BY DEF Said
  <1>1. CASE readLedger(e)
    <2>1. UNCHANGED files /\ work' = [work EXCEPT ![e].existing = memoryLedger]
      BY <1>1 DEF readLedger
    <2>2. /\ \A r \in Runs \ {e} : work'[r] = work[r]
          /\ work'[e].existing = memoryLedger
          /\ work'[e].found = work[e].found /\ work'[e].fresh = work[e].fresh
          /\ work'[e].base = work[e].base
      BY <2>1, ReadWork
    <2>3. InWork(work'[e]) \subseteq Said
      BY <1>s, <2>2 DEF InWork
    <2> QED BY <1>s, <2>1, <2>2, <2>3, SaidBy DEF files
  <1>2. CASE persistMeetingMemory(e)
    <2>1. UNCHANGED files
      BY <1>2 DEF persistMeetingMemory
    <2>2. CASE UNCHANGED work
      BY <2>1, <2>2, SaidSame DEF files
    <2>3. CASE work[e].next <= Len(work[e].found)
      <3>1. work' = [work EXCEPT ![e] =
                        [persist(work[e], work[e].found[work[e].next]) EXCEPT !.next = @ + 1]]
        BY <1>2, <2>3 DEF persistMeetingMemory
      <3>2. /\ \A r \in Runs \ {e} : work'[r] = work[r]
            /\ work'[e].found = work[e].found /\ work'[e].base = work[e].base
            /\ \/ work'[e].existing = work[e].existing /\ work'[e].fresh = work[e].fresh
               \/ \E c \in Entries :
                    /\ c \in In(work[e].found) \ {Rejected}
                    /\ work'[e].existing = Append(work[e].existing, c)
                    /\ work'[e].fresh = Append(work[e].fresh, c)
        BY <2>3, <3>1, PersistWork
      <3>3. In(work'[e].existing) \subseteq Said /\ In(work'[e].fresh) \subseteq Said
        <4>1. CASE work'[e].existing = work[e].existing /\ work'[e].fresh = work[e].fresh
          BY <4>1, <1>s DEF InWork
        <4>2. ASSUME NEW c \in Entries, c \in In(work[e].found) \ {Rejected},
                     work'[e].existing = Append(work[e].existing, c),
                     work'[e].fresh = Append(work[e].fresh, c)
              PROVE  In(work'[e].existing) \subseteq Said /\ In(work'[e].fresh) \subseteq Said
          <5>1. /\ In(work'[e].existing) = In(work[e].existing) \cup {c}
                /\ In(work'[e].fresh) = In(work[e].fresh) \cup {c}
            BY <4>2, <1>w, InAppend DEF WorkRecords
          <5> QED BY <4>2, <5>1, <1>s DEF InWork
        <4> QED BY <3>2, <4>1, <4>2
      <3>4. InWork(work'[e]) \subseteq Said
        BY <1>s, <3>2, <3>3 DEF InWork
      <3> QED BY <1>s, <2>1, <3>2, <3>4, SaidBy DEF files
    <2> QED BY <1>2, <2>2, <2>3 DEF persistMeetingMemory
  <1>3. CASE rereadLedger(e)
    <2>1. UNCHANGED files /\ work' = [work EXCEPT ![e].base = memoryLedger]
      BY <1>3 DEF rereadLedger
    <2>2. /\ \A r \in Runs \ {e} : work'[r] = work[r]
          /\ work'[e].base = memoryLedger
          /\ work'[e].found = work[e].found /\ work'[e].fresh = work[e].fresh
          /\ work'[e].existing = work[e].existing
      BY <2>1, RereadWork
    <2>3. InWork(work'[e]) \subseteq Said
      BY <1>s, <2>2 DEF InWork
    <2> QED BY <1>s, <2>1, <2>2, <2>3, SaidBy DEF files
  <1>4. CASE replaceLedger(e)
    <2>1. memoryLedger' = work[e].base \o work[e].fresh /\ UNCHANGED <<work, memory>>
      BY <1>4 DEF replaceLedger
    <2>2. In(memoryLedger') = In(work[e].base) \cup In(work[e].fresh)
      BY <2>1, <1>w, InConcat DEF WorkRecords
    <2>3. In(memoryLedger') \subseteq Said
      BY <2>2, <1>s DEF InWork
    <2> QED BY <1>s, <2>1, <2>3, SaidBy
  <1>5. CASE replaceConflicts(e)
    BY <1>5, SaidSame DEF replaceConflicts
  <1>6. CASE showMemory(e)
    <2>1. memory' = renderMemory(work[e].existing) /\ UNCHANGED <<work, memoryLedger>>
      BY <1>6 DEF showMemory
    <2>2. memory' \subseteq Said
      BY <2>1, <1>s, ShownIsIn DEF InWork
    <2> QED BY <1>s, <2>1, <2>2, SaidBy
  <1>7. CASE unlock(e)
    BY <1>7, SaidSame DEF unlock, files
  <1> QED BY <1>1, <1>2, <1>3, <1>4, <1>5, <1>6, <1>7 DEF Persist

(* What a curation adds is what it accepts.                                *)
LEMMA CurationSays ==
  ASSUME MemoryTypeOK, Understood, AllSettled, [NextMemory]_memoryVars,
         NEW e \in Runs, runMeetingMemoryCuration(e)
  PROVE  AllSettled'
  <1>0. UNCHANGED files
    BY DEF runMeetingMemoryCuration
  <1>1. \A n \in Said : Settled(n)'
    BY StillSettled DEF AllSettled
  <1>2. CASE UNCHANGED work
    <2>1. Said' = Said
      BY <1>0, <1>2, SaidSame DEF files
    <2> QED BY <1>1, <2>1 DEF AllSettled
  <1>3. ASSUME NEW payload \in Payloads, mayCurate(e), Enters(e, "lock"), stage[e] = "curate",
               work' = [work EXCEPT ![e].found = reconcileMeetingMemoryCandidates(payload, e)]
        PROVE  AllSettled'
    <2> DEFINE found == reconcileMeetingMemoryCandidates(payload, e)
               New == In(found) \ {Rejected}
    <2>1. ASSUME NEW n \in New PROVE Settled(n)'
      <3>1. PICK i \in DOMAIN found : n = found[i]
        BY DEF In
      <3>2. Accepted(payload[i], e) /\ n = Entry(payload[i], e)
        BY <3>1 DEF reconcileMeetingMemoryCandidates
      <3>3. FromMeeting(n, e)
        BY <1>3, <3>2, AcceptedIsSaid DEF Understood, Early
      <3>4. n.run = e
        BY <3>2 DEF Entry
      <3>5. meeting' = meeting /\ analysis' = analysis /\ gate' = gate
        BY DEF runMeetingMemoryCuration, understanding
      <3>6. stage'[e] \notin Early
        BY <1>3 DEF Enters, MemoryTypeOK, Early
      <3>7. FromMeeting(n, e)'
        BY <3>3, <3>5 DEF FromMeeting, Segments
      <3> QED BY <3>4, <3>6, <3>7 DEF Settled
    <2>2. /\ \A r \in Runs \ {e} : work'[r] = work[r]
          /\ work'[e].found = found
          /\ work'[e].existing = work[e].existing /\ work'[e].fresh = work[e].fresh
          /\ work'[e].base = work[e].base
      BY <1>3, CurationWork
    <2> HIDE DEF found
    <2>3. InWork(work'[e]) \subseteq Said \cup New
      <3>1. InWork(work[e]) \subseteq Said
        BY DEF Said
      <3> QED BY <2>2, <3>1 DEF InWork
    <2>4. In(memoryLedger') \subseteq Said \cup New /\ memory' \subseteq Said \cup New
      BY <1>0 DEF Said, files
    <2>5. Said' \subseteq Said \cup New
      BY <2>2, <2>3, <2>4, SaidBy
    <2> QED BY <1>1, <2>1, <2>5 DEF AllSettled
  <1> QED BY <1>2, <1>3 DEF runMeetingMemoryCuration

LEMMA SettledStep ==
  ASSUME MemoryTypeOK, Understood, AllSettled, [NextMemory]_memoryVars
  PROVE  AllSettled'
  <1>1. \A n \in Said : Settled(n)'
    BY StillSettled DEF AllSettled
  <1>2. CASE Said' \subseteq Said
    BY <1>1, <1>2 DEF AllSettled
  <1>3. CASE Age \/ UNCHANGED memoryVars
    BY <1>2, <1>3, SaidSame DEF Age, memoryVars, files
  <1>4. ASSUME NEW e \in Runs, Lock(e) PROVE Said' \subseteq Said
    BY <1>4, SaidSame DEF Lock, createLock, statLock, stealLock, files
  <1>5. ASSUME NEW e \in Runs, Fails(e) \/ Dies(e) PROVE Said' \subseteq Said
    BY <1>5, SaidSame DEF Fails, Dies, files
  <1>6. ASSUME NEW e \in Runs,
               understandMeeting(e) \/ executeMeetingAgenticOrchestration(e) \/ checkMinutes(e)
        PROVE  Said' \subseteq Said
    BY <1>6, SaidSame DEF understandMeeting, executeMeetingAgenticOrchestration,
       checkMinutes, files
  <1> QED BY <1>2, <1>3, <1>4, <1>5, <1>6, PersistSays, CurationSays DEF NextMemory, Understand


-----------------------------------------------------------------------------
(* The shared memory is one.                                               *)

Elsewhere(e) == \A r \in Runs \ {e} :
    stage'[r] = stage[r] /\ work'[r] = work[r] /\ result'[r] = result[r]
OthersOutside(e) == \A r \in Runs \ {e} : stage[r] \notin Inside

(* A step that neither writes the ledger nor shows it.                     *)
LEMMA StepKeeps ==
  ASSUME MemoryTypeOK, OneMemory, NEW e \in Runs, Elsewhere(e), UNCHANGED <<memoryLedger, memory>>,
         lost => lost', ~lost' => lockFile' = lockFile \/ OthersOutside(e),
         torn \/ HalfDone(e) => torn' \/ HalfDone(e)', RunOK(e)'
  PROVE  OneMemory'
  <1>1. ASSUME NEW r \in Runs, r # e PROVE RunOK(r)'
    <2>1. stage'[r] = stage[r] /\ work'[r] = work[r] /\ result'[r] = result[r] /\ RunOK(r)
      BY <1>1 DEF Elsewhere, OneMemory
    <2>2. HoldsLock(r)'
      BY <1>1, <2>1 DEF RunOK, HoldsLock, OthersOutside
    <2>3. KnowsLedger(r)'
      BY <2>1 DEF RunOK, KnowsLedger, Adding
    <2>4. KeepsFresh(r)'
      BY <2>1 DEF RunOK, KeepsFresh, Written, Reported
    <2> QED BY <2>2, <2>3, <2>4 DEF RunOK
  <1>2. ~lost' => Distinct(memoryLedger')
    BY DEF OneMemory
  <1>3. Shows'
    <2> SUFFICES ASSUME ~lost', ~torn', \A r \in Runs : ~HalfDone(r)'
                 PROVE  memory = renderMemory(memoryLedger)
      BY DEF Shows
    <2>1. ASSUME NEW r \in Runs, r # e PROVE ~HalfDone(r)
      BY <2>1 DEF HalfDone, Elsewhere
    <2>2. ~torn /\ ~HalfDone(e)
      OBVIOUS
    <2> QED BY <2>1, <2>2 DEF OneMemory, Shows
  <1> QED BY <1>1, <1>2, <1>3 DEF OneMemory

(* A run that is not inside has nothing to show for it.                    *)
LEMMA OutsideOK ==
  ASSUME NEW e \in Runs, stage'[e] \in (Before \ {"read"}) \cup {"end", "crashed"},
         stage'[e] \in Before => work'[e].fresh = <<>>, ~Reported(e)'
  PROVE  RunOK(e)'
  <1>1. /\ stage'[e] \notin Inside /\ stage'[e] \notin Reading /\ stage'[e] \notin Writing
        /\ stage'[e] \notin {"replace", "conflict", "show", "unlock"}
    BY DEF Before, Early, Inside, Reading, Writing
  <1> QED BY <1>1 DEF RunOK, HoldsLock, KnowsLedger, KeepsFresh, Written

LEMMA EarlyKeeps ==
  ASSUME MemoryTypeOK, OneMemory, NEW e \in Runs, Elsewhere(e),
         UNCHANGED <<lockFile, memoryLedger, memory, history>>,
         stage[e] \in Before \ {"read"}, stage'[e] \in (Before \ {"read"}) \cup {"end"},
         work'[e].fresh = work[e].fresh,
         result'[e] = result[e] \/ result'[e] \in {"skipped", "blocked"}
  PROVE  OneMemory'
  <1>1. RunOK(e)
    BY DEF OneMemory
  <1>2. work[e].fresh = <<>>
    BY <1>1 DEF RunOK, KeepsFresh
  <1>3. ~Reported(e)
    BY <1>1 DEF RunOK, KeepsFresh, Before, Early
  <1>4. RunOK(e)'
    BY <1>2, <1>3, OutsideOK DEF Reported
  <1>5. ~HalfDone(e)
    BY DEF HalfDone, Before, Early
  <1> QED BY <1>4, <1>5, StepKeeps DEF history

LEMMA UnderstandKeeps ==
  ASSUME MemoryTypeOK, OneMemory, NEW e \in Runs, Understand(e)
  PROVE  OneMemory'
  <1>1. CASE understandMeeting(e)
    <2>1. /\ UNCHANGED <<work, result, lockFile, memoryLedger, memory, history>>
          /\ stage[e] = "understand" /\ Enters(e, "review")
      BY <1>1 DEF understandMeeting, files
    <2>2. Elsewhere(e) /\ stage'[e] = "review"
      BY <2>1 DEF Elsewhere, Enters, MemoryTypeOK
    <2> QED BY <2>1, <2>2, EarlyKeeps DEF Before, Early
  <1>2. CASE executeMeetingAgenticOrchestration(e)
    <2>1. /\ UNCHANGED <<work, result, lockFile, memoryLedger, memory, history>>
          /\ stage[e] = "review" /\ Enters(e, "check")
      BY <1>2 DEF executeMeetingAgenticOrchestration, files
    <2>2. Elsewhere(e) /\ stage'[e] = "check"
      BY <2>1 DEF Elsewhere, Enters, MemoryTypeOK
    <2> QED BY <2>1, <2>2, EarlyKeeps DEF Before, Early
  <1>3. CASE checkMinutes(e)
    <2>1. /\ UNCHANGED <<work, result, lockFile, memoryLedger, memory, history>>
          /\ stage[e] = "check" /\ Enters(e, "curate")
      BY <1>3 DEF checkMinutes, files
    <2>2. Elsewhere(e) /\ stage'[e] = "curate"
      BY <2>1 DEF Elsewhere, Enters, MemoryTypeOK
    <2> QED BY <2>1, <2>2, EarlyKeeps DEF Before, Early
  <1>4. CASE runMeetingMemoryCuration(e)
    <2>1. UNCHANGED <<lockFile, memoryLedger, memory, history>> /\ stage[e] = "curate"
      BY <1>4 DEF runMeetingMemoryCuration, files
    <2>2. ASSUME NEW r \in {"skipped", "blocked"}, Ends(e, r), UNCHANGED work PROVE OneMemory'
      <3>1. Elsewhere(e) /\ stage'[e] = "end" /\ result'[e] = r
        BY <2>2 DEF Elsewhere, Enters, Ends, MemoryTypeOK
      <3> QED BY <2>1, <2>2, <3>1, EarlyKeeps DEF Before, Early
    <2>3. ASSUME NEW payload \in Payloads, Enters(e, "lock"), UNCHANGED result,
                 work' = [work EXCEPT ![e].found = reconcileMeetingMemoryCandidates(payload, e)]
          PROVE  OneMemory'
      <3>1. work'[e].fresh = work[e].fresh /\ \A r \in Runs \ {e} : work'[r] = work[r]
        BY <2>3, CurationWork
      <3>2. Elsewhere(e) /\ stage'[e] = "lock"
        BY <2>3, <3>1 DEF Elsewhere, Enters, MemoryTypeOK
      <3> QED BY <2>1, <2>3, <3>1, <3>2, EarlyKeeps DEF Before, Early
    <2> QED BY <1>4, <2>2, <2>3 DEF runMeetingMemoryCuration
  <1> QED BY <1>1, <1>2, <1>3, <1>4 DEF Understand

(* A lock that is removed although another is at work under it is lost.    *)
LEMMA RemovesAlone ==
  ASSUME MemoryTypeOK, OneMemory, NEW e \in Runs, Removes(e)
  PROVE  (lost => lost') /\ (~lost' => OthersOutside(e))
  <1>1. lost' = (lost \/ (lockFile.by # e /\ AtWork(lockFile.by)))
    BY DEF Removes
  <1>2. ASSUME ~lost', NEW r \in Runs \ {e}, stage[r] \in Inside PROVE FALSE
    <2>1. ~lost
      BY <1>1, <1>2
    <2>2. lockFile.by = r
      BY <1>2, <2>1 DEF OneMemory, RunOK, HoldsLock
    <2> QED BY <1>1, <1>2, <2>2 DEF AtWork
  <1> QED BY <1>1, <1>2 DEF OthersOutside

LEMMA LockKeeps ==
  ASSUME MemoryTypeOK, OneMemory, NEW e \in Runs, Lock(e)
  PROVE  OneMemory'
  <1>0. RunOK(e)
    BY DEF OneMemory
  <1>1. CASE createLock(e)
    <2>1. UNCHANGED <<work, result, memoryLedger, memory, history>> /\ stage[e] = "lock"
      BY <1>1 DEF createLock, files
    <2>2. CASE lockFile = NoLock
      <3>1. lockFile' = [by |-> e, old |-> FALSE] /\ Enters(e, "read")
        BY <1>1, <2>2 DEF createLock
      <3>2. Elsewhere(e) /\ stage'[e] = "read"
        BY <2>1, <3>1 DEF Elsewhere, Enters, MemoryTypeOK
      <3>3. ~lost => OthersOutside(e)
        BY <2>2 DEF OthersOutside, OneMemory, RunOK, HoldsLock
      <3>4. lockFile' # NoLock /\ lockFile'.by = e
        <4>1. e # None
          BY MemoryAssumption
        <4> QED BY <3>1, <4>1 DEF NoLock
      <3>5. HoldsLock(e)'
        BY <3>4 DEF HoldsLock
      <3>6. KnowsLedger(e)'
        BY <3>2 DEF KnowsLedger, Reading, Writing
      <3>7. work[e].fresh = <<>> /\ ~Reported(e)
        BY <1>0, <2>1 DEF RunOK, KeepsFresh, Before
      <3>8. KeepsFresh(e)'
        BY <2>1, <3>2, <3>7 DEF KeepsFresh, Written, Reported
      <3>9. ~HalfDone(e)
        BY <2>1 DEF HalfDone
      <3> QED BY <2>1, <3>2, <3>3, <3>5, <3>6, <3>8, <3>9, StepKeeps DEF RunOK, history
    <2>3. CASE lockFile # NoLock
      <3>1. UNCHANGED lockFile /\ Enters(e, "stat")
        BY <1>1, <2>3 DEF createLock
      <3>2. Elsewhere(e) /\ stage'[e] = "stat"
        BY <2>1, <3>1 DEF Elsewhere, Enters, MemoryTypeOK
      <3> QED BY <2>1, <3>1, <3>2, EarlyKeeps DEF Before
    <2> QED BY <2>2, <2>3
  <1>2. CASE statLock(e)
    <2>1. UNCHANGED <<work, lockFile, memoryLedger, memory, history>> /\ stage[e] = "stat"
      BY <1>2 DEF statLock, files
    <2>2. ASSUME NEW s \in {"steal", "lock"}, Enters(e, s), UNCHANGED result PROVE OneMemory'
      <3>1. Elsewhere(e) /\ stage'[e] = s
        BY <2>1, <2>2 DEF Elsewhere, Enters, MemoryTypeOK
      <3> QED BY <2>1, <2>2, <3>1, EarlyKeeps DEF Before
    <2>3. ASSUME Ends(e, "blocked") PROVE OneMemory'
      <3>1. Elsewhere(e) /\ stage'[e] = "end" /\ result'[e] = "blocked"
        BY <2>1, <2>3 DEF Elsewhere, Enters, Ends, MemoryTypeOK
      <3> QED BY <2>1, <3>1, EarlyKeeps DEF Before
    <2> QED BY <1>2, <2>2, <2>3 DEF statLock
  <1>3. CASE stealLock(e)
    <2>1. /\ UNCHANGED <<work, result, memoryLedger, memory, torn>> /\ stage[e] = "steal"
          /\ Enters(e, "lock") /\ Removes(e)
      BY <1>3 DEF stealLock, files
    <2>2. Elsewhere(e) /\ stage'[e] = "lock"
      BY <2>1 DEF Elsewhere, Enters, MemoryTypeOK
    <2>3. work[e].fresh = <<>> /\ ~Reported(e)
      BY <1>0, <2>1 DEF RunOK, KeepsFresh, Before
    <2>4. RunOK(e)'
      BY <2>1, <2>2, <2>3, OutsideOK DEF Before, Reported
    <2>5. ~HalfDone(e)
      BY <2>1 DEF HalfDone
    <2> QED BY <2>1, <2>2, <2>4, <2>5, RemovesAlone, StepKeeps
  <1> QED BY <1>1, <1>2, <1>3 DEF Lock


(* A step under the lock by which a run goes on to write.                  *)
LEMMA InsideKeeps ==
  ASSUME MemoryTypeOK, OneMemory, NEW e \in Runs, Elsewhere(e),
         UNCHANGED <<lockFile, memoryLedger, memory, history, result>>,
         stage[e] \in Inside \ {"unlock"}, stage'[e] \in Inside,
         HalfDone(e) => HalfDone(e)', KnowsLedger(e)', KeepsFresh(e)'
  PROVE  OneMemory'
  <1>1. HoldsLock(e)
    BY DEF OneMemory, RunOK
  <1>2. HoldsLock(e)'
    BY <1>1 DEF HoldsLock, history
  <1> QED BY <1>2, StepKeeps DEF RunOK, history

LEMMA ReadKeeps ==
  ASSUME MemoryTypeOK, OneMemory, NEW e \in Runs, readLedger(e)
  PROVE  OneMemory'
  <1>1. /\ UNCHANGED <<lockFile, memoryLedger, memory, history, result>> /\ stage[e] = "read"
        /\ Enters(e, "persist") /\ work' = [work EXCEPT ![e].existing = memoryLedger]
    BY DEF readLedger, files
  <1>2. /\ \A r \in Runs \ {e} : work'[r] = work[r]
        /\ work'[e].existing = memoryLedger /\ work'[e].fresh = work[e].fresh
    BY <1>1, ReadWork
  <1>3. Elsewhere(e) /\ stage'[e] = "persist"
    BY <1>1, <1>2 DEF Elsewhere, Enters, MemoryTypeOK
  <1>4. RunOK(e)
    BY DEF OneMemory
  <1>5. work[e].fresh = <<>> /\ ~Reported(e)
    BY <1>1, <1>4 DEF RunOK, KeepsFresh, Before
  <1>6. memoryLedger \o <<>> = memoryLedger
    BY ConcatEmptySeq DEF MemoryTypeOK
  <1>7. KnowsLedger(e)'
    BY <1>1, <1>2, <1>3, <1>5, <1>6 DEF KnowsLedger, Adding, OneMemory, Writing, history
  <1>8. KeepsFresh(e)'
    BY <1>1, <1>3, <1>5 DEF KeepsFresh, Written, Reported, Before, Early
  <1>9. ~HalfDone(e)
    BY <1>1 DEF HalfDone
  <1> QED BY <1>1, <1>3, <1>7, <1>8, <1>9, InsideKeeps DEF Inside

(* A candidate that is added is added to what is there and to what is new. *)
LEMMA AddingKept ==
  ASSUME MemoryTypeOK, NEW e \in Runs, Adding(e), UNCHANGED memoryLedger, work' \in [Runs -> WorkRecords],
         \/ work'[e].existing = work[e].existing /\ work'[e].fresh = work[e].fresh
         \/ \E c \in Entries :
               /\ work'[e].existing = Append(work[e].existing, c)
               /\ work'[e].fresh = Append(work[e].fresh, c)
               /\ \A i \in DOMAIN work[e].existing : work[e].existing[i].key # c.key
  PROVE  Adding(e)'
  <1>1. CASE work'[e].existing = work[e].existing /\ work'[e].fresh = work[e].fresh
    BY <1>1 DEF Adding
  <1>2. ASSUME NEW c \in Entries,
               work'[e].existing = Append(work[e].existing, c),
               work'[e].fresh = Append(work[e].fresh, c),
               \A i \in DOMAIN work[e].existing : work[e].existing[i].key # c.key
        PROVE  Adding(e)'
    <2>1. memoryLedger \in Seq(Entries) /\ work[e].fresh \in Seq(Entries) /\ work[e].existing \in Seq(Entries)
      BY DEF MemoryTypeOK, WorkRecords
    <2>2. work'[e].existing = memoryLedger \o work'[e].fresh
      <3>1. Append(memoryLedger \o work[e].fresh, c) = memoryLedger \o Append(work[e].fresh, c)
        BY <1>2, <2>1, AppendToConcat
      <3>2. work[e].existing = memoryLedger \o work[e].fresh
        BY DEF Adding
      <3> QED BY <1>2, <3>1, <3>2
    <2>3. Distinct(work'[e].existing)
      BY <1>2, <2>1, DistinctAppend DEF Adding
    <2> QED BY <2>2, <2>3 DEF Adding
  <1> QED BY <1>1, <1>2

LEMMA CandidateKeeps ==
  ASSUME MemoryTypeOK, OneMemory, NEW e \in Runs, persistMeetingMemory(e)
  PROVE  OneMemory'
  <1>1. UNCHANGED <<lockFile, memoryLedger, memory, history, result>> /\ stage[e] = "persist"
    BY DEF persistMeetingMemory, files
  <1>2. RunOK(e)
    BY DEF OneMemory
  <1>3. ~Reported(e) /\ ~HalfDone(e)
    BY <1>1, <1>2 DEF RunOK, KeepsFresh, HalfDone
  <1>4. ~lost => Adding(e)
    BY <1>1, <1>2 DEF RunOK, KnowsLedger, Reading
  <1>5. CASE work[e].next <= Len(work[e].found)
    <2>1. /\ UNCHANGED stage
          /\ work' = [work EXCEPT ![e] =
                        [persist(work[e], work[e].found[work[e].next]) EXCEPT !.next = @ + 1]]
      BY <1>5 DEF persistMeetingMemory
    <2>2. /\ work' \in [Runs -> WorkRecords]
          /\ \A r \in Runs \ {e} : work'[r] = work[r]
          /\ \/ work'[e].existing = work[e].existing /\ work'[e].fresh = work[e].fresh
             \/ \E c \in Entries :
                  /\ work'[e].existing = Append(work[e].existing, c)
                  /\ work'[e].fresh = Append(work[e].fresh, c)
                  /\ \A i \in DOMAIN work[e].existing : work[e].existing[i].key # c.key
      BY <1>5, <2>1, PersistWork
    <2>3. ~lost => Adding(e)'
      BY <1>1, <1>4, <2>2, AddingKept
    <2>4. Elsewhere(e) /\ stage'[e] = "persist"
      BY <1>1, <2>1, <2>2 DEF Elsewhere
    <2>5. KnowsLedger(e)'
      BY <1>1, <2>3, <2>4 DEF KnowsLedger, Writing, history
    <2>6. KeepsFresh(e)'
      BY <1>1, <1>3, <2>4 DEF KeepsFresh, Written, Reported, Before, Early
    <2> QED BY <1>1, <1>3, <2>4, <2>5, <2>6, InsideKeeps DEF Inside
  <1>6. CASE ~(work[e].next <= Len(work[e].found))
    <2>1. /\ UNCHANGED work
          /\ Enters(e, IF work[e].fresh # <<>> THEN "reread" ELSE AfterLedger(work[e]))
      BY <1>6 DEF persistMeetingMemory
    <2>2. CASE work[e].fresh # <<>>
      <3>1. Elsewhere(e) /\ stage'[e] = "reread"
        BY <1>1, <2>1, <2>2 DEF Elsewhere, Enters, MemoryTypeOK
      <3>2. KnowsLedger(e)'
        BY <1>1, <1>4, <2>1, <2>2, <3>1 DEF KnowsLedger, Adding, history
      <3>3. KeepsFresh(e)'
        BY <1>1, <1>3, <3>1 DEF KeepsFresh, Written, Reported, Before, Early
      <3> QED BY <1>1, <1>3, <3>1, <3>2, <3>3, InsideKeeps DEF Inside
    <2>3. CASE work[e].fresh = <<>>
      <3>1. Elsewhere(e) /\ stage'[e] \in {"conflict", "show", "unlock"}
        BY <1>1, <2>1, <2>3, AfterLedgerStage DEF Elsewhere, Enters, MemoryTypeOK
      <3>2. memoryLedger \o <<>> = memoryLedger
        BY ConcatEmptySeq DEF MemoryTypeOK
      <3>3. KnowsLedger(e)'
        BY <1>1, <1>4, <2>1, <2>3, <3>1, <3>2 DEF KnowsLedger, Adding, Reading, Writing, history
      <3>4. In(work'[e].fresh) = {}
        BY <2>1, <2>3, InEmpty
      <3>5. KeepsFresh(e)'
        BY <1>1, <1>3, <2>1, <2>3, <3>1, <3>4 DEF KeepsFresh, Written, Reported
      <3> QED BY <1>1, <1>3, <3>1, <3>3, <3>5, InsideKeeps DEF Inside
    <2> QED BY <2>2, <2>3
  <1> QED BY <1>5, <1>6

LEMMA RereadKeeps ==
  ASSUME MemoryTypeOK, OneMemory, NEW e \in Runs, rereadLedger(e)
  PROVE  OneMemory'
  <1>1. /\ UNCHANGED <<lockFile, memoryLedger, memory, history, result>> /\ stage[e] = "reread"
        /\ Enters(e, "replace") /\ work' = [work EXCEPT ![e].base = memoryLedger]
    BY DEF rereadLedger, files
  <1>2. /\ \A r \in Runs \ {e} : work'[r] = work[r]
        /\ work'[e].base = memoryLedger
        /\ work'[e].existing = work[e].existing /\ work'[e].fresh = work[e].fresh
    BY <1>1, RereadWork
  <1>3. Elsewhere(e) /\ stage'[e] = "replace"
    BY <1>1, <1>2 DEF Elsewhere, Enters, MemoryTypeOK
  <1>4. RunOK(e)
    BY DEF OneMemory
  <1>5. ~Reported(e) /\ ~HalfDone(e)
    BY <1>1, <1>4 DEF RunOK, KeepsFresh, HalfDone
  <1>6. KnowsLedger(e)'
    BY <1>1, <1>2, <1>3, <1>4 DEF RunOK, KnowsLedger, Adding, Reading, Writing, history
  <1>7. KeepsFresh(e)'
    BY <1>1, <1>3, <1>5 DEF KeepsFresh, Written, Reported, Before, Early
  <1> QED BY <1>1, <1>3, <1>5, <1>6, <1>7, InsideKeeps DEF Inside

LEMMA ReplaceKeeps ==
  ASSUME MemoryTypeOK, OneMemory, NEW e \in Runs, replaceLedger(e)
  PROVE  OneMemory'
  <1>1. /\ UNCHANGED <<work, lockFile, memory, history, result>> /\ stage[e] = "replace"
        /\ Enters(e, AfterLedger(work[e])) /\ memoryLedger' = work[e].base \o work[e].fresh
    BY DEF replaceLedger
  <1>2. Elsewhere(e) /\ stage'[e] = AfterLedger(work[e])
    BY <1>1, StageKept, AfterLedgerStage DEF Elsewhere, Enters, MemoryTypeOK
  <1>3. \A r \in Runs : RunOK(r)
    BY DEF OneMemory
  <1>4. ~Reported(e)
    BY <1>1, <1>3 DEF RunOK, KeepsFresh
  <1>5. /\ memoryLedger \in Seq(Entries) /\ work[e].fresh \in Seq(Entries)
        /\ work[e].existing \in Seq(Entries)
    BY DEF MemoryTypeOK, WorkRecords
  <1>6. ASSUME ~lost
        PROVE  /\ memoryLedger' = memoryLedger \o work[e].fresh /\ memoryLedger' = work[e].existing
               /\ Distinct(memoryLedger') /\ work[e].fresh # <<>>
    BY <1>1, <1>3, <1>6 DEF RunOK, KnowsLedger, Adding, Reading, Writing
  <1>7. ASSUME ~lost PROVE work[e].existing # <<>>
    BY <1>5, <1>6, <1>7, ConcatEqualIffEmpty
  <1>8. ASSUME ~lost PROVE stage'[e] \in {"conflict", "show"}
    BY <1>2, <1>7, <1>8 DEF AfterLedger
  <1>9. ASSUME ~lost
        PROVE  In(memoryLedger') = In(memoryLedger) \cup In(work[e].fresh)
    <2>1. In(memoryLedger \o work[e].fresh) = In(memoryLedger) \cup In(work[e].fresh)
      BY <1>5, InConcat
    <2>2. memoryLedger' = memoryLedger \o work[e].fresh
      BY <1>6, <1>9
    <2> QED BY <2>1, <2>2
  <1>10. ASSUME NEW r \in Runs, r # e PROVE RunOK(r)'
    <2>1. stage'[r] = stage[r] /\ UNCHANGED <<work, result, lockFile, lost>>
      BY <1>1, <1>2, <1>10 DEF Elsewhere, history
    <2>2. ~lost => stage[r] \notin Inside
      <3>1. ~lost => lockFile.by = e
        BY <1>1, <1>3 DEF RunOK, HoldsLock, Inside
      <3> QED BY <1>3, <1>10, <3>1 DEF RunOK, HoldsLock
    <2>3. HoldsLock(r)'
      BY <2>1, <2>2 DEF HoldsLock
    <2>4. KnowsLedger(r)'
      BY <2>1, <2>2 DEF KnowsLedger, Reading, Writing, Inside
    <2>5. KeepsFresh(r)
      BY <1>3 DEF RunOK
    <2>6. KeepsFresh(r)'
      BY <1>9, <2>1, <2>5 DEF KeepsFresh, Written, Reported
    <2> QED BY <2>3, <2>4, <2>6 DEF RunOK
  <1>11. RunOK(e)'
    <2>1. HoldsLock(e)'
      BY <1>1, <1>3 DEF RunOK, HoldsLock, Inside, history
    <2>2. KnowsLedger(e)'
      BY <1>1, <1>6, <1>8 DEF KnowsLedger, Reading, Writing, history
    <2>3. stage'[e] \notin Before
      BY <1>2, AfterLedgerStage DEF Before, Early
    <2>4. KeepsFresh(e)'
      BY <1>1, <1>4, <1>9, <2>3 DEF KeepsFresh, Reported, history
    <2> QED BY <2>1, <2>2, <2>4 DEF RunOK
  <1>12. Shows'
    BY <1>1, <1>6, <1>8 DEF Shows, HalfDone, history
  <1> QED BY <1>1, <1>6, <1>10, <1>11, <1>12 DEF OneMemory, history

LEMMA ConflictsKeep ==
  ASSUME MemoryTypeOK, OneMemory, NEW e \in Runs, replaceConflicts(e)
  PROVE  OneMemory'
  <1>1. /\ UNCHANGED <<work, lockFile, memoryLedger, memory, history, result>> /\ stage[e] = "conflict"
        /\ Enters(e, "show")
    BY DEF replaceConflicts
  <1>2. Elsewhere(e) /\ stage'[e] = "show"
    BY <1>1 DEF Elsewhere, Enters, MemoryTypeOK
  <1>3. RunOK(e)
    BY DEF OneMemory
  <1>4. HalfDone(e) => HalfDone(e)'
    BY <1>1, <1>2 DEF HalfDone
  <1>5. KnowsLedger(e)'
    BY <1>1, <1>2, <1>3 DEF RunOK, KnowsLedger, Reading, Writing, history
  <1>6. KeepsFresh(e)'
    BY <1>1, <1>2, <1>3 DEF RunOK, KeepsFresh, Written, Reported, Before, Early, history
  <1> QED BY <1>1, <1>2, <1>4, <1>5, <1>6, InsideKeeps DEF Inside

LEMMA ShowKeeps ==
  ASSUME MemoryTypeOK, OneMemory, NEW e \in Runs, showMemory(e)
  PROVE  OneMemory'
  <1>1. /\ UNCHANGED <<work, lockFile, memoryLedger, lost, result>> /\ stage[e] = "show"
        /\ Enters(e, "unlock") /\ memory' = renderMemory(work[e].existing)
    BY DEF showMemory
  <1>2. Elsewhere(e) /\ stage'[e] = "unlock"
    BY <1>1 DEF Elsewhere, Enters, MemoryTypeOK
  <1>3. \A r \in Runs : RunOK(r)
    BY DEF OneMemory
  <1>4. ASSUME NEW r \in Runs, r # e PROVE RunOK(r)'
    <2>1. stage'[r] = stage[r]
      BY <1>2, <1>4 DEF Elsewhere
    <2> QED BY <1>1, <1>3, <2>1 DEF RunOK, HoldsLock, KnowsLedger, Adding, KeepsFresh, Written, Reported
  <1>5. HoldsLock(e)'
    BY <1>1, <1>3 DEF RunOK, HoldsLock, Inside
  <1>6. KnowsLedger(e)'
    BY <1>2 DEF KnowsLedger, Reading, Writing
  <1>7. KeepsFresh(e)'
    BY <1>1, <1>2, <1>3 DEF RunOK, KeepsFresh, Written, Reported, Before, Early
  <1>8. ~lost => work[e].existing = memoryLedger
    BY <1>1, <1>3 DEF RunOK, KnowsLedger
  <1>9. Shows'
    BY <1>1, <1>8 DEF Shows
  <1> QED BY <1>1, <1>4, <1>5, <1>6, <1>7, <1>9 DEF OneMemory, RunOK

LEMMA UnlockKeeps ==
  ASSUME MemoryTypeOK, OneMemory, NEW e \in Runs, unlock(e)
  PROVE  OneMemory'
  <1>1. /\ UNCHANGED <<work, memoryLedger, memory, torn>> /\ stage[e] = "unlock" /\ Removes(e)
    BY DEF unlock, files
  <1>2. PICK r \in {"blocked", "needs_review", "completed"} :
            Ends(e, r) /\ (r = "blocked" <=> result[e] = "blocked")
    BY DEF unlock
  <1>3. Elsewhere(e) /\ stage'[e] = "end" /\ result'[e] = r
    BY <1>1, <1>2 DEF Elsewhere, Enters, Ends, MemoryTypeOK
  <1>4. (lost => lost') /\ (~lost' => OthersOutside(e))
    BY <1>1, RemovesAlone
  <1>5. RunOK(e)
    BY DEF OneMemory
  <1>6. HoldsLock(e)' /\ KnowsLedger(e)'
    BY <1>3 DEF HoldsLock, KnowsLedger, Inside, Reading, Writing
  <1>7. ASSUME ~lost', Reported(e)' PROVE In(work[e].fresh) \subseteq In(memoryLedger)
    BY <1>1, <1>2, <1>3, <1>4, <1>5, <1>7 DEF RunOK, KeepsFresh, Written, Reported
  <1>8. KeepsFresh(e)'
    BY <1>1, <1>3, <1>7 DEF KeepsFresh, Written, Before, Early
  <1>9. ~HalfDone(e)
    BY <1>1 DEF HalfDone
  <1> QED BY <1>1, <1>3, <1>4, <1>6, <1>8, <1>9, StepKeeps DEF RunOK

LEMMA AccidentKeeps ==
  ASSUME MemoryTypeOK, OneMemory, NEW e \in Runs, Fails(e) \/ Dies(e)
  PROVE  OneMemory'
  <1>1. UNCHANGED <<work, lockFile, memoryLedger, memory, lost>> /\ torn' = (torn \/ HalfDone(e))
    BY DEF Fails, Dies, files
  <1>2. RunOK(e)
    BY DEF OneMemory
  <1>3. CASE Fails(e)
    <2>1. /\ stage[e] \in Inside \ {"unlock"} /\ Enters(e, "unlock")
          /\ result' = [result EXCEPT ![e] = "blocked"]
      BY <1>3 DEF Fails
    <2>2. Elsewhere(e) /\ stage'[e] = "unlock" /\ result'[e] = "blocked"
      BY <1>1, <2>1 DEF Elsewhere, Enters, MemoryTypeOK
    <2>3. HoldsLock(e)'
      BY <1>1, <1>2, <2>1 DEF RunOK, HoldsLock
    <2>4. KnowsLedger(e)' /\ KeepsFresh(e)'
      BY <2>2 DEF KnowsLedger, KeepsFresh, Written, Reported, Reading, Writing, Before, Early
    <2> QED BY <1>1, <2>2, <2>3, <2>4, StepKeeps DEF RunOK
  <1>4. CASE Dies(e)
    <2>1. stage[e] # "end" /\ Enters(e, "crashed") /\ UNCHANGED result
      BY <1>4 DEF Dies
    <2>2. Elsewhere(e) /\ stage'[e] = "crashed"
      BY <1>1, <2>1 DEF Elsewhere, Enters, MemoryTypeOK
    <2>3. ~Reported(e)
      BY <1>2, <2>1 DEF RunOK, KeepsFresh
    <2>4. RunOK(e)'
      BY <2>1, <2>2, <2>3, OutsideOK DEF Before, Early, Reported
    <2> QED BY <1>1, <2>2, <2>4, StepKeeps
  <1> QED BY <1>3, <1>4

LEMMA OneMemoryStep ==
  ASSUME MemoryTypeOK, OneMemory, [NextMemory]_memoryVars
  PROVE  OneMemory'
  <1>1. ASSUME UNCHANGED <<stage, work, result, memoryLedger, memory, history>>,
               lockFile' = lockFile \/ (lockFile # NoLock /\ lockFile' # NoLock /\ lockFile'.by = lockFile.by)
        PROVE  OneMemory'
    <2>1. ASSUME NEW r \in Runs PROVE RunOK(r)'
      <3>1. RunOK(r)
        BY DEF OneMemory
      <3>2. HoldsLock(r)'
        BY <1>1, <3>1 DEF RunOK, HoldsLock, history
      <3> QED BY <1>1, <3>1, <3>2
          DEF RunOK, KnowsLedger, Adding, KeepsFresh, Written, Reported, history
    <2>2. Shows'
      BY <1>1 DEF OneMemory, Shows, HalfDone, history
    <2> QED BY <1>1, <2>1, <2>2 DEF OneMemory, history
  <1>2. CASE Age
    <2>1. lockFile # NoLock /\ lockFile' = [lockFile EXCEPT !.old = TRUE]
      BY <1>2 DEF Age
    <2>2. lockFile'.by = lockFile.by /\ lockFile'.old = TRUE
      BY <2>1 DEF MemoryTypeOK
    <2>3. lockFile' # NoLock
      BY <2>2 DEF NoLock
    <2> QED BY <1>1, <1>2, <2>1, <2>2, <2>3 DEF Age, files
  <1>3. CASE UNCHANGED memoryVars
    BY <1>1, <1>3 DEF memoryVars, files
  <1>4. ASSUME NEW e \in Runs, Persist(e) PROVE OneMemory'
    BY <1>4, ReadKeeps, CandidateKeeps, RereadKeeps, ReplaceKeeps, ConflictsKeep, ShowKeeps,
       UnlockKeeps DEF Persist
  <1> QED BY <1>2, <1>3, <1>4, UnderstandKeeps, LockKeeps, AccidentKeeps DEF NextMemory

-----------------------------------------------------------------------------
(* Together.                                                               *)

LEMMA InitIInv == InitMemory => IInv
  <1> SUFFICES ASSUME InitMemory PROVE IInv
    OBVIOUS
  <1>1. MemoryTypeOK
    BY InitTypes
  <1>2. /\ \A r \in Runs : stage[r] = "understand" /\ work[r] = NoWork /\ result[r] = None
        /\ memoryLedger \in Earlier /\ memory = renderMemory(memoryLedger)
    BY DEF InitMemory
  <1>3. Understood
    BY <1>2 DEF Understood
  <1>4. AllSettled
    <2>1. \A r \in Runs : InWork(work[r]) = {}
      BY <1>2, InEmpty DEF InWork, NoWork
    <2>2. Said \subseteq In(memoryLedger)
      BY <1>2, <2>1, ShownIsIn DEF Said
    <2> QED BY <1>2, <2>2, EarlierIsEntries DEF AllSettled, Settled
  <1>5. ASSUME NEW r \in Runs PROVE RunOK(r)
    <2>1. stage[r] = "understand" /\ result[r] = None /\ work[r].fresh = <<>>
      BY <1>2 DEF NoWork
    <2>2. result[r] \notin {"completed", "needs_review"}
      BY <2>1 DEF None
    <2> QED BY <2>1, <2>2 DEF RunOK, HoldsLock, KnowsLedger, KeepsFresh, Written, Reported, Inside,
            Reading, Writing
  <1>6. OneMemory
    BY <1>2, <1>5, EarlierIsEntries DEF OneMemory, Shows
  <1> QED BY <1>1, <1>3, <1>4, <1>6 DEF IInv

LEMMA IInvStep == IInv /\ [NextMemory]_memoryVars => IInv'
  BY TypesStep, UnderstoodStep, SettledStep, OneMemoryStep DEF IInv

(* At every time, for any number of runs: whatever is written down or      *)
(* about to be was said in a meeting that is over; and unless a lock was   *)
(* lost, who is inside has it, knows the ledger as it is, and what it has  *)
(* added is there.                                                         *)
THEOREM MemoryInvariant == MemorySpec => []IInv
  BY InitIInv, IInvStep, PTL DEF MemorySpec

(* What is remembered is what a meeting has said, whatever the model, the  *)
(* sub-agents and the curator answer and whoever dies                      *)
(* (reconcileMeetingMemoryCandidates, evidenceQuality).                    *)
THEOREM EntriesGrounded == MemorySpec => []EntriesAreGrounded
  <1>1. IInv => EntriesAreGrounded
    <2> SUFFICES ASSUME IInv, NEW n \in Remembered, n.run \in Runs PROVE FromMeeting(n, n.run)
      BY DEF EntriesAreGrounded
    <2>1. n \in Said
      BY DEF Remembered, Said, In
    <2> QED BY <2>1 DEF IInv, AllSettled, Settled
  <1> QED BY <1>1, MemoryInvariant, PTL

(* The ledger and MEMORY.md are one memory as long as no run at work loses *)
(* its lock (persistMeetingMemory, withMemoryWriteLock).                   *)
THEOREM LedgerIsOne == MemorySpec => []LedgerIsOneMemory
  <1>1. IInv => LedgerIsOneMemory
    <2> SUFFICES ASSUME IInv, ~lost PROVE LedgerIsOneMemory
      BY DEF LedgerIsOneMemory
    <2>1. OneMemory
      BY DEF IInv
    <2>2. \A i, j \in DOMAIN memoryLedger : memoryLedger[i].key = memoryLedger[j].key => i = j
      BY <2>1 DEF OneMemory, Distinct
    <2>3. ASSUME NEW e \in Runs, result[e] \in {"completed", "needs_review"},
                 NEW i \in DOMAIN work[e].fresh
          PROVE  \E j \in DOMAIN memoryLedger : memoryLedger[j] = work[e].fresh[i]
      <3>1. In(work[e].fresh) \subseteq In(memoryLedger)
        BY <2>1, <2>3 DEF OneMemory, RunOK, KeepsFresh, Written, Reported
      <3>2. work[e].fresh[i] \in In(memoryLedger)
        BY <3>1 DEF In
      <3> QED BY <3>2 DEF In
    <2>4. ASSUME lockFile = NoLock, ~torn PROVE memory = renderMemory(memoryLedger)
      <3>1. \A e \in Runs : stage[e] \notin Inside
        BY <2>1, <2>4 DEF OneMemory, RunOK, HoldsLock
      <3>2. \A e \in Runs : ~HalfDone(e)
        BY <3>1 DEF HalfDone, Inside
      <3> QED BY <2>1, <2>4, <3>2 DEF OneMemory, Shows
    <2> QED BY <2>2, <2>3, <2>4 DEF LedgerIsOneMemory
  <1> QED BY <1>1, MemoryInvariant, PTL

-----------------------------------------------------------------------------
(* The executions of a run.                                                *)

(* Where an execution of each profile can stand.                           *)
Drafting == {"transcribe", "understand", "evidence", "plan", "write-plan", "start", "route",
             "render", "work", "project", "judge", "qa"}
Recording == {"next", "record", "deliver", "verify", "output"}
Documenting == Drafting \cup {"save-qa", "policy"} \cup Recording
Replying == {"context", "route-reply", "reply"}
Fetching == {"plan", "write-plan", "resolving", "policy", "resolve", "resolved", "acquiring",
             "acquired", "text", "official", "hearing", "hear", "heard", "segments", "analyzing",
             "chapters"}
Skipping == {"skip-text", "skip-analysis", "skip-verify"}
Reviewing == {"qa", "save-qa", "write-pack", "analyzed", "verified"}
Sourcing == Fetching \cup {"chapter", "pack", "block", "output"} \cup Reviewing \cup Skipping
StagesOf(profile) ==
    IF profile = "source" THEN Sourcing ELSE IF profile = "documents" THEN Documenting ELSE Replying

Unplanned == {"transcribe", "understand", "evidence", "plan", "idle", "crashed"}

Texts == Versions \cup {NoText}
Fields == DOMAIN Empty

Holding(g) ==
    /\ g = [f \in Fields |-> g[f]]
    /\ g.analysed \in BOOLEAN /\ g.whole \in BOOLEAN /\ g.saved \in BOOLEAN
    /\ g.results \subseteq DocumentTypes
    /\ g.left \subseteq DocumentTypes
    /\ DOMAIN g.parts = Chapters
    /\ g.chapter \in Chapters

WellFormed ==
    /\ task \in Scenarios
    /\ pc \in [Executions -> StagesOf(task.profile) \cup Ended]
    /\ DOMAIN mine = Executions /\ DOMAIN base = Executions /\ DOMAIN got = Executions
    /\ \A e \in Executions :
        /\ base[e] # Unread => pc[e] \in LedgerStages
        /\ Holding(got[e])
        /\ pc[e] \in {"idle", "crashed"} => got[e] = Empty
        /\ pc[e] \in Unplanned => ~mine[e].valid
    /\ DOMAIN chapter = Chapters

-----------------------------------------------------------------------------
(* The pack of a source.                                                   *)
PartsFit(e) ==
    /\ task.profile # "source" => got[e].text = NoText /\ \A c \in Chapters : got[e].parts[c] = NoText
    /\ pc[e] \in Fetching => \A c \in Chapters : got[e].parts[c] = NoText
    /\ pc[e] \in {"chapter", "pack"} => \A c \in Chapters : got[e].parts[c] \in {NoText, got[e].text}
    /\ pc[e] \in Reviewing => \A c \in Chapters : got[e].parts[c] = got[e].text

PackInv == PackOfOneSource /\ \A e \in Executions : PartsFit(e)

-----------------------------------------------------------------------------
(* The gates of documents.                                                 *)
Wrongs == [DocumentTypes -> SUBSET DocumentFlaws]
AskedHonestly(e) ==
    \E found \in SUBSET Findings, wrong \in Wrongs : got[e].qa = Evaluation(DocumentInput(e, found, wrong))

GateFits(e) ==
    /\ got[e].whole => got[e].results = task.requested
    /\ pc[e] \in Drafting => got[e].qa = Unanswered
    /\ got[e].qa # Unanswered => AskedHonestly(e)
    /\ pc[e] \in Drafting \cup {"save-qa"} => ~got[e].saved
    /\ pc[e] \in Drafting \cup {"save-qa", "policy"} => got[e].policy = "blocked"
    /\ pc[e] = "verify" => publishable(got[e])

SavedGate(e) ==
    /\ qa.by = e => pc[e] \in {"policy", "end", "crashed"} \cup Recording
    /\ qa.by = e /\ pc[e] # "crashed" => qa.gate = got[e].qa
    /\ ~task.overlap /\ got[e].saved => qa.by >= e

InOrder ==
    ~task.overlap => \A e, f \in Executions : f < e /\ pc[e] # "idle" => pc[f] # "idle" /\ ~Running(f)

OutputFits ==
    /\ output.by = 0 => output = NoOutput
    /\ output.by # 0 => output.by \in Executions /\ pc[output.by] = "end"
    /\ output.status = "completed" =>
        /\ output.documents = task.requested
        /\ publishable(got[output.by])

GateInv ==
    task.profile = "documents" =>
        /\ \A e \in Executions : GateFits(e) /\ SavedGate(e)
        /\ qa.by \in Executions \cup {0}
        /\ InOrder
        /\ OutputFits

-----------------------------------------------------------------------------
(* The ledger of an execution nobody disturbed.                            *)
StatusFits(l) ==
    /\ (\A s \in DOMAIN l.steps : l.steps[s] \in Done) => l.status = "completed"
    /\ l.status = "completed" => \A s \in DOMAIN l.steps : l.steps[s] \in Done
    /\ l.status = "blocked" => \E s \in DOMAIN l.steps : l.steps[s] = "blocked"

Closed(l) ==
    \A s \in DOMAIN l.steps : l.steps[s] = "pending" => \E d \in l.deps[s] : l.steps[d] \notin Done

IsPlan(l) == l = [f \in DOMAIN NoPlan |-> l[f]]

Recorded(e) == IF pc[e] \in Recording THEN task.requested \ got[e].left ELSE {}
Ununderstood(e) == "minutes" \in task.requested /\ ~got[e].analysed

DocumentLedger(e) ==
    LET l == mine[e]
    IN  /\ IsPlan(l)
        /\ l.steps \in [Steps("documents", task.requested) ->
                           {"pending", "ready", "in_progress", "completed"}]
        /\ l.deps = DependsOn("documents", task.requested)
        /\ StatusFits(l) /\ Closed(l)
        /\ got[e].analysed /\ "minutes" \in task.requested => l.steps["understand"] = "completed"
        /\ \A d \in Recorded(e) : l.steps[d] = "completed"
        /\ pc[e] # "end" => \A d \in DocumentTypes : <<d, 0>> \in l.ops => d \in Recorded(e)
        /\ l.steps["verify"] # "in_progress"
        /\ <<"verify", 0>> \in l.ops \/ l.steps["verify"] = "completed" =>
               pc[e] \in {"output", "end"} /\ publishable(got[e])
        /\ pc[e] = "record" => got[e].next \in got[e].left \cap task.requested
        /\ pc[e] \in {"deliver", "verify"} => got[e].left \cap task.requested = {} \/ Ununderstood(e)
        /\ pc[e] \in {"output", "end"} /\ publishable(got[e]) =>
               l.status = "completed" \/ Ununderstood(e)

Order == [s \in Sourcing |->
    CASE s = "plan" -> 1 [] s = "write-plan" -> 2 [] s = "resolving" -> 3 [] s = "policy" -> 4
      [] s = "resolve" -> 5 [] s = "resolved" -> 6 [] s = "acquiring" -> 7 [] s = "acquired" -> 8
      [] s \in {"text", "skip-text"} -> 9 [] s \in {"official", "hearing"} -> 10 [] s = "hear" -> 11
      [] s = "heard" -> 12 [] s = "segments" -> 13 [] s = "analyzing" -> 14 [] s = "chapters" -> 15
      [] s = "chapter" -> 16 [] s = "pack" -> 17 [] s = "qa" -> 18 [] s = "save-qa" -> 19
      [] s = "write-pack" -> 20 [] s \in {"analyzed", "skip-analysis"} -> 21
      [] s \in {"verified", "skip-verify"} -> 22 [] OTHER -> 23]
DoneAfter == [resolve |-> 6, acquire |-> 8, transcribe |-> 12, analyze |-> 21]

SourceLedger(e) ==
    LET l == mine[e]
    IN  /\ IsPlan(l)
        /\ l.steps \in [SourceSteps -> Done \cup {"pending", "ready", "in_progress", "blocked"}]
        /\ StatusFits(l)
        /\ pc[e] \in Sourcing \ {"block"} =>
            /\ \A s \in Sourcing : <<s, 0>> \in l.ops => Order[s] < Order[pc[e]]
            /\ \A s \in DOMAIN DoneAfter : Order[pc[e]] > DoneAfter[s] => l.steps[s] \in Done
        /\ pc[e] = "output" => l.steps["verify-source"] \in Done
        /\ l.steps["verify-source"] \in Done => pc[e] \in {"output", "end"}

LedgerFits(e) ==
    e \notin disturbed /\ mine[e].valid =>
        /\ IF task.profile = "source" THEN SourceLedger(e) ELSE DocumentLedger(e)
        /\ pc[e] = "end" /\ output.by = e =>
            /\ task.profile = "source" => (output.status = "completed" <=> mine[e].status = "completed")
            /\ task.profile = "documents" /\ mine[e].steps["verify"] = "completed" =>
                  output.status = "completed"

LedgerInv ==
    \A e \in Executions :
        LedgerFits(e) /\ (task.profile \notin {"source", "documents"} => ~mine[e].valid)

-----------------------------------------------------------------------------
LEMMA FieldsOf ==
  Fields = {"analysed", "results", "whole", "review", "qa", "saved", "policy", "left", "next",
            "blocked", "why", "text", "parts", "chapter", "try"}
  BY DEF Fields, Empty

(* What a change of one field does.                                        *)
Fit(f, v) ==
    /\ f \in {"analysed", "whole", "saved"} => v \in BOOLEAN
    /\ f \in {"results", "left"} => v \subseteq DocumentTypes
    /\ f = "parts" => DOMAIN v = Chapters
    /\ f = "chapter" => v \in Chapters

LEMMA Updated ==
  ASSUME NEW g, Holding(g), NEW f \in Fields, NEW v, Fit(f, v)
  PROVE  /\ Holding([g EXCEPT ![f] = v])
         /\ [g EXCEPT ![f] = v][f] = v
         /\ \A h \in Fields \ {f} : [g EXCEPT ![f] = v][h] = g[h]
  <1> DEFINE u == [g EXCEPT ![f] = v]
  <1>1. g = [h \in Fields |-> g[h]]
    BY DEF Holding
  <1>2. u = [h \in Fields |-> IF h = f THEN v ELSE g[h]]
    BY <1>1
  <1>3. u[f] = v /\ \A h \in Fields \ {f} : u[h] = g[h]
    BY <1>2
  <1>4. u = [h \in Fields |-> u[h]]
    BY <1>2
  <1> HIDE DEF u
  <1>5. Holding(u)
    BY <1>3, <1>4, FieldsOf DEF Holding, Fit
  <1> QED BY <1>3, <1>5 DEF u

LEMMA UpdatedTwice ==
  ASSUME NEW g, Holding(g), NEW f \in Fields, NEW v, Fit(f, v), NEW h \in Fields \ {f}, NEW w, Fit(h, w)
  PROVE  LET u == [g EXCEPT ![f] = v, ![h] = w]
         IN  /\ Holding(u)
             /\ u[f] = v /\ u[h] = w
             /\ \A k \in Fields \ {f, h} : u[k] = g[k]
  <1> DEFINE first == [g EXCEPT ![f] = v]
  <1> DEFINE second == [first EXCEPT ![h] = w]
  <1>1. Holding(first) /\ first[f] = v /\ \A k \in Fields \ {f} : first[k] = g[k]
    BY Updated
  <1>2. second = [g EXCEPT ![f] = v, ![h] = w]
    BY DEF second, first
  <1> HIDE DEF first
  <1>3. Holding(second) /\ second[h] = w /\ \A k \in Fields \ {h} : second[k] = first[k]
    BY <1>1, Updated
  <1> HIDE DEF second
  <1> QED BY <1>1, <1>2, <1>3

(* The changes the pipeline makes.                                         *)
LEMMA Changes ==
  ASSUME NEW g, Holding(g)
  PROVE  /\ \A v \in BOOLEAN : Holding([g EXCEPT !.analysed = v])
         /\ \A v : Holding([g EXCEPT !.review = v])
         /\ \A v : Holding([g EXCEPT !.qa = v])
         /\ \A v \in BOOLEAN : Holding([g EXCEPT !.saved = v])
         /\ \A v \in SUBSET DocumentTypes : Holding([g EXCEPT !.left = v])
         /\ \A v : Holding([g EXCEPT !.next = v])
         /\ \A v : Holding([g EXCEPT !.text = v])
         /\ \A v : Holding([g EXCEPT !.try = v])
  <1>1. ASSUME NEW v \in BOOLEAN PROVE Holding([g EXCEPT !.analysed = v])
    BY Updated, FieldsOf DEF Fit
  <1>2. ASSUME NEW v PROVE Holding([g EXCEPT !.review = v])
    BY Updated, FieldsOf DEF Fit
  <1>3. ASSUME NEW v PROVE Holding([g EXCEPT !.qa = v])
    BY Updated, FieldsOf DEF Fit
  <1>4. ASSUME NEW v \in BOOLEAN PROVE Holding([g EXCEPT !.saved = v])
    BY Updated, FieldsOf DEF Fit
  <1>5. ASSUME NEW v \in SUBSET DocumentTypes PROVE Holding([g EXCEPT !.left = v])
    BY Updated, FieldsOf DEF Fit
  <1>6. ASSUME NEW v PROVE Holding([g EXCEPT !.next = v])
    BY Updated, FieldsOf DEF Fit
  <1>7. ASSUME NEW v PROVE Holding([g EXCEPT !.text = v])
    BY Updated, FieldsOf DEF Fit
  <1>8. ASSUME NEW v PROVE Holding([g EXCEPT !.try = v])
    BY Updated, FieldsOf DEF Fit
  <1> QED BY <1>1, <1>2, <1>3, <1>4, <1>5, <1>6, <1>7, <1>8

LEMMA DoubleChanges ==
  ASSUME NEW g, Holding(g)
  PROVE  /\ \A v \in SUBSET DocumentTypes : \A w \in BOOLEAN : Holding([g EXCEPT !.results = v, !.whole = w])
         /\ \A v : \A w : Holding([g EXCEPT !.blocked = v, !.why = w])
         /\ \A v : \A w \in SUBSET DocumentTypes : Holding([g EXCEPT !.policy = v, !.left = w])
         /\ \A v \in Chapters : \A w : Holding([g EXCEPT !.chapter = v, !.try = w])
  <1>1. ASSUME NEW v \in SUBSET DocumentTypes, NEW w \in BOOLEAN
        PROVE  Holding([g EXCEPT !.results = v, !.whole = w])
    <2>1. "results" \in Fields /\ "whole" \in Fields \ {"results"} /\ Fit("results", v) /\ Fit("whole", w)
      BY FieldsOf DEF Fit
    <2> QED BY <2>1, UpdatedTwice
  <1>2. ASSUME NEW v, NEW w PROVE Holding([g EXCEPT !.blocked = v, !.why = w])
    <2>1. "blocked" \in Fields /\ "why" \in Fields \ {"blocked"} /\ Fit("blocked", v) /\ Fit("why", w)
      BY FieldsOf DEF Fit
    <2> QED BY <2>1, UpdatedTwice
  <1>3. ASSUME NEW v, NEW w \in SUBSET DocumentTypes PROVE Holding([g EXCEPT !.policy = v, !.left = w])
    <2>1. "policy" \in Fields /\ "left" \in Fields \ {"policy"} /\ Fit("policy", v) /\ Fit("left", w)
      BY FieldsOf DEF Fit
    <2> QED BY <2>1, UpdatedTwice
  <1>4. ASSUME NEW v \in Chapters, NEW w PROVE Holding([g EXCEPT !.chapter = v, !.try = w])
    <2>1. "chapter" \in Fields /\ "try" \in Fields \ {"chapter"} /\ Fit("chapter", v) /\ Fit("try", w)
      BY FieldsOf DEF Fit
    <2> QED BY <2>1, UpdatedTwice
  <1> QED BY <1>1, <1>2, <1>3, <1>4

LEMMA EmptyHolds == Holding(Empty)
  <1>1. Empty = [f \in Fields |-> Empty[f]]
    BY DEF Fields, Empty
  <1>2. 1 \in Chapters
    <2>1. IsFiniteSet(Chapters) /\ Chapters = 1 .. Cardinality(Chapters) /\ Chapters # {}
      BY ExecutionAssumption
    <2>2. Cardinality(Chapters) \in Nat
      BY <2>1, FS_CardinalityType
    <2> QED BY <2>1, <2>2
  <1> QED BY <1>1, <1>2 DEF Holding, Empty

(* The stages a step leads to; what of the others a step leaves alone.     *)
Alone(e) ==
    /\ UNCHANGED task
    /\ \A f \in Executions \ {e} :
        /\ pc'[f] = pc[f] /\ mine'[f] = mine[f] /\ base'[f] = base[f] /\ got'[f] = got[f]
        /\ f \in disturbed' <=> f \in disturbed
    /\ disturbed \subseteq disturbed'

LEMMA GoesTo ==
  ASSUME WellFormed, NEW e \in Executions, NEW s \in StagesOf(task.profile) \cup Ended, Goes(e, s),
         UNCHANGED task
  PROVE  /\ pc' \in [Executions -> StagesOf(task.profile)' \cup Ended]
         /\ pc'[e] = s
         /\ \A f \in Executions \ {e} : pc'[f] = pc[f]
  BY DEF WellFormed, Goes, StagesOf

LEMMA HasNow ==
  ASSUME WellFormed, NEW e \in Executions, NEW g, Has(e, g)
  PROVE  /\ DOMAIN got' = Executions
         /\ got'[e] = g
         /\ \A f \in Executions \ {e} : got'[f] = got[f]
  BY DEF WellFormed, Has

LEMMA TakesNow ==
  ASSUME WellFormed, NEW e \in Executions, NEW l, mine' = [mine EXCEPT ![e] = l]
  PROVE  /\ DOMAIN mine' = Executions
         /\ mine'[e] = l
         /\ \A f \in Executions \ {e} : mine'[f] = mine[f]
  BY DEF WellFormed

(* What keeps the invariant of the shape of the state.                     *)
LEMMA Formed ==
  ASSUME WellFormed, NEW e \in Executions, Alone(e),
         pc' \in [Executions -> StagesOf(task.profile)' \cup Ended],
         DOMAIN mine' = Executions, DOMAIN base' = Executions, DOMAIN got' = Executions,
         DOMAIN chapter' = Chapters,
         base'[e] # Unread => pc'[e] \in LedgerStages,
         Holding(got'[e]),
         pc'[e] \in {"idle", "crashed"} => got'[e] = Empty,
         pc'[e] \in Unplanned => ~mine'[e].valid
  PROVE  WellFormed'
  BY DEF WellFormed, Alone

(* A step that touches no ledger: it goes somewhere and holds something.   *)
Holds(e) == got' = got \/ \E g : Holding(g) /\ Has(e, g)

LEMMA Moved ==
  ASSUME WellFormed, NEW e \in Executions, NEW s \in StagesOf(task.profile) \cup {"end"},
         Goes(e, s), Holds(e), base[e] = Unread, UNCHANGED <<task, mine, base>>,
         DOMAIN chapter' = Chapters, disturbed' \in {disturbed, disturbed \cup {e}},
         s \in Unplanned => pc[e] \in Unplanned
  PROVE  WellFormed' /\ Alone(e)
  <1>1. s \notin {"idle", "crashed"} /\ s \in StagesOf(task.profile) \cup Ended
    BY DEF StagesOf, Ended, Sourcing, Documenting, Replying, Fetching, Reviewing, Skipping, Drafting,
       Recording
  <1>2. DOMAIN got' = Executions /\ Holding(got'[e]) /\ \A f \in Executions \ {e} : got'[f] = got[f]
    BY HasNow DEF Holds, WellFormed
  <1>3. Alone(e)
    BY <1>1, <1>2, GoesTo DEF Alone
  <1> QED BY <1>1, <1>2, <1>3, GoesTo, Formed DEF WellFormed

LEMMA MovedHere ==
  ASSUME WellFormed, NEW e \in Executions, UNCHANGED <<task, pc, mine, base>>, Holds(e),
         pc[e] \notin {"idle", "crashed"},
         DOMAIN chapter' = Chapters, disturbed' = disturbed
  PROVE  WellFormed' /\ Alone(e)
  <1>2. DOMAIN got' = Executions /\ Holding(got'[e]) /\ \A f \in Executions \ {e} : got'[f] = got[f]
    BY HasNow DEF Holds, WellFormed
  <1>3. Alone(e)
    BY <1>2 DEF Alone
  <1> QED BY <1>2, <1>3, Formed DEF WellFormed, StagesOf

USE DEF StagesOf
LEMMA Replies ==
  ASSUME WellFormed, NEW e \in Executions, Reply(e)
  PROVE  WellFormed' /\ Alone(e)
  <1>1. task.profile \notin {"source", "documents"}
    BY DEF WellFormed, Reply, buildFileSummaryContext, planFastDraftRoute, generateDirectReply, At,
       Sourcing, Documenting, Fetching, Reviewing, Skipping, Drafting, Recording, Ended
  <1>2. \E s \in Replying \cup {"end"} : Goes(e, s)
    BY DEF Reply, buildFileSummaryContext, planFastDraftRoute, generateDirectReply, Blocks, Replying
  <1>3. UNCHANGED <<task, mine, base, got, chapter, disturbed>> /\ base[e] = Unread
    BY DEF Reply, buildFileSummaryContext, planFastDraftRoute, generateDirectReply, sources, At
  <1> QED BY <1>1, <1>2, <1>3, Moved DEF Holds, WellFormed, Replying, Unplanned

LEMMA Prepares ==
  ASSUME WellFormed, NEW e \in Executions, Prepare(e)
  PROVE  WellFormed' /\ Alone(e)
  <1>1. task.profile = "documents" /\ pc[e] \in Unplanned
    BY DEF WellFormed, Prepare, ensureAsrTranscription, ensureMeetingIntelligence, buildEvidencePack,
       At, Sourcing, Fetching, Reviewing, Skipping, Replying, Ended, Unplanned
  <1>2. \E s \in {"understand", "evidence", "plan", "end"} : Goes(e, s)
    BY DEF Prepare, ensureAsrTranscription, ensureMeetingIntelligence, buildEvidencePack, Blocks
  <1>3. UNCHANGED <<task, mine, base, chapter, disturbed>> /\ base[e] = Unread
    BY DEF Prepare, ensureAsrTranscription, ensureMeetingIntelligence, buildEvidencePack, At, sources
  <1>4. Holds(e)
    BY Changes DEF Prepare, ensureAsrTranscription, ensureMeetingIntelligence, buildEvidencePack,
       buildReviewContext, Holds, WellFormed
  <1> QED BY <1>1, <1>2, <1>3, <1>4, Moved DEF WellFormed, Documenting, Drafting

LEMMA Writings ==
  ASSUME WellFormed, NEW e \in Executions, Write(e)
  PROVE  WellFormed' /\ Alone(e)
  <1>1. task.profile = "documents"
    BY DEF WellFormed, Write, model_route_plan, document_prompt_render_batch, document_workers_run,
       publishPartial, Needs, At, Sourcing, Fetching, Reviewing, Skipping, Replying, Ended
  <1>2. \E s \in {"render", "work", "project", "judge", "qa", "end"} : Goes(e, s)
    BY DEF Write, model_route_plan, document_prompt_render_batch, document_workers_run,
       publishPartial, Needs, Blocks
  <1>3. UNCHANGED <<task, mine, base, chapter, disturbed>> /\ base[e] = Unread
    BY DEF Write, model_route_plan, document_prompt_render_batch, document_workers_run,
       publishPartial, Needs, At, sources
  <1>5. Scenarios \subseteq Scenario
    BY ExecutionAssumption
  <1>4. Holds(e)
    BY <1>5, DoubleChanges DEF Write, model_route_plan, document_prompt_render_batch,
       document_workers_run, publishPartial, Needs, Holds, WellFormed, Scenario
  <1> QED BY <1>1, <1>2, <1>3, <1>4, Moved DEF WellFormed, Documenting, Drafting, Unplanned

LEMMA FinishesHolding ==
  ASSUME WellFormed, NEW e \in Executions, NEW step, NEW why, finishBlocked(e, step, why)
  PROVE  (\E s \in {"block", "end"} : Goes(e, s)) /\ Holds(e)
  BY DoubleChanges DEF finishBlocked, Blocks, Holds, WellFormed

LEMMA Checks ==
  ASSUME WellFormed, NEW e \in Executions, Check(e)
  PROVE  WellFormed' /\ Alone(e)
  <1>1. task.profile \in {"documents", "source"}
    BY DEF WellFormed, Check, qa_gate_evaluate, qa_gate_write, policy_gate_check, At, Replying, Ended
  <1>3. UNCHANGED <<task, mine, base, chapter, disturbed>> /\ base[e] = Unread
    BY DEF Check, qa_gate_evaluate, qa_gate_write, policy_gate_check, At, sources
  <1>4. \E s \in IF task.profile = "source" THEN {"save-qa", "write-pack", "resolve", "block", "end"}
                 ELSE {"save-qa", "policy", "next"} : Goes(e, s)
    BY <1>1, FinishesHolding DEF Check, qa_gate_evaluate, qa_gate_write, policy_gate_check
  <1>5. task.requested \subseteq DocumentTypes
    BY ExecutionAssumption DEF WellFormed, Scenario
  <1>6. Holds(e)
    BY <1>5, Changes, DoubleChanges, FinishesHolding
    DEF Check, qa_gate_evaluate, qa_gate_write, policy_gate_check, Holds, WellFormed
  <1> QED BY <1>1, <1>3, <1>4, <1>6, Moved
      DEF WellFormed, Documenting, Sourcing, Fetching, Reviewing, Recording, Unplanned

LEMMA Deliveries ==
  ASSUME WellFormed, NEW e \in Executions, Deliver(e)
  PROVE  WellFormed' /\ Alone(e)
  <1>1. task.profile \in {"documents", "source"} /\ (task.profile = "source" => pc[e] = "output")
    BY DEF WellFormed, Deliver, readyIndex, deliverables, writeOutput, At, Replying, Ended,
       Sourcing, Fetching, Reviewing, Skipping
  <1>2. \E s \in {"record", "deliver", "verify", "output", "end"} :
           Goes(e, s) /\ (pc[e] = "output" => s = "end")
    BY DEF Deliver, readyIndex, deliverables, writeOutput, At
  <1>3. UNCHANGED <<task, mine, base, chapter, disturbed>> /\ base[e] = Unread
    BY DEF Deliver, readyIndex, deliverables, writeOutput, At, sources
  <1>4. Holds(e)
    BY Changes DEF Deliver, readyIndex, deliverables, writeOutput, Holds, WellFormed
  <1> QED BY <1>1, <1>2, <1>3, <1>4, Moved DEF WellFormed, Documenting, Recording, Unplanned

LEMMA Resolves ==
  ASSUME WellFormed, NEW e \in Executions, Resolve(e)
  PROVE  WellFormed' /\ Alone(e)
  <1>1. task.profile = "source"
    BY DEF WellFormed, Resolve, sourceResolver, sourceTranscript, hearSource, buildProvenanceIndex,
       NeedsFor, At, Replying, Ended, Documenting, Drafting, Recording
  <1>2. \E s \in {"resolved", "official", "hearing", "heard", "analyzing", "block", "end"} : Goes(e, s)
    BY FinishesHolding DEF Resolve, sourceResolver, sourceTranscript, hearSource,
       buildProvenanceIndex, NeedsFor
  <1>3. UNCHANGED <<task, mine, base, chapter, disturbed>> /\ base[e] = Unread
    BY DEF Resolve, sourceResolver, sourceTranscript, hearSource, buildProvenanceIndex, NeedsFor,
       At, sources
  <1>4. Holds(e)
    BY Changes, FinishesHolding DEF Resolve, sourceResolver, sourceTranscript, hearSource,
       buildProvenanceIndex, NeedsFor, Holds, WellFormed
  <1> QED BY <1>1, <1>2, <1>3, <1>4, Moved
      DEF WellFormed, Sourcing, Fetching, Reviewing, Skipping, Unplanned

(* A chapter more.                                                         *)
LEMMA PartTaken ==
  ASSUME NEW g, Holding(g), NEW c \in Chapters, NEW v
  PROVE  LET u == [g EXCEPT !.parts[c] = v]
         IN  /\ Holding(u)
             /\ u.parts = [g.parts EXCEPT ![c] = v]
             /\ \A k \in Fields \ {"parts"} : u[k] = g[k]
  <1> DEFINE p == [g.parts EXCEPT ![c] = v]
  <1>1. Fit("parts", p) /\ "parts" \in Fields
    BY FieldsOf DEF Fit, Holding
  <1>2. [g EXCEPT !.parts[c] = v] = [g EXCEPT !["parts"] = p]
    OBVIOUS
  <1> HIDE DEF p
  <1>3. Holding([g EXCEPT !["parts"] = p]) /\ [g EXCEPT !["parts"] = p]["parts"] = p
        /\ \A k \in Fields \ {"parts"} : [g EXCEPT !["parts"] = p][k] = g[k]
    BY <1>1, Updated
  <1> QED BY <1>2, <1>3 DEF p

LEMMA NextChapterHolds ==
  ASSUME WellFormed, NEW e \in Executions, NEW g, Holding(g), NextChapter(e, g)
  PROVE  Holds(e) /\ (UNCHANGED pc \/ Goes(e, "pack"))
  BY DoubleChanges DEF NextChapter, Holds

LEMMA Analyses ==
  ASSUME WellFormed, NEW e \in Executions, Analyze(e)
  PROVE  WellFormed' /\ Alone(e)
  <1>1. task.profile = "source" /\ pc[e] \in Sourcing
    BY DEF WellFormed, Analyze, partitionSourceSegments, reuseChapter, analyzeChapter,
       buildKnowledgeSourcePack, writeSourcePack, NeedsFor, At, Replying, Ended, Documenting,
       Drafting, Recording
  <1>2. UNCHANGED <<task, mine, base, disturbed>> /\ base[e] = Unread /\ DOMAIN chapter' = Chapters
    BY DEF WellFormed, Analyze, partitionSourceSegments, reuseChapter, analyzeChapter,
       buildKnowledgeSourcePack, writeSourcePack, NeedsFor, At, sources
  <1>3. Holding(got[e]) /\ \A c \in Chapters : \A v : Holding([got[e] EXCEPT !.parts[c] = v])
    BY PartTaken DEF WellFormed
  <1>7. got[e].chapter \in Chapters
    BY DEF WellFormed, Holding
  <1>4. Holds(e) /\ (UNCHANGED pc \/ \E s \in {"chapter", "pack", "qa", "analyzed", "block", "end"} : Goes(e, s))
    <2>1. CASE partitionSourceSegments(e) \/ buildKnowledgeSourcePack(e) \/ writeSourcePack(e)
      BY <2>1, FinishesHolding DEF partitionSourceSegments, buildKnowledgeSourcePack, writeSourcePack,
         NeedsFor, Holds
    <2>2. CASE reuseChapter(e)
      BY <2>2, <1>3, <1>7, NextChapterHolds DEF reuseChapter
    <2>3. CASE analyzeChapter(e)
      BY <2>3, <1>3, <1>7, NextChapterHolds, Changes DEF analyzeChapter, Holds
    <2> QED BY <2>1, <2>2, <2>3 DEF Analyze
  <1>5. CASE UNCHANGED pc
    BY <1>1, <1>2, <1>4, <1>5, MovedHere DEF Sourcing, Fetching, Reviewing, Skipping
  <1>6. CASE \E s \in {"chapter", "pack", "qa", "analyzed", "block", "end"} : Goes(e, s)
    BY <1>1, <1>2, <1>4, <1>6, Moved DEF Sourcing, Fetching, Reviewing, Skipping, Unplanned
  <1> QED BY <1>4, <1>5, <1>6

LEMMA Plans ==
  ASSUME WellFormed, NEW e \in Executions, Plan(e)
  PROVE  WellFormed' /\ Alone(e)
  <1>1. task.profile \in {"documents", "source"} /\ pc[e] \in {"plan", "write-plan"}
    BY DEF WellFormed, Plan, planner_envelope_plan, planner_envelope_write, At, Replying, Ended
  <1>2. PICK s \in {"write-plan", IF task.profile = "source" THEN "resolving" ELSE "start", "end"} :
           Goes(e, s)
    BY DEF Plan, planner_envelope_plan, planner_envelope_write, Blocks
  <1>3. UNCHANGED <<task, base, got, chapter, disturbed>> /\ base[e] = Unread
    BY DEF Plan, planner_envelope_plan, planner_envelope_write, At, sources
  <1>4. s \in StagesOf(task.profile) \cup Ended /\ s \notin {"idle", "crashed"} \cup Unplanned
    BY <1>1 DEF Documenting, Drafting, Sourcing, Fetching, Ended, Unplanned
  <1>5. DOMAIN mine' = Executions /\ \A f \in Executions \ {e} : mine'[f] = mine[f]
    BY DEF Plan, planner_envelope_plan, planner_envelope_write, WellFormed
  <1>6. Alone(e)
    BY <1>2, <1>3, <1>4, <1>5, GoesTo DEF Alone
  <1> QED BY <1>2, <1>3, <1>4, <1>5, <1>6, GoesTo, Formed DEF WellFormed

LEMMA Reads ==
  ASSUME WellFormed, NEW e \in Executions, readPlannerEnvelope(e)
  PROVE  WellFormed' /\ Alone(e)
  <1>1. UNCHANGED <<task, pc, mine, got, chapter, disturbed>> /\ DOMAIN base' = Executions
        /\ \A f \in Executions \ {e} : base'[f] = base[f]
    BY DEF readPlannerEnvelope, sources, WellFormed
  <1>2. pc[e] \in LedgerStages
    BY DEF readPlannerEnvelope
  <1>3. Alone(e)
    BY <1>1 DEF Alone
  <1> QED BY <1>1, <1>2, <1>3, Formed DEF WellFormed

(* Where a change of the ledger leads to.                                  *)
Onward(s) ==
    CASE s = "start" -> {"route", "end"}
      [] s = "project" -> {"judge"}
      [] s = "record" -> {"deliver", "next"}
      [] s = "verify" -> {"output"}
      [] s = "block" -> {"end"}
      [] OTHER -> {AfterTransition(s)}

LEMMA LedgerStagesOf ==
  ASSUME WellFormed, NEW e \in Executions, pc[e] \in LedgerStages
  PROVE  IF task.profile = "source"
         THEN pc[e] \in {"block", "official"} \cup Opens \cup Skipping \cup Closes
         ELSE task.profile = "documents" /\ pc[e] \in {"start", "project", "record", "verify"}
  BY DEF WellFormed, LedgerStages, Opens, Skips, Closes, Skipping, Sourcing, Fetching, Reviewing,
     Documenting, Drafting, Recording, Replying, Ended

LEMMA GoesOnward ==
  ASSUME WellFormed, NEW e \in Executions, pc[e] \in LedgerStages, NEW a, GoesOn(e, pc[e], a)
  PROVE  /\ \E s \in Onward(pc[e]) : Goes(e, s)
         /\ Onward(pc[e]) \subseteq (StagesOf(task.profile) \cup {"end"}) \ Unplanned
  <1>1. CASE task.profile = "source"
    <2>1. CASE pc[e] = "block"
      BY <2>1 DEF GoesOn, Onward, Blocks, Unplanned
    <2>2. CASE pc[e] # "block"
      <3>1. pc[e] \in {"official"} \cup Opens \cup Skipping \cup Closes
        BY <1>1, <2>2, LedgerStagesOf
      <3>2. Onward(pc[e]) = {AfterTransition(pc[e])} /\ Goes(e, AfterTransition(pc[e]))
        BY <3>1 DEF GoesOn, Onward, Opens, Skipping, Closes
      <3>3. AfterTransition(pc[e]) \in Sourcing \ Unplanned
        BY <3>1 DEF AfterTransition, Opens, Skipping, Closes, Sourcing, Fetching, Reviewing, Unplanned
      <3> QED BY <1>1, <3>2, <3>3
    <2> QED BY <2>1, <2>2
  <1>2. CASE task.profile # "source"
    <2>1. task.profile = "documents" /\ pc[e] \in {"start", "project", "record", "verify"}
      BY <1>2, LedgerStagesOf
    <2> QED BY <2>1 DEF GoesOn, Onward, Blocks, Documenting, Drafting, Recording, Unplanned
  <1> QED BY <1>1, <1>2

LEMMA GoesOnHolding ==
  ASSUME WellFormed, NEW e \in Executions, pc[e] \in LedgerStages, NEW a, GoesOn(e, pc[e], a)
  PROVE  Holds(e) /\ DOMAIN mine' = Executions /\ \A f \in Executions \ {e} : mine'[f] = mine[f]
  <1>1. Holds(e)
    <2>1. Holding(got[e]) /\ got[e].left \ {got[e].next} \in SUBSET DocumentTypes
      BY DEF WellFormed, Holding
    <2>2. Holding([got[e] EXCEPT !.left = @ \ {got[e].next}])
      BY <2>1, Changes
    <2> QED BY <2>2, LedgerStagesOf DEF GoesOn, Holds, Opens, Skipping, Closes
  <1>2. mine' = mine \/ \E l : mine' = [mine EXCEPT ![e] = l]
    BY LedgerStagesOf DEF GoesOn, Opens, Skipping, Closes
  <1> QED BY <1>1, <1>2, TakesNow DEF WellFormed

LEMMA Reconciles ==
  ASSUME WellFormed, NEW e \in Executions, execution_ledger_reconcile(e)
  PROVE  WellFormed' /\ Alone(e)
  <1>1. pc[e] \in LedgerStages
    BY DEF execution_ledger_reconcile, WellFormed
  <1>2. PICK a : GoesOn(e, pc[e], a)
    BY DEF execution_ledger_reconcile
  <1>3. PICK s \in (StagesOf(task.profile) \cup {"end"}) \ Unplanned : Goes(e, s)
    BY <1>1, <1>2, GoesOnward
  <1>4. /\ UNCHANGED <<task, chapter>> /\ base' = [base EXCEPT ![e] = Unread]
        /\ disturbed' \in {disturbed, disturbed \cup {e}}
    BY DEF execution_ledger_reconcile, sources
  <1>5. DOMAIN got' = Executions /\ Holding(got'[e]) /\ \A f \in Executions \ {e} : got'[f] = got[f]
    BY <1>1, <1>2, GoesOnHolding, HasNow DEF Holds, WellFormed
  <1>6. DOMAIN mine' = Executions /\ \A f \in Executions \ {e} : mine'[f] = mine[f]
    BY <1>1, <1>2, GoesOnHolding
  <1>7. Alone(e)
    BY <1>3, <1>4, <1>5, <1>6, GoesTo DEF Alone, WellFormed, Ended
  <1> QED BY <1>3, <1>4, <1>5, <1>6, <1>7, GoesTo, Formed DEF WellFormed, Unplanned, Ended

LEMMA Starts ==
  ASSUME WellFormed, NEW e \in Executions, Start(e)
  PROVE  WellFormed' /\ Alone(e)
  <1>1. task \in Scenario
    BY ExecutionAssumption DEF WellFormed
  <1>2. FirstStage \in StagesOf(task.profile) \ {"idle", "crashed"}
    BY <1>1 DEF FirstStage, Scenario, Profiles, Documenting, Drafting, Sourcing, Fetching, Replying
  <1>3. UNCHANGED <<task, mine, base, got, chapter, disturbed>> /\ Goes(e, FirstStage) /\ pc[e] = "idle"
    BY DEF Start, sources
  <1>4. base[e] = Unread
    BY <1>3 DEF WellFormed, LedgerStages, Opens, Skips, Closes
  <1> QED BY <1>2, <1>3, <1>4, Moved DEF Holds, Unplanned, WellFormed

LEMMA Throws ==
  ASSUME WellFormed, NEW e \in Executions, Throw(e)
  PROVE  WellFormed' /\ Alone(e)
  <1>1. UNCHANGED <<task, mine, base, chapter>> /\ base[e] = Unread /\ disturbed' = disturbed \cup {e}
    BY DEF Throw, sources
  <1>2. Holds(e) /\ \E s \in IF task.profile = "source" THEN {"block", "end"} ELSE {"end"} : Goes(e, s)
    BY FinishesHolding DEF Throw, Blocks, Holds
  <1> QED BY <1>1, <1>2, Moved DEF WellFormed, Sourcing, Unplanned

LEMMA Crashes ==
  ASSUME WellFormed, NEW e \in Executions, Crash(e)
  PROVE  WellFormed' /\ Alone(e)
  <1>1. /\ UNCHANGED <<task, chapter, disturbed>> /\ Goes(e, "crashed") /\ Has(e, Empty)
        /\ base' = [base EXCEPT ![e] = Unread] /\ mine' = [mine EXCEPT ![e] = NoPlan]
    BY DEF Crash, sources
  <1>2. Alone(e)
    BY <1>1, GoesTo, HasNow DEF Alone, WellFormed, Ended
  <1>3. ~NoPlan.valid
    BY DEF NoPlan
  <1> QED BY <1>1, <1>2, <1>3, GoesTo, HasNow, Formed, EmptyHolds DEF WellFormed, Ended

LEMMA EachStep ==
  ASSUME WellFormed, NEW e \in Executions, Start(e) \/ Work(e) \/ Throw(e) \/ Crash(e)
  PROVE  WellFormed' /\ Alone(e)
  BY Starts, Throws, Crashes, Replies, Plans, Reads, Reconciles, Prepares, Writings, Checks,
     Deliveries, Resolves, Analyses DEF Work, Reconcile

LEMMA SelectKeeps ==
  ASSUME Select
  PROVE  UNCHANGED <<task, pc, mine, base, got, qa, policy, transcript, chapter, pack, output, disturbed>>
  BY DEF Select, execution, gates, sources

LEMMA StutterKeeps ==
  ASSUME UNCHANGED vars
  PROVE  UNCHANGED <<task, pc, mine, base, got, qa, policy, transcript, chapter, pack, output, disturbed>>
  BY DEF vars, execution, gates, sources

LEMMA InitFormed == Init => WellFormed
  BY EmptyHolds DEF Init, WellFormed, Ended, NoPlan

LEMMA FormedStep == WellFormed /\ [Next]_vars => WellFormed'
  <1> SUFFICES ASSUME WellFormed, [Next]_vars PROVE WellFormed'
    OBVIOUS
  <1>1. CASE Select \/ UNCHANGED vars
    BY <1>1, SelectKeeps, StutterKeeps DEF WellFormed
  <1>2. CASE \E e \in Executions : Start(e) \/ Work(e) \/ Throw(e) \/ Crash(e)
    BY <1>2, EachStep
  <1> QED BY <1>1, <1>2 DEF Next

(* Where each execution of a run stands, and what it holds there: nothing   *)
(* before it starts, no plan before it has planned, a half-read ledger only *)
(* while it reconciles (runTaskExecutionPipeline).                          *)
THEOREM TaskWellFormed == Spec => []WellFormed
  BY InitFormed, FormedStep, PTL DEF Spec

-----------------------------------------------------------------------------
(* The pack of a source.                                                   *)

(* What matters to the pack of what an execution holds.                    *)
SameText(e) == got'[e].text = got[e].text /\ got'[e].parts = got[e].parts

LEMMA TextKept ==
  ASSUME NEW g, Holding(g)
  PROVE  /\ \A v : LET u == [g EXCEPT !.analysed = v] IN u.text = g.text /\ u.parts = g.parts
         /\ \A v : LET u == [g EXCEPT !.review = v] IN u.text = g.text /\ u.parts = g.parts
         /\ \A v : LET u == [g EXCEPT !.qa = v] IN u.text = g.text /\ u.parts = g.parts
         /\ \A v : LET u == [g EXCEPT !.saved = v] IN u.text = g.text /\ u.parts = g.parts
         /\ \A v : LET u == [g EXCEPT !.left = v] IN u.text = g.text /\ u.parts = g.parts
         /\ \A v : LET u == [g EXCEPT !.next = v] IN u.text = g.text /\ u.parts = g.parts
         /\ \A v : LET u == [g EXCEPT !.try = v] IN u.text = g.text /\ u.parts = g.parts
         /\ \A v, w : LET u == [g EXCEPT !.results = v, !.whole = w] IN u.text = g.text /\ u.parts = g.parts
         /\ \A v, w : LET u == [g EXCEPT !.blocked = v, !.why = w] IN u.text = g.text /\ u.parts = g.parts
         /\ \A v, w : LET u == [g EXCEPT !.policy = v, !.left = w] IN u.text = g.text /\ u.parts = g.parts
         /\ \A v, w : LET u == [g EXCEPT !.chapter = v, !.try = w] IN u.text = g.text /\ u.parts = g.parts
         /\ \A v : LET u == [g EXCEPT !.text = v] IN u.text = v /\ u.parts = g.parts
  BY FieldsOf DEF Holding

LEMMA FinishKeepsText ==
  ASSUME WellFormed, NEW e \in Executions, NEW step, NEW why, finishBlocked(e, step, why)
  PROVE  SameText(e)
  <1>1. got' = got \/ Has(e, [got[e] EXCEPT !.blocked = step, !.why = why])
    BY DEF finishBlocked
  <1>2. CASE Has(e, [got[e] EXCEPT !.blocked = step, !.why = why])
    <2>1. got'[e] = [got[e] EXCEPT !.blocked = step, !.why = why]
      BY <1>2, HasNow
    <2> QED BY <2>1, TextKept DEF SameText, WellFormed
  <1> QED BY <1>1, <1>2 DEF SameText

(* Stages that say nothing of the parts.                                   *)
Silent == {"block", "output", "idle", "end", "crashed"} \cup Skipping

LEMMA PartsMoved ==
  ASSUME WellFormed, PackInv, NEW e \in Executions, NEW s \in StagesOf(task.profile) \cup Ended,
         Goes(e, s), SameText(e), UNCHANGED task,
         \/ s \in Silent
         \/ s \in Fetching /\ pc[e] \in Fetching \cup {"idle"}
         \/ s \in {"chapter", "pack"} /\ pc[e] \in Fetching \cup {"chapter", "pack"}
         \/ s \in Reviewing /\ pc[e] \in Reviewing
         \/ task.profile # "source"
  PROVE  PartsFit(e)'
  <1>1. pc'[e] = s
    BY GoesTo
  <1>2. pc[e] = "idle" => got[e].text = NoText /\ \A c \in Chapters : got[e].parts[c] = NoText
    BY DEF WellFormed, Empty
  <1>3. PartsFit(e)
    BY DEF PackInv
  <1> QED BY <1>1, <1>2, <1>3 DEF PartsFit, SameText, Silent, Skipping, Fetching, Reviewing

LEMMA PartsStep ==
  ASSUME WellFormed, PackInv, NEW e \in Executions, PartsFit(e)', Alone(e), UNCHANGED pack
  PROVE  PackInv'
  BY DEF PackInv, PartsFit, Alone, PackOfOneSource

(* Whatever is not a source has no text.                                   *)
LEMMA DraftsParts ==
  ASSUME WellFormed, PackInv, NEW e \in Executions, Reply(e) \/ Prepare(e) \/ Write(e)
  PROVE  PackInv'
  <1>1. WellFormed' /\ Alone(e)
    BY Replies, Prepares, Writings
  <1>2. UNCHANGED pack /\ task.profile # "source"
    BY DEF WellFormed, Reply, buildFileSummaryContext, planFastDraftRoute, generateDirectReply,
       Prepare, ensureAsrTranscription, ensureMeetingIntelligence, buildEvidencePack,
       Write, model_route_plan, document_prompt_render_batch, document_workers_run,
       publishPartial, Needs, At, sources, Sourcing, Fetching, Reviewing, Skipping, Ended
  <1>3. SameText(e)
    <2>1. Holding(got[e])
      BY DEF WellFormed
    <2>2. got' = got \/ (\E v : Has(e, [got[e] EXCEPT !.analysed = v]))
          \/ (\E v : Has(e, [got[e] EXCEPT !.review = v]))
          \/ (\E v, w : Has(e, [got[e] EXCEPT !.results = v, !.whole = w]))
      BY DEF Reply, buildFileSummaryContext, planFastDraftRoute, generateDirectReply,
         Prepare, ensureAsrTranscription, ensureMeetingIntelligence, buildEvidencePack,
         buildReviewContext, Write, model_route_plan, document_prompt_render_batch,
         document_workers_run, publishPartial, Needs
    <2>3. got' = got \/ (\E v : got'[e] = [got[e] EXCEPT !.analysed = v])
          \/ (\E v : got'[e] = [got[e] EXCEPT !.review = v])
          \/ (\E v, w : got'[e] = [got[e] EXCEPT !.results = v, !.whole = w])
      BY <2>2, HasNow
    <2>4. ASSUME NEW v, got'[e] = [got[e] EXCEPT !.analysed = v] PROVE SameText(e)
      BY <2>1, <2>4, TextKept DEF SameText
    <2>5. ASSUME NEW v, got'[e] = [got[e] EXCEPT !.review = v] PROVE SameText(e)
      BY <2>1, <2>5, TextKept DEF SameText
    <2>6. ASSUME NEW v, NEW w, got'[e] = [got[e] EXCEPT !.results = v, !.whole = w] PROVE SameText(e)
      BY <2>1, <2>6, TextKept DEF SameText
    <2>7. got' = got => SameText(e)
      BY DEF SameText
    <2> QED BY <2>3, <2>4, <2>5, <2>6, <2>7
  <1>4. PartsFit(e)'
    BY <1>1, <1>2, <1>3 DEF PackInv, PartsFit, SameText, WellFormed, Documenting, Replying, Drafting, Recording,
       Ended, Fetching, Reviewing, Alone
  <1> QED BY <1>1, <1>2, <1>4, PartsStep

LEMMA CheckParts ==
  ASSUME WellFormed, PackInv, NEW e \in Executions, Check(e)
  PROVE  PackInv'
  <1>1. WellFormed' /\ Alone(e) /\ Holding(got[e])
    BY Checks DEF WellFormed
  <1>2. UNCHANGED pack
    BY DEF Check, qa_gate_evaluate, qa_gate_write, policy_gate_check, sources
  <1>3. SameText(e)
    <2>1. CASE qa_gate_evaluate(e)
      <3>1. PICK v : Has(e, [got[e] EXCEPT !.qa = v])
        BY <2>1 DEF qa_gate_evaluate
      <3>2. got'[e] = [got[e] EXCEPT !.qa = v]
        BY <3>1, HasNow
      <3> QED BY <1>1, <3>2, TextKept DEF SameText
    <2>2. CASE qa_gate_write(e)
      <3>1. (\E v : Has(e, [got[e] EXCEPT !.saved = v])) \/ finishBlocked(e, "analyze", "qa")
        BY <2>2 DEF qa_gate_write
      <3>2. ASSUME NEW v, Has(e, [got[e] EXCEPT !.saved = v]) PROVE SameText(e)
        <4>1. got'[e] = [got[e] EXCEPT !.saved = v]
          BY <3>2, HasNow
        <4> QED BY <1>1, <4>1, TextKept DEF SameText
      <3> QED BY <3>1, <3>2, FinishKeepsText
    <2>3. CASE policy_gate_check(e)
      <3>1. \/ \E v, w : Has(e, [got[e] EXCEPT !.policy = v, !.left = w])
            \/ finishBlocked(e, "resolve", "policy")
        BY <2>3 DEF policy_gate_check
      <3>2. ASSUME NEW v, NEW w, Has(e, [got[e] EXCEPT !.policy = v, !.left = w]) PROVE SameText(e)
        <4>1. got'[e] = [got[e] EXCEPT !.policy = v, !.left = w]
          BY <3>2, HasNow
        <4> QED BY <1>1, <4>1, TextKept DEF SameText
      <3> QED BY <3>1, <3>2, FinishKeepsText
    <2> QED BY <2>1, <2>2, <2>3 DEF Check
  <1>4. PICK s : Goes(e, s) /\ s \in StagesOf(task.profile) \cup Ended
           /\ \/ s \in {"block", "end"}
              \/ task.profile # "source"
              \/ s \in Fetching /\ pc[e] \in Fetching
              \/ s \in Reviewing /\ pc[e] \in Reviewing
    <2>1. CASE qa_gate_evaluate(e)
      BY <2>1 DEF qa_gate_evaluate, At, Sourcing, Documenting, Reviewing, WellFormed, Replying, Ended
    <2>2. CASE qa_gate_write(e)
      BY <2>2, FinishesHolding DEF qa_gate_write, At, Sourcing, Documenting, Reviewing, WellFormed, Replying, Ended
    <2>3. CASE policy_gate_check(e)
      <3>1. pc[e] = "policy" /\ pc[e] \in Fetching
        BY <2>3 DEF policy_gate_check, At, Fetching
      <3>2. task.profile \in {"source", "documents"}
        BY <3>1 DEF WellFormed, Replying, Ended
      <3>3. \E s \in IF task.profile = "source" THEN {"resolve", "block", "end"} ELSE {"next"} : Goes(e, s)
        BY <2>3, FinishesHolding DEF policy_gate_check
      <3>4. CASE task.profile = "source"
        <4>1. PICK s \in {"resolve", "block", "end"} : Goes(e, s)
          BY <3>3, <3>4
        <4>2. s \in {"block", "end"} \/ s \in Fetching
          BY DEF Fetching
        <4> QED BY <3>1, <3>4, <4>1, <4>2 DEF Sourcing, Ended
      <3>5. CASE task.profile = "documents"
        BY <3>3, <3>5 DEF Documenting, Recording
      <3> QED BY <3>2, <3>4, <3>5
    <2> QED BY <2>1, <2>2, <2>3 DEF Check
  <1>5. PartsFit(e)'
    BY <1>1, <1>3, <1>4, PartsMoved DEF Alone, Silent
  <1> QED BY <1>1, <1>2, <1>5, PartsStep

LEMMA DeliverParts ==
  ASSUME WellFormed, PackInv, NEW e \in Executions, Deliver(e)
  PROVE  PackInv'
  <1>1. WellFormed' /\ Alone(e) /\ Holding(got[e])
    BY Deliveries DEF WellFormed
  <1>2. UNCHANGED pack
    BY DEF Deliver, readyIndex, deliverables, writeOutput, sources
  <1>3. SameText(e)
    <2>1. got' = got \/ \E v : Has(e, [got[e] EXCEPT !.next = v])
      BY DEF Deliver, readyIndex, deliverables, writeOutput
    <2>2. ASSUME NEW v, Has(e, [got[e] EXCEPT !.next = v]) PROVE SameText(e)
      <3>1. got'[e] = [got[e] EXCEPT !.next = v]
        BY <2>2, HasNow
      <3> QED BY <1>1, <3>1, TextKept DEF SameText
    <2> QED BY <2>1, <2>2 DEF SameText
  <1>4. task.profile # "source" \/ pc'[e] = "end"
    BY HasNow DEF Deliver, readyIndex, deliverables, writeOutput, At, WellFormed, Goes, Sourcing,
       Fetching, Reviewing, Skipping, Ended
  <1>5. PartsFit(e)'
    BY <1>1, <1>3, <1>4 DEF PackInv, PartsFit, SameText, Alone, Fetching, Reviewing, WellFormed,
       Documenting, Drafting, Recording
  <1> QED BY <1>1, <1>2, <1>5, PartsStep

LEMMA ResolveParts ==
  ASSUME WellFormed, PackInv, NEW e \in Executions, Resolve(e)
  PROVE  PackInv'
  <1>1. WellFormed' /\ Alone(e) /\ Holding(got[e])
    BY Resolves DEF WellFormed
  <1>2. UNCHANGED pack /\ task.profile = "source" /\ pc[e] \in Fetching
    BY DEF Resolve, sourceResolver, sourceTranscript, hearSource, buildProvenanceIndex, NeedsFor,
       sources, At, WellFormed, Documenting, Drafting, Recording, Replying, Ended, Fetching
  <1>3. got'[e].parts = got[e].parts
    <2>1. got' = got \/ (\E v : Has(e, [got[e] EXCEPT !.text = v])) \/ SameText(e)
      BY FinishKeepsText
      DEF Resolve, sourceResolver, sourceTranscript, hearSource, buildProvenanceIndex, NeedsFor
    <2>2. ASSUME NEW v, Has(e, [got[e] EXCEPT !.text = v]) PROVE got'[e].parts = got[e].parts
      <3>1. got'[e] = [got[e] EXCEPT !.text = v]
        BY <2>2, HasNow
      <3> QED BY <1>1, <3>1, TextKept
    <2> QED BY <2>1, <2>2 DEF SameText
  <1>4. \E s \in {"resolved", "official", "hearing", "heard", "analyzing", "block", "end"} : Goes(e, s)
    BY FinishesHolding DEF Resolve, sourceResolver, sourceTranscript, hearSource,
       buildProvenanceIndex, NeedsFor
  <1>6. pc'[e] \in Fetching \cup {"block", "end"}
    BY <1>4 DEF Goes, WellFormed, Fetching
  <1>5. PartsFit(e)'
    BY <1>1, <1>2, <1>3, <1>6 DEF PackInv, PartsFit, Alone, Fetching, Reviewing
  <1> QED BY <1>1, <1>2, <1>5, PartsStep

LEMMA ChapterParts ==
  ASSUME WellFormed, PackInv, NEW e \in Executions, NEW g, Holding(g), NextChapter(e, g),
         pc[e] = "chapter", task.profile = "source", UNCHANGED task,
         \A c \in Chapters : g.parts[c] \in {NoText, g.text}
  PROVE  PartsFit(e)'
  <1>1. \E h : Has(e, h) /\ h.text = g.text /\ h.parts = g.parts
    <2>1. Has(e, g) \/ Has(e, [g EXCEPT !.chapter = g.chapter + 1, !.try = 1])
      BY DEF NextChapter
    <2>2. LET u == [g EXCEPT !.chapter = g.chapter + 1, !.try = 1] IN u.text = g.text /\ u.parts = g.parts
      BY TextKept
    <2> QED BY <2>1, <2>2
  <1>2. got'[e].text = g.text /\ got'[e].parts = g.parts
    BY <1>1, HasNow
  <1>3. pc'[e] \in {"chapter", "pack"}
    BY DEF NextChapter, Goes, WellFormed
  <1> QED BY <1>2, <1>3 DEF PartsFit, Fetching, Reviewing

LEMMA AnalyzeParts ==
  ASSUME WellFormed, PackInv, NEW e \in Executions, Analyze(e)
  PROVE  PackInv'
  <1>1. WellFormed' /\ Alone(e) /\ Holding(got[e]) /\ PartsFit(e)
    BY Analyses DEF WellFormed, PackInv
  <1>2. task.profile = "source"
    BY DEF WellFormed, Analyze, partitionSourceSegments, reuseChapter, analyzeChapter,
       buildKnowledgeSourcePack, writeSourcePack, NeedsFor, At, Replying, Ended, Documenting,
       Drafting, Recording
  <1>3. ASSUME NEW v, v = got[e].text, pc[e] = "chapter"
        PROVE  LET u == [got[e] EXCEPT !.parts[got[e].chapter] = v]
               IN  Holding(u) /\ \A c \in Chapters : u.parts[c] \in {NoText, u.text}
    <2>1. got[e].chapter \in Chapters /\ DOMAIN got[e].parts = Chapters
      BY <1>1 DEF Holding
    <2>2. LET u == [got[e] EXCEPT !.parts[got[e].chapter] = v]
          IN  Holding(u) /\ u.parts = [got[e].parts EXCEPT ![got[e].chapter] = v] /\ u.text = got[e].text
      <3> DEFINE u == [got[e] EXCEPT !.parts[got[e].chapter] = v]
      <3>1. /\ Holding(u) /\ u.parts = [got[e].parts EXCEPT ![got[e].chapter] = v]
            /\ \A k \in Fields \ {"parts"} : u[k] = got[e][k]
        <4>1. PICK c \in Chapters : c = got[e].chapter
          BY <2>1
        <4>2. LET w == [got[e] EXCEPT !.parts[c] = v]
              IN  /\ Holding(w) /\ w.parts = [got[e].parts EXCEPT ![c] = v]
                  /\ \A k \in Fields \ {"parts"} : w[k] = got[e][k]
          BY <1>1, PartTaken
        <4> QED BY <4>1, <4>2
      <3>2. u["text"] = got[e]["text"]
        BY <3>1, FieldsOf
      <3> QED BY <3>1, <3>2
    <2> QED BY <1>1, <1>3, <2>1, <2>2 DEF PartsFit
  <1>4. CASE partitionSourceSegments(e)
    <2>1. SameText(e) /\ UNCHANGED pack /\ pc[e] = "chapters"
      BY <1>4, FinishKeepsText DEF partitionSourceSegments, NeedsFor, SameText, sources, At
    <2>2. pc'[e] \in {"chapter", "block", "end"}
      BY <1>4, FinishesHolding DEF partitionSourceSegments, NeedsFor, WellFormed, Goes
    <2>3. PartsFit(e)'
      BY <1>1, <1>2, <2>1, <2>2 DEF PartsFit, SameText, Alone, Fetching, Reviewing
    <2> QED BY <1>1, <2>1, <2>3, PartsStep
  <1>5. CASE reuseChapter(e)
    <2>1. PICK g : /\ g = [got[e] EXCEPT !.parts[got[e].chapter] = got[e].text]
                   /\ NextChapter(e, g) /\ pc[e] = "chapter" /\ UNCHANGED pack
      BY <1>5 DEF reuseChapter, reusableSourceChapterAnalysis, At, sources
    <2>2. PartsFit(e)'
      BY <1>1, <1>2, <1>3, <2>1, ChapterParts DEF Alone
    <2> QED BY <1>1, <2>1, <2>2, PartsStep
  <1>6. CASE analyzeChapter(e)
    <2>1. pc[e] = "chapter" /\ UNCHANGED pack
      BY <1>6 DEF analyzeChapter, At
    <2>2. \/ NextChapter(e, [got[e] EXCEPT !.parts[got[e].chapter] = got[e].text])
          \/ UNCHANGED pc /\ Has(e, [got[e] EXCEPT !.try = 2])
          \/ Goes(e, "pack") /\ UNCHANGED got
      BY <1>6 DEF analyzeChapter
    <2>3. CASE NextChapter(e, [got[e] EXCEPT !.parts[got[e].chapter] = got[e].text])
      <3>1. PICK g : g = [got[e] EXCEPT !.parts[got[e].chapter] = got[e].text] /\ NextChapter(e, g)
        BY <2>3
      <3>2. PartsFit(e)'
        BY <1>1, <1>2, <1>3, <2>1, <3>1, ChapterParts DEF Alone
      <3> QED BY <1>1, <2>1, <3>2, PartsStep
    <2>4. CASE UNCHANGED pc /\ Has(e, [got[e] EXCEPT !.try = 2])
      <3>1. got'[e] = [got[e] EXCEPT !.try = 2]
        BY <2>4, HasNow
      <3>2. SameText(e)
        BY <1>1, <3>1, TextKept DEF SameText
      <3>3. PartsFit(e)'
        BY <1>1, <2>4, <3>2 DEF PartsFit, SameText, Alone
      <3> QED BY <1>1, <2>1, <3>3, PartsStep
    <2>5. CASE Goes(e, "pack") /\ UNCHANGED got
      <3>1. pc'[e] = "pack"
        BY <2>5 DEF Goes, WellFormed
      <3>2. PartsFit(e)'
        BY <1>1, <1>2, <2>1, <2>5, <3>1 DEF PartsFit, Alone, Fetching, Reviewing
      <3> QED BY <1>1, <2>1, <3>2, PartsStep
    <2> QED BY <2>2, <2>3, <2>4, <2>5
  <1>7. CASE buildKnowledgeSourcePack(e)
    <2>1. SameText(e) /\ UNCHANGED pack /\ pc[e] = "pack"
      BY <1>7, FinishKeepsText DEF buildKnowledgeSourcePack, SameText, sources, At
    <2>2. \/ pc'[e] = "qa" /\ \A c \in Chapters : got[e].parts[c] # NoText
          \/ pc'[e] \in {"block", "end"}
      BY <1>7, FinishesHolding DEF buildKnowledgeSourcePack, WellFormed, Goes
    <2>3. PartsFit(e)'
      BY <1>1, <1>2, <2>1, <2>2 DEF PartsFit, SameText, Alone, Fetching, Reviewing
    <2> QED BY <1>1, <2>1, <2>3, PartsStep
  <1>8. CASE writeSourcePack(e)
    <2>1. /\ pack' = [of |-> got[e].text, parts |-> got[e].parts]
          /\ UNCHANGED got /\ pc[e] = "write-pack" /\ pc'[e] = "analyzed"
      BY <1>8 DEF writeSourcePack, At, Goes, WellFormed
    <2>2. PartsFit(e)' /\ PackOfOneSource'
      BY <1>1, <1>2, <2>1 DEF PartsFit, Alone, Fetching, Reviewing, PackOfOneSource
    <2> QED BY <1>1, <2>2 DEF PackInv, PartsFit, Alone
  <1> QED BY <1>4, <1>5, <1>6, <1>7, <1>8 DEF Analyze

LEMMA LedgerParts ==
  ASSUME WellFormed, PackInv, NEW e \in Executions, Plan(e) \/ Reconcile(e)
  PROVE  PackInv'
  <1>1. WellFormed' /\ Alone(e) /\ Holding(got[e]) /\ PartsFit(e)
    BY Plans, Reads, Reconciles DEF WellFormed, PackInv, Reconcile
  <1>2. UNCHANGED pack
    BY DEF Plan, Reconcile, planner_envelope_plan, planner_envelope_write, readPlannerEnvelope,
       execution_ledger_reconcile, sources
  <1>3. CASE Plan(e)
    <2>1. UNCHANGED got /\ pc[e] \in {"plan", "write-plan"} /\ task.profile \in {"source", "documents"}
      BY <1>3 DEF Plan, planner_envelope_plan, planner_envelope_write, At, WellFormed, Replying, Ended
    <2>2. pc'[e] \in {"write-plan", "end"} \cup
                     (IF task.profile = "source" THEN {"resolving"} ELSE {"start"})
      BY <1>3 DEF Plan, planner_envelope_plan, planner_envelope_write, Goes, Blocks, WellFormed
    <2>3. PartsFit(e)'
      BY <1>1, <2>1, <2>2 DEF PartsFit, Alone, Fetching, Reviewing
    <2> QED BY <1>1, <1>2, <2>3, PartsStep
  <1>4. CASE readPlannerEnvelope(e)
    <2>1. UNCHANGED <<got, pc>>
      BY <1>4 DEF readPlannerEnvelope
    <2>2. PartsFit(e)'
      BY <1>1, <2>1 DEF PartsFit, Alone
    <2> QED BY <1>1, <1>2, <2>2, PartsStep
  <1>5. CASE execution_ledger_reconcile(e)
    <2>1. pc[e] \in LedgerStages
      BY <1>5 DEF execution_ledger_reconcile, WellFormed
    <2>2. PICK a : GoesOn(e, pc[e], a)
      BY <1>5 DEF execution_ledger_reconcile
    <2>3. got' = got \/ Has(e, [got[e] EXCEPT !.left = @ \ {got[e].next}])
      BY <2>1, <2>2, LedgerStagesOf DEF GoesOn, Opens, Skipping, Closes
    <2>4. SameText(e)
      <3>1. CASE Has(e, [got[e] EXCEPT !.left = @ \ {got[e].next}])
        <4>1. got'[e] = [got[e] EXCEPT !.left = @ \ {got[e].next}]
          BY <3>1, HasNow
        <4> QED BY <1>1, <4>1, TextKept DEF SameText
      <3> QED BY <2>3, <3>1 DEF SameText
    <2>5. PICK s \in Onward(pc[e]) : Goes(e, s)
      BY <2>1, <2>2, GoesOnward
    <2>6. s \in StagesOf(task.profile) \cup Ended
      BY <2>1, <2>2, GoesOnward DEF Ended
    <2>7. task.profile = "source" =>
            \/ s \in Silent
            \/ s \in Fetching /\ pc[e] \in Fetching
            \/ s \in {"chapter", "pack"} /\ pc[e] \in Fetching \cup {"chapter", "pack"}
            \/ s \in Reviewing /\ pc[e] \in Reviewing
      BY <2>1, LedgerStagesOf DEF Onward, AfterTransition, Silent, Fetching, Reviewing, Opens,
         Skipping, Closes
    <2>8. PartsFit(e)'
      BY <1>1, <2>4, <2>5, <2>6, <2>7, PartsMoved DEF Alone
    <2> QED BY <1>1, <1>2, <2>8, PartsStep
  <1> QED BY <1>3, <1>4, <1>5 DEF Reconcile

LEMMA ControlParts ==
  ASSUME WellFormed, PackInv, NEW e \in Executions, Start(e) \/ Throw(e) \/ Crash(e)
  PROVE  PackInv'
  <1>1. WellFormed' /\ Alone(e) /\ Holding(got[e]) /\ PartsFit(e)
    BY Starts, Throws, Crashes DEF WellFormed, PackInv
  <1>2. UNCHANGED pack
    BY DEF Start, Throw, Crash, sources
  <1>3. CASE Start(e)
    <2>1. SameText(e) /\ pc[e] = "idle" /\ Goes(e, FirstStage)
      BY <1>3 DEF Start, SameText
    <2>2. task \in Scenario
      BY ExecutionAssumption DEF WellFormed
    <2>3. FirstStage \in StagesOf(task.profile) /\ (task.profile = "source" => FirstStage \in Fetching)
      BY <2>2 DEF FirstStage, Scenario, Profiles, Documenting, Drafting, Sourcing, Fetching, Replying
    <2>4. PartsFit(e)'
      BY <1>1, <2>1, <2>3, PartsMoved DEF Alone
    <2> QED BY <1>1, <1>2, <2>4, PartsStep
  <1>4. CASE Throw(e)
    <2>1. SameText(e)
      BY <1>4, FinishKeepsText DEF Throw, SameText
    <2>2. pc'[e] \in {"block", "end"}
      BY <1>4, FinishesHolding DEF Throw, Blocks, Goes, WellFormed
    <2>3. PartsFit(e)'
      BY <1>1, <2>1, <2>2 DEF PartsFit, SameText, Alone, Fetching, Reviewing
    <2> QED BY <1>1, <1>2, <2>3, PartsStep
  <1>5. CASE Crash(e)
    <2>1. got'[e] = Empty /\ pc'[e] = "crashed"
      BY <1>5, HasNow DEF Crash, Goes, WellFormed
    <2>2. PartsFit(e)'
      BY <2>1 DEF PartsFit, Empty, Fetching, Reviewing
    <2> QED BY <1>1, <1>2, <2>2, PartsStep
  <1> QED BY <1>3, <1>4, <1>5

LEMMA PackStep == WellFormed /\ PackInv /\ [Next]_vars => PackInv'
  <1> SUFFICES ASSUME WellFormed, PackInv, [Next]_vars PROVE PackInv'
    OBVIOUS
  <1>1. CASE Select \/ UNCHANGED vars
    BY <1>1, SelectKeeps, StutterKeeps DEF PackInv, PartsFit, PackOfOneSource
  <1>2. CASE \E e \in Executions : Start(e) \/ Work(e) \/ Throw(e) \/ Crash(e)
    BY <1>2, DraftsParts, CheckParts, DeliverParts, ResolveParts, AnalyzeParts, LedgerParts,
       ControlParts DEF Work
  <1> QED BY <1>1, <1>2 DEF Next

(* A source pack is of one text, whatever was analysed before, whoever     *)
(* died, and however often the source changed (buildKnowledgeSourcePack,   *)
(* reusableSourceChapterAnalysis).                                         *)
THEOREM PackIsOfOneSource == Spec => []PackOfOneSource
  <1>1. Init => PackInv
    BY DEF Init, PackInv, PartsFit, PackOfOneSource, NoPack, Empty, Fetching, Reviewing
  <1>2. PackInv => PackOfOneSource
    BY DEF PackInv
  <1> QED BY <1>1, <1>2, TaskWellFormed, PackStep, PTL DEF Spec

-----------------------------------------------------------------------------
(* The gates of documents.                                                 *)

(* What a gate is asked, it answers for.                                   *)
LEMMA EvaluationOf == \A i : Evaluation(i).input = i /\ Evaluation(i) # Unanswered
  BY DEF Evaluation, blockedGate, evaluateGate, Unanswered

(* A status that passes has nothing that counts against it.                *)
LEMMA PassMeans ==
  ASSUME NEW issues, issueStatus(issues) = "pass"
  PROVE  \A i \in issues : i.severity \notin {"blocking", "needs_fix"}
  BY DEF issueStatus

LEMMA GatePasses ==
  ASSUME NEW i, Evaluation(i).status = "pass"
  PROVE  /\ i.profile = "document_revision" => i.review # Unchecked
         /\ LET scoped == [d \in DOMAIN i.documents |->
                              documentIssues(i.documents[d], priorityOf(d, i.publish))]
                issues == findingIssues(i.found, i.publish)
                          \cup (IF i.pack = NotChecked THEN {} ELSE sourcePackIssues(i.pack))
                          \cup (IF i.review = Unchecked THEN {} ELSE reviewIssues(i.review, i.reviewFlaws))
                          \cup UNION {scoped[d] : d \in DOMAIN scoped}
            IN  \A j \in issues : j.blocksDelivery => j.severity \notin {"blocking", "needs_fix"}
  <1>1. ~qaProfileRequirementFailure(i) /\ evaluateGate(i).status = "pass"
    BY DEF Evaluation, blockedGate
  <1> DEFINE scoped == [d \in DOMAIN i.documents |->
                           documentIssues(i.documents[d], priorityOf(d, i.publish))]
  <1> DEFINE issues == findingIssues(i.found, i.publish)
                       \cup (IF i.pack = NotChecked THEN {} ELSE sourcePackIssues(i.pack))
                       \cup (IF i.review = Unchecked THEN {} ELSE reviewIssues(i.review, i.reviewFlaws))
                       \cup UNION {scoped[d] : d \in DOMAIN scoped}
  <1>2. issueStatus({j \in issues : j.blocksDelivery}) = "pass"
    BY <1>1 DEF evaluateGate
  <1>3. i.profile = "document_revision" => i.review # Unchecked
    BY <1>1 DEF qaProfileRequirementFailure
  <1> HIDE DEF issues
  <1>4. \A j \in {k \in issues : k.blocksDelivery} : j.severity \notin {"blocking", "needs_fix"}
    BY <1>2, PassMeans
  <1> QED BY <1>3, <1>4 DEF issues

LEMMA FindingsWeigh ==
  ASSUME NEW found, NEW publish, NEW c \in found
  PROVE  \E j \in findingIssues(found, publish) :
            j.blocksDelivery /\ j.severity \in {"blocking", "needs_fix"}
  <1> DEFINE j == Issue(c, IF c \in Breaches \/ (publish /\ c \in Doubts)
                           THEN "blocking" ELSE "needs_fix", TRUE)
  <1>1. j \in findingIssues(found, publish)
    BY DEF findingIssues
  <1>2. j.blocksDelivery /\ j.severity \in {"blocking", "needs_fix"}
    BY DEF Issue
  <1> QED BY <1>1, <1>2

LEMMA ReviewWeighs ==
  ASSUME NEW status, status # "ready"
  PROVE  \E j \in reviewIssues(status, {}) : j.blocksDelivery /\ j.severity \in {"blocking", "needs_fix"}
  <1> DEFINE j == Issue(status, IF status = "comments_unscoped" THEN "blocking" ELSE "needs_fix", TRUE)
  <1>1. j \in reviewIssues(status, {})
    BY DEF reviewIssues
  <1>2. j.blocksDelivery /\ j.severity \in {"blocking", "needs_fix"}
    BY DEF Issue
  <1> QED BY <1>1, <1>2

LEMMA FlawWeighs ==
  ASSUME NEW flaws, NEW c \in flaws, c \notin DocumentWarnings
  PROVE  \E j \in documentIssues(flaws, "primary") :
            j.blocksDelivery /\ j.severity \in {"blocking", "needs_fix"}
  <1> DEFINE s == CASE c \in DocumentBreaches -> "blocking" [] c \in DocumentWarnings -> "warning"
                    [] OTHER -> "needs_fix"
  <1> DEFINE j == Issue(c, s, "primary" = "primary")
  <1>1. j \in documentIssues(flaws, "primary")
    BY DEF documentIssues
  <1>2. s \in {"blocking", "needs_fix"}
    BY DEF DocumentBreaches, DocumentWarnings
  <1>3. j.blocksDelivery /\ j.severity \in {"blocking", "needs_fix"}
    BY <1>2 DEF Issue
  <1> QED BY <1>1, <1>3

(* What it means that the gate lets an execution's documents pass.         *)
Clean(g) ==
    /\ g.status = "pass" /\ assertGateIntegrity(g)
    /\ \A d \in DOMAIN g.input.documents :
          task.publish \/ d = "minutes" => g.input.documents[d] \subseteq DocumentWarnings
    /\ g.input.found = {}
    /\ task.revision => g.input.review = "ready"

LEMMA PassIsClean ==
  ASSUME NEW e \in Executions, AskedHonestly(e), got[e].qa.status = "pass"
  PROVE  Clean(got[e].qa) /\ DOMAIN got[e].qa.input.documents = got[e].results
  <1>1. PICK found, wrong : got[e].qa = Evaluation(DocumentInput(e, found, wrong))
    BY DEF AskedHonestly
  <1> DEFINE i == DocumentInput(e, found, wrong)
  <1>2. got[e].qa = Evaluation(i) /\ got[e].qa.input = i /\ got[e].qa # Unanswered
    BY <1>1, EvaluationOf
  <1>3. /\ task.revision => i.profile = "document_revision"
        /\ i.publish = task.publish /\ i.pack = NotChecked /\ i.reviewFlaws = {}
        /\ DOMAIN i.documents = got[e].results
    BY DEF DocumentInput, EvaluationInput
  <1> HIDE DEF i
  <1> DEFINE scoped == [d \in DOMAIN i.documents |->
                           documentIssues(i.documents[d], priorityOf(d, i.publish))]
  <1>4. /\ i.profile = "document_revision" => i.review # Unchecked
        /\ \A j \in findingIssues(i.found, i.publish) :
              j.blocksDelivery => j.severity \notin {"blocking", "needs_fix"}
        /\ i.review # Unchecked => \A j \in reviewIssues(i.review, i.reviewFlaws) :
              j.blocksDelivery => j.severity \notin {"blocking", "needs_fix"}
        /\ \A d \in DOMAIN i.documents : \A j \in scoped[d] :
              j.blocksDelivery => j.severity \notin {"blocking", "needs_fix"}
    BY <1>2, GatePasses
  <1>5. i.found = {}
    BY <1>4, FindingsWeigh
  <1>6. task.revision => i.review = "ready"
    BY <1>3, <1>4, ReviewWeighs
  <1>7. ASSUME NEW d \in DOMAIN i.documents, task.publish \/ d = "minutes", NEW c \in i.documents[d]
        PROVE  c \in DocumentWarnings
    <2>1. scoped[d] = documentIssues(i.documents[d], "primary")
      BY <1>3, <1>7 DEF priorityOf
    <2> QED BY <1>4, <2>1, FlawWeighs
  <1>8. assertGateIntegrity(got[e].qa)
    BY <1>2 DEF assertGateIntegrity
  <1> QED BY <1>2, <1>3, <1>5, <1>6, <1>7, <1>8 DEF Clean

(* What matters to the gates of what an execution holds.                   *)
SameGates(e) ==
    /\ got'[e].whole = got[e].whole /\ got'[e].results = got[e].results
    /\ got'[e].review = got[e].review /\ got'[e].qa = got[e].qa
    /\ got'[e].saved = got[e].saved /\ got'[e].policy = got[e].policy

LEMMA AskedStill ==
  ASSUME NEW e \in Executions, AskedHonestly(e), UNCHANGED task, got'[e].results = got[e].results,
         got'[e].review = got[e].review, got'[e].qa = got[e].qa
  PROVE  AskedHonestly(e)'
  BY DEF AskedHonestly, DocumentInput

GatesAt(e) == GateFits(e) /\ SavedGate(e)

LEMMA OthersGates ==
  ASSUME WellFormed, GateInv, task.profile = "documents", NEW e \in Executions, Alone(e),
         qa' = qa \/ (qa'.by = e /\ Running(e) /\ pc[e] # "idle"),
         NEW f \in Executions \ {e}
  PROVE  GatesAt(f)'
  <1>1. /\ UNCHANGED task /\ pc'[f] = pc[f] /\ got'[f] = got[f] /\ GateFits(f) /\ SavedGate(f)
    BY DEF Alone, GateInv
  <1>2. GateFits(f)'
    BY <1>1, AskedStill DEF GateFits, publishable
  <1>3. SavedGate(f)'
    <2>1. CASE qa' = qa
      BY <1>1, <2>1 DEF SavedGate
    <2>2. CASE qa'.by = e /\ Running(e) /\ pc[e] # "idle"
      <3>1. qa'.by # f
        BY <2>2
      <3>2. ASSUME ~task.overlap, got[f].saved PROVE e >= f
        <4>1. pc[f] # "idle"
          BY <3>2 DEF WellFormed, Empty
        <4>2. ~(e < f)
          BY <2>2, <3>2, <4>1 DEF GateInv, InOrder
        <4>3. e \in Int /\ f \in Int
          <5>1. Executions = 1 .. Cardinality(Executions) /\ Cardinality(Executions) \in Nat
            BY ExecutionAssumption, FS_CardinalityType
          <5> QED BY <5>1
        <4> QED BY <4>2, <4>3
      <3> QED BY <1>1, <2>2, <3>1, <3>2 DEF SavedGate
    <2> QED BY <2>1, <2>2
  <1> QED BY <1>2, <1>3 DEF GatesAt

LEMMA OrderKept ==
  ASSUME WellFormed, GateInv, task.profile = "documents", NEW e \in Executions, Alone(e), pc'[e] # "idle",
         pc[e] \notin {"end", "crashed"},
         pc[e] = "idle" => \A f \in 1 .. e - 1 : pc[f] # "idle" /\ (task.overlap \/ ~Running(f))
  PROVE  InOrder'
  <1> SUFFICES ASSUME ~task.overlap, NEW g \in Executions, NEW f \in Executions, f < g, pc'[g] # "idle"
               PROVE  pc'[f] # "idle" /\ ~Running(f)'
    BY DEF InOrder, Alone
  <1>1. \A k \in Executions \ {e} : pc'[k] = pc[k]
    BY DEF Alone
  <1>2. Executions = 1 .. Cardinality(Executions) /\ Cardinality(Executions) \in Nat
    BY ExecutionAssumption, FS_CardinalityType
  <1>3. InOrder
    BY DEF GateInv
  <1>4. pc[f] # "idle" /\ ~Running(f)
    <2>1. CASE pc[g] # "idle"
      BY <1>3, <2>1 DEF InOrder
    <2>2. CASE pc[g] = "idle"
      <3>1. g = e
        BY <1>1, <2>2
      <3>2. f \in 1 .. e - 1
        BY <1>2, <3>1
      <3> QED BY <2>2, <3>1, <3>2
    <2> QED BY <2>1, <2>2
  <1>5. f # e
    BY <1>4 DEF Running, Ended
  <1> QED BY <1>1, <1>4, <1>5 DEF Running

(* A step keeps the gates in order that keeps its own execution's, and     *)
(* writes an output only when it ends.                                     *)
LEMMA GateStepOf ==
  ASSUME WellFormed, GateInv, task.profile = "documents", NEW e \in Executions, Alone(e),
         pc[e] \notin {"end", "crashed"}, pc'[e] # "idle",
         pc[e] = "idle" => \A f \in 1 .. e - 1 : pc[f] # "idle" /\ (task.overlap \/ ~Running(f)),
         qa' = qa \/ (qa'.by = e /\ pc[e] = "save-qa"),
         GatesAt(e)',
         \/ output' = output
         \/ /\ output'.by = e /\ pc'[e] = "end"
            /\ output'.status = "completed" =>
                  output'.documents = task.requested /\ publishable(got'[e])
  PROVE  GateInv'
  <1>0. pc[e] = "save-qa" => Running(e) /\ pc[e] # "idle"
    BY DEF Running, Ended
  <1>1. \A f \in Executions : GatesAt(f)'
    BY <1>0, OthersGates
  <1>2. qa'.by \in Executions \cup {0}
    BY DEF GateInv
  <1>3. InOrder'
    BY OrderKept
  <1>4. OutputFits'
    <2>1. CASE output' = output
      <3>1. OutputFits /\ UNCHANGED task
        BY DEF GateInv, Alone
      <3>2. CASE output.by = 0
        BY <2>1, <3>1, <3>2 DEF OutputFits, NoOutput, None
      <3>3. CASE output.by # 0
        <4>1. output.by \in Executions \ {e}
          BY <3>1, <3>3 DEF OutputFits
        <4>2. pc'[output.by] = pc[output.by] /\ got'[output.by] = got[output.by]
          BY <4>1 DEF Alone
        <4> QED BY <2>1, <3>1, <3>3, <4>2 DEF OutputFits, publishable
      <3> QED BY <3>2, <3>3
    <2>2. CASE output' # output
      <3>1. e # 0
        <4>1. Executions = 1 .. Cardinality(Executions) /\ Cardinality(Executions) \in Nat
          BY ExecutionAssumption, FS_CardinalityType
        <4> QED BY <4>1
      <3> QED BY <2>2, <3>1 DEF OutputFits, Alone, publishable
    <2> QED BY <2>1, <2>2
  <1> QED BY <1>1, <1>2, <1>3, <1>4 DEF GateInv, GatesAt

(* Drafting: there is no gate yet.                                         *)
LEMMA DraftedGates ==
  ASSUME WellFormed, GateInv, task.profile = "documents", NEW e \in Executions, Alone(e),
         pc[e] \in Drafting \cup {"idle"}, pc'[e] \in Drafting \cup {"end"}, UNCHANGED qa,
         got'[e].whole => got'[e].results = task.requested,
         got'[e].qa = got[e].qa, got'[e].saved = got[e].saved, got'[e].policy = got[e].policy
  PROVE  GatesAt(e)'
  <1>1. UNCHANGED task /\ GateFits(e) /\ SavedGate(e)
    BY DEF Alone, GateInv
  <1>2. got[e].qa = Unanswered /\ ~got[e].saved /\ got[e].policy = "blocked"
    BY <1>1 DEF GateFits, WellFormed, Empty
  <1>3. qa.by # e
    BY <1>1 DEF SavedGate, Drafting, Recording
  <1>4. GateFits(e)'
    BY <1>1, <1>2 DEF GateFits, Drafting, Recording
  <1>5. SavedGate(e)'
    BY <1>2, <1>3 DEF SavedGate
  <1> QED BY <1>4, <1>5 DEF GatesAt

(* Later, nothing of what they are is changed.                             *)
LEMMA KeptGates ==
  ASSUME WellFormed, GateInv, task.profile = "documents", NEW e \in Executions, Alone(e),
         SameGates(e), UNCHANGED qa,
         pc[e] \in Documenting, pc'[e] \in Documenting \cup {"end"},
         pc'[e] \in Drafting => pc[e] \in Drafting,
         pc'[e] \in {"save-qa", "policy"} => pc'[e] = pc[e],
         pc'[e] = "verify" => pc[e] = "verify" \/ publishable(got[e]),
         pc'[e] \in Recording => pc[e] \in Recording
  PROVE  GatesAt(e)'
  <1>1. UNCHANGED task /\ GateFits(e) /\ SavedGate(e)
    BY DEF Alone, GateInv
  <1>2. got[e].qa # Unanswered => AskedHonestly(e)'
    BY <1>1, AskedStill DEF SameGates, GateFits
  <1>3. GateFits(e)'
    BY <1>1, <1>2 DEF GateFits, SameGates, publishable, Drafting, Recording
  <1>4. SavedGate(e)'
    BY <1>1 DEF SavedGate, SameGates, Drafting, Recording, Documenting
  <1> QED BY <1>3, <1>4 DEF GatesAt

(* A pipeline for documents is at no stage of the others.                  *)
LEMMA DocumentStage ==
  ASSUME WellFormed, task.profile = "documents", NEW e \in Executions
  PROVE  pc[e] \in Documenting \cup Ended
  BY DEF WellFormed

LEMMA PrepareGates ==
  ASSUME WellFormed, GateInv, task.profile = "documents", NEW e \in Executions, Prepare(e)
  PROVE  GateInv'
  <1>1. Alone(e) /\ WellFormed' /\ Holding(got[e])
    BY Prepares DEF WellFormed
  <1>2. /\ pc[e] \in {"transcribe", "understand", "evidence"}
        /\ pc'[e] \in {"understand", "evidence", "plan", "end"}
        /\ output' = output \/ (output'.by = e /\ pc'[e] = "end" /\ output'.status = "blocked")
        /\ UNCHANGED qa
    BY DEF Prepare, ensureAsrTranscription, ensureMeetingIntelligence, buildEvidencePack, Blocks,
       Writes, Goes, At, WellFormed, gates
  <1>3. /\ got'[e].qa = got[e].qa /\ got'[e].saved = got[e].saved /\ got'[e].policy = got[e].policy
        /\ got'[e].whole = got[e].whole /\ got'[e].results = got[e].results
    <2>1. got' = got \/ (\E v : Has(e, [got[e] EXCEPT !.analysed = v]))
                     \/ (\E v : Has(e, [got[e] EXCEPT !.review = v]))
      BY DEF Prepare, ensureAsrTranscription, ensureMeetingIntelligence, buildEvidencePack,
         buildReviewContext
    <2>2. got' = got \/ (\E v : got'[e] = [got[e] EXCEPT !.analysed = v])
                     \/ (\E v : got'[e] = [got[e] EXCEPT !.review = v])
      BY <2>1, HasNow
    <2> QED BY <1>1, <2>2, FieldsOf DEF Holding
  <1>4. GatesAt(e)'
    BY <1>1, <1>2, <1>3, DraftedGates DEF Drafting, GateInv, GateFits
  <1> QED BY <1>1, <1>2, <1>4, GateStepOf

LEMMA WriteGates ==
  ASSUME WellFormed, GateInv, task.profile = "documents", NEW e \in Executions, Write(e)
  PROVE  GateInv'
  <1>1. Alone(e) /\ WellFormed' /\ Holding(got[e])
    BY Writings DEF WellFormed
  <1>2. /\ pc[e] \in {"route", "render", "work", "judge"}
        /\ pc'[e] \in {"render", "work", "project", "judge", "qa", "end"}
        /\ output' = output \/ (output'.by = e /\ pc'[e] = "end" /\ output'.status = "blocked")
        /\ UNCHANGED qa
    <2>1. CASE model_route_plan(e) \/ document_prompt_render_batch(e)
      BY <2>1 DEF model_route_plan, document_prompt_render_batch, Needs, Blocks, Writes, Goes, At,
         WellFormed, gates
    <2>2. CASE document_workers_run(e)
      BY <2>2 DEF document_workers_run, Goes, At, WellFormed, gates
    <2>3. CASE publishPartial(e)
      BY <2>3 DEF publishPartial, Blocks, Writes, Goes, At, WellFormed, gates
    <2> QED BY <2>1, <2>2, <2>3 DEF Write
  <1>3. /\ got'[e].qa = got[e].qa /\ got'[e].saved = got[e].saved /\ got'[e].policy = got[e].policy
        /\ got'[e].whole => got'[e].results = task.requested
    <2>1. got' = got \/ \E v, w : /\ Has(e, [got[e] EXCEPT !.results = v, !.whole = w])
                                  /\ w => v = task.requested
      BY DEF Write, model_route_plan, document_prompt_render_batch, document_workers_run,
         publishPartial, Needs
    <2>2. got' = got \/ \E v, w : got'[e] = [got[e] EXCEPT !.results = v, !.whole = w] /\ (w => v = task.requested)
      <3>1. ASSUME NEW v, NEW w, Has(e, [got[e] EXCEPT !.results = v, !.whole = w])
            PROVE  got'[e] = [got[e] EXCEPT !.results = v, !.whole = w]
        BY <3>1, HasNow
      <3> QED BY <2>1, <3>1
    <2> QED BY <1>1, <2>2, FieldsOf DEF Holding, GateInv, GateFits
  <1>4. GatesAt(e)'
    BY <1>1, <1>2, <1>3, DraftedGates DEF Drafting
  <1> QED BY <1>1, <1>2, <1>4, GateStepOf

LEMMA PlanGates ==
  ASSUME WellFormed, GateInv, task.profile = "documents", NEW e \in Executions, Plan(e)
  PROVE  GateInv'
  <1>1. Alone(e) /\ WellFormed'
    BY Plans
  <1>2. /\ pc[e] \in {"plan", "write-plan"} /\ pc'[e] \in {"write-plan", "start", "end"}
        /\ output' = output \/ (output'.by = e /\ pc'[e] = "end" /\ output'.status = "blocked")
        /\ UNCHANGED <<qa, got>>
    BY DEF Plan, planner_envelope_plan, planner_envelope_write, Blocks, Writes, Goes, At, WellFormed, gates
  <1>4. GatesAt(e)'
    BY <1>1, <1>2, DraftedGates DEF Drafting, GateInv, GateFits
  <1> QED BY <1>1, <1>2, <1>4, GateStepOf

LEMMA ReadGates ==
  ASSUME WellFormed, GateInv, task.profile = "documents", NEW e \in Executions, readPlannerEnvelope(e)
  PROVE  GateInv'
  <1>1. UNCHANGED <<task, pc, got, qa, output>>
    BY DEF readPlannerEnvelope, gates
  <1>2. GateInv' = GateInv
    <2>1. \A f \in Executions : AskedHonestly(f)' = AskedHonestly(f)
      BY <1>1 DEF AskedHonestly, DocumentInput
    <2> QED BY <1>1, <2>1 DEF GateInv, GateFits, SavedGate, InOrder, Running, OutputFits, publishable
  <1> QED BY <1>2

LEMMA LeftKeepsGates ==
  ASSUME NEW g, Holding(g), NEW v
  PROVE  LET u == [g EXCEPT !.left = v]
         IN  /\ u.whole = g.whole /\ u.results = g.results /\ u.review = g.review
             /\ u.qa = g.qa /\ u.saved = g.saved /\ u.policy = g.policy
  BY FieldsOf DEF Holding

LEMMA ReconcileGates ==
  ASSUME WellFormed, GateInv, task.profile = "documents", NEW e \in Executions,
         execution_ledger_reconcile(e)
  PROVE  GateInv'
  <1>1. Alone(e) /\ WellFormed' /\ Holding(got[e]) /\ pc[e] \in {"start", "project", "record", "verify"}
    BY Reconciles, LedgerStagesOf DEF WellFormed, execution_ledger_reconcile
  <1>2. PICK a : GoesOn(e, pc[e], a)
    BY DEF execution_ledger_reconcile
  <1>3. UNCHANGED qa
    BY DEF execution_ledger_reconcile, gates
  <1>4. /\ pc[e] = "start" => pc'[e] \in {"route", "end"}
        /\ pc[e] = "project" => pc'[e] = "judge"
        /\ pc[e] = "record" => pc'[e] \in {"deliver", "next"}
        /\ pc[e] = "verify" => pc'[e] = "output"
        /\ output' = output \/ (output'.by = e /\ pc'[e] = "end" /\ output'.status = "blocked")
        /\ got' = got \/ Has(e, [got[e] EXCEPT !.left = @ \ {got[e].next}])
    BY <1>1, <1>2 DEF GoesOn, Blocks, Writes, Goes, WellFormed
  <1>5. SameGates(e)
    <2>1. got' = got \/ got'[e] = [got[e] EXCEPT !.left = @ \ {got[e].next}]
      BY <1>4, HasNow
    <2>2. CASE got'[e] = [got[e] EXCEPT !.left = @ \ {got[e].next}]
      <3>1. PICK v : v = got[e].left \ {got[e].next}
        OBVIOUS
      <3>2. got'[e] = [got[e] EXCEPT !.left = v]
        BY <2>2, <3>1
      <3> QED BY <1>1, <3>2, LeftKeepsGates DEF SameGates
    <2> QED BY <2>1, <2>2 DEF SameGates
  <1>6. GatesAt(e)'
    BY <1>1, <1>3, <1>4, <1>5, KeptGates DEF Documenting, Drafting, Recording
  <1> QED BY <1>1, <1>3, <1>4, <1>6, GateStepOf

LEMMA StartGates ==
  ASSUME WellFormed, GateInv, task.profile = "documents", NEW e \in Executions, Start(e)
  PROVE  GateInv'
  <1>1. Alone(e) /\ WellFormed'
    BY Starts
  <1>2. /\ pc[e] = "idle" /\ pc'[e] \in {"transcribe", "understand"}
        /\ \A f \in 1 .. e - 1 : pc[f] # "idle" /\ (task.overlap \/ ~Running(f))
        /\ UNCHANGED <<qa, got, output>>
    BY DEF Start, FirstStage, Goes, WellFormed, gates
  <1>4. GatesAt(e)'
    BY <1>1, <1>2, DraftedGates DEF Drafting, GateInv, GateFits
  <1> QED BY <1>1, <1>2, <1>4, GateStepOf

LEMMA ThrowGates ==
  ASSUME WellFormed, GateInv, task.profile = "documents", NEW e \in Executions, Throw(e)
  PROVE  GateInv'
  <1>1. Alone(e) /\ WellFormed'
    BY Throws
  <1>2. /\ pc[e] \in Documenting /\ pc'[e] = "end"
        /\ output'.by = e /\ output'.status = "blocked"
        /\ UNCHANGED <<qa, got>>
    BY DocumentStage DEF Throw, Running, Blocks, Writes, Goes, WellFormed, gates
  <1>4. GatesAt(e)'
    BY <1>1, <1>2, KeptGates DEF SameGates, Drafting, Recording
  <1> QED BY <1>1, <1>2, <1>4, GateStepOf DEF Documenting, Drafting, Recording

LEMMA CrashGates ==
  ASSUME WellFormed, GateInv, task.profile = "documents", NEW e \in Executions, Crash(e)
  PROVE  GateInv'
  <1>1. Alone(e) /\ WellFormed'
    BY Crashes
  <1>2. /\ pc[e] \notin Ended /\ pc'[e] = "crashed" /\ got'[e] = Empty
        /\ UNCHANGED <<qa, output>>
    BY HasNow DEF Crash, Running, Goes, WellFormed, gates
  <1>3. SavedGate(e)'
    BY <1>2 DEF SavedGate, Empty
  <1>4. GateFits(e)'
    BY <1>2 DEF GateFits, Empty, Drafting
  <1>5. GatesAt(e)'
    BY <1>3, <1>4 DEF GatesAt
  <1> QED BY <1>1, <1>2, <1>5, GateStepOf DEF Ended

LEMMA DeliverGates ==
  ASSUME WellFormed, GateInv, task.profile = "documents", NEW e \in Executions, Deliver(e)
  PROVE  GateInv'
  <1>1. Alone(e) /\ WellFormed' /\ Holding(got[e])
    BY Deliveries DEF WellFormed
  <1>2. UNCHANGED qa
    BY DEF Deliver, readyIndex, deliverables, writeOutput, gates
  <1>3. CASE readyIndex(e)
    <2>1. pc[e] = "next" /\ pc'[e] \in {"record", "deliver"} /\ UNCHANGED output
      BY <1>3 DEF readyIndex, At, Goes, WellFormed
    <2>2. SameGates(e)
      <3>1. got' = got \/ \E d : got'[e] = [got[e] EXCEPT !.next = d]
        BY <1>3, HasNow DEF readyIndex
      <3> QED BY <1>1, <3>1, FieldsOf DEF SameGates, Holding
    <2>3. GatesAt(e)'
      BY <1>1, <1>2, <2>1, <2>2, KeptGates DEF Documenting, Drafting, Recording
    <2> QED BY <1>1, <1>2, <2>1, <2>3, GateStepOf
  <1>4. CASE deliverables(e)
    <2>1. /\ pc[e] = "deliver" /\ pc'[e] \in {"verify", "output"} /\ UNCHANGED <<got, output>>
          /\ pc'[e] = "verify" => publishable(got[e])
      BY <1>4 DEF deliverables, At, Goes, WellFormed
    <2>3. GatesAt(e)'
      BY <1>1, <1>2, <2>1, KeptGates DEF Documenting, Drafting, Recording, SameGates
    <2> QED BY <1>1, <1>2, <2>1, <2>3, GateStepOf
  <1>5. CASE writeOutput(e)
    <2>1. /\ pc[e] = "output" /\ pc'[e] = "end" /\ UNCHANGED got
          /\ output'.by = e
          /\ output'.status = "completed" => output'.documents = task.requested /\ publishable(got[e])
      BY <1>5 DEF writeOutput, At, Goes, WellFormed, Writes
    <2>3. GatesAt(e)'
      BY <1>1, <1>2, <2>1, KeptGates DEF Documenting, Drafting, Recording, SameGates
    <2>4. output'.status = "completed" => publishable(got'[e])
      BY <2>1
    <2> QED BY <1>1, <1>2, <2>1, <2>3, <2>4, GateStepOf
  <1> QED BY <1>3, <1>4, <1>5 DEF Deliver

LEMMA NoticedAreFindings == Noticed \subseteq Findings /\ Flawed \subseteq DocumentFlaws
  BY ExecutionAssumption

LEMMA AskedOfDocuments ==
  ASSUME WellFormed, task.profile = "documents", NEW e \in Executions,
         NEW i \in {BestInput(e)} \cup OtherInputs(e)
  PROVE  \E found \in SUBSET Findings, wrong \in Wrongs : i = DocumentInput(e, found, wrong)
  <1>1. Nothing \in Wrongs
    BY DEF Nothing, Wrongs
  <1>2. CASE i = BestInput(e)
    BY <1>1, <1>2 DEF BestInput
  <1>3. CASE i \in OtherInputs(e)
    <2>1. CASE \E c \in Noticed : i = Found(e, c)
      BY <1>1, <2>1, NoticedAreFindings DEF Found
    <2>2. CASE \E d \in got[e].results, c \in Flawed : i = Wrong(e, d, c)
      <3>1. PICK d \in got[e].results, c \in Flawed : i = Wrong(e, d, c)
        BY <2>2
      <3>2. d \in DocumentTypes
        BY DEF WellFormed, Holding
      <3>3. [Nothing EXCEPT ![d] = {c}] \in Wrongs
        BY <1>1, <3>2, NoticedAreFindings DEF Wrongs
      <3> QED BY <3>1, <3>3 DEF Wrong
    <2>3. \/ \E c \in Noticed : i = Found(e, c)
          \/ \E d \in got[e].results, c \in Flawed : i = Wrong(e, d, c)
      BY <1>3 DEF OtherInputs
    <2> QED BY <2>1, <2>2, <2>3
  <1> QED BY <1>2, <1>3

LEMMA QaChange ==
  ASSUME NEW g, Holding(g), NEW v
  PROVE  LET u == [g EXCEPT !.qa = v]
         IN  /\ u.whole = g.whole /\ u.results = g.results /\ u.review = g.review
             /\ u.qa = v /\ u.saved = g.saved /\ u.policy = g.policy
  BY FieldsOf DEF Holding

LEMMA SavedChange ==
  ASSUME NEW g, Holding(g), NEW v
  PROVE  LET u == [g EXCEPT !.saved = v]
         IN  /\ u.whole = g.whole /\ u.results = g.results /\ u.review = g.review
             /\ u.qa = g.qa /\ u.saved = v /\ u.policy = g.policy
  BY FieldsOf DEF Holding

LEMMA PolicyChange ==
  ASSUME NEW g, Holding(g), NEW v, NEW w
  PROVE  LET u == [g EXCEPT !.policy = v, !.left = w]
         IN  /\ u.whole = g.whole /\ u.results = g.results /\ u.review = g.review
             /\ u.qa = g.qa /\ u.saved = g.saved /\ u.policy = v
  BY FieldsOf DEF Holding

LEMMA CheckGates ==
  ASSUME WellFormed, GateInv, task.profile = "documents", NEW e \in Executions, Check(e)
  PROVE  GateInv'
  <1>1. Alone(e) /\ WellFormed' /\ Holding(got[e]) /\ GateFits(e) /\ SavedGate(e) /\ task' = task
    BY Checks DEF WellFormed, GateInv, Alone
  <1>3. CASE qa_gate_evaluate(e)
    <2>1. pc[e] = "qa" /\ pc'[e] = "save-qa" /\ UNCHANGED <<output, qa>>
      BY <1>3 DEF qa_gate_evaluate, At, Goes, WellFormed, gates
    <2>2. PICK v : /\ Has(e, [got[e] EXCEPT !.qa = v])
                   /\ v = Unanswered \/ \E i \in {BestInput(e)} \cup OtherInputs(e) : v = Evaluation(i)
      BY <1>3 DEF qa_gate_evaluate
    <2>3. got'[e] = [got[e] EXCEPT !.qa = v]
      BY <2>2, HasNow
    <2>4. /\ got'[e].whole = got[e].whole /\ got'[e].results = got[e].results
          /\ got'[e].review = got[e].review /\ got'[e].saved = got[e].saved
          /\ got'[e].policy = got[e].policy /\ got'[e].qa = v
      BY <1>1, <2>3, QaChange
    <2>5. v # Unanswered => AskedHonestly(e)'
      <3> SUFFICES ASSUME v # Unanswered PROVE AskedHonestly(e)'
        OBVIOUS
      <3>1. PICK i \in {BestInput(e)} \cup OtherInputs(e) : v = Evaluation(i)
        BY <2>2
      <3>2. PICK found \in SUBSET Findings, wrong \in Wrongs : i = DocumentInput(e, found, wrong)
        BY AskedOfDocuments
      <3>3. DocumentInput(e, found, wrong)' = DocumentInput(e, found, wrong)
        BY <1>1, <2>4 DEF DocumentInput
      <3> QED BY <2>4, <3>1, <3>2, <3>3 DEF AskedHonestly
    <2>6. qa.by # e
      BY <1>1, <2>1 DEF SavedGate, Recording
    <2>7. ~got[e].saved /\ got[e].policy = "blocked"
      BY <1>1, <2>1 DEF GateFits, Drafting
    <2>8. GateFits(e)'
      BY <1>1, <2>1, <2>4, <2>5, <2>7 DEF GateFits, Drafting
    <2>9. SavedGate(e)'
      BY <2>1, <2>4, <2>6, <2>7 DEF SavedGate
    <2> QED BY <1>1, <2>1, <2>8, <2>9, GateStepOf DEF GatesAt
  <1>4. CASE qa_gate_write(e)
    <2>1. PICK s \in BOOLEAN, written \in BOOLEAN :
             /\ s => written
             /\ qa' = IF written THEN [gate |-> got[e].qa, by |-> e] ELSE qa
             /\ Has(e, [got[e] EXCEPT !.saved = s])
      BY <1>4 DEF qa_gate_write
    <2>2. pc[e] = "save-qa" /\ pc'[e] = "policy" /\ UNCHANGED output
      BY <1>4 DEF qa_gate_write, At, Goes, WellFormed
    <2>3. got'[e] = [got[e] EXCEPT !.saved = s]
      BY <2>1, HasNow
    <2>4. /\ got'[e].whole = got[e].whole /\ got'[e].results = got[e].results
          /\ got'[e].review = got[e].review /\ got'[e].saved = s
          /\ got'[e].policy = got[e].policy /\ got'[e].qa = got[e].qa
      BY <1>1, <2>3, SavedChange
    <2>5. got[e].qa # Unanswered => AskedHonestly(e)'
      BY <1>1, <2>4, AskedStill DEF GateFits
    <2>6. qa.by # e
      BY <1>1, <2>2 DEF SavedGate, Recording
    <2>7. got[e].policy = "blocked"
      BY <1>1, <2>2 DEF GateFits, Drafting
    <2>8. GateFits(e)'
      BY <1>1, <2>2, <2>4, <2>5, <2>7 DEF GateFits, Drafting
    <2>10. e >= e
      <3>1. Executions = 1 .. Cardinality(Executions) /\ Cardinality(Executions) \in Nat
        BY ExecutionAssumption, FS_CardinalityType
      <3> QED BY <3>1
    <2>11. qa'.by = e \/ qa' = qa
      BY <2>1
    <2>12. qa'.by = e => written
      BY <2>1, <2>6
    <2>9. SavedGate(e)'
      BY <2>1, <2>2, <2>4, <2>6, <2>10 DEF SavedGate
    <2> QED BY <1>1, <2>2, <2>8, <2>9, <2>11, GateStepOf DEF GatesAt
  <1>5. CASE policy_gate_check(e)
    <2>1. PICK v : Has(e, [got[e] EXCEPT !.policy = v, !.left = task.requested])
      BY <1>5 DEF policy_gate_check
    <2>2. pc[e] = "policy" /\ pc'[e] = "next" /\ UNCHANGED <<output, qa>>
      BY <1>5 DEF policy_gate_check, At, Goes, WellFormed
    <2>3. got'[e] = [got[e] EXCEPT !.policy = v, !.left = task.requested]
      BY <2>1, HasNow
    <2>4. /\ got'[e].whole = got[e].whole /\ got'[e].results = got[e].results
          /\ got'[e].review = got[e].review /\ got'[e].saved = got[e].saved
          /\ got'[e].qa = got[e].qa
      BY <1>1, <2>3, PolicyChange
    <2>5. got[e].qa # Unanswered => AskedHonestly(e)'
      BY <1>1, <2>4, AskedStill DEF GateFits
    <2>8. GateFits(e)'
      BY <1>1, <2>2, <2>4, <2>5 DEF GateFits, Drafting
    <2>9. SavedGate(e)'
      BY <1>1, <2>2, <2>4 DEF SavedGate, Recording
    <2> QED BY <1>1, <2>2, <2>8, <2>9, GateStepOf DEF GatesAt
  <1> QED BY <1>3, <1>4, <1>5 DEF Check

LEMMA GateStep == WellFormed /\ GateInv /\ [Next]_vars => GateInv'
  <1> SUFFICES ASSUME WellFormed, GateInv, [Next]_vars PROVE GateInv'
    OBVIOUS
  <1>1. UNCHANGED task
    <2>1. CASE Select \/ UNCHANGED vars
      BY <2>1, SelectKeeps, StutterKeeps
    <2>2. CASE \E e \in Executions : Start(e) \/ Work(e) \/ Throw(e) \/ Crash(e)
      BY <2>2, EachStep DEF Alone
    <2> QED BY <2>1, <2>2 DEF Next
  <1>2. CASE task.profile # "documents"
    BY <1>1, <1>2 DEF GateInv
  <1>3. CASE task.profile = "documents"
    <2>1. CASE Select \/ UNCHANGED vars
      <3>1. UNCHANGED <<task, pc, got, qa, output>>
        BY <2>1, SelectKeeps, StutterKeeps
      <3>2. \A f \in Executions : AskedHonestly(f)' = AskedHonestly(f)
        BY <3>1 DEF AskedHonestly, DocumentInput
      <3> QED BY <3>1, <3>2 DEF GateInv, GateFits, SavedGate, InOrder, Running, OutputFits, publishable
    <2>2. ASSUME NEW e \in Executions, Start(e) \/ Work(e) \/ Throw(e) \/ Crash(e) PROVE GateInv'
      <3>1. ~Reply(e)
        BY <1>3, DocumentStage DEF Reply, buildFileSummaryContext, planFastDraftRoute,
           generateDirectReply, At, Documenting, Drafting, Recording, Ended
      <3>2. ~Resolve(e)
        BY <1>3, DocumentStage DEF Resolve, sourceResolver, sourceTranscript, hearSource,
           buildProvenanceIndex, NeedsFor, At, Documenting, Drafting, Recording, Ended
      <3>3. ~Analyze(e)
        BY <1>3, DocumentStage DEF Analyze, partitionSourceSegments, reuseChapter, analyzeChapter,
           buildKnowledgeSourcePack, writeSourcePack, NeedsFor, At, Documenting, Drafting, Recording,
           Ended
      <3> QED BY <1>3, <2>2, <3>1, <3>2, <3>3, StartGates, ThrowGates, CrashGates, PlanGates,
              ReadGates, ReconcileGates, PrepareGates, WriteGates, CheckGates, DeliverGates
          DEF Work, Reconcile
    <2> QED BY <2>1, <2>2 DEF Next
  <1> QED BY <1>2, <1>3

LEMMA InitGates == Init => GateInv
  <1> SUFFICES ASSUME Init PROVE GateInv
    OBVIOUS
  <1>1. \A e \in Executions : e # 0
    BY ExecutionAssumption, FS_CardinalityType
  <1>2. \A e \in Executions : GateFits(e) /\ SavedGate(e)
    BY <1>1 DEF Init, GateFits, SavedGate, Empty, Drafting, NoGate
  <1>3. InOrder /\ OutputFits /\ qa.by = 0
    BY DEF Init, InOrder, OutputFits, NoOutput, NoGate, None
  <1> QED BY <1>2, <1>3 DEF GateInv

(* What is delivered was let through by the gate its execution evaluated   *)
(* and wrote, and there is nothing in it that the gate should have stopped *)
(* (publishable, qaGateEvaluate, assertGateIntegrity).                     *)
THEOREM OutputPassedItsGate == Spec => []OutputIsGated
  <1>1. ASSUME WellFormed, GateInv PROVE OutputIsGated
    <2> SUFFICES ASSUME output.status = "completed", task.profile = "documents" PROVE OutputIsGated
      BY DEF OutputIsGated
    <2> DEFINE o == output.by
    <2>1. o # 0
      BY <1>1 DEF GateInv, OutputFits, NoOutput, None
    <2>2. o \in Executions /\ pc[o] = "end" /\ output.documents = task.requested /\ publishable(got[o])
      BY <1>1, <2>1 DEF GateInv, OutputFits
    <2>3. GateFits(o) /\ SavedGate(o)
      BY <1>1, <2>2 DEF GateInv
    <2>4. got[o].qa.status = "pass" /\ got[o].saved /\ got[o].results = task.requested
      BY <2>2, <2>3 DEF publishable, GateFits
    <2>5. got[o].qa # Unanswered
      BY <2>4 DEF Unanswered
    <2>6. Clean(got[o].qa) /\ DOMAIN got[o].qa.input.documents = task.requested
      BY <2>2, <2>3, <2>4, <2>5, PassIsClean DEF GateFits
    <2>7. qa.by = o => Clean(qa.gate) /\ DOMAIN qa.gate.input.documents = task.requested
      BY <2>2, <2>3, <2>6 DEF SavedGate
    <2>8. ~task.overlap => qa.by >= o
      BY <2>3, <2>4 DEF SavedGate
    <2> HIDE DEF o
    <2>9. OutputIsGated
      BY <2>2, <2>7, <2>8 DEF OutputIsGated, Clean, o
    <2> QED BY <2>9
  <1> QED BY <1>1, TaskWellFormed, InitGates, GateStep, PTL DEF Spec

-----------------------------------------------------------------------------
(* The ledger of an execution nobody disturbed.                            *)

LEMMA PlanFields ==
  DOMAIN NoPlan = {"valid", "status", "revision", "steps", "deps", "refs", "asks", "answered", "ops"}
  BY DEF NoPlan

LEMMA MadeReady ==
  ASSUME NEW st, NEW deps, NEW s \in DOMAIN st
  PROVE  LET r == MakeReady(st, deps)
         IN  /\ DOMAIN r = DOMAIN st
             /\ r[s] = st[s] \/ (st[s] = "pending" /\ r[s] = "ready")
             /\ r[s] \in Done <=> st[s] \in Done
             /\ r[s] = "pending" => st[s] = "pending" /\ \E d \in deps[s] : st[d] \notin Done
  BY DEF MakeReady, Done

LEMMA MadeClosed ==
  ASSUME NEW st, NEW deps, \A s \in DOMAIN st : deps[s] \subseteq DOMAIN st
  PROVE  LET r == MakeReady(st, deps)
         IN  \A s \in DOMAIN r : r[s] = "pending" => \E d \in deps[s] : r[d] \notin Done
  <1> DEFINE r == MakeReady(st, deps)
  <1>1. SUFFICES ASSUME NEW s \in DOMAIN r, r[s] = "pending" PROVE \E d \in deps[s] : r[d] \notin Done
    OBVIOUS
  <1>2. DOMAIN r = DOMAIN st
    BY DEF MakeReady
  <1>3. PICK d \in deps[s] : st[d] \notin Done
    BY <1>1, <1>2, MadeReady
  <1>4. d \in DOMAIN st
    BY <1>2, <1>3
  <1>5. r[d] \notin Done
    BY <1>3, <1>4, MadeReady
  <1> QED BY <1>3, <1>5

(* What a change that is not refused comes to.                             *)
Merged(l, c) ==
    [s \in DOMAIN l.steps |-> IF s \in DOMAIN c.updates THEN c.updates[s] ELSE l.steps[s]]
Patched(l, c, n) ==
    /\ IsPlan(n) /\ n.valid /\ n.deps = l.deps
    /\ n.steps = MakeReady(Merged(l, c), l.deps)
    /\ n.ops = l.ops \cup {c.op}
    /\ \E asks : n.status = Overall(n.steps, asks)

LEMMA ReconcileEffect ==
  ASSUME NEW l, IsPlan(l), l.valid, NEW c, reconcileLedger(l, c) # Refused
  PROVE  /\ reconcileLedger(l, c) = l \/ Patched(l, c, reconcileLedger(l, c))
         /\ c.op \notin l.ops /\ DOMAIN c.updates \cap DOMAIN l.steps # {} =>
               Patched(l, c, reconcileLedger(l, c))
  <1> DEFINE patched == DOMAIN c.updates \cap DOMAIN l.steps
  <1> DEFINE steps == MakeReady(Merged(l, c), l.deps)
  <1> DEFINE new == c.asks \ (l.asks \cup l.answered)
  <1> DEFINE n == [l EXCEPT !.revision = @ + 1, !.steps = steps, !.refs = @ \cup (c.evidence \cap patched),
                            !.asks = @ \cup new, !.status = Overall(steps, l.asks \cup new),
                            !.ops = @ \cup {c.op}]
  <1>1. Merged(l, c) = [s \in DOMAIN l.steps |-> IF s \in patched THEN c.updates[s] ELSE l.steps[s]]
    BY DEF Merged
  <1>2. reconcileLedger(l, c) = IF l.valid /\ c.op \in l.ops THEN l
                                ELSE IF ~Acceptable(l, c) THEN Refused
                                ELSE IF patched = {} /\ new = {} /\ ~c.events /\ steps = l.steps THEN l
                                ELSE n
    BY <1>1 DEF reconcileLedger
  <1>3. Patched(l, c, n)
    <2>1. IsPlan(n)
      BY PlanFields DEF IsPlan
    <2>2. /\ n.valid /\ n.deps = l.deps /\ n.steps = steps /\ n.ops = l.ops \cup {c.op}
          /\ n.status = Overall(steps, l.asks \cup new)
      BY PlanFields DEF IsPlan
    <2> QED BY <2>1, <2>2 DEF Patched
  <1> HIDE DEF n, steps, new
  <1> QED BY <1>2, <1>3

LEMMA OverallFits ==
  ASSUME NEW l, NEW asks, l.status = Overall(l.steps, asks),
         \A s \in DOMAIN l.steps : l.steps[s] \notin {"cancelled", "failed"}
  PROVE  StatusFits(l)
  BY DEF StatusFits, Overall, Done

(* The ledgers that are planned.                                           *)
LEMMA StepsOfDocuments ==
  ASSUME NEW r \in SUBSET DocumentTypes, r # {}
  PROVE  /\ Steps("documents", r) = r \cup {"verify"} \cup (IF "minutes" \in r THEN {"understand"} ELSE {})
         /\ \A s \in Steps("documents", r) : DependsOn("documents", r)[s] \subseteq Steps("documents", r)
         /\ DependsOn("documents", r)["verify"] = r
         /\ \A d \in r : DependsOn("documents", r)[d] = documentDependencies(d, r)
         /\ "verify" \notin r /\ "understand" \notin r
  <1>1. Steps("documents", r) = r \cup {"verify"} \cup (IF "minutes" \in r THEN {"understand"} ELSE {})
    BY DEF Steps
  <1>2. "verify" \notin r /\ "understand" \notin r /\ \A s \in SourceSteps : s \notin r
    BY DEF DocumentTypes, SourceSteps
  <1>3. DependsOn("documents", r)["verify"] = r
    BY <1>1, <1>2 DEF DependsOn, SourceSteps
  <1>4. \A d \in r : DependsOn("documents", r)[d] = documentDependencies(d, r)
    BY <1>1, <1>2 DEF DependsOn
  <1>5. "minutes" \in r => DependsOn("documents", r)["understand"] = {}
    BY <1>1, <1>2 DEF DependsOn, SourceSteps
  <1>6. \A d \in r : documentDependencies(d, r) \subseteq r \cup (IF "minutes" \in r THEN {"understand"} ELSE {})
    BY DEF documentDependencies, DocumentTypes
  <1>7. \A s \in Steps("documents", r) : DependsOn("documents", r)[s] \subseteq Steps("documents", r)
    BY <1>1, <1>3, <1>4, <1>5, <1>6
  <1> QED BY <1>1, <1>2, <1>3, <1>4, <1>7

LEMMA OrderOf ==
  /\ Order["plan"] = 1 /\ Order["write-plan"] = 2 /\ Order["resolving"] = 3 /\ Order["policy"] = 4
  /\ Order["resolve"] = 5 /\ Order["resolved"] = 6 /\ Order["acquiring"] = 7 /\ Order["acquired"] = 8
  /\ Order["text"] = 9 /\ Order["skip-text"] = 9 /\ Order["official"] = 10 /\ Order["hearing"] = 10
  /\ Order["hear"] = 11 /\ Order["heard"] = 12 /\ Order["segments"] = 13 /\ Order["analyzing"] = 14
  /\ Order["chapters"] = 15 /\ Order["chapter"] = 16 /\ Order["pack"] = 17 /\ Order["qa"] = 18
  /\ Order["save-qa"] = 19 /\ Order["write-pack"] = 20 /\ Order["analyzed"] = 21
  /\ Order["skip-analysis"] = 21 /\ Order["verified"] = 22 /\ Order["skip-verify"] = 22
  /\ Order["output"] = 23
  BY DEF Order, Sourcing, Fetching, Reviewing, Skipping

LEMMA DoneAfterOf ==
  /\ DOMAIN DoneAfter = {"resolve", "acquire", "transcribe", "analyze"}
  /\ DoneAfter["resolve"] = 6 /\ DoneAfter["acquire"] = 8 /\ DoneAfter["transcribe"] = 12
  /\ DoneAfter["analyze"] = 21
  BY DEF DoneAfter

(* A step keeps the ledgers in order that keeps its own execution's.       *)
LEMMA LedgerStepOf ==
  ASSUME WellFormed, LedgerInv, NEW e \in Executions, Alone(e),
         output' = output \/ output'.by = e,
         LedgerFits(e)',
         task.profile \notin {"source", "documents"} => ~mine'[e].valid
  PROVE  LedgerInv'
  <1>1. ASSUME NEW f \in Executions \ {e} PROVE LedgerFits(f)'
    <2>1. /\ UNCHANGED task /\ pc'[f] = pc[f] /\ got'[f] = got[f] /\ mine'[f] = mine[f]
          /\ f \in disturbed' <=> f \in disturbed
          /\ LedgerFits(f)
      BY DEF Alone, LedgerInv
    <2>2. SourceLedger(f)' = SourceLedger(f)
      BY <2>1 DEF SourceLedger
    <2>3. DocumentLedger(f)' = DocumentLedger(f)
      BY <2>1 DEF DocumentLedger, Recorded, Ununderstood, publishable
    <2> QED BY <2>1, <2>2, <2>3 DEF LedgerFits
  <1> QED BY <1>1 DEF LedgerInv, Alone

(* Nothing is said of an execution without a plan, or disturbed.           *)
LEMMA NothingSaid ==
  ASSUME NEW e \in Executions, e \in disturbed' \/ ~mine'[e].valid
  PROVE  LedgerFits(e)'
  BY DEF LedgerFits

-----------------------------------------------------------------------------
(* Of a source.                                                            *)

LEMMA SourceStage ==
  ASSUME WellFormed, task.profile = "source", NEW e \in Executions
  PROVE  pc[e] \in Sourcing \cup Ended
  BY DEF WellFormed

LEMMA NotYet ==
  ASSUME NEW e \in Executions, SourceLedger(e), pc[e] \notin {"output", "end"}
  PROVE  mine[e].status # "completed"
  BY DEF SourceLedger, StatusFits, SourceSteps

(* A step forward that leaves the ledger alone.                            *)
LEMMA SourceMoves ==
  ASSUME WellFormed, LedgerInv, task.profile = "source", NEW e \in Executions, Alone(e),
         mine'[e] = mine[e], disturbed' = disturbed,
         pc[e] \in Sourcing \ {"block"}, pc'[e] \in Sourcing,
         pc'[e] # "block" =>
            /\ Order[pc'[e]] >= Order[pc[e]]
            /\ \A s \in DOMAIN DoneAfter : Order[pc'[e]] > DoneAfter[s] => Order[pc[e]] > DoneAfter[s],
         pc'[e] = "output" <=> pc[e] = "output"
  PROVE  LedgerFits(e)'
  <1> SUFFICES ASSUME e \notin disturbed, mine[e].valid PROVE LedgerFits(e)'
    BY DEF LedgerFits
  <1>1. SourceLedger(e) /\ UNCHANGED task
    BY DEF LedgerInv, LedgerFits, Alone
  <1>2. \A s \in Sourcing \ {"block"} : Order[s] \in Int
    BY OrderOf DEF Sourcing, Fetching, Reviewing, Skipping
  <1>3. pc'[e] # "block" => \A s \in Sourcing : <<s, 0>> \in mine[e].ops => Order[s] < Order[pc'[e]]
    <2> SUFFICES ASSUME pc'[e] # "block", NEW s \in Sourcing, <<s, 0>> \in mine[e].ops
                 PROVE  Order[s] < Order[pc'[e]]
      OBVIOUS
    <2>1. Order[s] < Order[pc[e]]
      BY <1>1 DEF SourceLedger
    <2>2. Order[s] \in Int
      <3>1. "block" \in Sourcing => Order["block"] = 23
        BY DEF Order
      <3> QED BY <1>2, <3>1
    <2> QED BY <1>2, <2>1, <2>2
  <1>6. pc'[e] # "block" => \A s \in DOMAIN DoneAfter :
           Order[pc'[e]] > DoneAfter[s] => mine[e].steps[s] \in Done
    BY <1>1 DEF SourceLedger
  <1>7. /\ pc'[e] = "output" => mine[e].steps["verify-source"] \in Done
        /\ mine[e].steps["verify-source"] \in Done => pc'[e] = "output"
    <2>1. pc[e] # "end"
      BY DEF Sourcing, Fetching, Reviewing, Skipping
    <2> QED BY <1>1, <2>1 DEF SourceLedger
  <1>8. /\ IsPlan(mine[e]) /\ StatusFits(mine[e])
        /\ mine[e].steps \in [SourceSteps -> Done \cup {"pending", "ready", "in_progress", "blocked"}]
    BY <1>1 DEF SourceLedger
  <1>4. SourceLedger(e)'
    BY <1>3, <1>6, <1>7, <1>8 DEF SourceLedger
  <1>5. pc'[e] # "end"
    BY DEF Sourcing, Fetching, Reviewing, Skipping
  <1> QED BY <1>1, <1>4, <1>5 DEF LedgerFits, Alone

(* A source that is blocked ends without anything completed.               *)
LEMMA SourceBlocks ==
  ASSUME WellFormed, LedgerInv, task.profile = "source", NEW e \in Executions, Alone(e),
         mine'[e] = mine[e], disturbed' = disturbed,
         pc[e] \in Sourcing \ {"output"}, pc'[e] = "end", output'.status = "blocked"
  PROVE  LedgerFits(e)'
  <1> SUFFICES ASSUME e \notin disturbed, mine[e].valid PROVE LedgerFits(e)'
    BY DEF LedgerFits
  <1>1. SourceLedger(e) /\ UNCHANGED task
    BY DEF LedgerInv, LedgerFits, Alone
  <1>2. mine[e].status # "completed"
    BY <1>1, NotYet DEF Sourcing, Fetching, Reviewing, Skipping
  <1>3. SourceLedger(e)'
    BY <1>1 DEF SourceLedger, Sourcing, Fetching, Reviewing, Skipping
  <1> QED BY <1>1, <1>2, <1>3 DEF LedgerFits

LEMMA FinishesBlocked ==
  ASSUME WellFormed, NEW e \in Executions, NEW step, NEW why, finishBlocked(e, step, why)
  PROVE  \/ pc'[e] = "block" /\ UNCHANGED output
         \/ pc'[e] = "end" /\ output'.by = e /\ output'.status = "blocked"
  BY DEF finishBlocked, Blocks, Writes, Goes, WellFormed

(* A stage of a source, as far as its ledger is concerned.                 *)
Forward(e, from, to) ==
    /\ pc[e] \in from
    /\ \/ pc'[e] \in to /\ UNCHANGED output
       \/ pc'[e] = "block" /\ UNCHANGED output
       \/ pc'[e] = "end" /\ output'.by = e /\ output'.status = "blocked"

LEMMA SourceForward ==
  ASSUME WellFormed, LedgerInv, task.profile = "source", NEW e \in Executions, Alone(e),
         UNCHANGED <<mine, disturbed>>, NEW from, NEW to, Forward(e, from, to),
         \/ from = {"policy"} /\ to = {"resolve"}
         \/ from = {"resolve"} /\ to = {"resolved"}
         \/ from = {"text"} /\ to = {"official", "hearing"}
         \/ from = {"hear"} /\ to = {"heard"}
         \/ from = {"segments"} /\ to = {"analyzing"}
         \/ from = {"chapters"} /\ to = {"chapter"}
         \/ from = {"chapter"} /\ to = {"chapter", "pack"}
         \/ from = {"pack"} /\ to = {"qa"}
         \/ from = {"qa"} /\ to = {"save-qa"}
         \/ from = {"save-qa"} /\ to = {"write-pack"}
         \/ from = {"write-pack"} /\ to = {"analyzed"}
  PROVE  LedgerInv'
  <1>1. CASE pc'[e] = "end"
    BY <1>1, SourceBlocks, LedgerStepOf DEF Forward, Sourcing, Fetching, Reviewing, Skipping
  <1>2. CASE pc'[e] # "end"
    <2>1. pc[e] \in Sourcing \ {"block"} /\ pc'[e] \in Sourcing /\ UNCHANGED output
      BY <1>2 DEF Forward, Sourcing, Fetching, Reviewing, Skipping
    <2>2. pc'[e] # "output" /\ pc[e] # "output"
      BY <1>2 DEF Forward
    <2>3. pc'[e] # "block" =>
            /\ Order[pc'[e]] >= Order[pc[e]]
            /\ \A s \in DOMAIN DoneAfter : Order[pc'[e]] > DoneAfter[s] => Order[pc[e]] > DoneAfter[s]
      BY <1>2, OrderOf, DoneAfterOf DEF Forward
    <2>4. LedgerFits(e)'
      BY <2>1, <2>2, <2>3, SourceMoves
    <2> QED BY <2>1, <2>4, LedgerStepOf
  <1> QED BY <1>1, <1>2

LEMMA SourceChecks ==
  ASSUME WellFormed, LedgerInv, task.profile = "source", NEW e \in Executions, Check(e)
  PROVE  LedgerInv'
  <1>1. Alone(e) /\ UNCHANGED <<mine, disturbed>>
    BY Checks DEF Check, qa_gate_evaluate, qa_gate_write, policy_gate_check
  <1>2. CASE qa_gate_evaluate(e)
    <2>1. Forward(e, {"qa"}, {"save-qa"})
      BY <1>2 DEF qa_gate_evaluate, Forward, Goes, At, WellFormed
    <2> QED BY <1>1, <2>1, SourceForward
  <1>3. CASE qa_gate_write(e)
    <2>1. Forward(e, {"save-qa"}, {"write-pack"})
      BY <1>3, FinishesBlocked DEF qa_gate_write, Forward, Goes, At, WellFormed
    <2> QED BY <1>1, <2>1, SourceForward
  <1>4. CASE policy_gate_check(e)
    <2>1. Forward(e, {"policy"}, {"resolve"})
      BY <1>4, FinishesBlocked DEF policy_gate_check, Forward, Goes, At, WellFormed
    <2> QED BY <1>1, <2>1, SourceForward
  <1> QED BY <1>2, <1>3, <1>4 DEF Check

LEMMA SourceResolves ==
  ASSUME WellFormed, LedgerInv, task.profile = "source", NEW e \in Executions, Resolve(e)
  PROVE  LedgerInv'
  <1>1. Alone(e) /\ UNCHANGED <<mine, disturbed>>
    BY Resolves DEF Resolve, sourceResolver, sourceTranscript, hearSource, buildProvenanceIndex, NeedsFor
  <1>2. CASE sourceResolver(e)
    <2>1. Forward(e, {"resolve"}, {"resolved"})
      BY <1>2, FinishesBlocked DEF sourceResolver, Forward, Goes, At, WellFormed
    <2> QED BY <1>1, <2>1, SourceForward
  <1>3. CASE sourceTranscript(e)
    <2>1. Forward(e, {"text"}, {"official", "hearing"})
      BY <1>3, FinishesBlocked DEF sourceTranscript, Forward, Goes, At, WellFormed
    <2> QED BY <1>1, <2>1, SourceForward
  <1>4. CASE hearSource(e)
    <2>1. Forward(e, {"hear"}, {"heard"})
      BY <1>4, FinishesBlocked DEF hearSource, Forward, Goes, At, WellFormed
    <2> QED BY <1>1, <2>1, SourceForward
  <1>5. CASE buildProvenanceIndex(e)
    <2>1. Forward(e, {"segments"}, {"analyzing"})
      BY <1>5, FinishesBlocked DEF buildProvenanceIndex, NeedsFor, Forward, Goes, At, WellFormed
    <2> QED BY <1>1, <2>1, SourceForward
  <1> QED BY <1>2, <1>3, <1>4, <1>5 DEF Resolve

LEMMA SourceAnalyses ==
  ASSUME WellFormed, LedgerInv, task.profile = "source", NEW e \in Executions, Analyze(e)
  PROVE  LedgerInv'
  <1>1. Alone(e) /\ UNCHANGED <<mine, disturbed>>
    BY Analyses DEF Analyze, partitionSourceSegments, reuseChapter, analyzeChapter,
       buildKnowledgeSourcePack, writeSourcePack, NeedsFor
  <1>2. CASE partitionSourceSegments(e)
    <2>1. Forward(e, {"chapters"}, {"chapter"})
      BY <1>2, FinishesBlocked DEF partitionSourceSegments, NeedsFor, Forward, Goes, At, WellFormed
    <2> QED BY <1>1, <2>1, SourceForward
  <1>3. CASE reuseChapter(e) \/ analyzeChapter(e)
    <2>1. Forward(e, {"chapter"}, {"chapter", "pack"})
      BY <1>3 DEF reuseChapter, analyzeChapter, NextChapter, Forward, Goes, At, WellFormed
    <2> QED BY <1>1, <2>1, SourceForward
  <1>4. CASE buildKnowledgeSourcePack(e)
    <2>1. Forward(e, {"pack"}, {"qa"})
      BY <1>4, FinishesBlocked DEF buildKnowledgeSourcePack, Forward, Goes, At, WellFormed
    <2> QED BY <1>1, <2>1, SourceForward
  <1>5. CASE writeSourcePack(e)
    <2>1. Forward(e, {"write-pack"}, {"analyzed"})
      BY <1>5 DEF writeSourcePack, Forward, Goes, At, WellFormed
    <2> QED BY <1>1, <2>1, SourceForward
  <1> QED BY <1>2, <1>3, <1>4, <1>5 DEF Analyze

LEMMA SourceDelivers ==
  ASSUME WellFormed, LedgerInv, task.profile = "source", NEW e \in Executions, Deliver(e)
  PROVE  LedgerInv'
  <1>1. Alone(e) /\ UNCHANGED <<mine, disturbed>>
    BY Deliveries DEF Deliver, readyIndex, deliverables, writeOutput
  <1>2. /\ pc[e] = "output" /\ pc'[e] = "end" /\ output'.by = e /\ output'.status = "completed"
    BY SourceStage DEF Deliver, readyIndex, deliverables, writeOutput, At, Goes, Writes, WellFormed,
       Sourcing, Fetching, Reviewing, Skipping, Ended
  <1>3. LedgerFits(e)'
    <2> SUFFICES ASSUME e \notin disturbed, mine[e].valid PROVE LedgerFits(e)'
      BY <1>1 DEF LedgerFits
    <2>1. SourceLedger(e) /\ UNCHANGED task
      BY <1>1 DEF LedgerInv, LedgerFits, Alone
    <2>2. \A s \in SourceSteps : mine[e].steps[s] \in Done
      <3>1. mine[e].steps["verify-source"] \in Done
        BY <1>2, <2>1 DEF SourceLedger
      <3>2. pc[e] \in Sourcing \ {"block"}
        BY <1>2 DEF Sourcing
      <3>3. \A s \in DOMAIN DoneAfter : mine[e].steps[s] \in Done
        BY <1>2, <2>1, <3>2, OrderOf, DoneAfterOf DEF SourceLedger
      <3> QED BY <3>1, <3>3, DoneAfterOf DEF SourceSteps
    <2>3. mine[e].status = "completed"
      BY <2>1, <2>2 DEF SourceLedger, StatusFits
    <2>4. SourceLedger(e)'
      BY <1>1, <1>2, <2>1 DEF SourceLedger, Sourcing, Fetching, Reviewing, Skipping
    <2> QED BY <1>1, <1>2, <2>1, <2>3, <2>4 DEF LedgerFits
  <1> QED BY <1>1, <1>2, <1>3, LedgerStepOf

(* Who is not disturbed gets what its change comes to.                     *)
LEMMA Undisturbed ==
  ASSUME WellFormed, NEW e \in Executions, execution_ledger_reconcile(e), e \notin disturbed'
  PROVE  LET n == reconcileLedger(mine[e], Asked(e, pc[e]))
         IN  n # Refused /\ GoesOn(e, pc[e], n)
  <1>1. PICK fails \in BOOLEAN, written \in BOOLEAN :
          LET next == reconcileLedger(base[e], Asked(e, pc[e]))
              answer == IF fails THEN Refused ELSE next
          IN  /\ GoesOn(e, pc[e], answer)
              /\ disturbed' = IF answer = Refused \/ base[e] # mine[e] \/ ledger # base[e]
                              THEN disturbed \cup {e} ELSE disturbed
    BY DEF execution_ledger_reconcile
  <1>2. ~fails /\ base[e] = mine[e] /\ reconcileLedger(base[e], Asked(e, pc[e])) # Refused
    BY <1>1
  <1> QED BY <1>1, <1>2

LEMMA UndisturbedBefore ==
  ASSUME WellFormed, NEW e \in Executions, execution_ledger_reconcile(e), e \notin disturbed'
  PROVE  e \notin disturbed /\ mine[e].valid
  <1>1. e \notin disturbed
    BY DEF execution_ledger_reconcile
  <1>2. ~mine[e].valid => reconcileLedger(mine[e], Asked(e, pc[e])) = Refused
    BY DEF reconcileLedger, Acceptable
  <1> QED BY <1>1, <1>2, Undisturbed

SourceLedgerStages == {"official"} \cup Opens \cup Skipping \cup Closes

LEMMA AskedOfSource ==
  ASSUME NEW e \in Executions, pc[e] \in SourceLedgerStages
  PROVE  LET c == Asked(e, pc[e])
         IN  /\ c.op = <<pc[e], 0>>
             /\ DOMAIN c.updates = {StepOf(pc[e])}
             /\ c.updates[StepOf(pc[e])] \in IF pc[e] \in Opens THEN {"in_progress"} ELSE Done
  BY DEF Asked, Change, Updates, SourceLedgerStages, Opens, Skips, Skipping, Closes, Done

LEMMA AskedOfBlock ==
  ASSUME NEW e \in Executions, pc[e] = "block"
  PROVE  LET c == Asked(e, pc[e])
         IN  DOMAIN c.updates = {got[e].blocked} /\ c.updates[got[e].blocked] = "blocked"
  <1> DEFINE b == got[e].blocked
  <1> DEFINE one == Change(<<got[e].why, 0>>, mine[e].revision, Updates({b}, "blocked"), {b})
  <1>4. Asked(e, "block") = [one EXCEPT !.asks = {got[e].why}, !.evidence = {}]
    BY SMT DEF Asked, Change, Updates, NoStep, Opens, Skips, StepOf
  <1>1. Asked(e, pc[e]) = [one EXCEPT !.asks = {got[e].why}, !.evidence = {}]
    BY <1>4
  <1>2. one.updates = Updates({b}, "blocked") /\ DOMAIN one = {"op", "expect", "updates", "evidence", "asks", "events"}
    BY DEF Change
  <1> HIDE DEF one
  <1>3. Asked(e, pc[e]).updates = Updates({b}, "blocked")
    BY <1>1, <1>2
  <1> QED BY <1>3 DEF Updates

LEMMA SourceFlow ==
  ASSUME NEW s \in SourceLedgerStages
  PROVE  LET t == AfterTransition(s)
         IN  /\ s \in Sourcing \ {"block", "output", "end"} /\ t \in Sourcing \ {"block", "end"}
             /\ Order[s] \in Int /\ Order[t] \in Int /\ Order[s] < Order[t]
             /\ StepOf(s) \in SourceSteps
             /\ \A k \in DOMAIN DoneAfter : Order[t] > DoneAfter[k] =>
                   IF k = StepOf(s) THEN s \notin Opens ELSE Order[s] > DoneAfter[k]
             /\ t = "output" <=> StepOf(s) = "verify-source"
             /\ t = "output" => s \notin Opens
  <1>1. \A k \in {"resolving", "acquiring", "hearing", "analyzing"} : k \in Opens
    BY DEF Opens
  <1>2. SourceLedgerStages = {"official", "resolving", "acquiring", "hearing", "analyzing", "skip-text",
           "skip-analysis", "skip-verify", "resolved", "acquired", "heard", "analyzed", "verified"}
    BY DEF SourceLedgerStages, Opens, Skipping, Closes
  <1>3. s \in Sourcing \ {"block", "output", "end"} /\ AfterTransition(s) \in Sourcing \ {"block", "end"}
    BY <1>2 DEF AfterTransition, Sourcing, Fetching, Reviewing, Skipping
  <1>9. /\ AfterTransition("resolving") = "policy" /\ AfterTransition("resolved") = "acquiring"
        /\ AfterTransition("acquiring") = "acquired" /\ AfterTransition("acquired") \in {"skip-text", "text"}
        /\ AfterTransition("skip-text") = "skip-analysis" /\ AfterTransition("skip-analysis") = "skip-verify"
        /\ AfterTransition("hearing") = "hear" /\ AfterTransition("official") = "segments"
        /\ AfterTransition("heard") = "segments" /\ AfterTransition("analyzing") = "chapters"
        /\ AfterTransition("analyzed") = "verified" /\ AfterTransition("skip-verify") = "output"
        /\ AfterTransition("verified") = "output"
    BY DEF AfterTransition
  <1>10. /\ StepOf("resolving") = "resolve" /\ StepOf("resolved") = "resolve"
         /\ StepOf("acquiring") = "acquire" /\ StepOf("acquired") = "acquire"
         /\ StepOf("skip-text") = "transcribe" /\ StepOf("official") = "transcribe"
         /\ StepOf("hearing") = "transcribe" /\ StepOf("heard") = "transcribe"
         /\ StepOf("skip-analysis") = "analyze" /\ StepOf("analyzing") = "analyze"
         /\ StepOf("analyzed") = "analyze" /\ StepOf("skip-verify") = "verify-source"
         /\ StepOf("verified") = "verify-source"
    BY DEF StepOf
  <1>4. Order[s] \in Int /\ Order[AfterTransition(s)] \in Int /\ Order[s] < Order[AfterTransition(s)]
    BY <1>2, <1>9, OrderOf
  <1>5. StepOf(s) \in SourceSteps
    BY <1>2 DEF StepOf, SourceSteps
  <1>6. AfterTransition(s) = "output" <=> StepOf(s) = "verify-source"
    BY <1>2 DEF AfterTransition, StepOf
  <1>7. AfterTransition(s) = "output" => s \notin Opens
    BY <1>2 DEF AfterTransition, Opens
  <1>8. ASSUME NEW k \in DOMAIN DoneAfter, Order[AfterTransition(s)] > DoneAfter[k]
        PROVE  IF k = StepOf(s) THEN s \notin Opens ELSE Order[s] > DoneAfter[k]
    <2>1. CASE s \in {"resolving", "resolved", "acquiring", "acquired"}
      BY <1>2, <1>8, <1>9, <1>10, <2>1, OrderOf, DoneAfterOf DEF Opens
    <2>2. CASE s \in {"skip-text", "official", "hearing", "heard"}
      BY <1>2, <1>8, <1>9, <1>10, <2>2, OrderOf, DoneAfterOf DEF Opens
    <2>3. CASE s \in {"skip-analysis", "analyzing", "analyzed", "skip-verify", "verified"}
      BY <1>2, <1>8, <1>9, <1>10, <2>3, OrderOf, DoneAfterOf DEF Opens
    <2> QED BY <1>2, <2>1, <2>2, <2>3
  <1> QED BY <1>3, <1>4, <1>5, <1>6, <1>7, <1>8

LEMMA SourceReconciles ==
  ASSUME WellFormed, LedgerInv, task.profile = "source", NEW e \in Executions,
         execution_ledger_reconcile(e)
  PROVE  LedgerInv'
  <1>1. Alone(e) /\ pc[e] \in LedgerStages /\ pc[e] \in SourceLedgerStages \cup {"block"}
    BY Reconciles, LedgerStagesOf DEF WellFormed, execution_ledger_reconcile, SourceLedgerStages
  <1>2. output' = output \/ output'.by = e
    BY <1>1, LedgerStagesOf DEF execution_ledger_reconcile, GoesOn, Blocks, Writes
  <1>3. LedgerFits(e)'
    <2> SUFFICES ASSUME e \notin disturbed' PROVE LedgerFits(e)'
      BY NothingSaid
    <2> DEFINE l == mine[e]
    <2> DEFINE c == Asked(e, pc[e])
    <2> DEFINE n == reconcileLedger(l, c)
    <2>1. n # Refused /\ GoesOn(e, pc[e], n) /\ e \notin disturbed /\ l.valid
      BY Undisturbed, UndisturbedBefore
    <2>2. SourceLedger(e) /\ UNCHANGED task
      BY <1>1, <2>1 DEF LedgerInv, LedgerFits, Alone
    <2>3. IsPlan(l) /\ DOMAIN l.steps = SourceSteps
      BY <2>2 DEF SourceLedger
    <2>4. n = l \/ Patched(l, c, n)
      BY <2>1, <2>3, ReconcileEffect
    <2>5. c.op \notin l.ops /\ DOMAIN c.updates \cap DOMAIN l.steps # {} => Patched(l, c, n)
      BY <2>1, <2>3, ReconcileEffect
    <2> HIDE DEF n, c
    <2>6. n.valid
      BY <2>1, <2>4 DEF Patched
    <2>7. CASE pc[e] = "block"
      <3>1. mine'[e] = n /\ pc'[e] = "end" /\ output'.status = "blocked"
        BY <2>1, <2>6, <2>7, TakesNow DEF GoesOn, Blocks, Writes, Goes, WellFormed
      <3>2. l.steps["verify-source"] \notin Done
        BY <2>2, <2>7 DEF SourceLedger
      <3>3. DOMAIN c.updates = {got[e].blocked} /\ c.updates[got[e].blocked] = "blocked"
        BY <2>7, AskedOfBlock DEF c
      <3>4. /\ IsPlan(n) /\ StatusFits(n)
            /\ n.steps \in [SourceSteps -> Done \cup {"pending", "ready", "in_progress", "blocked"}]
            /\ n.steps["verify-source"] \notin Done
        <4>1. CASE n = l
          BY <2>2, <3>2, <4>1 DEF SourceLedger
        <4>2. CASE Patched(l, c, n)
          <5>1. \A s \in SourceSteps : Merged(l, c)[s] \in {l.steps[s], "blocked"}
            BY <2>3, <3>3 DEF Merged
          <5>2. DOMAIN Merged(l, c) = SourceSteps
            BY <2>3 DEF Merged
          <5>3. \A s \in SourceSteps : n.steps[s] \in {l.steps[s], "blocked", "ready"}
            BY <4>2, <5>1, <5>2, MadeReady DEF Patched
          <5>4. n.steps = [s \in SourceSteps |-> n.steps[s]]
            BY <4>2, <5>2 DEF Patched, MakeReady
          <5>5. n.steps \in [SourceSteps -> Done \cup {"pending", "ready", "in_progress", "blocked"}]
            BY <2>2, <5>3, <5>4 DEF SourceLedger
          <5>6. n.steps["verify-source"] \notin Done
            BY <3>2, <5>3 DEF SourceSteps, Done
          <5>7. StatusFits(n)
            BY <4>2, <5>5, OverallFits DEF Patched, Done
          <5> QED BY <4>2, <5>5, <5>6, <5>7 DEF Patched
        <4> QED BY <2>4, <4>1, <4>2
      <3>5. n.status # "completed"
        BY <3>4 DEF StatusFits, SourceSteps
      <3>6. SourceLedger(e)'
        BY <3>1, <3>4 DEF SourceLedger, Sourcing, Fetching, Reviewing, Skipping
      <3> QED BY <2>2, <3>1, <3>5, <3>6 DEF LedgerFits
    <2>8. CASE pc[e] \in SourceLedgerStages
      <3> DEFINE s == pc[e]
      <3> DEFINE t == AfterTransition(s)
      <3>1. mine'[e] = n /\ pc'[e] = t /\ UNCHANGED output
        <4>1. GoesOn(e, pc[e], n) => mine' = [mine EXCEPT ![e] = n] /\ Goes(e, t) /\ UNCHANGED output
          BY <2>6, <2>8 DEF GoesOn, SourceLedgerStages, Opens, Skipping, Closes
        <4> QED BY <2>1, <4>1, TakesNow DEF Goes, WellFormed
      <3>2. /\ c.op = <<s, 0>> /\ DOMAIN c.updates = {StepOf(s)}
            /\ c.updates[StepOf(s)] \in IF s \in Opens THEN {"in_progress"} ELSE Done
        BY <2>8, AskedOfSource DEF c
      <3>3. /\ s \in Sourcing \ {"block", "output", "end"} /\ t \in Sourcing \ {"block", "end"}
            /\ Order[s] \in Int /\ Order[t] \in Int /\ Order[s] < Order[t]
            /\ StepOf(s) \in SourceSteps
            /\ \A k \in DOMAIN DoneAfter : Order[t] > DoneAfter[k] =>
                  IF k = StepOf(s) THEN s \notin Opens ELSE Order[s] > DoneAfter[k]
            /\ t = "output" <=> StepOf(s) = "verify-source"
            /\ t = "output" => s \notin Opens
        BY <2>8, SourceFlow
      <3> HIDE DEF t
      <3>4. c.op \notin l.ops
        BY <2>2, <3>2, <3>3 DEF SourceLedger
      <3>5. Patched(l, c, n)
        BY <2>3, <2>5, <3>2, <3>3, <3>4
      <3>6. DOMAIN Merged(l, c) = SourceSteps /\ DOMAIN n.steps = SourceSteps
        BY <2>3, <3>5 DEF Merged, Patched, MakeReady
      <3>7. \A k \in SourceSteps : Merged(l, c)[k] = IF k = StepOf(s) THEN c.updates[k] ELSE l.steps[k]
        BY <2>3, <3>2 DEF Merged
      <3>8. \A k \in SourceSteps : n.steps[k] \in {Merged(l, c)[k], "ready"}
              /\ (n.steps[k] \in Done <=> Merged(l, c)[k] \in Done)
        BY <3>5, <3>6, MadeReady DEF Patched
      <3>9. n.steps \in [SourceSteps -> Done \cup {"pending", "ready", "in_progress", "blocked"}]
        <4>1. \A k \in SourceSteps : n.steps[k] \in Done \cup {"pending", "ready", "in_progress", "blocked"}
          BY <2>2, <3>2, <3>7, <3>8 DEF SourceLedger
        <4>2. n.steps = [k \in SourceSteps |-> n.steps[k]]
          BY <3>5, <3>6 DEF Patched, MakeReady
        <4> QED BY <4>1, <4>2
      <3>10. StatusFits(n)
        BY <3>5, <3>9, OverallFits DEF Patched, Done
      <3>11. \A k \in DOMAIN DoneAfter : Order[t] > DoneAfter[k] => n.steps[k] \in Done
        <4> SUFFICES ASSUME NEW k \in DOMAIN DoneAfter, Order[t] > DoneAfter[k] PROVE n.steps[k] \in Done
          OBVIOUS
        <4>1. k \in SourceSteps
          BY DoneAfterOf DEF SourceSteps
        <4>2. CASE k = StepOf(s)
          BY <3>2, <3>3, <3>7, <3>8, <4>1, <4>2
        <4>3. CASE k # StepOf(s)
          BY <2>2, <3>3, <3>7, <3>8, <4>1, <4>3 DEF SourceLedger
        <4> QED BY <4>2, <4>3
      <3>12. \A k \in Sourcing : <<k, 0>> \in n.ops => Order[k] < Order[t]
        <4> SUFFICES ASSUME NEW k \in Sourcing, <<k, 0>> \in n.ops PROVE Order[k] < Order[t]
          OBVIOUS
        <4>1. CASE k = s
          BY <3>3, <4>1
        <4>2. CASE k # s
          <5>1. <<k, 0>> \in l.ops
            BY <3>2, <3>5, <4>2 DEF Patched
          <5>2. Order[k] < Order[s]
            BY <2>2, <3>3, <5>1 DEF SourceLedger
          <5>3. Order[k] \in Int
            BY DEF Order
          <5> QED BY <3>3, <5>2, <5>3
        <4> QED BY <4>1, <4>2
      <3>13. n.steps["verify-source"] \in Done <=> t = "output"
        <4>1. "verify-source" \in SourceSteps
          BY DEF SourceSteps
        <4>2. l.steps["verify-source"] \notin Done
          BY <2>2, <3>3 DEF SourceLedger
        <4>3. "in_progress" \notin Done
          BY DEF Done
        <4> QED BY <3>2, <3>3, <3>7, <3>8, <4>1, <4>2, <4>3
      <3>14. SourceLedger(e)'
        BY <3>1, <3>5, <3>9, <3>10, <3>11, <3>12, <3>13 DEF SourceLedger, Patched
      <3>15. pc'[e] # "end"
        BY <3>1, <3>3
      <3> QED BY <2>2, <3>14, <3>15 DEF LedgerFits
    <2> QED BY <1>1, <2>7, <2>8
  <1> QED BY <1>1, <1>2, <1>3, LedgerStepOf

(* A new plan.                                                             *)
FirstSteps(kind, requested, analysed) ==
    [s \in Steps(kind, requested) |-> IF s = "understand" /\ analysed THEN "completed" ELSE "pending"]
IsNew(l, kind, requested, analysed) ==
    /\ IsPlan(l) /\ l.valid /\ l.ops = {} /\ l.deps = DependsOn(kind, requested)
    /\ l.steps = MakeReady(FirstSteps(kind, requested, analysed), DependsOn(kind, requested))
    /\ DOMAIN l.steps = Steps(kind, requested)
    /\ l.status = "completed" => \A s \in DOMAIN l.steps : l.steps[s] \in Done
    /\ l.status # "completed" => l.status = "active" /\ \E s \in DOMAIN l.steps : l.steps[s] \notin Done

LEMMA Planned ==
  ASSUME NEW kind, NEW requested, NEW analysed, NEW asks
  PROVE  IsNew(buildEnvelope(kind, requested, analysed, asks), kind, requested, analysed)
  <1> DEFINE l == buildEnvelope(kind, requested, analysed, asks)
  <1> DEFINE steps == buildSteps(kind, requested, analysed)
  <1>1. IsPlan(l)
    BY PlanFields DEF IsPlan, buildEnvelope
  <1>2. /\ l.valid /\ l.ops = {} /\ l.deps = DependsOn(kind, requested) /\ l.steps = steps
        /\ l.status = IF \A s \in DOMAIN steps : steps[s] \in Done THEN "completed" ELSE "active"
    BY DEF buildEnvelope
  <1>3. DOMAIN steps = Steps(kind, requested)
    BY DEF buildSteps, MakeReady
  <1>4. steps = MakeReady(FirstSteps(kind, requested, analysed), DependsOn(kind, requested))
    BY DEF buildSteps, FirstSteps
  <1> HIDE DEF l, steps
  <1>5. l.status = "completed" => \A s \in DOMAIN l.steps : l.steps[s] \in Done
    BY <1>2
  <1>6. l.status # "completed" => l.status = "active" /\ \E s \in DOMAIN l.steps : l.steps[s] \notin Done
    BY <1>2
  <1>7. IsNew(l, kind, requested, analysed)
    BY <1>1, <1>2, <1>3, <1>4, <1>5, <1>6 DEF IsNew
  <1> QED BY <1>7 DEF l

LEMMA SourcePlans ==
  ASSUME WellFormed, LedgerInv, task.profile = "source", NEW e \in Executions, Plan(e)
  PROVE  LedgerInv'
  <1>1. Alone(e) /\ UNCHANGED <<task, disturbed>>
    BY Plans DEF Plan, planner_envelope_plan, planner_envelope_write
  <1>2. CASE planner_envelope_plan(e)
    <2> DEFINE envelope == buildEnvelope("source", task.requested, got[e].analysed,
                                         IF got[e].analysed THEN {"choice"} ELSE {})
    <2>1. /\ pc[e] = "plan"
          /\ \/ mine' = mine /\ output'.by = e
             \/ /\ \/ mine' = [mine EXCEPT ![e] = envelope]
                   \/ mine' = [mine EXCEPT ![e] = Refused]
                /\ Goes(e, "write-plan") /\ UNCHANGED output
      BY <1>2 DEF planner_envelope_plan, At, Blocks, Writes
    <2> HIDE DEF envelope
    <2>2. CASE mine' = mine /\ output'.by = e
      BY <1>1, <2>1, <2>2, NothingSaid, LedgerStepOf DEF WellFormed, Unplanned
    <2>3. CASE mine' = [mine EXCEPT ![e] = Refused] /\ UNCHANGED output
      <3>1. ~mine'[e].valid
        BY <2>3, TakesNow DEF Refused, NoPlan
      <3> QED BY <1>1, <2>3, <3>1, NothingSaid, LedgerStepOf
    <2>4. CASE mine' = [mine EXCEPT ![e] = envelope] /\ Goes(e, "write-plan") /\ UNCHANGED output
      <3>1. mine'[e] = envelope /\ pc'[e] = "write-plan"
        BY <2>4, TakesNow DEF Goes, WellFormed
      <3> DEFINE first == FirstSteps("source", task.requested, got[e].analysed)
      <3>12. Steps("source", task.requested) = SourceSteps
        BY DEF Steps
      <3>2. IsNew(envelope, "source", task.requested, got[e].analysed)
        BY Planned DEF envelope
      <3>3. DOMAIN first = SourceSteps /\ \A s \in SourceSteps : first[s] = "pending"
        BY <3>12 DEF SourceSteps, FirstSteps
      <3>13. /\ envelope.steps = MakeReady(first, DependsOn("source", task.requested))
             /\ DOMAIN envelope.steps = SourceSteps
        BY <3>2, <3>12 DEF IsNew
      <3> HIDE DEF first
      <3>4. \A s \in SourceSteps : envelope.steps[s] \in {"pending", "ready"}
        <4>1. \A s \in SourceSteps : envelope.steps[s] = first[s] \/ envelope.steps[s] = "ready"
          BY <3>3, <3>13, MadeReady
        <4> QED BY <3>3, <4>1
      <3>5. envelope.steps = [s \in SourceSteps |-> envelope.steps[s]]
        BY <3>13 DEF MakeReady
      <3>6. envelope.steps \in [SourceSteps -> Done \cup {"pending", "ready", "in_progress", "blocked"}]
        BY <3>4, <3>5
      <3>7. StatusFits(envelope)
        BY <3>2, <3>4 DEF StatusFits, SourceSteps, Done, IsNew
      <3>8. envelope.steps["verify-source"] \notin Done
        BY <3>4 DEF SourceSteps, Done
      <3>9. \A s \in DOMAIN DoneAfter : ~(Order["write-plan"] > DoneAfter[s])
        BY OrderOf, DoneAfterOf
      <3>10. SourceLedger(e)'
        BY <3>1, <3>2, <3>6, <3>7, <3>8, <3>9 DEF SourceLedger, IsNew
      <3>11. LedgerFits(e)'
        BY <1>1, <3>1, <3>10 DEF LedgerFits
      <3> QED BY <1>1, <2>4, <3>11, LedgerStepOf
    <2> QED BY <2>1, <2>2, <2>3, <2>4
  <1>3. CASE planner_envelope_write(e)
    <2>1. /\ pc[e] = "write-plan" /\ UNCHANGED mine
          /\ \/ pc'[e] = "end" /\ output'.by = e /\ output'.status = "blocked"
             \/ pc'[e] = "resolving" /\ UNCHANGED output
      BY <1>3 DEF planner_envelope_write, At, Blocks, Writes, Goes, WellFormed
    <2>2. CASE pc'[e] = "end"
      BY <1>1, <2>1, <2>2, SourceBlocks, LedgerStepOf DEF Sourcing, Fetching
    <2>3. CASE pc'[e] = "resolving"
      <3>1. LedgerFits(e)'
        BY <1>1, <2>1, <2>3, SourceMoves, OrderOf, DoneAfterOf DEF Sourcing, Fetching
      <3> QED BY <1>1, <2>1, <2>3, <3>1, LedgerStepOf
    <2> QED BY <2>1, <2>2, <2>3
  <1> QED BY <1>2, <1>3 DEF Plan

(* Of any task: what begins, dies or throws, and a reading.                *)
LEMMA LedgerBegins ==
  ASSUME WellFormed, LedgerInv, NEW e \in Executions, Start(e)
  PROVE  LedgerInv'
  <1>1. Alone(e) /\ UNCHANGED <<mine, output>> /\ pc[e] = "idle"
    BY Starts DEF Start
  <1>2. ~mine'[e].valid
    BY <1>1 DEF WellFormed, Unplanned
  <1> QED BY <1>1, <1>2, NothingSaid, LedgerStepOf

LEMMA LedgerDies ==
  ASSUME WellFormed, LedgerInv, NEW e \in Executions, Crash(e)
  PROVE  LedgerInv'
  <1>1. Alone(e) /\ UNCHANGED output /\ mine'[e] = NoPlan
    BY Crashes, TakesNow DEF Crash
  <1>2. ~mine'[e].valid
    BY <1>1 DEF NoPlan
  <1> QED BY <1>1, <1>2, NothingSaid, LedgerStepOf

LEMMA LedgerThrows ==
  ASSUME WellFormed, LedgerInv, NEW e \in Executions, Throw(e)
  PROVE  LedgerInv'
  <1>1. Alone(e) /\ UNCHANGED <<task, mine>> /\ e \in disturbed'
    BY Throws DEF Throw
  <1>2. output' = output \/ output'.by = e
    BY FinishesBlocked DEF Throw, finishBlocked, Blocks, Writes
  <1>3. task.profile \notin {"source", "documents"} => ~mine'[e].valid
    BY <1>1 DEF LedgerInv
  <1> QED BY <1>1, <1>2, <1>3, NothingSaid, LedgerStepOf

LEMMA LedgerRead ==
  ASSUME WellFormed, LedgerInv, NEW e \in Executions, readPlannerEnvelope(e)
  PROVE  LedgerInv'
  <1>1. UNCHANGED <<task, pc, mine, got, output, disturbed>>
    BY DEF readPlannerEnvelope
  <1>2. \A f \in Executions : /\ SourceLedger(f)' = SourceLedger(f)
                              /\ DocumentLedger(f)' = DocumentLedger(f)
    BY <1>1 DEF SourceLedger, DocumentLedger, Recorded, Ununderstood, publishable
  <1> QED BY <1>1, <1>2 DEF LedgerInv, LedgerFits

LEMMA LedgerReplies ==
  ASSUME WellFormed, LedgerInv, NEW e \in Executions, Reply(e)
  PROVE  LedgerInv'
  <1>1. Alone(e) /\ UNCHANGED <<task, mine>>
    BY Replies DEF Reply, buildFileSummaryContext, planFastDraftRoute, generateDirectReply
  <1>2. task.profile \notin {"source", "documents"}
    BY DEF WellFormed, Reply, buildFileSummaryContext, planFastDraftRoute, generateDirectReply, At,
       Sourcing, Documenting, Fetching, Reviewing, Skipping, Drafting, Recording, Ended
  <1>3. ~mine'[e].valid
    BY <1>1, <1>2 DEF LedgerInv
  <1>4. output' = output \/ output'.by = e
    BY DEF Reply, buildFileSummaryContext, planFastDraftRoute, generateDirectReply, Blocks, Writes
  <1> QED BY <1>1, <1>3, <1>4, NothingSaid, LedgerStepOf

-----------------------------------------------------------------------------
(* Of documents.                                                           *)

LEMMA RequestedOf ==
  ASSUME WellFormed, task.profile = "documents"
  PROVE  task.requested \in SUBSET DocumentTypes /\ task.requested # {}
  BY ExecutionAssumption DEF WellFormed, Scenario

(* A step that leaves the ledger alone.                                    *)
LEMMA DocumentKept ==
  ASSUME NEW e \in Executions, UNCHANGED task, DocumentLedger(e), mine'[e] = mine[e],
         got'[e].analysed = got[e].analysed,
         pc[e] # "end", pc'[e] = "end" \/ Recorded(e)' = Recorded(e),
         pc[e] = "output" => pc'[e] = "end" /\ got'[e] = got[e],
         pc'[e] = "record" => got'[e].next \in got'[e].left \cap task.requested,
         pc'[e] \in {"deliver", "verify"} =>
            got'[e].left \cap task.requested = {} \/ Ununderstood(e)',
         pc'[e] \in {"output", "end"} /\ publishable(got'[e]) =>
            mine[e].status = "completed" \/ Ununderstood(e)'
  PROVE  DocumentLedger(e)'
  <1> DEFINE l == mine[e]
  <1>1. /\ IsPlan(l)'
        /\ StatusFits(l)' /\ Closed(l)'
        /\ l.steps' \in [Steps("documents", task.requested)' ->
                           {"pending", "ready", "in_progress", "completed"}]
        /\ (l.deps = DependsOn("documents", task.requested))'
    BY DEF DocumentLedger, IsPlan, StatusFits, Closed
  <1>2. (got[e].analysed /\ "minutes" \in task.requested => l.steps["understand"] = "completed")'
    BY DEF DocumentLedger
  <1>3. (\A d \in Recorded(e) : l.steps[d] = "completed")'
    BY DEF DocumentLedger, Recorded, Recording
  <1>4. (pc[e] # "end" => \A d \in DocumentTypes : <<d, 0>> \in l.ops => d \in Recorded(e))'
    BY DEF DocumentLedger
  <1>5. (l.steps["verify"] # "in_progress")'
    BY DEF DocumentLedger
  <1>6. (<<"verify", 0>> \in l.ops \/ l.steps["verify"] = "completed" =>
               pc[e] \in {"output", "end"} /\ publishable(got[e]))'
    BY DEF DocumentLedger, publishable
  <1> QED BY <1>1, <1>2, <1>3, <1>4, <1>5, <1>6 DEF DocumentLedger

(* Before the recording begins nothing is verified.                        *)
LEMMA DocumentDrafts ==
  ASSUME WellFormed, LedgerInv, task.profile = "documents", NEW e \in Executions, Alone(e),
         disturbed' = disturbed, mine'[e] = mine[e],
         got'[e].analysed = got[e].analysed, pc'[e] = "end" => got'[e].policy = "blocked",
         pc[e] \in Drafting \cup {"save-qa"}, pc'[e] \in Drafting \cup {"save-qa", "policy", "end"}
  PROVE  LedgerFits(e)'
  <1> SUFFICES ASSUME e \notin disturbed, mine[e].valid PROVE LedgerFits(e)'
    BY DEF LedgerFits
  <1>1. DocumentLedger(e) /\ UNCHANGED task
    BY DEF LedgerInv, LedgerFits, Alone
  <1>2. Recorded(e)' = Recorded(e) \/ pc'[e] = "end"
    BY DEF Recorded, Drafting, Recording
  <1>3. /\ pc[e] \notin {"output", "end"} /\ pc'[e] \notin {"record", "deliver", "verify", "output"}
        /\ (pc'[e] = "end" => ~publishable(got'[e]))
    BY DEF Drafting, publishable
  <1>4. DocumentLedger(e)'
    BY <1>1, <1>2, <1>3, DocumentKept
  <1>5. mine[e].steps["verify"] # "completed"
    BY <1>1, <1>3 DEF DocumentLedger
  <1> QED BY <1>1, <1>4, <1>5 DEF LedgerFits

LEMMA DocumentPrepares ==
  ASSUME WellFormed, LedgerInv, task.profile = "documents", NEW e \in Executions, Prepare(e)
  PROVE  LedgerInv'
  <1>1. Alone(e) /\ UNCHANGED <<mine, task>>
    BY Prepares DEF Prepare, ensureAsrTranscription, ensureMeetingIntelligence, buildEvidencePack
  <1>2. ~mine[e].valid
    BY DEF Prepare, ensureAsrTranscription, ensureMeetingIntelligence, buildEvidencePack, At,
       WellFormed, Unplanned
  <1>3. output' = output \/ output'.by = e
    BY DEF Prepare, ensureAsrTranscription, ensureMeetingIntelligence, buildEvidencePack, Blocks, Writes
  <1> QED BY <1>1, <1>2, <1>3, NothingSaid, LedgerStepOf

LEMMA DocumentPlanned ==
  ASSUME WellFormed, task.profile = "documents", NEW e \in Executions, UNCHANGED <<task, got>>,
         IsNew(mine'[e], "documents", task.requested, got[e].analysed), pc'[e] = "write-plan"
  PROVE  DocumentLedger(e)'
  <1> DEFINE l == mine'[e]
  <1> DEFINE r == task.requested
  <1> DEFINE first == FirstSteps("documents", r, got[e].analysed)
  <1> DEFINE deps == DependsOn("documents", r)
  <1>1. /\ Steps("documents", r) = r \cup {"verify"} \cup (IF "minutes" \in r THEN {"understand"} ELSE {})
        /\ \A s \in Steps("documents", r) : deps[s] \subseteq Steps("documents", r)
        /\ "verify" \notin r /\ "understand" \notin r
    BY RequestedOf, StepsOfDocuments
  <1>2. /\ DOMAIN first = Steps("documents", r)
        /\ \A s \in Steps("documents", r) :
              first[s] = IF s = "understand" /\ got[e].analysed THEN "completed" ELSE "pending"
    BY DEF FirstSteps
  <1>3. /\ IsPlan(l) /\ l.valid /\ l.ops = {} /\ l.deps = deps
        /\ l.steps = MakeReady(first, deps) /\ DOMAIN l.steps = Steps("documents", r)
        /\ l.status = "completed" => \A s \in DOMAIN l.steps : l.steps[s] \in Done
        /\ l.status # "completed" => l.status = "active" /\ \E s \in DOMAIN l.steps : l.steps[s] \notin Done
    BY DEF IsNew
  <1> HIDE DEF first, deps
  <1>4. \A s \in Steps("documents", r) :
           l.steps[s] = first[s] \/ (first[s] = "pending" /\ l.steps[s] = "ready")
    BY <1>2, <1>3, MadeReady
  <1>5. l.steps \in [Steps("documents", r) -> {"pending", "ready", "in_progress", "completed"}]
    <2>1. \A s \in Steps("documents", r) : l.steps[s] \in {"pending", "ready", "in_progress", "completed"}
      BY <1>2, <1>4
    <2>2. l.steps = [s \in Steps("documents", r) |-> l.steps[s]]
      BY <1>2, <1>3 DEF MakeReady
    <2> QED BY <2>1, <2>2
  <1>6. Closed(l)
    <2>1. \A s \in DOMAIN first : deps[s] \subseteq DOMAIN first
      BY <1>1, <1>2
    <2> QED BY <1>3, <2>1, MadeClosed DEF Closed
  <1>7. StatusFits(l)
    BY <1>3 DEF StatusFits
  <1>8. l.steps["verify"] \in {"pending", "ready"}
    BY <1>1, <1>2, <1>4
  <1>9. got[e].analysed /\ "minutes" \in r => l.steps["understand"] = "completed"
    BY <1>1, <1>2, <1>4
  <1>10. Recorded(e)' = {}
    BY DEF Recorded, Recording
  <1> QED BY <1>3, <1>5, <1>6, <1>7, <1>8, <1>9, <1>10 DEF DocumentLedger, deps

LEMMA DocumentPlans ==
  ASSUME WellFormed, LedgerInv, GateInv, task.profile = "documents", NEW e \in Executions, Plan(e)
  PROVE  LedgerInv'
  <1>1. Alone(e) /\ UNCHANGED <<task, got, disturbed>>
    BY Plans DEF Plan, planner_envelope_plan, planner_envelope_write
  <1>2. CASE planner_envelope_plan(e)
    <2>1. /\ Goes(e, "write-plan") /\ UNCHANGED output
          /\ \/ \E asks :
                  mine' = [mine EXCEPT
                              ![e] = buildEnvelope("documents", task.requested, got[e].analysed, asks)]
             \/ mine' = [mine EXCEPT ![e] = Refused]
      BY <1>2 DEF planner_envelope_plan
    <2>2. CASE mine' = [mine EXCEPT ![e] = Refused]
      <3>1. ~mine'[e].valid
        BY <2>2, TakesNow DEF Refused, NoPlan
      <3> QED BY <1>1, <2>1, <3>1, NothingSaid, LedgerStepOf
    <2>3. CASE \E asks :
              mine' = [mine EXCEPT
                          ![e] = buildEnvelope("documents", task.requested, got[e].analysed, asks)]
      <3>1. PICK asks :
              mine' = [mine EXCEPT
                          ![e] = buildEnvelope("documents", task.requested, got[e].analysed, asks)]
        BY <2>3
      <3> DEFINE envelope == buildEnvelope("documents", task.requested, got[e].analysed, asks)
      <3>2. IsNew(envelope, "documents", task.requested, got[e].analysed)
        BY Planned
      <3> HIDE DEF envelope
      <3>3. mine'[e] = envelope
        BY <3>1, TakesNow DEF envelope
      <3>4. pc'[e] = "write-plan"
        BY <2>1 DEF Goes, WellFormed
      <3>5. DocumentLedger(e)'
        BY <1>1, <3>2, <3>3, <3>4, DocumentPlanned
      <3>6. LedgerFits(e)'
        BY <1>1, <3>4, <3>5 DEF LedgerFits
      <3> QED BY <1>1, <2>1, <3>6, LedgerStepOf
    <2> QED BY <2>1, <2>2, <2>3
  <1>3. CASE planner_envelope_write(e)
    <2>1. /\ pc[e] = "write-plan" /\ UNCHANGED mine
          /\ \/ pc'[e] = "end" /\ output'.by = e
             \/ pc'[e] = "start" /\ UNCHANGED output
      BY <1>3 DEF planner_envelope_write, At, Blocks, Writes, Goes, WellFormed
    <2>2. got[e].policy = "blocked"
      BY <2>1 DEF GateInv, GateFits, Drafting
    <2>3. LedgerFits(e)'
      BY <1>1, <2>1, <2>2, DocumentDrafts DEF Drafting
    <2> QED BY <1>1, <2>1, <2>3, LedgerStepOf
  <1> QED BY <1>2, <1>3 DEF Plan

LEMMA DocumentWrites ==
  ASSUME WellFormed, LedgerInv, GateInv, task.profile = "documents", NEW e \in Executions, Write(e)
  PROVE  LedgerInv'
  <1>1. Alone(e) /\ UNCHANGED <<task, mine, disturbed>> /\ Holding(got[e])
    BY Writings DEF Write, model_route_plan, document_prompt_render_batch, document_workers_run,
       publishPartial, Needs, WellFormed
  <1>2. /\ pc[e] \in {"route", "render", "work", "judge"}
        /\ pc'[e] \in {"render", "work", "project", "judge", "qa", "end"}
        /\ output' = output \/ output'.by = e
        /\ got' = got \/ \E v \in SUBSET DocumentTypes, w \in BOOLEAN :
              Has(e, [got[e] EXCEPT !.results = v, !.whole = w])
    <2>1. CASE model_route_plan(e) \/ document_prompt_render_batch(e)
      <3>1. /\ pc[e] \in {"route", "render"} /\ pc'[e] \in {"render", "work", "end"}
            /\ output' = output \/ output'.by = e
        BY <2>1 DEF model_route_plan, document_prompt_render_batch, Needs, Blocks, Writes, Goes, At,
           WellFormed
      <3>2. got' = got
        BY <2>1 DEF model_route_plan, document_prompt_render_batch, Needs
      <3> QED BY <3>1, <3>2
    <2>2. CASE document_workers_run(e)
      BY <2>2, RequestedOf DEF document_workers_run, Goes, At, WellFormed
    <2>3. CASE publishPartial(e)
      BY <2>3 DEF publishPartial, Goes, At, WellFormed, Blocks, Writes
    <2> QED BY <2>1, <2>2, <2>3 DEF Write
  <1>3. got'[e].analysed = got[e].analysed /\ got'[e].policy = got[e].policy
    <2>1. got' = got \/ \E v \in SUBSET DocumentTypes, w \in BOOLEAN :
             got'[e] = [got[e] EXCEPT !.results = v, !.whole = w]
      BY <1>2, HasNow
    <2> QED BY <1>1, <2>1, FieldsOf DEF Holding
  <1>4. got[e].policy = "blocked"
    BY <1>2 DEF GateInv, GateFits, Drafting
  <1>5. LedgerFits(e)'
    BY <1>1, <1>2, <1>3, <1>4, DocumentDrafts DEF Drafting
  <1> QED BY <1>1, <1>2, <1>5, LedgerStepOf

LEMMA DocumentChecks ==
  ASSUME WellFormed, LedgerInv, GateInv, task.profile = "documents", NEW e \in Executions, Check(e)
  PROVE  LedgerInv'
  <1>1. Alone(e) /\ UNCHANGED <<task, mine, disturbed>> /\ Holding(got[e])
    BY Checks DEF Check, qa_gate_evaluate, qa_gate_write, policy_gate_check, WellFormed
  <1>2. UNCHANGED output
    BY DEF Check, qa_gate_evaluate, qa_gate_write, policy_gate_check
  <1>3. CASE qa_gate_evaluate(e)
    <2>1. pc[e] = "qa" /\ pc'[e] = "save-qa" /\ \E v : Has(e, [got[e] EXCEPT !.qa = v])
      BY <1>3 DEF qa_gate_evaluate, Goes, At, WellFormed
    <2>2. got'[e].analysed = got[e].analysed
      BY <1>1, <2>1, HasNow, FieldsOf DEF Holding
    <2>3. LedgerFits(e)'
      BY <1>1, <2>1, <2>2, DocumentDrafts DEF Drafting
    <2> QED BY <1>1, <1>2, <2>3, LedgerStepOf
  <1>4. CASE qa_gate_write(e)
    <2>1. pc[e] = "save-qa" /\ pc'[e] = "policy" /\ \E v : Has(e, [got[e] EXCEPT !.saved = v])
      BY <1>4 DEF qa_gate_write, Goes, At, WellFormed
    <2>2. got'[e].analysed = got[e].analysed
      BY <1>1, <2>1, HasNow, FieldsOf DEF Holding
    <2>3. LedgerFits(e)'
      BY <1>1, <2>1, <2>2, DocumentDrafts DEF Drafting
    <2> QED BY <1>1, <1>2, <2>3, LedgerStepOf
  <1>5. CASE policy_gate_check(e)
    <2>1. pc[e] = "policy" /\ pc'[e] = "next"
          /\ \E v : Has(e, [got[e] EXCEPT !.policy = v, !.left = task.requested])
      BY <1>5 DEF policy_gate_check, Goes, At, WellFormed
    <2>2. got'[e].analysed = got[e].analysed /\ got'[e].left = task.requested
      <3>1. PICK v : got'[e] = [got[e] EXCEPT !.policy = v, !.left = task.requested]
        BY <2>1, HasNow
      <3> DEFINE u == [got[e] EXCEPT !.policy = v, !.left = task.requested]
      <3>2. Fit("policy", v) /\ Fit("left", task.requested)
        BY RequestedOf DEF Fit
      <3>3. u.analysed = got[e].analysed /\ u.left = task.requested
        BY <1>1, <3>2, FieldsOf, UpdatedTwice
      <3> QED BY <3>1, <3>3
    <2>3. Recorded(e)' = Recorded(e)
      BY <1>1, <2>1, <2>2 DEF Recorded, Recording
    <2>4. LedgerFits(e)'
      <3> SUFFICES ASSUME e \notin disturbed, mine[e].valid PROVE LedgerFits(e)'
        BY <1>1 DEF LedgerFits
      <3>1. DocumentLedger(e)
        BY DEF LedgerInv, LedgerFits
      <3>2. DocumentLedger(e)'
        BY <1>1, <2>1, <2>2, <2>3, <3>1, DocumentKept
      <3> QED BY <1>1, <2>1, <3>2 DEF LedgerFits
    <2> QED BY <1>1, <1>2, <2>4, LedgerStepOf
  <1> QED BY <1>3, <1>4, <1>5 DEF Check

(* While there is a document left that is not recorded, and minutes are of *)
(* a meeting somebody understood, one of those left can be recorded.       *)
LEMMA OneIsRecordable ==
  ASSUME WellFormed, task.profile = "documents", NEW e \in Executions, DocumentLedger(e),
         pc[e] = "next", ~Ununderstood(e), \A d \in got[e].left : ~Recordable(e, d)
  PROVE  got[e].left \cap task.requested = {}
  <1> DEFINE r == task.requested
  <1> DEFINE l == mine[e]
  <1>1. /\ r \subseteq DOMAIN l.steps
        /\ \A d \in r : l.deps[d] = documentDependencies(d, r)
        /\ r \subseteq DocumentTypes
    BY RequestedOf, StepsOfDocuments DEF DocumentLedger
  <1>2. \A d \in r \ got[e].left : l.steps[d] = "completed"
    BY DEF DocumentLedger, Recorded, Recording
  <1>3. ASSUME NEW d \in r, \A p \in documentDependencies(d, r) : l.steps[p] = "completed"
        PROVE  d \notin got[e].left
    BY <1>1, <1>3 DEF Recordable
  <1>4. "prd" \in r => "prd" \notin got[e].left
    BY <1>3 DEF documentDependencies
  <1>5. "other" \in r => "other" \notin got[e].left
    BY <1>3 DEF documentDependencies
  <1>6. "minutes" \in r => "minutes" \notin got[e].left
    <2> SUFFICES ASSUME "minutes" \in r PROVE "minutes" \notin got[e].left
      OBVIOUS
    <2>1. l.steps["understand"] = "completed"
      BY DEF DocumentLedger, Ununderstood
    <2> QED BY <1>3, <2>1 DEF documentDependencies
  <1>7. "architecture" \in r => "architecture" \notin got[e].left
    <2> SUFFICES ASSUME "architecture" \in r PROVE "architecture" \notin got[e].left
      OBVIOUS
    <2>1. documentDependencies("architecture", r) = r \cap {"prd"}
      BY DEF documentDependencies
    <2> QED BY <1>2, <1>3, <1>4, <2>1
  <1>8. "checklist" \in r => "checklist" \notin got[e].left
    <2> SUFFICES ASSUME "checklist" \in r PROVE "checklist" \notin got[e].left
      OBVIOUS
    <2>1. documentDependencies("checklist", r) = r \cap {"prd", "architecture"}
      BY DEF documentDependencies
    <2> QED BY <1>2, <1>3, <1>4, <1>7, <2>1
  <1> QED BY <1>1, <1>4, <1>5, <1>6, <1>7, <1>8 DEF DocumentTypes

(* When all documents are recorded, the step that verifies them is ready.  *)
LEMMA VerifyIsReady ==
  ASSUME WellFormed, task.profile = "documents", NEW e \in Executions, DocumentLedger(e),
         pc[e] = "deliver", ~Ununderstood(e)
  PROVE  "verify" \in DOMAIN mine[e].steps /\ mine[e].steps["verify"] = "ready"
  <1> DEFINE r == task.requested
  <1> DEFINE l == mine[e]
  <1>1. /\ "verify" \in DOMAIN l.steps /\ l.deps["verify"] = r
        /\ l.steps["verify"] \in {"pending", "ready", "in_progress", "completed"}
    BY RequestedOf, StepsOfDocuments DEF DocumentLedger
  <1>2. \A d \in r : l.steps[d] \in Done
    BY DEF DocumentLedger, Recorded, Recording, Done
  <1>3. l.steps["verify"] # "pending"
    BY <1>1, <1>2 DEF DocumentLedger, Closed
  <1> QED BY <1>1, <1>3 DEF DocumentLedger

LEMMA DocumentDelivers ==
  ASSUME WellFormed, LedgerInv, task.profile = "documents", NEW e \in Executions, Deliver(e)
  PROVE  LedgerInv'
  <1>1. Alone(e) /\ UNCHANGED <<task, mine, disturbed>> /\ Holding(got[e])
    BY Deliveries DEF Deliver, readyIndex, deliverables, writeOutput, WellFormed
  <1>2. output' = output \/ output'.by = e
    BY DEF Deliver, readyIndex, deliverables, writeOutput, Writes
  <1>3. LedgerFits(e)'
    <2> SUFFICES ASSUME e \notin disturbed, mine[e].valid PROVE LedgerFits(e)'
      BY <1>1 DEF LedgerFits
    <2>1. DocumentLedger(e)
      BY DEF LedgerInv, LedgerFits
    <2>2. CASE readyIndex(e)
      <3>1. pc[e] = "next"
        BY <2>2 DEF readyIndex, At
      <3>2. CASE \E d \in got[e].left : /\ Recordable(e, d) /\ Has(e, [got[e] EXCEPT !.next = d])
                                        /\ Goes(e, "record")
        <4>1. PICK d \in got[e].left : /\ Recordable(e, d) /\ Has(e, [got[e] EXCEPT !.next = d])
                                       /\ Goes(e, "record")
          BY <3>2
        <4> DEFINE u == [got[e] EXCEPT !.next = d]
        <4>2. got'[e] = u /\ pc'[e] = "record"
          BY <4>1, HasNow DEF Goes, WellFormed
        <4>3. u.next = d /\ u.left = got[e].left /\ u.analysed = got[e].analysed
          BY <1>1, FieldsOf DEF Holding
        <4> HIDE DEF u
        <4>4. d \in task.requested
          <5>1. d \in DocumentTypes /\ d \in DOMAIN mine[e].steps
            BY <1>1, <4>1 DEF Holding, Recordable
          <5>2. DOMAIN mine[e].steps = Steps("documents", task.requested)
            BY <2>1 DEF DocumentLedger
          <5> QED BY <5>1, <5>2, RequestedOf, StepsOfDocuments DEF DocumentTypes
        <4>5. Recorded(e)' = Recorded(e)
          BY <1>1, <3>1, <4>2, <4>3 DEF Recorded, Recording
        <4>6. DocumentLedger(e)'
          BY <1>1, <2>1, <3>1, <4>1, <4>2, <4>3, <4>4, <4>5, DocumentKept
        <4> QED BY <1>1, <4>2, <4>6 DEF LedgerFits
      <3>3. CASE (\A d \in got[e].left : ~Recordable(e, d)) /\ Goes(e, "deliver") /\ UNCHANGED got
        <4>1. pc'[e] = "deliver"
          BY <3>3 DEF Goes, WellFormed
        <4>2. got[e].left \cap task.requested = {} \/ Ununderstood(e)
          BY <2>1, <3>1, <3>3, OneIsRecordable
        <4>3. Recorded(e)' = Recorded(e) /\ Ununderstood(e)' = Ununderstood(e)
          BY <1>1, <3>1, <3>3, <4>1 DEF Recorded, Recording, Ununderstood
        <4>4. DocumentLedger(e)'
          BY <1>1, <2>1, <3>1, <3>3, <4>1, <4>2, <4>3, DocumentKept
        <4> QED BY <1>1, <4>1, <4>4 DEF LedgerFits
      <3> QED BY <2>2, <3>2, <3>3 DEF readyIndex
    <2>3. CASE deliverables(e)
      <3>1. pc[e] = "deliver" /\ UNCHANGED got
        BY <2>3 DEF deliverables, At
      <3>2. pc'[e] = IF publishable(got[e]) /\ "verify" \in DOMAIN mine[e].steps
                        /\ mine[e].steps["verify"] = "ready" THEN "verify" ELSE "output"
        BY <2>3 DEF deliverables, Goes, WellFormed
      <3>3. Recorded(e)' = Recorded(e) /\ Ununderstood(e)' = Ununderstood(e)
        BY <1>1, <3>1, <3>2 DEF Recorded, Recording, Ununderstood
      <3>4. got[e].left \cap task.requested = {} \/ Ununderstood(e)
        BY <2>1, <3>1 DEF DocumentLedger
      <3>5. pc'[e] = "output" /\ publishable(got[e]) => Ununderstood(e)
        BY <2>1, <3>1, <3>2, VerifyIsReady
      <3>6. DocumentLedger(e)'
        BY <1>1, <2>1, <3>1, <3>2, <3>3, <3>4, <3>5, DocumentKept
      <3> QED BY <1>1, <3>2, <3>6 DEF LedgerFits
    <2>4. CASE writeOutput(e)
      <3>1. pc[e] = "output" /\ UNCHANGED got /\ pc'[e] = "end"
        BY <2>4 DEF writeOutput, At, Goes, WellFormed
      <3>2. publishable(got[e]) => output'.status = "completed"
        BY <2>4 DEF writeOutput, Writes
      <3>3. Ununderstood(e)' = Ununderstood(e)
        BY <1>1, <3>1 DEF Ununderstood
      <3>4. publishable(got[e]) => mine[e].status = "completed" \/ Ununderstood(e)
        BY <2>1, <3>1 DEF DocumentLedger
      <3>5. DocumentLedger(e)'
        BY <1>1, <2>1, <3>1, <3>3, <3>4, DocumentKept
      <3>6. mine[e].steps["verify"] = "completed" => publishable(got[e])
        BY <2>1 DEF DocumentLedger
      <3> QED BY <1>1, <3>1, <3>2, <3>5, <3>6 DEF LedgerFits
    <2> QED BY <2>2, <2>3, <2>4 DEF Deliver
  <1> QED BY <1>1, <1>2, <1>3, LedgerStepOf

-----------------------------------------------------------------------------
(* What the documents' changes do to their ledger.                         *)
ComesTo(e, c, n) ==
    LET l == mine[e]
    IN  /\ IsPlan(n) /\ n.valid
        /\ n.steps \in [Steps("documents", task.requested) ->
                           {"pending", "ready", "in_progress", "completed"}]
        /\ n.deps = DependsOn("documents", task.requested)
        /\ StatusFits(n) /\ Closed(n)
        /\ \A s \in DOMAIN l.steps : l.steps[s] = "completed" => n.steps[s] = "completed"
        /\ \A s \in DOMAIN l.steps \ DOMAIN c.updates : n.steps[s] \in {l.steps[s], "ready"}
        /\ \A s \in DOMAIN l.steps \cap DOMAIN c.updates : n.steps[s] = c.updates[s]
        /\ n.ops = l.ops \cup {c.op}

LEMMA DocumentPatched ==
  ASSUME WellFormed, task.profile = "documents", NEW e \in Executions, DocumentLedger(e), NEW c, NEW n,
         Patched(mine[e], c, n),
         \A s \in DOMAIN c.updates : c.updates[s] \in {"in_progress", "completed"},
         \A s \in DOMAIN c.updates : c.updates[s] = "in_progress" => mine[e].steps[s] # "completed"
  PROVE  ComesTo(e, c, n)
  <1> DEFINE l == mine[e]
  <1> DEFINE m == Merged(l, c)
  <1> DEFINE all == Steps("documents", task.requested)
  <1>1. /\ DOMAIN l.steps = all
        /\ \A s \in all : l.steps[s] \in {"pending", "ready", "in_progress", "completed"}
        /\ l.deps = DependsOn("documents", task.requested)
    BY DEF DocumentLedger
  <1>2. DOMAIN m = all /\ \A s \in all : m[s] = IF s \in DOMAIN c.updates THEN c.updates[s] ELSE l.steps[s]
    BY <1>1 DEF Merged
  <1>3. /\ IsPlan(n) /\ n.valid /\ n.deps = l.deps /\ n.steps = MakeReady(m, l.deps)
        /\ n.ops = l.ops \cup {c.op} /\ \E asks : n.status = Overall(n.steps, asks)
    BY DEF Patched
  <1> HIDE DEF m
  <1>4. \A s \in all : n.steps[s] = m[s] \/ (m[s] = "pending" /\ n.steps[s] = "ready")
    BY <1>2, <1>3, MadeReady
  <1>5. n.steps = [s \in all |-> n.steps[s]]
    BY <1>2, <1>3 DEF MakeReady
  <1>6. n.steps \in [all -> {"pending", "ready", "in_progress", "completed"}]
    <2>1. \A s \in all : n.steps[s] \in {"pending", "ready", "in_progress", "completed"}
      BY <1>1, <1>2, <1>4
    <2> QED BY <1>5, <2>1
  <1>7. StatusFits(n)
    BY <1>3, <1>6, OverallFits
  <1>8. Closed(n)
    <2>1. \A s \in DOMAIN m : l.deps[s] \subseteq DOMAIN m
      BY <1>1, <1>2, RequestedOf, StepsOfDocuments
    <2> QED BY <1>3, <2>1, MadeClosed DEF Closed
  <1>9. \A s \in all : l.steps[s] = "completed" => n.steps[s] = "completed"
    BY <1>2, <1>4
  <1>10. \A s \in all \ DOMAIN c.updates : n.steps[s] \in {l.steps[s], "ready"}
    BY <1>2, <1>4
  <1>11. \A s \in all \cap DOMAIN c.updates : n.steps[s] = c.updates[s]
    BY <1>2, <1>4
  <1> QED BY <1>1, <1>3, <1>6, <1>7, <1>8, <1>9, <1>10, <1>11 DEF ComesTo

LEMMA ChangeOf ==
  ASSUME NEW op, NEW expect, NEW updates, NEW evidence
  PROVE  LET c == Change(op, expect, updates, evidence)
         IN  /\ c.op = op /\ c.updates = updates
             /\ [c EXCEPT !.events = TRUE].op = op /\ [c EXCEPT !.events = TRUE].updates = updates
  BY DEF Change

LEMMA UpdatesOf ==
  ASSUME NEW steps, NEW status
  PROVE  DOMAIN Updates(steps, status) = steps /\ \A s \in steps : Updates(steps, status)[s] = status
  BY DEF Updates

(* What the documents' pipeline asks of the ledger.                        *)
LEMMA AskedByDocuments ==
  ASSUME NEW e \in Executions
  PROVE  LET c == Asked(e, pc[e])
             startable == {d \in task.requested : mine[e].steps[d] = "ready"}
         IN  /\ pc[e] = "start" => /\ c.op = <<"start", 0>> /\ DOMAIN c.updates = startable
                                   /\ \A s \in startable : c.updates[s] = "in_progress"
             /\ pc[e] = "project" => (\E k : c.op = <<"project", k>>) /\ DOMAIN c.updates = {}
             /\ pc[e] = "record" => /\ c.op = <<got[e].next, 0>> /\ DOMAIN c.updates = {got[e].next}
                                    /\ c.updates[got[e].next] = "completed"
             /\ pc[e] = "verify" => /\ c.op = <<"verify", 0>> /\ DOMAIN c.updates = {"verify"}
                                    /\ c.updates["verify"] = "completed"
  <1> DEFINE startable == {d \in task.requested : mine[e].steps[d] = "ready"}
  <1> DEFINE revision == mine[e].revision
  <1>1. Asked(e, "start") = Change(<<"start", 0>>, revision, Updates(startable, "in_progress"), {})
    BY SMT DEF Asked, Change, Updates, NoStep, Opens, Skips, StepOf
  <1>2. Asked(e, "project") = [Change(<<"project", revision>>, revision, NoStep, {}) EXCEPT !.events = TRUE]
    BY SMT DEF Asked, Change, Updates, NoStep, Opens, Skips, StepOf
  <1>3. Asked(e, "record") =
           Change(<<got[e].next, 0>>, revision, Updates({got[e].next}, "completed"), {got[e].next})
    BY SMT DEF Asked, Change, Updates, NoStep, Opens, Skips, StepOf
  <1>4. Asked(e, "verify") = Change(<<"verify", 0>>, revision, Updates({"verify"}, "completed"), {"verify"})
    BY SMT DEF Asked, Change, Updates, NoStep, Opens, Skips, StepOf
  <1>5. CASE pc[e] = "start"
    <2>1. Asked(e, pc[e]).op = <<"start", 0>> /\ Asked(e, pc[e]).updates = Updates(startable, "in_progress")
      BY <1>1, <1>5, ChangeOf
    <2> HIDE DEF startable
    <2>2. DOMAIN Asked(e, pc[e]).updates = startable
          /\ \A s \in startable : Asked(e, pc[e]).updates[s] = "in_progress"
      BY <2>1, UpdatesOf
    <2> QED BY <1>5, <2>1, <2>2 DEF startable
  <1>6. CASE pc[e] = "project"
    <2>1. Asked(e, pc[e]).op = <<"project", revision>> /\ Asked(e, pc[e]).updates = NoStep
      <3>1. PICK one : one = Change(<<"project", revision>>, revision, NoStep, {})
        OBVIOUS
      <3>2. Asked(e, pc[e]) = [one EXCEPT !.events = TRUE]
        BY <1>2, <1>6, <3>1
      <3>3. [one EXCEPT !.events = TRUE].op = <<"project", revision>>
            /\ [one EXCEPT !.events = TRUE].updates = NoStep
        BY <3>1 DEF Change
      <3> QED BY <3>2, <3>3
    <2>2. DOMAIN Asked(e, pc[e]).updates = {}
      BY <2>1 DEF NoStep
    <2> QED BY <1>6, <2>1, <2>2
  <1>7. CASE pc[e] = "record"
    <2>1. Asked(e, pc[e]).op = <<got[e].next, 0>>
          /\ Asked(e, pc[e]).updates = Updates({got[e].next}, "completed")
      BY <1>3, <1>7, ChangeOf
    <2>2. DOMAIN Asked(e, pc[e]).updates = {got[e].next}
          /\ Asked(e, pc[e]).updates[got[e].next] = "completed"
      BY <2>1, UpdatesOf
    <2> QED BY <1>7, <2>1, <2>2
  <1>8. CASE pc[e] = "verify"
    <2>1. Asked(e, pc[e]).op = <<"verify", 0>> /\ Asked(e, pc[e]).updates = Updates({"verify"}, "completed")
      BY <1>4, <1>8, ChangeOf
    <2>2. DOMAIN Asked(e, pc[e]).updates = {"verify"} /\ Asked(e, pc[e]).updates["verify"] = "completed"
      BY <2>1, UpdatesOf
    <2> QED BY <1>8, <2>1, <2>2
  <1> QED BY <1>5, <1>6, <1>7, <1>8

(* A change that replaces nothing but what is still to be done.            *)
LEMMA DocumentTakes ==
  ASSUME WellFormed, task.profile = "documents", NEW e \in Executions, DocumentLedger(e),
         UNCHANGED task, got'[e].analysed = got[e].analysed,
         NEW c, Patched(mine[e], c, mine'[e]),
         \A s \in DOMAIN c.updates : c.updates[s] \in {"in_progress", "completed"},
         \A s \in DOMAIN c.updates : c.updates[s] = "in_progress" => mine[e].steps[s] # "completed",
         "verify" \in DOMAIN c.updates => c.updates["verify"] = "completed",
         pc[e] \notin {"output", "end"},
         \A d \in DocumentTypes : <<d, 0>> \in mine'[e].ops => d \in Recorded(e)',
         \A d \in Recorded(e)' : mine'[e].steps[d] = "completed",
         \/ c.op # <<"verify", 0>> /\ "verify" \notin DOMAIN c.updates
         \/ pc'[e] = "output" /\ publishable(got'[e]),
         pc'[e] \notin {"record", "deliver", "verify", "end"},
         pc'[e] = "output" => mine'[e].status = "completed" \/ Ununderstood(e)'
  PROVE  DocumentLedger(e)'
  <1> DEFINE l == mine[e]
  <1> DEFINE n == mine'[e]
  <1> DEFINE all == Steps("documents", task.requested)
  <1>1. /\ IsPlan(n) /\ n.valid
        /\ n.steps \in [all -> {"pending", "ready", "in_progress", "completed"}]
        /\ n.deps = DependsOn("documents", task.requested)
        /\ StatusFits(n) /\ Closed(n)
        /\ \A s \in DOMAIN l.steps : l.steps[s] = "completed" => n.steps[s] = "completed"
        /\ \A s \in DOMAIN l.steps \ DOMAIN c.updates : n.steps[s] \in {l.steps[s], "ready"}
        /\ \A s \in DOMAIN l.steps \cap DOMAIN c.updates : n.steps[s] = c.updates[s]
        /\ n.ops = l.ops \cup {c.op}
    <2>1. ComesTo(e, c, n)
      BY DocumentPatched
    <2> QED BY <2>1 DEF ComesTo
  <1>2. DOMAIN l.steps = all
    BY DEF DocumentLedger
  <1>3. all = task.requested \cup {"verify"} \cup (IF "minutes" \in task.requested THEN {"understand"} ELSE {})
    BY RequestedOf, StepsOfDocuments
  <1>4. /\ l.steps["verify"] \notin {"in_progress", "completed"}
        /\ <<"verify", 0>> \notin l.ops
    BY DEF DocumentLedger
  <1>5. n.steps["verify"] # "in_progress"
    BY <1>1, <1>2, <1>3, <1>4
  <1>6. <<"verify", 0>> \in n.ops \/ n.steps["verify"] = "completed" =>
           pc'[e] = "output" /\ publishable(got'[e])
    BY <1>1, <1>2, <1>3, <1>4
  <1>7. got'[e].analysed /\ "minutes" \in task.requested => n.steps["understand"] = "completed"
    BY <1>1, <1>2, <1>3 DEF DocumentLedger
  <1>8. (pc'[e] \in {"output", "end"} => n.status = "completed" \/ Ununderstood(e)')
    OBVIOUS
  <1> HIDE DEF n, l
  <1> QED BY <1>1, <1>5, <1>6, <1>7, <1>8 DEF DocumentLedger, n, l

LEMMA DocumentReconciles ==
  ASSUME WellFormed, LedgerInv, GateInv, task.profile = "documents", NEW e \in Executions,
         execution_ledger_reconcile(e)
  PROVE  LedgerInv'
  <1>1. Alone(e) /\ UNCHANGED task /\ Holding(got[e]) /\ pc[e] \in {"start", "project", "record", "verify"}
    BY Reconciles, LedgerStagesOf DEF WellFormed, execution_ledger_reconcile
  <1>2. output' = output \/ output'.by = e
    BY <1>1 DEF execution_ledger_reconcile, GoesOn, Blocks, Writes
  <1>3. LedgerFits(e)'
    <2> SUFFICES ASSUME e \notin disturbed' PROVE LedgerFits(e)'
      BY NothingSaid
    <2> DEFINE l == mine[e]
    <2> DEFINE c == Asked(e, pc[e])
    <2> DEFINE n == reconcileLedger(l, c)
    <2> DEFINE all == Steps("documents", task.requested)
    <2>1. n # Refused /\ GoesOn(e, pc[e], n) /\ e \notin disturbed /\ l.valid
      BY Undisturbed, UndisturbedBefore
    <2>2. DocumentLedger(e)
      BY <1>1, <2>1 DEF LedgerInv, LedgerFits, Alone
    <2>3. IsPlan(l) /\ DOMAIN l.steps = all
      BY <2>2 DEF DocumentLedger
    <2>4. n = l \/ Patched(l, c, n)
      BY <2>1, <2>3, ReconcileEffect
    <2>5. c.op \notin l.ops /\ DOMAIN c.updates \cap DOMAIN l.steps # {} => Patched(l, c, n)
      BY <2>1, <2>3, ReconcileEffect
    <2>6. all = task.requested \cup {"verify"} \cup (IF "minutes" \in task.requested THEN {"understand"} ELSE {})
          /\ "verify" \notin task.requested /\ "understand" \notin task.requested
          /\ task.requested \subseteq DocumentTypes
      BY RequestedOf, StepsOfDocuments
    <2> HIDE DEF n, c
    <2>7. \A s \in DOMAIN c.updates : c.updates[s] \in {"in_progress", "completed"}
      BY <1>1, AskedByDocuments DEF c
    <2>8. \A s \in DOMAIN c.updates : c.updates[s] = "in_progress" => l.steps[s] # "completed"
      BY <1>1, AskedByDocuments DEF c
    <2>15. ASSUME Patched(l, c, n)
           PROVE
              /\ IsPlan(n) /\ n.valid
              /\ n.steps \in [all -> {"pending", "ready", "in_progress", "completed"}]
              /\ StatusFits(n)
              /\ \A s \in DOMAIN l.steps : l.steps[s] = "completed" => n.steps[s] = "completed"
              /\ \A s \in DOMAIN l.steps \cap DOMAIN c.updates : n.steps[s] = c.updates[s]
      <3>1. ComesTo(e, c, n)
        BY <2>2, <2>7, <2>8, <2>15, DocumentPatched
      <3> QED BY <3>1 DEF ComesTo
    <2>9. n.valid /\ n.status # "blocked"
      <3>1. CASE n = l
        BY <2>1, <2>2, <3>1 DEF DocumentLedger, StatusFits
      <3>2. CASE Patched(l, c, n)
        <4>1. StatusFits(n) /\ n.valid /\ n.steps \in [all -> {"pending", "ready", "in_progress", "completed"}]
          BY <2>15, <3>2
        <4> QED BY <4>1 DEF StatusFits
      <3> QED BY <2>4, <3>1, <3>2
    <2>10. mine' = [mine EXCEPT ![e] = n]
      BY <1>1, <2>1, <2>9 DEF GoesOn
    <2>11. mine'[e] = n
      BY <2>10, TakesNow
    <2>12. CASE pc[e] \in {"start", "project"}
      <3>1. pc'[e] \in {"route", "judge"} /\ UNCHANGED got
        BY <2>1, <2>9, <2>12 DEF GoesOn, Goes, WellFormed
      <3>2. Recorded(e) = {} /\ Recorded(e)' = {}
        BY <2>12, <3>1 DEF Recorded, Recording
      <3>3. CASE n = l
        <4>1. DocumentLedger(e)'
          BY <1>1, <2>2, <2>11, <2>12, <3>1, <3>2, <3>3, DocumentKept
        <4> QED BY <1>1, <3>1, <4>1 DEF LedgerFits
      <3>4. CASE Patched(l, c, n)
        <4>1. "verify" \notin DOMAIN c.updates
          BY <2>6, <2>12, AskedByDocuments DEF c
        <4>2. \E k : c.op = <<"start", 0>> \/ c.op = <<"project", k>>
          BY <2>12, AskedByDocuments DEF c
        <4>3. c.op # <<"verify", 0>> /\ \A d \in DocumentTypes : c.op # <<d, 0>>
          BY <4>2 DEF DocumentTypes
        <4>4. \A d \in DocumentTypes : <<d, 0>> \notin n.ops
          BY <2>2, <2>12, <3>2, <3>4, <4>3 DEF DocumentLedger, Patched
        <4>5. DocumentLedger(e)'
          BY <1>1, <2>2, <2>7, <2>8, <2>11, <2>12, <3>1, <3>2, <3>4, <4>1, <4>3, <4>4, DocumentTakes
        <4> QED BY <1>1, <3>1, <4>5 DEF LedgerFits
      <3> QED BY <2>4, <3>3, <3>4
    <2>13. CASE pc[e] = "record"
      <3> DEFINE d == got[e].next
      <3>1. c.op = <<d, 0>> /\ DOMAIN c.updates = {d} /\ c.updates[d] = "completed"
        BY <2>13, AskedByDocuments DEF c
      <3>2. d \in got[e].left \cap task.requested /\ d \in DocumentTypes
        BY <2>2, <2>6, <2>13 DEF DocumentLedger
      <3>3. Recorded(e) = task.requested \ got[e].left
        BY <2>13 DEF Recorded, Recording
      <3>4. c.op \notin l.ops
        BY <2>2, <2>13, <3>1, <3>2, <3>3 DEF DocumentLedger
      <3>5. Patched(l, c, n)
        BY <2>3, <2>5, <2>6, <3>1, <3>2, <3>4
      <3>6. Has(e, [got[e] EXCEPT !.left = @ \ {got[e].next}]) /\ pc'[e] = "next"
        BY <2>1, <2>9, <2>13 DEF GoesOn, Goes, WellFormed
      <3>7. got'[e].left = got[e].left \ {d} /\ got'[e].analysed = got[e].analysed
        <4>1. PICK v : v = got[e].left \ {d}
          OBVIOUS
        <4>2. got'[e] = [got[e] EXCEPT !.left = v]
          BY <3>6, <4>1, HasNow
        <4> QED BY <1>1, <4>1, <4>2, FieldsOf DEF Holding
      <3>8. Recorded(e)' = Recorded(e) \cup {d}
        BY <1>1, <3>2, <3>3, <3>6, <3>7 DEF Recorded, Recording
      <3>9. \A k \in Recorded(e)' : n.steps[k] = "completed"
        <4>1. /\ \A s \in DOMAIN l.steps : l.steps[s] = "completed" => n.steps[s] = "completed"
              /\ \A s \in DOMAIN l.steps \cap DOMAIN c.updates : n.steps[s] = c.updates[s]
          BY <2>15, <3>5
        <4>2. \A k \in Recorded(e) : l.steps[k] = "completed"
          BY <2>2 DEF DocumentLedger
        <4> QED BY <2>3, <2>6, <3>1, <3>2, <3>3, <3>8, <4>1, <4>2
      <3>10. \A k \in DocumentTypes : <<k, 0>> \in n.ops => k \in Recorded(e)'
        BY <2>2, <2>13, <3>1, <3>5, <3>8 DEF DocumentLedger, Patched
      <3>11. "verify" # d
        BY <2>6, <3>2
      <3> HIDE DEF d
      <3>12. c.op # <<"verify", 0>> /\ "verify" \notin DOMAIN c.updates
        BY <3>1, <3>11
      <3>13. DocumentLedger(e)'
        BY <1>1, <2>2, <2>7, <2>8, <2>11, <2>13, <3>5, <3>6, <3>7, <3>9, <3>10, <3>12, DocumentTakes
      <3> QED BY <1>1, <3>6, <3>13 DEF LedgerFits
    <2>14. CASE pc[e] = "verify"
      <3>1. c.op = <<"verify", 0>> /\ DOMAIN c.updates = {"verify"} /\ c.updates["verify"] = "completed"
        BY <2>14, AskedByDocuments DEF c
      <3>2. c.op \notin l.ops
        BY <2>2, <2>14, <3>1 DEF DocumentLedger
      <3>3. Patched(l, c, n)
        BY <2>3, <2>5, <2>6, <3>1, <3>2
      <3>4. UNCHANGED got /\ pc'[e] = "output"
        BY <2>1, <2>9, <2>14 DEF GoesOn, Goes, WellFormed
      <3>5. publishable(got[e])
        BY <2>14 DEF GateInv, GateFits
      <3>6. Recorded(e)' = Recorded(e) /\ Ununderstood(e)' = Ununderstood(e)
        BY <1>1, <2>14, <3>4 DEF Recorded, Recording, Ununderstood
      <3>7. /\ \A s \in DOMAIN l.steps : l.steps[s] = "completed" => n.steps[s] = "completed"
            /\ \A s \in DOMAIN l.steps \cap DOMAIN c.updates : n.steps[s] = c.updates[s]
            /\ StatusFits(n) /\ DOMAIN n.steps = all
        BY <2>15, <3>3
      <3>8. \A k \in Recorded(e) : n.steps[k] = "completed"
        <4>1. Recorded(e) \subseteq task.requested
          BY DEF Recorded
        <4> QED BY <2>2, <2>3, <2>6, <3>7, <4>1 DEF DocumentLedger
      <3>9. ~Ununderstood(e) => n.status = "completed"
        <4> SUFFICES ASSUME ~Ununderstood(e) PROVE n.status = "completed"
          OBVIOUS
        <4>1. Recorded(e) = task.requested
          BY <2>2, <2>14 DEF DocumentLedger, Recorded, Recording
        <4>2. n.steps["verify"] = "completed"
          BY <2>3, <2>6, <3>1, <3>7
        <4>3. "minutes" \in task.requested => n.steps["understand"] = "completed"
          BY <2>2, <2>3, <2>6, <3>7 DEF DocumentLedger, Ununderstood
        <4>4. \A s \in DOMAIN n.steps : n.steps[s] \in Done
          BY <2>6, <3>7, <3>8, <4>1, <4>2, <4>3 DEF Done
        <4> QED BY <3>7, <4>4 DEF StatusFits
      <3>10. \A k \in DocumentTypes : <<k, 0>> \in n.ops => k \in Recorded(e)
        <4>1. \A k \in DocumentTypes : k # "verify"
          BY DEF DocumentTypes
        <4> QED BY <2>2, <2>14, <3>1, <3>3, <4>1 DEF DocumentLedger, Patched
      <3>11. DocumentLedger(e)'
        BY <1>1, <2>2, <2>7, <2>8, <2>11, <2>14, <3>1, <3>3, <3>4, <3>5, <3>6, <3>8, <3>9, <3>10,
           DocumentTakes
      <3> QED BY <1>1, <3>4, <3>11 DEF LedgerFits
    <2> QED BY <1>1, <2>12, <2>13, <2>14
  <1> QED BY <1>1, <1>2, <1>3, LedgerStepOf

-----------------------------------------------------------------------------
LEMMA LedgerStep == WellFormed /\ GateInv /\ LedgerInv /\ [Next]_vars => LedgerInv'
  <1> SUFFICES ASSUME WellFormed, GateInv, LedgerInv, [Next]_vars PROVE LedgerInv'
    OBVIOUS
  <1>1. CASE Select \/ UNCHANGED vars
    <2>1. UNCHANGED <<task, pc, mine, got, output, disturbed>>
      BY <1>1, SelectKeeps, StutterKeeps
    <2>2. \A f \in Executions : /\ SourceLedger(f)' = SourceLedger(f)
                                /\ DocumentLedger(f)' = DocumentLedger(f)
      BY <2>1 DEF SourceLedger, DocumentLedger, Recorded, Ununderstood, publishable
    <2> QED BY <2>1, <2>2 DEF LedgerInv, LedgerFits
  <1>2. ASSUME NEW e \in Executions, Start(e) \/ Work(e) \/ Throw(e) \/ Crash(e) PROVE LedgerInv'
    <2>1. CASE Start(e) \/ Throw(e) \/ Crash(e) \/ readPlannerEnvelope(e) \/ Reply(e)
      BY <2>1, LedgerBegins, LedgerThrows, LedgerDies, LedgerRead, LedgerReplies
    <2>2. CASE Plan(e) \/ execution_ledger_reconcile(e) \/ Prepare(e) \/ Write(e) \/ Check(e)
               \/ Deliver(e) \/ Resolve(e) \/ Analyze(e)
      <3>1. CASE task.profile = "source"
        <4>1. ~Prepare(e) /\ ~Write(e)
          BY <3>1, SourceStage DEF Prepare, ensureAsrTranscription, ensureMeetingIntelligence,
             buildEvidencePack, Write, model_route_plan, document_prompt_render_batch,
             document_workers_run, publishPartial, Needs, At, Sourcing, Fetching, Reviewing,
             Skipping, Ended
        <4> QED BY <2>2, <3>1, <4>1, SourcePlans, SourceReconciles, SourceChecks, SourceDelivers,
                SourceResolves, SourceAnalyses
      <3>2. CASE task.profile = "documents"
        <4>1. ~Resolve(e)
          BY <3>2, DocumentStage DEF Resolve, sourceResolver, sourceTranscript, hearSource,
             buildProvenanceIndex, NeedsFor, At, Documenting, Drafting, Recording, Ended
        <4>2. ~Analyze(e)
          BY <3>2, DocumentStage DEF Analyze, partitionSourceSegments, reuseChapter, analyzeChapter,
             buildKnowledgeSourcePack, writeSourcePack, NeedsFor, At, Documenting, Drafting,
             Recording, Ended
        <4> QED BY <2>2, <3>2, <4>1, <4>2, DocumentPlans, DocumentReconciles, DocumentPrepares,
                DocumentWrites, DocumentChecks, DocumentDelivers
      <3>3. CASE task.profile \notin {"source", "documents"}
        <4>1. pc[e] \in Replying \cup Ended
          BY <3>3 DEF WellFormed
        <4>2. ~Plan(e) /\ ~Prepare(e) /\ ~Write(e) /\ ~Check(e) /\ ~Deliver(e)
          BY <4>1 DEF Plan, planner_envelope_plan, planner_envelope_write, Prepare,
             ensureAsrTranscription, ensureMeetingIntelligence, buildEvidencePack, Write,
             model_route_plan, document_prompt_render_batch, document_workers_run, publishPartial,
             Needs, Check, qa_gate_evaluate, qa_gate_write, policy_gate_check, Deliver, readyIndex,
             deliverables, writeOutput, At, Replying, Ended
        <4>3. ~Resolve(e) /\ ~Analyze(e)
          BY <4>1 DEF Resolve, sourceResolver, sourceTranscript, hearSource, buildProvenanceIndex,
             NeedsFor, Analyze, partitionSourceSegments, reuseChapter, analyzeChapter,
             buildKnowledgeSourcePack, writeSourcePack, At, Replying, Ended
        <4>4. ~execution_ledger_reconcile(e)
          BY <3>3, LedgerStagesOf DEF execution_ledger_reconcile, WellFormed
        <4> QED BY <2>2, <4>2, <4>3, <4>4
      <3> QED BY <3>1, <3>2, <3>3
    <2> QED BY <1>2, <2>1, <2>2 DEF Work, Reconcile
  <1> QED BY <1>1, <1>2 DEF Next

LEMMA InitLedger == Init => LedgerInv
  BY DEF Init, LedgerInv, LedgerFits, NoPlan

(* An execution nobody disturbed leaves a ledger that says what its output *)
(* says (advanceExecutionLedger, completePlannerVerification,              *)
(* finishBlocked).                                                         *)
THEOREM LedgerSaysTheSame == Spec => []LedgerAgrees
  <1>1. ASSUME WellFormed, GateInv, LedgerInv PROVE LedgerAgrees
    <2> SUFFICES ASSUME NEW e \in Executions \ disturbed, pc[e] = "end", output.by = e, mine[e].valid,
                        ledger = mine[e]
                 PROVE  /\ mine[e].status = "completed" => output.status = "completed"
                        /\ output.status = "completed" =>
                              \/ mine[e].status = "completed"
                              \/ "minutes" \in task.requested /\ ~got[e].analysed
      BY DEF LedgerAgrees
    <2>1. LedgerFits(e) /\ task.profile \in {"source", "documents"}
      BY <1>1 DEF LedgerInv
    <2>2. CASE task.profile = "source"
      BY <2>1, <2>2 DEF LedgerFits
    <2>3. CASE task.profile = "documents"
      <3>1. DocumentLedger(e)
        BY <2>1, <2>3 DEF LedgerFits
      <3>2. ASSUME mine[e].status = "completed" PROVE output.status = "completed"
        <4>1. mine[e].steps["verify"] \in Done
          BY <1>1, <2>3, <3>1, <3>2, RequestedOf, StepsOfDocuments DEF DocumentLedger, StatusFits
        <4>2. mine[e].steps["verify"] = "completed"
          BY <1>1, <2>3, <3>1, <4>1, RequestedOf, StepsOfDocuments DEF DocumentLedger, Done
        <4> QED BY <2>1, <2>3, <4>2 DEF LedgerFits
      <3>3. ASSUME output.status = "completed" PROVE mine[e].status = "completed" \/ Ununderstood(e)
        <4>1. publishable(got[e])
          BY <1>1, <2>3, <3>3 DEF GateInv, OutputFits
        <4> QED BY <3>1, <4>1 DEF DocumentLedger
      <3> QED BY <3>2, <3>3 DEF Ununderstood
    <2> QED BY <2>1, <2>2, <2>3
  <1> QED BY <1>1, TaskWellFormed, InitGates, GateStep, InitLedger, LedgerStep, PTL DEF Spec
=============================================================================
