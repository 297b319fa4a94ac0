------------------------ MODULE MessageHandling_proofs ------------------------
(***************************************************************************)
(* Safety of a message's way through the system: its intake, for any       *)
(* number of messages, deliveries and faults, any memory limit and both    *)
(* modes of each kind; and the handler's runs, for any runs, messages,     *)
(* options, earlier runs, attempts, sizes of the cache, failed calls,      *)
(* crashes, clean-ups and times the cache grows old.                       *)
(***************************************************************************)
EXTENDS EventIngress, TaskHandler, FiniteSetTheorems, SequenceTheorems, WellFoundedInduction, TLAPS

-----------------------------------------------------------------------------
(* Intake (EventIngress).                                                  *)

(* What is remembered: the last SeenLimit ids.                             *)

\* Where the kept part begins.
KeptFrom(s) == IF Len(s) > SeenLimit THEN Len(s) - SeenLimit + 1 ELSE 1

\* saveSeen keeps a suffix of the ids, of at most SeenLimit.
LEMMA RecentIsSuffix ==
  ASSUME NEW s \in Seq(Events)
  PROVE  /\ Recent(s) \in Seq(Events)
         /\ KeptFrom(s) \in 1..Len(s) + 1
         /\ Len(Recent(s)) = Len(s) - KeptFrom(s) + 1
         /\ Len(Recent(s)) <= SeenLimit
         /\ Len(s) <= SeenLimit => KeptFrom(s) = 1 /\ Len(Recent(s)) = Len(s)
         /\ Len(s) > SeenLimit => KeptFrom(s) = Len(s) - SeenLimit + 1 /\ Len(Recent(s)) = SeenLimit
         /\ \A i \in 1..Len(Recent(s)) : Recent(s)[i] = s[KeptFrom(s) + i - 1]
  <1>1. SeenLimit \in Nat \ {0} /\ Len(s) \in Nat
    BY IngressAssumption DEF IngressAssumption
  <1>2. KeptFrom(s) \in 1..Len(s) + 1
    BY <1>1 DEF KeptFrom
  <1>3. Recent(s) = SubSeq(s, KeptFrom(s), Len(s))
    BY DEF Recent, KeptFrom
  <1>4. \A i \in KeptFrom(s)..Len(s) : s[i] \in Events
    BY <1>1, <1>2, ElementOfSeq
  <1>5. /\ Recent(s) \in Seq(Events)
        /\ Len(Recent(s)) = IF KeptFrom(s) <= Len(s) THEN Len(s) - KeptFrom(s) + 1 ELSE 0
        /\ \A i \in 1..(Len(s) - KeptFrom(s) + 1) : Recent(s)[i] = s[KeptFrom(s) + i - 1]
    BY <1>1, <1>2, <1>3, <1>4, SubSeqProperties
  <1>6. Len(Recent(s)) = Len(s) - KeptFrom(s) + 1
    BY <1>1, <1>2, <1>5
  <1>7. /\ Len(s) <= SeenLimit => KeptFrom(s) = 1
        /\ Len(s) > SeenLimit => KeptFrom(s) = Len(s) - SeenLimit + 1
    BY <1>1 DEF KeptFrom
  <1>8. Len(Recent(s)) <= SeenLimit
    BY <1>1, <1>2, <1>6, <1>7
  <1>9. Len(s) <= SeenLimit => Len(Recent(s)) = Len(s)
    BY <1>1, <1>2, <1>6, <1>7
  <1>10. Len(s) > SeenLimit => Len(Recent(s)) = SeenLimit
    BY <1>1, <1>2, <1>6, <1>7
  <1> QED BY <1>2, <1>5, <1>6, <1>7, <1>8, <1>9, <1>10

\* Nothing is made up.
LEMMA RecentIds == ASSUME NEW s \in Seq(Events) PROVE Ids(Recent(s)) \subseteq Ids(s)
  <1> SUFFICES ASSUME NEW i \in 1..Len(Recent(s))
               PROVE  \E j \in 1..Len(s) : Recent(s)[i] = s[j]
    BY DEF Ids
  <1>1. Len(s) \in Nat
    OBVIOUS
  <1>2. KeptFrom(s) \in 1..Len(s) + 1 /\ Len(Recent(s)) = Len(s) - KeptFrom(s) + 1
    BY RecentIsSuffix
  <1>3. KeptFrom(s) + i - 1 \in 1..Len(s)
    BY <1>1, <1>2
  <1> QED BY <1>3, RecentIsSuffix

\* Keeping twice keeps the same.
LEMMA RecentTwice == ASSUME NEW s \in Seq(Events) PROVE Recent(Recent(s)) = Recent(s)
  <1> DEFINE r == Recent(s)
  <1>1. r \in Seq(Events) /\ Len(r) <= SeenLimit /\ Len(r) \in Nat
    BY RecentIsSuffix
  <1>2. KeptFrom(r) = 1
    BY <1>1, IngressAssumption DEF KeptFrom, IngressAssumption
  <1>3. Recent(r) \in Seq(Events) /\ Len(Recent(r)) = Len(r)
    BY <1>1, RecentIsSuffix
  <1>4. ASSUME NEW i \in 1..Len(r) PROVE Recent(r)[i] = r[i]
    <2>1. i \in 1..Len(Recent(r)) /\ KeptFrom(r) + i - 1 = i
      BY <1>1, <1>2, <1>3
    <2> QED BY <1>1, <2>1, RecentIsSuffix
  <1> HIDE DEF r
  <1>5. Recent(r) = r
    BY <1>1, <1>3, <1>4, SeqEqual
  <1> QED BY <1>5 DEF r

\* Two lists of l and m ids, of which the parts from f and from g are kept, equally
\* many; after an addition the parts from f1 and g1 are.
LEMMA KeptParts ==
  ASSUME NEW l \in Nat, NEW m \in Nat, NEW n \in Nat \ {0},
         NEW f \in Nat, NEW g \in Nat, NEW f1 \in Nat, NEW g1 \in Nat,
         l <= n => f = 1, l > n => f = l - n + 1,
         m <= n => g = 1, m > n => g = m - n + 1,
         l + 1 <= n => f1 = 1, l + 1 > n => f1 = l + 1 - n + 1,
         m + 1 <= n => g1 = 1, m + 1 > n => g1 = m + 1 - n + 1,
         l - f + 1 = m - g + 1
  PROVE  /\ l + 1 - f1 + 1 = m + 1 - g1 + 1
         /\ l + 1 - f1 + 1 \in Nat
         /\ f1 - f = g1 - g /\ f1 >= f /\ f >= 1 /\ g >= 1
  OBVIOUS

LEMMA KeptPositions ==
  ASSUME NEW l \in Nat, NEW m \in Nat, NEW f \in Nat, NEW g \in Nat, NEW f1 \in Nat, NEW g1 \in Nat,
         l - f = m - g, f1 - f = g1 - g, f1 >= f, f >= 1, g >= 1,
         NEW i \in 1..(l + 1 - f1 + 1), i # l + 1 - f1 + 1
  PROVE  /\ f1 + i - 1 \in 1..l /\ g1 + i - 1 \in 1..m
         /\ f1 + i - f \in 1..(l - f + 1)
         /\ f + (f1 + i - f) - 1 = f1 + i - 1
         /\ g + (f1 + i - f) - 1 = g1 + i - 1
  OBVIOUS

\* RecentIsSuffix with names for the length and the first kept position.
LEMMA RecentFrom ==
  ASSUME NEW s \in Seq(Events)
  PROVE  \E l \in Nat, f \in Nat :
           /\ l = Len(s)
           /\ l <= SeenLimit => f = 1
           /\ l > SeenLimit => f = l - SeenLimit + 1
           /\ Recent(s) \in Seq(Events)
           /\ Len(Recent(s)) = l - f + 1
           /\ \A i \in 1..(l - f + 1) : Recent(s)[i] = s[f + i - 1]
  <1>1. Len(s) \in Nat /\ KeptFrom(s) \in Nat
    <2>1. Len(s) \in Nat
      OBVIOUS
    <2>2. KeptFrom(s) \in 1..Len(s) + 1
      BY RecentIsSuffix
    <2> QED BY <2>1, <2>2
  <1>2. /\ Len(s) <= SeenLimit => KeptFrom(s) = 1
        /\ Len(s) > SeenLimit => KeptFrom(s) = Len(s) - SeenLimit + 1
        /\ Recent(s) \in Seq(Events)
        /\ Len(Recent(s)) = Len(s) - KeptFrom(s) + 1
        /\ \A i \in 1..Len(Recent(s)) : Recent(s)[i] = s[KeptFrom(s) + i - 1]
    BY RecentIsSuffix
  <1>3. \A i \in 1..(Len(s) - KeptFrom(s) + 1) : Recent(s)[i] = s[KeptFrom(s) + i - 1]
    BY <1>2
  <1> QED BY <1>1, <1>2, <1>3

\* What is kept after an addition depends on what was kept before it.
LEMMA RecentAppend ==
  ASSUME NEW s \in Seq(Events), NEW u \in Seq(Events), NEW e \in Events,
         Recent(s) = Recent(u)
  PROVE  Recent(Append(s, e)) = Recent(Append(u, e))
  <1>2. SeenLimit \in Nat \ {0}
    BY IngressAssumption DEF IngressAssumption
  <1> DEFINE s1 == Append(s, e)
             u1 == Append(u, e)
  <1>3. s1 \in Seq(Events) /\ u1 \in Seq(Events)
    OBVIOUS
  <1>4. /\ Len(s1) = Len(s) + 1 /\ Len(u1) = Len(u) + 1
        /\ s1[Len(s) + 1] = e /\ u1[Len(u) + 1] = e
        /\ \A i \in 1..Len(s) : s1[i] = s[i]
        /\ \A i \in 1..Len(u) : u1[i] = u[i]
    BY AppendProperties
  <1> HIDE DEF s1, u1
  <1>5. PICK l \in Nat, f \in Nat :
          /\ l = Len(s)
          /\ l <= SeenLimit => f = 1
          /\ l > SeenLimit => f = l - SeenLimit + 1
          /\ Recent(s) \in Seq(Events)
          /\ Len(Recent(s)) = l - f + 1
          /\ \A i \in 1..(l - f + 1) : Recent(s)[i] = s[f + i - 1]
    BY RecentFrom, Zenon
  <1>6. PICK m \in Nat, g \in Nat :
          /\ m = Len(u)
          /\ m <= SeenLimit => g = 1
          /\ m > SeenLimit => g = m - SeenLimit + 1
          /\ Recent(u) \in Seq(Events)
          /\ Len(Recent(u)) = m - g + 1
          /\ \A i \in 1..(m - g + 1) : Recent(u)[i] = u[g + i - 1]
    BY RecentFrom, Zenon
  <1>7. PICK l1 \in Nat, f1 \in Nat :
          /\ l1 = Len(s1)
          /\ l1 <= SeenLimit => f1 = 1
          /\ l1 > SeenLimit => f1 = l1 - SeenLimit + 1
          /\ Recent(s1) \in Seq(Events)
          /\ Len(Recent(s1)) = l1 - f1 + 1
          /\ \A i \in 1..(l1 - f1 + 1) : Recent(s1)[i] = s1[f1 + i - 1]
    BY <1>3, RecentFrom
  <1>8. PICK m1 \in Nat, g1 \in Nat :
          /\ m1 = Len(u1)
          /\ m1 <= SeenLimit => g1 = 1
          /\ m1 > SeenLimit => g1 = m1 - SeenLimit + 1
          /\ Recent(u1) \in Seq(Events)
          /\ Len(Recent(u1)) = m1 - g1 + 1
          /\ \A i \in 1..(m1 - g1 + 1) : Recent(u1)[i] = u1[g1 + i - 1]
    BY <1>3, RecentFrom
  <1>9. l - f + 1 = m - g + 1
    BY <1>5, <1>6
  <1>10. l1 = l + 1 /\ m1 = m + 1
    BY <1>4, <1>5, <1>6, <1>7, <1>8
  <1>11. /\ l + 1 - f1 + 1 = m + 1 - g1 + 1
         /\ l + 1 - f1 + 1 \in Nat
         /\ f1 - f = g1 - g /\ f1 >= f /\ f >= 1 /\ g >= 1
    <2>1. /\ l <= SeenLimit => f = 1
          /\ l > SeenLimit => f = l - SeenLimit + 1
          /\ m <= SeenLimit => g = 1
          /\ m > SeenLimit => g = m - SeenLimit + 1
      BY <1>5, <1>6
    <2>2. /\ l + 1 <= SeenLimit => f1 = 1
          /\ l + 1 > SeenLimit => f1 = l + 1 - SeenLimit + 1
          /\ m + 1 <= SeenLimit => g1 = 1
          /\ m + 1 > SeenLimit => g1 = m + 1 - SeenLimit + 1
      BY <1>2, <1>7, <1>8, <1>10
    <2> QED BY <1>2, <1>9, <2>1, <2>2, KeptParts
  <1>12. /\ Recent(s1) \in Seq(Events) /\ Len(Recent(s1)) = l + 1 - f1 + 1
         /\ \A i \in 1..(l + 1 - f1 + 1) : Recent(s1)[i] = s1[f1 + i - 1]
    BY <1>7, <1>10
  <1>13. /\ Recent(u1) \in Seq(Events) /\ Len(Recent(u1)) = l + 1 - f1 + 1
         /\ \A i \in 1..(l + 1 - f1 + 1) : Recent(u1)[i] = u1[g1 + i - 1]
    BY <1>8, <1>10, <1>11
  <1>14. ASSUME NEW i \in 1..(l + 1 - f1 + 1)
         PROVE  Recent(s1)[i] = Recent(u1)[i]
    <2>1. Recent(s1)[i] = s1[f1 + i - 1] /\ Recent(u1)[i] = u1[g1 + i - 1]
      BY <1>12, <1>13
    <2>2. CASE i = l + 1 - f1 + 1
      <3>1. f1 + i - 1 = l + 1 /\ g1 + i - 1 = m + 1
        BY <1>11, <2>2
      <3>2. s1[l + 1] = e /\ u1[m + 1] = e
        BY <1>4, <1>5, <1>6
      <3> QED BY <2>1, <3>1, <3>2
    <2>3. CASE i # l + 1 - f1 + 1
      <3>1. l - f = m - g
        BY <1>9
      <3>2. PICK k \in 1..(l - f + 1) :
              /\ f1 + i - 1 \in 1..l /\ g1 + i - 1 \in 1..m
              /\ f + k - 1 = f1 + i - 1 /\ g + k - 1 = g1 + i - 1
        BY <1>11, <2>3, <3>1, KeptPositions
      <3>3. Recent(s)[k] = s[f + k - 1] /\ Recent(u)[k] = u[g + k - 1]
        BY <1>5, <1>6, <1>9
      <3>4. s1[f1 + i - 1] = s[f1 + i - 1] /\ u1[g1 + i - 1] = u[g1 + i - 1]
        BY <1>4, <1>5, <1>6, <3>2
      <3> QED BY <2>1, <3>2, <3>3, <3>4
    <2> QED BY <2>2, <2>3
  <1>15. Recent(s1) = Recent(u1)
    BY <1>12, <1>13, <1>14, SeqEqual
  <1> QED BY <1>15 DEF s1, u1

-----------------------------------------------------------------------------
(* Types, and what the stage of a delivery says about its run.             *)

LEMMA TypeInit == InitIngress => TypeOK
  <1> SUFFICES ASSUME InitIngress PROVE TypeOK
    OBVIOUS
  <1>1. <<>> \in Seq(Events)
    OBVIOUS
  <1>2. mishaps \in 0..MaxFaults
    BY IngressAssumption DEF InitIngress, IngressAssumption
  <1>3. said \in [Tasks -> SUBSET {"handler", "gateway"}]
    BY Zenon DEF InitIngress
  <1> QED BY <1>1, <1>2, <1>3 DEF InitIngress, TypeOK, Stages, Outcomes, Progress

\* Where an id comes from.
LEMMA TaskMessage == \A t \in Tasks : t[1] \in Events
  BY IngressAssumption DEF IngressAssumption

\* What is said stays the handler's and the gateway's.
LEMMA SaidType ==
  ASSUME said \in [Tasks -> SUBSET {"handler", "gateway"}], NEW t \in Tasks,
         NEW who \in {"handler", "gateway"},
         said' = said \/ said' = [said EXCEPT ![t] = @ \cup {who}]
  PROVE  said' \in [Tasks -> SUBSET {"handler", "gateway"}]
  <1>1. said[t] \cup {who} \in SUBSET {"handler", "gateway"}
    OBVIOUS
  <1> QED BY <1>1

LEMMA TypeStep == TypeOK /\ [NextIngress]_ingressVars => TypeOK'
  <1> SUFFICES ASSUME TypeOK, [NextIngress]_ingressVars PROVE TypeOK'
    OBVIOUS
  <1> USE DEF TypeOK, Stages, Outcomes, Progress, modeVars, memory
  <1>0. MaxFaults \in Nat
    BY IngressAssumption DEF IngressAssumption
  <1>1. ASSUME NEW t \in Tasks, Deliver(t) \/ IngressStep(t) PROVE TypeOK'
    <2>1. t[1] \in Events
      BY TaskMessage
    <2>2. Append(seen, t[1]) \in Seq(Events) /\ Append(marks, t[1]) \in Seq(Events)
          /\ <<>> \in Seq(Events)
      BY <2>1
    <2>3. Recent(seen) \in Seq(Events) /\ Recent(Append(seen, t[1])) \in Seq(Events)
      BY <2>2, RecentIsSuffix
    <2>4. CASE Line(t)
      BY <2>4 DEF Line, Due, Goes
    <2>5. CASE Receive(t)
      BY <2>2, <2>5 DEF Receive, Due, Post, Goes
    <2>6. CASE DropDuplicate(t)
      BY <2>6 DEF DropDuplicate, Due, Goes
    <2>7. CASE SkipDuplicate(t)
      BY <2>7 DEF SkipDuplicate, Goes
    <2>8. CASE Forward(t)
      BY <2>8 DEF Forward, Post, Goes
    <2>9. CASE Mark(t)
      <3>1. seen' \in Seq(Events) /\ file' \in Seq(Events) /\ marks' \in Seq(Events)
        BY <2>2, <2>3, <2>9 DEF Mark
      <3> QED BY <2>9, <3>1 DEF Mark, Goes
    <2>10. CASE LeaveUnmarked(t)
      BY <2>10 DEF LeaveUnmarked, Goes
    <2>11. CASE AnswerUser(t)
      <3>1. said' = said \/ said' = [said EXCEPT ![t] = @ \cup {"gateway"}]
        BY <2>11 DEF AnswerUser
      <3>2. said' \in [Tasks -> SUBSET {"handler", "gateway"}]
        BY <3>1, SaidType
      <3> QED BY <2>11, <3>2 DEF AnswerUser, Goes
    <2>12. CASE TimesOut(t)
      BY <2>12 DEF TimesOut, Ends
    <2> QED BY <1>1, <2>4, <2>5, <2>6, <2>7, <2>8, <2>9, <2>10, <2>11, <2>12
            DEF Deliver, IngressStep
  <1>2. ASSUME NEW t \in Tasks, HandlerStep(t) \/ LogFails(t) \/ RequestLost(t) \/ Throws(t) \/ FinishUnheard(t)
        PROVE  TypeOK'
    <2>1. CASE Accept(t)
      BY <2>1 DEF Accept, Respond
    <2>2. CASE Finish(t)
      <3>1. said' = said \/ said' = [said EXCEPT ![t] = @ \cup {"handler"}]
        BY <2>2 DEF Finish
      <3>2. said' \in [Tasks -> SUBSET {"handler", "gateway"}]
        BY <3>1, SaidType
      <3> QED BY <2>2, <3>2 DEF Finish, Respond
    <2>3. CASE LogFails(t)
      BY <1>0, <2>3 DEF LogFails, Mishap, Goes
    <2>4. CASE RequestLost(t)
      BY <1>0, <2>4 DEF RequestLost, Mishap
    <2>5. CASE Throws(t)
      BY <1>0, <2>5 DEF Throws, Mishap, Respond
    <2>6. CASE FinishUnheard(t)
      BY <1>0, <2>6 DEF FinishUnheard, Mishap, Respond
    <2> QED BY <1>2, <2>1, <2>2, <2>3, <2>4, <2>5, <2>6 DEF HandlerStep
  <1>3. CASE HandlerCrash
    <2>1. mishaps' \in 0..MaxFaults
      BY <1>0, <1>3 DEF HandlerCrash, Mishap
    <2>2. said' \in [Tasks -> SUBSET {"handler", "gateway"}]
      <3>1. PICK told \in SUBSET {t \in Tasks : run[t] = "working"} :
              said' = [t \in Tasks |-> said[t] \cup IF t \in told THEN {"handler"} ELSE {}]
        BY <1>3 DEF HandlerCrash
      <3>2. \A t \in Tasks : (said[t] \cup IF t \in told THEN {"handler"} ELSE {})
                                \in SUBSET {"handler", "gateway"}
        OBVIOUS
      <3> QED BY <3>1, <3>2, Zenon
    <2>3. outcome' \in [Tasks -> Outcomes] /\ run' \in [Tasks -> Progress]
      BY <1>3 DEF HandlerCrash
    <2>4. \A t \in Tasks : delivery'[t] = "none" => run'[t] = "none" /\ outcome'[t] = "none"
      BY <1>3 DEF HandlerCrash
    <2> QED BY <1>3, <2>1, <2>2, <2>3, <2>4 DEF HandlerCrash
  <1>4. CASE Restart
    BY <1>0, <1>4 DEF Restart, Mishap, Interrupted
  <1>5. CASE RestartTorn
    <2>1. <<>> \in Seq(Events)
      OBVIOUS
    <2> QED BY <1>0, <1>5, <2>1 DEF RestartTorn, Mishap, Interrupted
  <1>6. CASE UNCHANGED ingressVars
    BY <1>6 DEF ingressVars
  <1> QED BY <1>1, <1>2, <1>3, <1>4, <1>5, <1>6 DEF NextIngress

\* Types of deliveries, runs and memories, for any constants: queues of ids stay
\* ids, and a delivery nobody picked up has neither run nor outcome.
THEOREM IngressTypeOK == IngressSpec => []TypeOK
  BY TypeInit, TypeStep, PTL DEF IngressSpec

-----------------------------------------------------------------------------
(* The inductive invariants.                                               *)

\* A delivery that was not posted has no run and no outcome.
StageInv == \A t \in Tasks : delivery[t] \in {"none", "logging"} => run[t] = "none" /\ outcome[t] = "none"

\* A success is the answer to a run that started.
SuccessInv == \A t \in Tasks : outcome[t] \in {"handled", "silent"} => run[t] \in Started

\* Who has spoken: the handler only at the end of a run, the gateway only after an
\* outcome other than "handled".  A run whose answer does not silence the gateway
\* said nothing, or nothing that it knows of; in async mode that comes too late to be
\* anybody's answer, since a request that is waited for was answered when it was taken up.
VoiceInv ==
  \A t \in Tasks :
    /\ "handler" \in said[t] => run[t] \in {"ended", "unheard", "failed"}
    /\ "gateway" \in said[t] => outcome[t] \in {"silent", "failed", "broken", "timeout"}
    /\ outcome[t] = "silent" => \/ run[t] = "ended" /\ "handler" \notin said[t]
                                \/ run[t] = "unheard" /\ ackMode # "async"
    /\ ackMode # "async" /\ outcome[t] = "handled" => "handler" \in said[t]
    /\ ackMode = "async" /\ run[t] = "working" => (outcome[t] # "none" \/ delivery[t] # "posting")

\* Memory, disk and history agree on the last ids.
RecentInv == inbound = "cli" /\ ~torn => Recent(seen) = Recent(marks) /\ file = Recent(seen)

LEMMA RunInvInit == InitIngress => StageInv /\ SuccessInv /\ VoiceInv
  BY DEF InitIngress, StageInv, SuccessInv, VoiceInv

LEMMA RunInvStep ==
  ASSUME TypeOK, StageInv, SuccessInv, VoiceInv, [NextIngress]_ingressVars
  PROVE  (StageInv /\ SuccessInv /\ VoiceInv)'
  <1> USE DEF TypeOK, StageInv, SuccessInv, VoiceInv, Started, CameToEnd, modeVars, memory
  <1>1. ASSUME NEW t \in Tasks, Deliver(t) \/ IngressStep(t)
        PROVE  (StageInv /\ SuccessInv /\ VoiceInv)'
    <2>1. CASE Line(t)
      BY <2>1 DEF Line, Due, Goes
    <2>2. CASE Receive(t)
      BY <2>2 DEF Receive, Due, Post, Goes
    <2>3. CASE DropDuplicate(t)
      BY <2>3 DEF DropDuplicate, Due, Goes
    <2>4. CASE SkipDuplicate(t)
      BY <2>4 DEF SkipDuplicate, Goes
    <2>5. CASE Forward(t)
      BY <2>5 DEF Forward, Post, Goes
    <2>6. CASE Mark(t)
      BY <2>6 DEF Mark, Goes
    <2>7. CASE LeaveUnmarked(t)
      BY <2>7 DEF LeaveUnmarked, Goes
    <2>8. CASE AnswerUser(t)
      <3>1. outcome[t] \in Outcomes /\ outcome[t] # "none"
        BY <2>8 DEF AnswerUser
      <3>2. said' = [said EXCEPT ![t] = @ \cup {"gateway"}] =>
              outcome[t] \in {"silent", "failed", "broken", "timeout"}
        BY <3>1, <2>8 DEF AnswerUser, Outcomes
      <3> QED BY <2>8, <3>2 DEF AnswerUser, Goes
    <2>9. CASE TimesOut(t)
      BY <2>9 DEF TimesOut, Ends
    <2> QED BY <1>1, <2>1, <2>2, <2>3, <2>4, <2>5, <2>6, <2>7, <2>8, <2>9
            DEF Deliver, IngressStep
  <1>2. ASSUME NEW t \in Tasks, HandlerStep(t) \/ LogFails(t) \/ RequestLost(t) \/ Throws(t) \/ FinishUnheard(t)
        PROVE  (StageInv /\ SuccessInv /\ VoiceInv)'
    <2>1. CASE Accept(t)
      BY <2>1 DEF Accept, Respond
    <2>2. CASE Finish(t)
      BY <2>2 DEF Finish, Respond
    <2>3. CASE LogFails(t)
      BY <2>3 DEF LogFails, Goes
    <2>4. CASE RequestLost(t)
      BY <2>4 DEF RequestLost
    <2>5. CASE Throws(t)
      BY <2>5 DEF Throws, Respond
    <2>6. CASE FinishUnheard(t)
      BY <2>6 DEF FinishUnheard, Respond
    <2> QED BY <1>2, <2>1, <2>2, <2>3, <2>4, <2>5, <2>6 DEF HandlerStep
  <1>3. CASE HandlerCrash
    BY <1>3 DEF HandlerCrash
  <1>4. CASE Restart \/ RestartTorn
    BY <1>4 DEF Restart, RestartTorn, Interrupted
  <1>5. CASE UNCHANGED ingressVars
    BY <1>5 DEF ingressVars
  <1> QED BY <1>1, <1>2, <1>3, <1>4, <1>5 DEF NextIngress

\* What starts stays started.
LEMMA StartedStays ==
  ASSUME TypeOK, StageInv, [NextIngress]_ingressVars, NEW t \in Tasks, run[t] \in Started
  PROVE  run'[t] \in Started
  <1> USE DEF TypeOK, Started, CameToEnd
  <1>1. ASSUME NEW u \in Tasks, Deliver(u) \/ IngressStep(u)
        PROVE  run'[t] \in Started
    <2>1. run' = run \/ (delivery[u] \in {"none", "logging"} /\ Post(u))
      BY <1>1 DEF Deliver, IngressStep, Line, Receive, Due, DropDuplicate, SkipDuplicate,
                  Forward, Mark, LeaveUnmarked, AnswerUser, TimesOut
    <2>2. CASE Post(u) /\ run[u] = "none"
      BY <2>2 DEF Post
    <2> QED BY <2>1, <2>2 DEF StageInv
  <1>2. ASSUME NEW u \in Tasks,
               \/ HandlerStep(u) \/ LogFails(u) \/ RequestLost(u) \/ Throws(u) \/ FinishUnheard(u)
        PROVE  run'[t] \in Started
    BY <1>2 DEF HandlerStep, Accept, Finish, FinishUnheard, LogFails, RequestLost, Throws
  <1>3. CASE HandlerCrash
    BY <1>3 DEF HandlerCrash
  <1>4. CASE Restart \/ RestartTorn \/ UNCHANGED ingressVars
    BY <1>4 DEF Restart, RestartTorn, ingressVars
  <1> QED BY <1>1, <1>2, <1>3, <1>4 DEF NextIngress

\* What is remembered was accepted.
LEMMA MarkedStep ==
  ASSUME TypeOK, StageInv, SuccessInv, MarkedWasAccepted, [NextIngress]_ingressVars
  PROVE  MarkedWasAccepted'
  <1>1. inbound' = inbound
    BY DEF NextIngress, Deliver, IngressStep, HandlerStep, Line, Receive, DropDuplicate, SkipDuplicate,
           Forward, Mark, LeaveUnmarked, AnswerUser, TimesOut, Accept, Finish, FinishUnheard, LogFails, RequestLost, Throws,
           HandlerCrash, Restart, RestartTorn, ingressVars, modeVars
  <1> SUFFICES ASSUME inbound = "cli", NEW e \in Ids(seen') \cup Ids(file')
               PROVE  \E t \in Tasks : t[1] = e /\ run'[t] \in Started
    <2>1. MarkedWasAccepted' <=> (inbound' = "cli" => \A e \in Ids(seen') \cup Ids(file') :
             \E t \in Tasks : t[1] = e /\ run'[t] \in Started)
      BY DEF MarkedWasAccepted, Ids
    <2> QED BY <1>1, <2>1
  <1>2. seen \in Seq(Events) /\ file \in Seq(Events)
    BY DEF TypeOK
  <1>3. Ids(<<>>) = {}
    BY DEF Ids
  <1>4. ASSUME NEW t \in Tasks, Mark(t), e \notin Ids(seen) \cup Ids(file)
        PROVE  e = t[1]
    <2>1. t[1] \in Events
      BY TaskMessage
    <2>2. Append(seen, t[1]) \in Seq(Events)
      BY <1>2, <2>1
    <2>3. /\ Ids(Recent(seen)) \subseteq Ids(seen)
          /\ Ids(Recent(Append(seen, t[1]))) \subseteq Ids(Append(seen, t[1]))
      BY <1>2, <2>2, RecentIds
    <2>4. Ids(Append(seen, t[1])) \subseteq Ids(seen) \cup {t[1]}
      BY <1>2, <2>1 DEF Ids
    <2>5. CASE t[1] \in Ids(seen)
      BY <1>4, <2>3, <2>5 DEF Mark
    <2>6. CASE t[1] \notin Ids(seen)
      BY <1>4, <2>3, <2>4, <2>6 DEF Mark
    <2> QED BY <2>5, <2>6
  <1>5. e \in Ids(seen) \cup Ids(file) \/ \E t \in Tasks : Mark(t) /\ e = t[1]
    <2>1. (\E t \in Tasks : Mark(t)) \/ (seen' \in {seen, file, <<>>} /\ file' \in {file, <<>>})
      BY DEF NextIngress, Deliver, IngressStep, HandlerStep, Line, Receive, DropDuplicate, SkipDuplicate,
           Forward, LeaveUnmarked, AnswerUser, TimesOut, Accept, Finish, FinishUnheard, LogFails, RequestLost, Throws,
           HandlerCrash, Restart, RestartTorn, ingressVars, memory
    <2> QED BY <1>3, <1>4, <2>1
  <1>6. CASE e \in Ids(seen) \cup Ids(file)
    BY <1>6, StartedStays DEF MarkedWasAccepted
  <1>7. ASSUME NEW t \in Tasks, Mark(t), e = t[1]
        PROVE  run'[t] \in Started
    BY <1>7 DEF Mark, SuccessInv
  <1> QED BY <1>5, <1>6, <1>7

\* Memory, disk and history stay in step.
LEMMA RecentStep == ASSUME TypeOK, RecentInv, [NextIngress]_ingressVars PROVE RecentInv'
  <1>1. ASSUME UNCHANGED <<inbound, memory>> PROVE RecentInv'
    <2>1. seen' = seen /\ file' = file /\ marks' = marks /\ torn' = torn /\ inbound' = inbound
      BY <1>1 DEF memory
    <2>2. Recent(seen)' = Recent(seen) /\ Recent(marks)' = Recent(marks)
      BY <2>1 DEF Recent
    <2> QED BY <2>1, <2>2 DEF RecentInv
  <1>2. ASSUME NEW t \in Tasks, Mark(t) PROVE RecentInv'
    <2>1. inbound' = inbound /\ torn' = torn
      BY <1>2 DEF Mark, modeVars
    <2>2. CASE t[1] \in Ids(seen)
      <3>1. seen' = seen /\ marks' = marks /\ file' = Recent(seen)
        BY <1>2, <2>2 DEF Mark
      <3>2. Recent(seen') = Recent(seen) /\ Recent(marks') = Recent(marks)
        BY <3>1
      <3>3. Recent(seen)' = Recent(seen') /\ Recent(marks)' = Recent(marks')
        BY DEF Recent
      <3> QED BY <2>1, <3>1, <3>2, <3>3 DEF RecentInv
    <2>3. CASE t[1] \notin Ids(seen)
      <3>1. /\ seen' = Append(seen, t[1]) /\ marks' = Append(marks, t[1])
            /\ file' = Recent(seen')
        BY <1>2, <2>3 DEF Mark
      <3>2. t[1] \in Events /\ seen \in Seq(Events) /\ marks \in Seq(Events)
        BY TaskMessage DEF TypeOK
      <3>3. Recent(seen) = Recent(marks) => Recent(Append(seen, t[1])) = Recent(Append(marks, t[1]))
        BY <3>2, RecentAppend
      <3>4. Recent(seen) = Recent(marks) => Recent(seen') = Recent(marks')
        BY <3>1, <3>3
      <3>5. Recent(seen)' = Recent(seen') /\ Recent(marks)' = Recent(marks')
        BY DEF Recent
      <3> QED BY <2>1, <3>1, <3>4, <3>5 DEF RecentInv
    <2> QED BY <2>2, <2>3
  <1>3. CASE Restart
    <2>1. seen' = file /\ file' = file /\ marks' = marks /\ inbound' = inbound /\ torn' = torn
      BY <1>3 DEF Restart, modeVars
    <2>2. Recent(Recent(seen)) = Recent(seen)
      BY RecentTwice DEF TypeOK
    <2>3. Recent(seen)' = Recent(file) /\ Recent(marks)' = Recent(marks)
      BY <2>1 DEF Recent
    <2> QED BY <2>1, <2>2, <2>3 DEF RecentInv
  <1>4. CASE RestartTorn
    BY <1>4 DEF RestartTorn, RecentInv
  <1>5. ASSUME NEW t \in Tasks, Receive(t) PROVE RecentInv'
    BY <1>5 DEF Receive, RecentInv, modeVars
  <1>6. \/ UNCHANGED <<inbound, memory>> \/ Restart \/ RestartTorn
        \/ \E t \in Tasks : Mark(t) \/ Receive(t)
    BY DEF NextIngress, Deliver, IngressStep, HandlerStep, Line, DropDuplicate, SkipDuplicate,
           Forward, LeaveUnmarked, AnswerUser, TimesOut, Accept, Finish, FinishUnheard, LogFails, RequestLost, Throws,
           HandlerCrash, ingressVars, modeVars
  <1> QED BY <1>1, <1>2, <1>3, <1>4, <1>5, <1>6

-----------------------------------------------------------------------------
IInv == TypeOK /\ StageInv /\ SuccessInv /\ VoiceInv /\ MarkedWasAccepted /\ RecentInv

LEMMA Inductive == IngressSpec => []IInv
  <1>1. InitIngress => IInv
    <2>1. InitIngress => MarkedWasAccepted /\ RecentInv
      <3>1. InitIngress => Ids(seen) \cup Ids(file) = {}
        BY DEF InitIngress, Ids
      <3>2. InitIngress => Len(seen) = 0 /\ seen = marks /\ file = seen
        BY DEF InitIngress
      <3>3. ASSUME InitIngress PROVE Recent(seen) = seen
        <4>1. seen \in Seq(Events) /\ Len(seen) = 0
          BY <3>2, <3>3, TypeInit DEF TypeOK
        <4>2. 0 <= SeenLimit
          BY IngressAssumption DEF IngressAssumption
        <4>3. Recent(seen) \in Seq(Events) /\ Len(Recent(seen)) = 0
          BY <4>1, <4>2, RecentIsSuffix
        <4> QED BY <4>1, <4>3, SeqEqual
      <3> QED BY <3>1, <3>2, <3>3 DEF MarkedWasAccepted, RecentInv
    <2> QED BY <2>1, TypeInit, RunInvInit DEF IInv
  <1>2. IInv /\ [NextIngress]_ingressVars => IInv'
    BY TypeStep, RunInvStep, MarkedStep, RecentStep DEF IInv
  <1> QED BY <1>1, <1>2, PTL DEF IngressSpec

\* The runner never forgets a message (by taking it for seen) that no run started
\* on, whatever crashes, tears the file or times out.
THEOREM MarkedIsAccepted == IngressSpec => []MarkedWasAccepted
  <1>1. IInv => MarkedWasAccepted
    BY DEF IInv
  <1> QED BY <1>1, Inductive, PTL

\* The user hears twice about one delivery only if the gateway did not get the
\* handler's answer or the handler did not know that its own reply had arrived; and
\* a gateway that was silenced by a waiting handler was so for a reply that was sent.
THEOREM OneVoiceOnly == IngressSpec => []OneVoice
  <1>1. IInv => OneVoice
    BY DEF IInv, VoiceInv, OneVoice
  <1> QED BY <1>1, Inductive, PTL

\* A message among the last SeenLimit that were marked is not forwarded again, over
\* any number of restarts, as long as no crash tore the dedupe file.
THEOREM MarkedIsNotReplayed == IngressSpec => NoReplayOfMarked
  <1> DEFINE Fresh(t) == run[t] = "none" /\ run'[t] = "sent" => t[1] \notin Ids(Recent(marks))
  <1>1. ASSUME IInv, [NextIngress]_ingressVars, inbound = "cli", ~torn, NEW t \in Tasks PROVE Fresh(t)
    <2>1. CASE \E u \in Tasks : Forward(u)
      <3>1. PICK u \in Tasks : Forward(u)
        BY <2>1
      <3>2. u[1] \notin Ids(seen)
        BY <3>1 DEF Forward
      <3>3. Ids(Recent(marks)) \subseteq Ids(seen)
        BY <1>1, RecentIds DEF IInv, RecentInv, TypeOK
      <3>4. t # u => run'[t] = run[t]
        BY <1>1, <3>1 DEF Forward, Post, IInv, TypeOK
      <3> QED BY <3>2, <3>3, <3>4
    <2>2. CASE ~ \E u \in Tasks : Forward(u)
      <3>1. run[t] = "none" => run'[t] # "sent"
        BY <1>1, <2>2 DEF IInv, TypeOK, NextIngress, Deliver, IngressStep, HandlerStep, Line, Receive,
           DropDuplicate, SkipDuplicate, Mark, LeaveUnmarked, AnswerUser, TimesOut, Accept, Finish, FinishUnheard, LogFails,
           RequestLost, Throws, HandlerCrash, Restart, RestartTorn, ingressVars
      <3> QED BY <3>1
    <2> QED BY <2>1, <2>2
  <1>2. IInv /\ [NextIngress]_ingressVars =>
          [inbound = "cli" /\ ~torn => \A t \in Tasks :
             run[t] = "none" /\ run'[t] = "sent" => t[1] \notin Ids(Recent(marks))]_ingressVars
    BY <1>1
  <1>3. IngressSpec => [][NextIngress]_ingressVars
    BY DEF IngressSpec
  <1> QED BY <1>2, <1>3, Inductive, PTL DEF NoReplayOfMarked

-----------------------------------------------------------------------------
(* The handler's runs (TaskHandler).                                        *)

(* Lists. *)

(* A non-empty set of naturals has a least element. *)
LEMMA Least ==
  ASSUME NEW T, T \subseteq Nat, T # {}
  PROVE  \E m \in T : \A k \in T : m <= k
  <1> DEFINE Smaller == {ss \in Nat \X Nat : ss[1] < ss[2]}
  <1>1. IsWellFoundedOn(Smaller, Nat)
    BY NatLessThanWellFounded DEF OpToRel
  <1> HIDE DEF Smaller
  <1>2. PICK m \in T : \A k \in T : <<k, m>> \notin Smaller
    BY <1>1, WFMin
  <1>3. \A k \in T : m <= k
    <2> TAKE k \in T
    <2>1. <<k, m>> \in Nat \X Nat /\ k \in Nat /\ m \in Nat
      OBVIOUS
    <2>2. ~(k < m)
      BY <1>2, <2>1 DEF Smaller
    <2> QED BY <2>1, <2>2
  <1> QED BY <1>3

Keeps(list, set, m, g) ==
    g = [n \in 0..m |->
            IF n = 0 THEN <<>>
            ELSE IF list[n] \in set THEN Append(g[n - 1], list[n]) ELSE g[n - 1]]

(* What is kept of a list is of the list and of the set.  The function in   *)
(* Only exists for every length, else there were a least length without.    *)
LEMMA OnlyIs ==
  ASSUME NEW S, NEW list \in Seq(S), NEW T
  PROVE  Only(list, T) \in Seq(S \cap T)
  <1> DEFINE l == Len(list)
             Lists(m, g) == Keeps(list, T, m, g) /\ g \in [0..m -> Seq(S \cap T)]
             Bad == {m \in Nat : m <= l /\ ~ \E g : Lists(m, g)}
  <1>1. l \in Nat /\ \A n \in 1..l : list[n] \in S
    OBVIOUS
  <1>2. Bad = {}
    <2> SUFFICES ASSUME Bad # {} PROVE FALSE
      OBVIOUS
    <2>1. PICK m \in Bad : \A k \in Bad : m <= k
      BY Least
    <2>2. CASE m = 0
      <3> DEFINE g == [n \in 0..0 |-> <<>>]
      <3>1. g \in [0..0 -> Seq(S \cap T)]
        OBVIOUS
      <3>2. Keeps(list, T, 0, g)
        BY DEF Keeps
      <3> QED BY <2>2, <3>1, <3>2
    <2>3. CASE m # 0
      <3>1. m \in Nat /\ m - 1 \in Nat /\ m - 1 <= l /\ m - 1 \notin Bad /\ m \in 1..l
        <4>1. m \in Nat /\ m <= l
          BY <2>1
        <4>2. m - 1 \in Bad => m <= m - 1
          BY <2>1
        <4> HIDE DEF Bad
        <4> QED BY <4>1, <4>2, <2>3, <1>1
      <3>2. PICK g : Lists(m - 1, g)
        BY <3>1
      <3> DEFINE last == IF list[m] \in T THEN Append(g[m - 1], list[m]) ELSE g[m - 1]
                 h == [n \in 0..m |-> IF n = m THEN last ELSE g[n]]
      <3>3. last \in Seq(S \cap T)
        <4>1. g[m - 1] \in Seq(S \cap T)
          BY <3>1, <3>2
        <4>2. list[m] \in T => list[m] \in S \cap T
          BY <3>1, <1>1
        <4> QED BY <4>1, <4>2
      <3> HIDE DEF last
      <3>4. h \in [0..m -> Seq(S \cap T)]
        BY <3>1, <3>2, <3>3
      <3>5. \A n \in 0..m : h[n] = IF n = 0 THEN <<>>
                                   ELSE IF list[n] \in T THEN Append(h[n - 1], list[n]) ELSE h[n - 1]
        <4> TAKE n \in 0..m
        <4>1. CASE n = m
          BY <4>1, <3>1 DEF last
        <4>2. CASE n # m
          <5>1. n \in 0..(m - 1)
            BY <4>2, <3>1
          <5>2. g[n] = IF n = 0 THEN <<>>
                       ELSE IF list[n] \in T THEN Append(g[n - 1], list[n]) ELSE g[n - 1]
            BY <5>1, <3>2 DEF Keeps
          <5>3. h[n] = g[n] /\ (n # 0 => h[n - 1] = g[n - 1])
            BY <5>1, <4>2, <3>1
          <5> QED BY <5>2, <5>3
        <4> QED BY <4>1, <4>2
      <3>6. Keeps(list, T, m, h)
        <4>1. h = [n \in 0..m |-> h[n]]
          OBVIOUS
        <4> HIDE DEF h
        <4> QED BY <4>1, <3>5 DEF Keeps
      <3> HIDE DEF h
      <3> QED BY <3>4, <3>6
    <2> QED BY <2>2, <2>3
  <1>3. PICK g : Lists(l, g)
    BY <1>1, <1>2
  <1> DEFINE f == CHOOSE x : Keeps(list, T, l, x)
  <1>4. Keeps(list, T, l, f)
    BY <1>3
  <1>5. Only(list, T) = f[l]
    BY DEF Only, Keeps
  <1> HIDE DEF f
  <1> DEFINE Off == {n \in 0..l : f[n] \notin Seq(S \cap T)}
  <1>6. Off = {}
    <2> SUFFICES ASSUME Off # {} PROVE FALSE
      OBVIOUS
    <2>1. PICK m \in Off : \A k \in Off : m <= k
      <3>1. Off \subseteq Nat
        BY <1>1
      <3> QED BY <3>1, Least
    <2>2. m \in 0..l /\ f[m] \notin Seq(S \cap T)
      BY <2>1
    <2>3. f[m] = IF m = 0 THEN <<>>
                 ELSE IF list[m] \in T THEN Append(f[m - 1], list[m]) ELSE f[m - 1]
      BY <1>4, <2>2 DEF Keeps
    <2>4. m # 0
      BY <2>2, <2>3
    <2>5. m - 1 \in 0..l /\ f[m - 1] \in Seq(S \cap T)
      BY <2>1, <2>4, <1>1
    <2>6. list[m] \in T => list[m] \in S \cap T
      BY <2>2, <2>4, <1>1
    <2> HIDE DEF Off
    <2> QED BY <2>2, <2>3, <2>4, <2>5, <2>6
  <1> QED BY <1>5, <1>6, <1>1

LEMMA OnlyInSeq ==
  ASSUME NEW S, NEW list \in Seq(S), NEW T
  PROVE  Only(list, T) \in Seq(S) /\ \A i \in DOMAIN Only(list, T) : Only(list, T)[i] \in T
  <1>1. Only(list, T) \in Seq(S \cap T)
    BY OnlyIs
  <1> QED BY <1>1

LEMMA ToSetAppend ==
  ASSUME NEW S, NEW list \in Seq(S), NEW x \in S
  PROVE  ToSet(Append(list, x)) = ToSet(list) \cup {x}
  <1> DEFINE more == Append(list, x)
  <1>1. /\ DOMAIN list = 1..Len(list) /\ DOMAIN more = 1..(Len(list) + 1) /\ Len(list) \in Nat
        /\ more[Len(list) + 1] = x /\ \A i \in DOMAIN list : more[i] = list[i]
    OBVIOUS
  <1> HIDE DEF more
  <1>2. \A y \in ToSet(more) : y \in ToSet(list) \cup {x}
    BY <1>1 DEF ToSet
  <1>3. \A y \in ToSet(list) \cup {x} : y \in ToSet(more)
    BY <1>1 DEF ToSet
  <1> QED BY <1>2, <1>3 DEF more

LEMMA ToSetOfSeq == ASSUME NEW S, NEW list \in Seq(S) PROVE ToSet(list) \subseteq S
  BY DEF ToSet

-----------------------------------------------------------------------------
(* The state file. *)

Before == {"new", "parent", "download", "contexts", "answer", "primary", "review", "pipeline",
           "enqueue"}
Ended == {"store", "done", "lost"}
RunStages == Before \cup {"waiting", "publish", "reply"} \cup Ended

WorkersSteps == {"started", "ended"}
WorkLeft == {<<>>, <<"ended">>, <<"ledger", "ended">>, <<"plan", "ledger", "ended">>, Work}
Statuses == {"none", "accepted", "running", "completed", "blocked", "failed", "needs_fix"}
Steps == {"normalized", "cached", "obtained", "remembered", "contexts", "task", "gate", "agent",
          "pipeline", "enqueued", "answered", "published", "reply", "indexed", "stored"}
             \cup WorkersSteps
State == [steps : {s \in SUBSET Steps : IsFiniteSet(s)}, status : Statuses]
Outputs == {"none", "completed", "blocked"}

(* What is indexed by run.                                                  *)
Types ==
    /\ pc \in [Runs -> RunStages] /\ late \subseteq Runs
    /\ work \in [Runs -> WorkLeft] /\ answer \in [Runs -> Outputs]
    /\ wrote \in [Runs -> SUBSET WorkersSteps]
    /\ output \in [Runs -> Outputs]
    /\ published \in [Runs -> {"none", "published", "skipped", "blocked"}]
    /\ \A f \in {held, mem, disk, stamp, ledger} : f = [r \in Runs |-> f[r]]

(* As long as nobody has given it up, a run's worker has work only while    *)
(* the handler waits for it.                                                *)
HandedOver(r) ==
    /\ work[r] # <<>> => pc[r] = "waiting" /\ answer[r] = "none"
    /\ held[r] # <<>> => work[r] # <<>>
    /\ pc[r] \in Before => answer[r] = "none"

(* The steps that a run at its stage has behind it.                         *)
Behind(r) ==
    (IF pc[r] \in {"new", "parent"} THEN {} ELSE {"normalized"})
      \cup (IF pc[r] \in {"new", "parent", "download"} THEN {} ELSE {"obtained"})
      \cup (IF pc[r] \in {"new", "parent", "download", "contexts"} THEN {} ELSE {"task", "gate"})
      \cup (IF pc[r] \in {"reply", "store", "done"} THEN {"published"} ELSE {})
      \cup (IF pc[r] \in {"store", "done"} THEN {"reply"} ELSE {})

(* The run was there before the process was.                                *)
Earlier(r) == pc[r] = "done" /\ ~(stamp[r] > 0)

(* What the handler remembers of a run is what its file says, and while the *)
(* worker is at it the file says what the worker wrote besides; before, the *)
(* worker has written nothing.                                              *)
Told(r) ==
    /\ mem[r] \in State
    /\ pc[r] # "waiting" => disk[r] = mem[r] /\ wrote[r] \subseteq mem[r].steps
    /\ pc[r] \in Before \cup {"waiting"} => mem[r].steps \cap WorkersSteps = {}
    /\ pc[r] \in Before => wrote[r] = {}
    /\ pc[r] = "waiting" =>
          /\ disk[r] \in State /\ disk[r].steps = mem[r].steps \cup wrote[r]
          /\ held[r] # <<>> /\ Head(work[r]) # "ledger" => held[r] = <<disk[r]>>
    /\ answer[r] # "none" => "ended" \in wrote[r]
    /\ ~Earlier(r) => Behind(r) \subseteq mem[r].steps
    /\ pc[r] \in {"store", "done"} /\ ~Earlier(r) => mem[r].status = FinalStatus(r)

StateInv == Types /\ \A r \in Runs \ late : HandedOver(r) /\ Told(r)

(* All of this is about what a run has.                                     *)
Standing(r) == <<pc[r], mem[r], disk[r], work[r], held[r], answer[r], wrote[r], stamp[r],
                 output[r], published[r]>>

LEMMA Standing1 ==
  ASSUME NEW r, Standing(r)' = Standing(r), HandedOver(r), Told(r)
  PROVE  HandedOver(r)' /\ Told(r)'
  BY DEF Standing, HandedOver, Told, Behind, Earlier, FinalStatus

(* A step of one run.                                                       *)
LEMMA OthersStand ==
  ASSUME StateInv, NEW x \in Runs, Types', late \subseteq late',
         \A r \in Runs \ {x} : Standing(r)' = Standing(r),
         x \notin late' => HandedOver(x)' /\ Told(x)'
  PROVE  StateInv'
  BY Standing1 DEF StateInv

LEMMA NewStep ==
  ASSUME NEW s \in State, NEW name \in Steps, NEW status \in Statuses
  PROVE  /\ AddStep(s, name, status) \in State
         /\ AddStep(s, name, status).steps = s.steps \cup {name}
         /\ status \notin {"failed", "blocked", "needs_fix"} =>
               AddStep(s, name, status).status = s.status
  <1>1. IsFiniteSet(s.steps \cup {name})
    BY FS_AddElement DEF State
  <1> QED BY <1>1 DEF AddStep, State, Statuses

LEMMA NoStateIs == NoState \in State /\ NoState.steps = {}
  <1>1. IsFiniteSet({}) /\ {} \in SUBSET Steps
    BY FS_EmptySet
  <1> DEFINE Sets == {s \in SUBSET Steps : IsFiniteSet(s)}
  <1>2. {} \in Sets /\ State = [steps : Sets, status : Statuses]
    BY <1>1 DEF State
  <1> HIDE DEF Sets
  <1>3. \A e \in Sets : [steps |-> e, status |-> "none"] \in State
    BY <1>2 DEF Statuses
  <1>4. NoState \in State
    BY <1>2, <1>3 DEF NoState
  <1>5. NoState.steps = {}
    BY DEF NoState
  <1> QED BY <1>4, <1>5

(* The handler's own list is taken unless the worker has added to it.       *)
LEMMA MergeSame ==
  ASSUME NEW r, disk[r] = mem[r]
  PROVE  Merge(r) = mem[r]
  BY DEF Merge

LEMMA MergeMore ==
  ASSUME NEW r, mem[r] \in State, disk[r] \in State, mem[r].steps \subseteq disk[r].steps,
         mem[r].steps # disk[r].steps
  PROVE  Merge(r) = disk[r]
  <1>1. IsFiniteSet(disk[r].steps) /\ IsFiniteSet(mem[r].steps)
    BY DEF State
  <1>2. /\ Cardinality(mem[r].steps) \in Nat /\ Cardinality(disk[r].steps) \in Nat
        /\ Cardinality(mem[r].steps) <= Cardinality(disk[r].steps)
        /\ Cardinality(mem[r].steps) # Cardinality(disk[r].steps)
    BY <1>1, FS_Subset, FS_CardinalityType
  <1> QED BY <1>2 DEF Merge

LEMMA InitState == Init => StateInv
  <1> SUFFICES ASSUME Init PROVE StateInv
    OBVIOUS
  <1>1. Types
    <2>1. pc \in [Runs -> RunStages]
      <3>1. PICK x \in Scenarios : pc = [r \in Runs |-> IF r \in x.earlier THEN "done" ELSE "new"]
        BY DEF Init
      <3> QED BY <3>1 DEF RunStages, Before, Ended
    <2>2. /\ work = [r \in Runs |-> <<>>] /\ answer = [r \in Runs |-> "none"] /\ late = {}
          /\ wrote = [r \in Runs |-> {}] /\ output = [r \in Runs |-> "none"]
          /\ published = [r \in Runs |-> "none"] /\ held = [r \in Runs |-> <<>>]
          /\ mem = [r \in Runs |-> NoState] /\ disk = [r \in Runs |-> NoState]
          /\ stamp = [r \in Runs |-> 0]
      BY DEF Init
    <2>3. /\ work \in [Runs -> WorkLeft] /\ answer \in [Runs -> Outputs]
          /\ wrote \in [Runs -> SUBSET WorkersSteps]
          /\ output \in [Runs -> Outputs] /\ late \subseteq Runs
          /\ published \in [Runs -> {"none", "published", "skipped", "blocked"}]
      BY <2>2 DEF WorkLeft, Outputs
    <2>4. ledger = [r \in Runs |-> ledger[r]]
      <3> DEFINE old == {r \in Runs : pc[r] = "done"}
      <3>1. ledger = [r \in Runs |-> IF r \in old THEN NewLedger ELSE NoLedger]
        BY Zenon DEF Init
      <3> HIDE DEF old
      <3> QED BY <3>1
    <2>5. /\ held = [r \in Runs |-> held[r]] /\ mem = [r \in Runs |-> mem[r]]
          /\ disk = [r \in Runs |-> disk[r]] /\ stamp = [r \in Runs |-> stamp[r]]
      BY <2>2
    <2> QED BY <2>1, <2>3, <2>4, <2>5 DEF Types
  <1>2. ASSUME NEW r \in Runs PROVE HandedOver(r) /\ Told(r)
    <2>1. /\ pc[r] \in {"new", "done"} /\ mem[r] = NoState /\ disk[r] = NoState /\ wrote[r] = {}
          /\ work[r] = <<>> /\ held[r] = <<>> /\ answer[r] = "none" /\ stamp[r] = 0
      BY DEF Init
    <2> QED BY <2>1, NoStateIs DEF HandedOver, Told, Behind, Earlier, Before
  <1> QED BY <1>1, <1>2 DEF StateInv

(* The handler reports a step of a run whose worker has nothing to do with. *)
LEMMA Reported ==
  ASSUME StateInv, NEW x \in Runs \ late, NEW s \in State,
         pc[x] # "waiting", pc'[x] # "waiting", pc'[x] \in Before => pc[x] \in Before,
         Keep(x, s), UNCHANGED <<work, held, answer, wrote>>,
         wrote[x] \subseteq s.steps, pc'[x] \in Before => s.steps \cap WorkersSteps = {},
         ~Earlier(x)' => Behind(x)' \subseteq s.steps,
         pc'[x] \in {"store", "done"} /\ ~Earlier(x)' => s.status = FinalStatus(x)'
  PROVE  HandedOver(x)' /\ Told(x)'
  <1>1. HandedOver(x) /\ Told(x)
    BY DEF StateInv
  <1>2. mem'[x] = s /\ disk'[x] = s
    <2>1. mem = [r \in Runs |-> mem[r]] /\ disk = [r \in Runs |-> disk[r]]
      BY DEF StateInv, Types
    <2> QED BY <2>1 DEF Keep
  <1>3. HandedOver(x)'
    BY <1>1 DEF HandedOver
  <1>4. Told(x)'
    BY <1>1, <1>2 DEF Told
  <1> QED BY <1>3, <1>4

(* What is updated of one run stays as it is of the others.                 *)
LEMMA KeptOfOthers ==
  ASSUME Types, NEW x \in Runs, NEW s, Keep(x, s)
  PROVE  /\ \A r \in Runs \ {x} : mem'[r] = mem[r] /\ disk'[r] = disk[r]
         /\ mem' = [r \in Runs |-> mem'[r]] /\ disk' = [r \in Runs |-> disk'[r]]
  <1>1. mem = [r \in Runs |-> mem[r]] /\ disk = [r \in Runs |-> disk[r]]
    BY DEF Types
  <1>2. mem' = [mem EXCEPT ![x] = s] /\ disk' = [disk EXCEPT ![x] = s]
    BY DEF Keep
  <1>3. mem' = [r \in Runs |-> mem'[r]]
    BY <1>1, <1>2
  <1>4. disk' = [r \in Runs |-> disk'[r]]
    BY <1>1, <1>2
  <1> QED BY <1>1, <1>2, <1>3, <1>4

(* A step of the handler.                                                   *)
LEMMA HandlersStep ==
  ASSUME StateInv, NEW x \in Runs, NEW p \in RunStages,
         pc' = [pc EXCEPT ![x] = p], late \subseteq late', late' \subseteq Runs,
         UNCHANGED <<mem, disk>> \/ \E s : Keep(x, s),
         UNCHANGED <<held, answer, wrote>>,
         \/ UNCHANGED work
         \/ \E w \in WorkLeft : work' = [work EXCEPT ![x] = w],
         \/ UNCHANGED output
         \/ \E o \in Outputs : output' = [output EXCEPT ![x] = o],
         \/ UNCHANGED published
         \/ \E o \in {"published", "skipped", "blocked"} : published' = [published EXCEPT ![x] = o],
         \/ UNCHANGED stamp
         \/ \E n : stamp' = [stamp EXCEPT ![x] = n],
         ledger' = [r \in Runs |-> ledger'[r]],
         x \notin late' => HandedOver(x)' /\ Told(x)'
  PROVE  StateInv'
  <1>1. Types
    BY DEF StateInv
  <1>2. /\ \A r \in Runs \ {x} : mem'[r] = mem[r] /\ disk'[r] = disk[r]
        /\ mem' = [r \in Runs |-> mem'[r]] /\ disk' = [r \in Runs |-> disk'[r]]
    <2>1. CASE UNCHANGED <<mem, disk>>
      BY <1>1, <2>1 DEF Types
    <2> QED BY <1>1, <2>1, KeptOfOthers
  <1>3. /\ pc' \in [Runs -> RunStages] /\ output' \in [Runs -> Outputs]
        /\ published' \in [Runs -> {"none", "published", "skipped", "blocked"}]
        /\ stamp' = [r \in Runs |-> stamp'[r]]
    BY <1>1 DEF Types
  <1>4. held' = [r \in Runs |-> held'[r]] /\ work' \in [Runs -> WorkLeft]
    BY <1>1 DEF Types
  <1>5. Types'
    BY <1>1, <1>2, <1>3, <1>4 DEF Types
  <1>6. \A r \in Runs \ {x} : Standing(r)' = Standing(r)
    <2> TAKE r \in Runs \ {x}
    <2>1. /\ pc'[r] = pc[r] /\ output'[r] = output[r] /\ published'[r] = published[r]
          /\ work'[r] = work[r]
      BY <1>1 DEF Types
    <2>2. stamp'[r] = stamp[r]
      <3>1. stamp = [q \in Runs |-> stamp[q]]
        BY <1>1 DEF Types
      <3> QED BY <3>1
    <2> QED BY <1>2, <2>1, <2>2 DEF Standing
  <1> QED BY <1>5, <1>6, OthersStand

(* A step that is not about this at all.                                    *)
LEMMA Bystanding ==
  ASSUME StateInv, UNCHANGED <<pc, mem, disk, work, held, answer, wrote, stamp, output, published>>,
         late \subseteq late', late' \subseteq Runs, ledger' = [r \in Runs |-> ledger'[r]]
  PROVE  StateInv'
  <1>1. Types'
    BY DEF StateInv, Types
  <1>2. \A r \in Runs : Standing(r)' = Standing(r)
    BY DEF Standing
  <1> QED BY <1>1, <1>2, Standing1 DEF StateInv

(* What the next step is reported with.                                     *)
LEMMA NewSteps ==
  ASSUME NEW s \in State, NEW a \in Steps, NEW b \in Steps, NEW i \in Statuses, NEW j \in Statuses
  PROVE  /\ AddStep(AddStep(s, a, i), b, j) \in State
         /\ AddStep(AddStep(s, a, i), b, j).steps = s.steps \cup {a, b}
  <1>1. AddStep(s, a, i) \in State /\ AddStep(s, a, i).steps = s.steps \cup {a}
    BY NewStep
  <1>2. /\ AddStep(AddStep(s, a, i), b, j) \in State
        /\ AddStep(AddStep(s, a, i), b, j).steps = AddStep(s, a, i).steps \cup {b}
    BY <1>1, NewStep
  <1> QED BY <1>1, <1>2

AcceptedState ==
    AddStep(AddStep([steps |-> {}, status |-> "accepted"], "normalized", "completed"),
            "cached", "completed")

LEMMA AcceptedStateIs ==
  AcceptedState \in State /\ AcceptedState.steps = {"normalized", "cached"}
  <1> DEFINE s == [NoState EXCEPT !.status = "accepted"]
  <1>1. s \in State /\ s.steps = {} /\ s = [steps |-> {}, status |-> "accepted"]
    BY NoStateIs DEF NoState, State, Statuses
  <1>2. /\ "normalized" \in Steps /\ "cached" \in Steps /\ "completed" \in Statuses
    BY DEF Steps, Statuses
  <1> HIDE DEF s
  <1>3. /\ AddStep(AddStep(s, "normalized", "completed"), "cached", "completed") \in State
        /\ AddStep(AddStep(s, "normalized", "completed"), "cached", "completed").steps
             = s.steps \cup {"normalized", "cached"}
    BY <1>1, <1>2, NewSteps
  <1> QED BY <1>1, <1>3 DEF AcceptedState

LEMMA StartState == ASSUME StateInv, NEW x \in Runs, Start(x) PROVE StateInv'
  <1>1. pc[x] = "new" /\ UNCHANGED <<work, held, answer, wrote, late, output, published>>
    BY DEF Start, worker
  <1>2. stamp' = [stamp EXCEPT ![x] = clock + 1] /\ ledger' = [r \in Runs |-> ledger'[r]]
    <2>1. ledger' = [q \in Runs |-> [i \in DOMAIN ledger[q] |->
                       IF <<q, i>> \in Selection(x) THEN [ledger[q][i] EXCEPT !.by = {x}]
                       ELSE ledger[q][i]]]
      BY DEF Start, Answer
    <2>2. stamp' = [stamp EXCEPT ![x] = clock + 1]
      BY DEF Start
    <2> QED BY <2>1, <2>2
  <1>3. \/ Keep(x, AcceptedState) /\ pc' = [pc EXCEPT ![x] = "download"]
        \/ UNCHANGED <<mem, disk>> /\ pc' = [pc EXCEPT ![x] = "parent"]
    BY DEF Start, Accepted, AcceptedState
  <1>4. CASE Keep(x, AcceptedState) /\ pc' = [pc EXCEPT ![x] = "download"]
    <2>1. pc'[x] = "download"
      BY <1>4 DEF StateInv, Types
    <2>2. Behind(x)' \subseteq AcceptedState.steps
      BY <2>1, AcceptedStateIs DEF Behind
    <2>3. x \notin late => HandedOver(x)' /\ Told(x)'
      <3> SUFFICES ASSUME x \notin late PROVE HandedOver(x)' /\ Told(x)'
        OBVIOUS
      <3>1. wrote[x] = {}
        BY <1>1 DEF StateInv, Told, Before
      <3>2. AcceptedState.steps \cap WorkersSteps = {}
        BY AcceptedStateIs DEF WorkersSteps
      <3> QED BY <1>1, <1>4, <2>1, <2>2, <3>1, <3>2, AcceptedStateIs, Reported DEF Before
    <2> QED BY <1>1, <1>2, <1>4, <2>3, AcceptedStateIs, HandlersStep DEF StateInv, Types, RunStages, Before
  <1>5. CASE UNCHANGED <<mem, disk>> /\ pc' = [pc EXCEPT ![x] = "parent"]
    <2>1. pc'[x] = "parent"
      BY <1>5 DEF StateInv, Types
    <2>2. x \notin late' => HandedOver(x)' /\ Told(x)'
      <3> SUFFICES ASSUME x \notin late PROVE HandedOver(x)' /\ Told(x)'
        BY <1>1
      <3>1. HandedOver(x) /\ Told(x)
        BY DEF StateInv
      <3>2. HandedOver(x)'
        BY <3>1, <1>1, <2>1 DEF HandedOver, Before
      <3>3. Told(x)'
        BY <3>1, <1>1, <1>5, <2>1 DEF Told, Behind, Before
      <3> QED BY <3>2, <3>3
    <2> QED BY <1>1, <1>2, <1>5, <2>2, HandlersStep DEF StateInv, Types, RunStages, Before
  <1> QED BY <1>3, <1>4, <1>5

LEMMA FetchParentState == ASSUME StateInv, NEW x \in Runs, FetchParent(x) PROVE StateInv'
  <1>1. /\ pc[x] = "parent" /\ UNCHANGED <<work, held, answer, wrote, late, output, published>>
        /\ UNCHANGED <<stamp, ledger>>
        /\ Keep(x, AcceptedState) /\ pc' = [pc EXCEPT ![x] = "download"]
    BY DEF FetchParent, worker, time, Accepted, AcceptedState
  <1>2. pc'[x] = "download" /\ ledger' = [r \in Runs |-> ledger'[r]]
    BY <1>1 DEF StateInv, Types
  <1>3. Behind(x)' \subseteq AcceptedState.steps
    BY <1>2, AcceptedStateIs DEF Behind
  <1>4. x \notin late => HandedOver(x)' /\ Told(x)'
    <2> SUFFICES ASSUME x \notin late PROVE HandedOver(x)' /\ Told(x)'
      OBVIOUS
    <2>1. wrote[x] = {}
      BY <1>1 DEF StateInv, Told, Before
    <2>2. AcceptedState.steps \cap WorkersSteps = {}
      BY AcceptedStateIs DEF WorkersSteps
    <2> QED BY <1>1, <1>2, <1>3, <2>1, <2>2, AcceptedStateIs, Reported DEF Before
  <1> QED BY <1>1, <1>2, <1>4, AcceptedStateIs, HandlersStep DEF StateInv, Types, RunStages, Before

(* A run that goes on by itself and has not ended.                          *)
LEMMA OnItsWay ==
  ASSUME StateInv, NEW x \in Runs \ late, pc[x] \notin {"waiting", "done"}
  PROVE  /\ mem[x] \in State /\ disk[x] = mem[x] /\ wrote[x] \subseteq mem[x].steps
         /\ Behind(x) \subseteq mem[x].steps
         /\ pc[x] \in Before => mem[x].steps \cap WorkersSteps = {}
  BY DEF StateInv, Told, Earlier

LEMMA DownloadState ==
  ASSUME StateInv, NEW x \in Runs, Untouched(x) PROVE StateInv'
  <1>1. /\ UNCHANGED <<pc, mem, disk, work, held, answer, wrote, stamp, output, published>>
        /\ UNCHANGED <<late, ledger>>
    BY DEF Untouched, worker, time
  <1> QED BY <1>1, Bystanding DEF StateInv, Types

LEMMA ObtainedState == ASSUME StateInv, NEW x \in Runs, Obtained(x) PROVE StateInv'
  <1> DEFINE i == IF \E a \in ToSet(results[x]) : Failed(a) THEN "needs_fix" ELSE "completed"
             s == AddStep(AddStep(mem[x], "obtained", i), "remembered", "completed")
  <1>1. /\ pc[x] = "download" /\ UNCHANGED <<work, held, answer, wrote, late, output, published>>
        /\ UNCHANGED <<stamp, ledger>>
        /\ Keep(x, s) /\ pc' = [pc EXCEPT ![x] = "contexts"]
    BY DEF Obtained, worker, time
  <1>2. i \in Statuses /\ "completed" \in Statuses /\ "obtained" \in Steps /\ "remembered" \in Steps
    BY DEF Statuses, Steps
  <1> HIDE DEF i
  <1>3. mem[x] \in State => s \in State /\ s.steps = mem[x].steps \cup {"obtained", "remembered"}
    BY <1>2, NewSteps
  <1> HIDE DEF s
  <1>4. pc'[x] = "contexts" /\ ledger' = [r \in Runs |-> ledger'[r]]
    BY <1>1 DEF StateInv, Types
  <1>5. x \notin late => HandedOver(x)' /\ Told(x)'
    <2> SUFFICES ASSUME x \notin late PROVE HandedOver(x)' /\ Told(x)'
      OBVIOUS
    <2>1. /\ s \in State /\ wrote[x] \subseteq s.steps /\ s.steps \cap WorkersSteps = {}
          /\ Behind(x)' \subseteq s.steps
      BY <1>1, <1>3, <1>4, OnItsWay DEF Behind, Before, WorkersSteps
    <2> QED BY <1>1, <1>4, <2>1, Reported DEF Before
  <1> QED BY <1>1, <1>4, <1>5, HandlersStep DEF StateInv, Types, RunStages, Before

LEMMA ClassifyState == ASSUME StateInv, NEW x \in Runs, Classify(x) PROVE StateInv'
  <1> DEFINE i == IF SourceGate(x) THEN "completed" ELSE "blocked"
             t == AddStep(AddStep(mem[x], "contexts", "completed"), "task", "completed")
             s == AddStep(t, "gate", i)
             o == IF SourceGate(x) THEN output[x] ELSE "blocked"
  <1>1. /\ pc[x] = "contexts" /\ UNCHANGED <<work, held, answer, wrote, late, published>>
        /\ UNCHANGED <<stamp, ledger>>
        /\ Keep(x, s) /\ pc' = [pc EXCEPT ![x] = Route(x)] /\ output' = [output EXCEPT ![x] = o]
    BY DEF Classify, worker, time
  <1>2. /\ Route(x) \in {"publish", "answer", "primary", "enqueue", "pipeline"}
        /\ o \in Outputs
    BY DEF Route, StateInv, Types, Outputs
  <1>3. /\ i \in Statuses /\ "completed" \in Statuses
        /\ "contexts" \in Steps /\ "task" \in Steps /\ "gate" \in Steps
    BY DEF Statuses, Steps
  <1> HIDE DEF i, o
  <1>4. mem[x] \in State => t \in State /\ t.steps = mem[x].steps \cup {"contexts", "task"}
    BY <1>3, NewSteps
  <1> HIDE DEF t
  <1>5. mem[x] \in State => s \in State /\ s.steps = mem[x].steps \cup {"contexts", "task", "gate"}
    <2>1. t \in State => s \in State /\ s.steps = t.steps \cup {"gate"}
      BY <1>3, NewStep
    <2> QED BY <1>4, <2>1
  <1> HIDE DEF s
  <1>6. pc'[x] = Route(x) /\ ledger' = [r \in Runs |-> ledger'[r]]
    BY <1>1 DEF StateInv, Types
  <1>7. x \notin late => HandedOver(x)' /\ Told(x)'
    <2> SUFFICES ASSUME x \notin late PROVE HandedOver(x)' /\ Told(x)'
      OBVIOUS
    <2>1. /\ s \in State /\ wrote[x] \subseteq s.steps /\ s.steps \cap WorkersSteps = {}
          /\ Behind(x)' \subseteq s.steps
      BY <1>1, <1>2, <1>5, <1>6, OnItsWay DEF Behind, Before, WorkersSteps
    <2> QED BY <1>1, <1>2, <1>6, <2>1, Reported DEF Before
  <1> QED BY <1>1, <1>2, <1>6, <1>7, HandlersStep DEF StateInv, Types, RunStages, Before

LEMMA AnswerNowState == ASSUME StateInv, NEW x \in Runs, AnswerNow(x) PROVE StateInv'
  <1> DEFINE s == AddStep(mem[x], "agent", "completed")
  <1>1. /\ pc[x] = "answer" /\ UNCHANGED <<work, held, answer, wrote, late, published>>
        /\ UNCHANGED <<stamp, ledger>> /\ output' = [output EXCEPT ![x] = "completed"]
        /\ Keep(x, s) /\ pc' = [pc EXCEPT ![x] = "publish"]
    BY DEF AnswerNow, worker, time
  <1>2. mem[x] \in State => s \in State /\ s.steps = mem[x].steps \cup {"agent"}
    BY NewStep DEF Steps, Statuses
  <1> HIDE DEF s
  <1>3. pc'[x] = "publish" /\ ledger' = [r \in Runs |-> ledger'[r]]
    BY <1>1 DEF StateInv, Types
  <1>4. x \notin late => HandedOver(x)' /\ Told(x)'
    <2> SUFFICES ASSUME x \notin late PROVE HandedOver(x)' /\ Told(x)'
      OBVIOUS
    <2>1. s \in State /\ wrote[x] \subseteq s.steps /\ Behind(x)' \subseteq s.steps
      BY <1>1, <1>2, <1>3, OnItsWay DEF Behind
    <2> QED BY <1>1, <1>3, <2>1, Reported DEF Before
  <1> QED BY <1>1, <1>3, <1>4, HandlersStep DEF StateInv, Types, RunStages, Before, Outputs

LEMMA RunAgentState == ASSUME StateInv, NEW x \in Runs, RunAgent(x) PROVE StateInv'
  <1>1. /\ pc[x] \in {"primary", "review"}
        /\ UNCHANGED <<work, held, answer, wrote, late, published, stamp, ledger>>
    BY DEF RunAgent, worker, time
  <1>2. ledger' = [r \in Runs |-> ledger'[r]] /\ late \subseteq Runs
    BY <1>1 DEF StateInv, Types
  <1>3. \/ \E o \in {"completed", "blocked"} :
              /\ output' = [output EXCEPT ![x] = o] /\ pc' = [pc EXCEPT ![x] = "publish"]
              /\ Keep(x, AddStep(mem[x], "agent", o))
        \/ /\ pc' = [pc EXCEPT ![x] = "review"] /\ UNCHANGED <<output, mem, disk>>
    <2>1. pc = [r \in Runs |-> pc[r]] /\ output = [r \in Runs |-> output[r]]
      BY DEF StateInv, Types
    <2>2. \/ \E o \in {"completed", "blocked"} :
                /\ output' = [output EXCEPT ![x] = o] /\ pc' = [pc EXCEPT ![x] = "publish"]
          \/ /\ pc' = [pc EXCEPT ![x] = "review"] /\ UNCHANGED output
      BY DEF RunAgent
    <2>3. IF pc'[x] = "publish" THEN Keep(x, AddStep(mem[x], "agent", output'[x]))
                                ELSE UNCHANGED <<mem, disk>>
      BY DEF RunAgent
    <2>4. CASE \E o \in {"completed", "blocked"} :
                /\ output' = [output EXCEPT ![x] = o] /\ pc' = [pc EXCEPT ![x] = "publish"]
      <3>1. PICK o \in {"completed", "blocked"} :
                /\ output' = [output EXCEPT ![x] = o] /\ pc' = [pc EXCEPT ![x] = "publish"]
        BY <2>4
      <3>2. pc'[x] = "publish" /\ output'[x] = o
        BY <2>1, <3>1
      <3> QED BY <2>3, <3>1, <3>2
    <2>5. CASE pc' = [pc EXCEPT ![x] = "review"] /\ UNCHANGED output
      <3>1. pc'[x] = "review"
        BY <2>1, <2>5
      <3> QED BY <2>3, <2>5, <3>1
    <2> QED BY <2>2, <2>4, <2>5
  <1>4. ASSUME NEW o \in {"completed", "blocked"}, output' = [output EXCEPT ![x] = o],
               pc' = [pc EXCEPT ![x] = "publish"], Keep(x, AddStep(mem[x], "agent", o))
        PROVE  StateInv'
    <2> DEFINE s == AddStep(mem[x], "agent", o)
    <2>1. mem[x] \in State => s \in State /\ s.steps = mem[x].steps \cup {"agent"}
      BY NewStep DEF Steps, Statuses
    <2>2. Keep(x, s)
      BY <1>4
    <2> HIDE DEF s
    <2>3. pc'[x] = "publish"
      BY <1>4 DEF StateInv, Types
    <2>4. x \notin late => HandedOver(x)' /\ Told(x)'
      <3> SUFFICES ASSUME x \notin late PROVE HandedOver(x)' /\ Told(x)'
        OBVIOUS
      <3>1. s \in State /\ wrote[x] \subseteq s.steps /\ Behind(x)' \subseteq s.steps
        BY <1>1, <2>1, <2>3, OnItsWay DEF Behind
      <3> QED BY <1>1, <2>2, <2>3, <3>1, Reported DEF Before
    <2>5. \E e \in Outputs : output' = [output EXCEPT ![x] = e]
      BY <1>4 DEF Outputs
    <2> QED BY <1>1, <1>2, <1>4, <2>2, <2>4, <2>5, HandlersStep DEF RunStages, Before
  <1>5. ASSUME pc' = [pc EXCEPT ![x] = "review"], UNCHANGED <<output, mem, disk>>
        PROVE  StateInv'
    <2>1. pc'[x] = "review"
      BY <1>5 DEF StateInv, Types
    <2>2. x \notin late => HandedOver(x)' /\ Told(x)'
      <3> SUFFICES ASSUME x \notin late PROVE HandedOver(x)' /\ Told(x)'
        OBVIOUS
      <3>1. HandedOver(x) /\ Told(x) /\ pc[x] \in Before
        BY <1>1 DEF StateInv, Before
      <3>2. HandedOver(x)'
        BY <3>1, <1>1, <2>1 DEF HandedOver, Before
      <3>3. Behind(x)' = Behind(x) /\ ~Earlier(x)
        BY <1>1, <2>1 DEF Behind, Earlier
      <3>4. Told(x)'
        BY <3>1, <3>3, <1>1, <1>5, <2>1 DEF Told
      <3> QED BY <3>2, <3>4
    <2> QED BY <1>1, <1>2, <1>5, <2>2, HandlersStep DEF RunStages, Before
  <1> QED BY <1>3, <1>4, <1>5

LEMMA RunPipelineState == ASSUME StateInv, NEW x \in Runs, RunPipeline(x) PROVE StateInv'
  <1>1. PICK o \in {"completed", "blocked"} :
          output' = [output EXCEPT ![x] = o] /\ Keep(x, OnStep(x, "pipeline", o))
    BY DEF RunPipeline
  <1> DEFINE s == OnStep(x, "pipeline", o)
  <1>2. /\ pc[x] = "pipeline" /\ UNCHANGED <<work, held, answer, wrote, late, published, stamp>>
        /\ ledger' = [ledger EXCEPT ![x] = NewLedger]
        /\ pc' = [pc EXCEPT ![x] = "publish"]
    BY DEF RunPipeline, worker, time
  <1>3. Keep(x, s)
    BY <1>1
  <1>4. pc'[x] = "publish" /\ ledger' = [r \in Runs |-> ledger'[r]] /\ late \subseteq Runs
    <2>1. ledger = [r \in Runs |-> ledger[r]]
      BY DEF StateInv, Types
    <2> QED BY <1>2, <2>1 DEF StateInv, Types
  <1>5. x \notin late => s \in State /\ s.steps = mem[x].steps \cup {"pipeline"}
    <2> SUFFICES ASSUME x \notin late
                 PROVE  s \in State /\ s.steps = mem[x].steps \cup {"pipeline"}
      OBVIOUS
    <2>1. Merge(x) = mem[x] /\ mem[x] \in State
      BY <1>2, OnItsWay, MergeSame
    <2>2. s = AddStep(mem[x], "pipeline", o)
      BY <2>1 DEF OnStep
    <2> HIDE DEF s
    <2> QED BY <2>1, <2>2, NewStep DEF Steps, Statuses
  <1> HIDE DEF s
  <1>6. x \notin late => HandedOver(x)' /\ Told(x)'
    <2> SUFFICES ASSUME x \notin late PROVE HandedOver(x)' /\ Told(x)'
      OBVIOUS
    <2>1. s \in State /\ wrote[x] \subseteq s.steps /\ Behind(x)' \subseteq s.steps
      BY <1>2, <1>4, <1>5, OnItsWay DEF Behind
    <2> QED BY <1>2, <1>3, <1>4, <2>1, Reported DEF Before
  <1>7. \E e \in Outputs : output' = [output EXCEPT ![x] = e]
    BY <1>1 DEF Outputs
  <1> QED BY <1>2, <1>3, <1>4, <1>6, <1>7, HandlersStep DEF RunStages, Before

LEMMA PublishState == ASSUME StateInv, NEW x \in Runs, Publish(x) PROVE StateInv'
  <1>1. PICK p \in {"published", "skipped", "blocked"} :
          /\ published' = [published EXCEPT ![x] = p]
          /\ Keep(x, AddStep(mem[x], "published", IF p = "blocked" THEN p ELSE "completed"))
    BY DEF Publish
  <1> DEFINE i == IF p = "blocked" THEN p ELSE "completed"
             s == AddStep(mem[x], "published", i)
  <1>2. /\ pc[x] = "publish"
        /\ UNCHANGED <<work, held, answer, wrote, late, output, stamp, ledger>>
        /\ Keep(x, s) /\ pc' = [pc EXCEPT ![x] = "reply"]
    BY <1>1 DEF Publish, worker, time
  <1>3. pc'[x] = "reply" /\ ledger' = [r \in Runs |-> ledger'[r]] /\ late \subseteq Runs
    BY <1>2 DEF StateInv, Types
  <1>4. i \in Statuses /\ "published" \in Steps
    BY DEF Statuses, Steps
  <1> HIDE DEF i
  <1>5. mem[x] \in State => s \in State /\ s.steps = mem[x].steps \cup {"published"}
    BY <1>4, NewStep
  <1> HIDE DEF s
  <1>6. x \notin late => HandedOver(x)' /\ Told(x)'
    <2> SUFFICES ASSUME x \notin late PROVE HandedOver(x)' /\ Told(x)'
      OBVIOUS
    <2>1. s \in State /\ wrote[x] \subseteq s.steps /\ Behind(x)' \subseteq s.steps
      BY <1>2, <1>3, <1>5, OnItsWay DEF Behind
    <2> QED BY <1>2, <1>3, <2>1, Reported DEF Before
  <1> QED BY <1>1, <1>2, <1>3, <1>6, HandlersStep DEF RunStages, Before

LEMMA ReplyState == ASSUME StateInv, NEW x \in Runs, Reply(x) PROVE StateInv'
  <1>1. PICK i \in {"completed", "failed"} :
          Keep(x, [AddStep(mem[x], "reply", i) EXCEPT !.status = FinalStatus(x),
                                                      !.steps = @ \cup {"indexed"}])
    BY DEF Reply
  <1> DEFINE t == AddStep(mem[x], "reply", i)
             s == [t EXCEPT !.status = FinalStatus(x), !.steps = @ \cup {"indexed"}]
  <1>2. /\ pc[x] = "reply"
        /\ UNCHANGED <<work, held, answer, wrote, late, output, published, stamp, ledger>>
        /\ Keep(x, s) /\ pc' = [pc EXCEPT ![x] = "store"]
    BY <1>1 DEF Reply, worker, time
  <1>3. pc'[x] = "store" /\ ledger' = [r \in Runs |-> ledger'[r]] /\ late \subseteq Runs
    BY <1>2 DEF StateInv, Types
  <1>4. mem[x] \in State => t \in State /\ t.steps = mem[x].steps \cup {"reply"}
    BY NewStep DEF Statuses, Steps
  <1> HIDE DEF t
  <1>5. FinalStatus(x) \in Statuses /\ FinalStatus(x)' = FinalStatus(x)
    BY <1>2 DEF FinalStatus, Statuses
  <1>6. t \in State => /\ s \in State /\ s.steps = t.steps \cup {"indexed"}
                       /\ s.status = FinalStatus(x)
    <2> SUFFICES ASSUME t \in State PROVE /\ s \in State /\ s.steps = t.steps \cup {"indexed"}
                                          /\ s.status = FinalStatus(x)
      OBVIOUS
    <2>1. IsFiniteSet(t.steps \cup {"indexed"})
      BY FS_AddElement DEF State
    <2> QED BY <1>5, <2>1 DEF State, Steps
  <1> HIDE DEF s
  <1>7. x \notin late => HandedOver(x)' /\ Told(x)'
    <2> SUFFICES ASSUME x \notin late PROVE HandedOver(x)' /\ Told(x)'
      OBVIOUS
    <2>1. /\ s \in State /\ wrote[x] \subseteq s.steps /\ Behind(x)' \subseteq s.steps
          /\ s.status = FinalStatus(x)'
      BY <1>2, <1>3, <1>4, <1>5, <1>6, OnItsWay DEF Behind
    <2> QED BY <1>2, <1>3, <2>1, Reported DEF Before
  <1> QED BY <1>2, <1>3, <1>7, HandlersStep DEF RunStages, Before, Ended

LEMMA IndexRunState == ASSUME StateInv, NEW x \in Runs, IndexRun(x) PROVE StateInv'
  <1> DEFINE s == AddStep(mem[x], "stored", "completed")
  <1>1. /\ pc[x] = "store"
        /\ UNCHANGED <<work, held, answer, wrote, late, output, published, stamp, ledger>>
        /\ Keep(x, s) /\ pc' = [pc EXCEPT ![x] = "done"]
    BY DEF IndexRun, worker, time
  <1>2. pc'[x] = "done" /\ ledger' = [r \in Runs |-> ledger'[r]] /\ late \subseteq Runs
    BY <1>1 DEF StateInv, Types
  <1>3. mem[x] \in State => /\ s \in State /\ s.steps = mem[x].steps \cup {"stored"}
                            /\ s.status = mem[x].status
    BY NewStep DEF Steps, Statuses
  <1> HIDE DEF s
  <1>4. x \notin late => HandedOver(x)' /\ Told(x)'
    <2> SUFFICES ASSUME x \notin late PROVE HandedOver(x)' /\ Told(x)'
      OBVIOUS
    <2>1. mem[x].status = FinalStatus(x) /\ FinalStatus(x)' = FinalStatus(x)
      BY <1>1 DEF StateInv, Told, Earlier, FinalStatus
    <2>2. /\ s \in State /\ wrote[x] \subseteq s.steps /\ Behind(x)' \subseteq s.steps
          /\ s.status = FinalStatus(x)'
      BY <1>1, <1>2, <1>3, <2>1, OnItsWay DEF Behind
    <2> QED BY <1>1, <1>2, <2>2, Reported DEF Before
  <1> QED BY <1>1, <1>2, <1>4, HandlersStep DEF RunStages, Before, Ended

LEMMA EnqueueState == ASSUME StateInv, NEW x \in Runs, Enqueue(x) PROVE StateInv'
  <1> DEFINE s == OnStep(x, "enqueued", "running")
             blocked == output' = [output EXCEPT ![x] = "blocked"]
                          /\ pc' = [pc EXCEPT ![x] = "publish"]
  <1>1. pc[x] = "enqueue" /\ UNCHANGED <<held, answer, wrote, published, stamp, ledger>>
    BY DEF Enqueue, time
  <1>2. \/ /\ Keep(x, s) /\ work' = [work EXCEPT ![x] = Work] /\ UNCHANGED <<output, late>>
           /\ pc' = [pc EXCEPT ![x] = "waiting"]
        \/ UNCHANGED <<mem, disk, work, late>> /\ blocked
        \/ Keep(x, s) /\ UNCHANGED <<work, late>> /\ blocked
        \/ /\ Keep(x, s) /\ work' = [work EXCEPT ![x] = Work] /\ late' = late \cup {x} /\ blocked
    BY DEF Enqueue
  <1>3. ledger' = [r \in Runs |-> ledger'[r]] /\ late' \subseteq Runs /\ late \subseteq late'
    BY <1>1, <1>2 DEF StateInv, Types
  <1>4. Work \in WorkLeft
    BY DEF WorkLeft
  <1>5. x \notin late => s \in State /\ s.steps = mem[x].steps \cup {"enqueued"}
    <2> SUFFICES ASSUME x \notin late
                 PROVE  s \in State /\ s.steps = mem[x].steps \cup {"enqueued"}
      OBVIOUS
    <2>1. Merge(x) = mem[x] /\ mem[x] \in State
      BY <1>1, OnItsWay, MergeSame
    <2> DEFINE t == [mem[x] EXCEPT !.status = "running"]
    <2>2. t \in State /\ t.steps = mem[x].steps
      BY <2>1 DEF State, Statuses
    <2>3. s = AddStep(t, "enqueued", "running")
      BY <2>1 DEF OnStep
    <2>4. "enqueued" \in Steps /\ "running" \in Statuses
      BY DEF Steps, Statuses
    <2> HIDE DEF s, t
    <2>5. /\ AddStep(t, "enqueued", "running") \in State
          /\ AddStep(t, "enqueued", "running").steps = t.steps \cup {"enqueued"}
      BY <2>2, <2>4, NewStep
    <2> QED BY <2>2, <2>3, <2>5
  <1> HIDE DEF s
  <1>6. CASE /\ Keep(x, s) /\ work' = [work EXCEPT ![x] = Work] /\ UNCHANGED <<output, late>>
             /\ pc' = [pc EXCEPT ![x] = "waiting"]
    <2>1. pc'[x] = "waiting" /\ work'[x] = Work
      BY <1>6 DEF StateInv, Types
    <2>2. x \notin late => HandedOver(x)' /\ Told(x)'
      <3> SUFFICES ASSUME x \notin late PROVE HandedOver(x)' /\ Told(x)'
        OBVIOUS
      <3>1. HandedOver(x) /\ Told(x) /\ pc[x] \in Before
        BY <1>1 DEF StateInv, Before
      <3>2. mem'[x] = s /\ disk'[x] = s
        <4>1. mem = [r \in Runs |-> mem[r]] /\ disk = [r \in Runs |-> disk[r]]
          BY DEF StateInv, Types
        <4> QED BY <1>6, <4>1 DEF Keep
      <3>3. wrote[x] = {} /\ answer[x] = "none" /\ held[x] = <<>>
        BY <1>1, <3>1 DEF HandedOver, Told
      <3>4. HandedOver(x)'
        BY <1>1, <2>1, <3>3 DEF HandedOver, Work, Before
      <3>5. Behind(x)' \subseteq s.steps
        BY <1>1, <1>5, <2>1, OnItsWay DEF Behind
      <3>6. s.steps \cap WorkersSteps = {}
        BY <1>1, <1>5, <3>1 DEF Told, WorkersSteps
      <3>7. Told(x)'
        BY <1>1, <1>5, <2>1, <3>2, <3>3, <3>5, <3>6 DEF Told, Before
      <3> QED BY <3>4, <3>7
    <2> QED BY <1>1, <1>3, <1>4, <1>6, <2>2, HandlersStep DEF RunStages
  <1>7. CASE UNCHANGED <<mem, disk, work, late>> /\ blocked
    <2>1. pc'[x] = "publish"
      BY <1>7 DEF StateInv, Types
    <2>2. x \notin late => HandedOver(x)' /\ Told(x)'
      <3> SUFFICES ASSUME x \notin late PROVE HandedOver(x)' /\ Told(x)'
        OBVIOUS
      <3>1. HandedOver(x) /\ Told(x) /\ pc[x] \in Before
        BY <1>1 DEF StateInv, Before
      <3>2. HandedOver(x)'
        BY <3>1, <1>1, <1>7, <2>1 DEF HandedOver, Before
      <3>3. Behind(x)' = Behind(x) /\ ~Earlier(x)
        BY <1>1, <2>1 DEF Behind, Earlier
      <3>4. Told(x)'
        BY <3>1, <3>3, <1>1, <1>7, <2>1 DEF Told, Before
      <3> QED BY <3>2, <3>4
    <2> QED BY <1>1, <1>3, <1>7, <2>2, HandlersStep DEF RunStages, Outputs
  <1>8. CASE Keep(x, s) /\ UNCHANGED <<work, late>> /\ blocked
    <2>1. pc'[x] = "publish"
      BY <1>8 DEF StateInv, Types
    <2>2. x \notin late => HandedOver(x)' /\ Told(x)'
      <3> SUFFICES ASSUME x \notin late PROVE HandedOver(x)' /\ Told(x)'
        OBVIOUS
      <3>1. s \in State /\ wrote[x] \subseteq s.steps /\ Behind(x)' \subseteq s.steps
        BY <1>1, <1>5, <2>1, OnItsWay DEF Behind
      <3> QED BY <1>1, <1>8, <2>1, <3>1, Reported DEF Before
    <2> QED BY <1>1, <1>3, <1>8, <2>2, HandlersStep DEF RunStages, Outputs
  <1>9. CASE Keep(x, s) /\ work' = [work EXCEPT ![x] = Work] /\ late' = late \cup {x} /\ blocked
    BY <1>1, <1>3, <1>4, <1>9, HandlersStep DEF RunStages, Outputs
  <1> QED BY <1>2, <1>6, <1>7, <1>8, <1>9

(* The answer of a worker that has ended its work.                          *)
LEMMA TakeAnswerState == ASSUME StateInv, NEW x \in Runs, TakeAnswer(x) PROVE StateInv'
  <1> DEFINE s == OnStep(x, "answered", answer[x])
  <1>1. /\ pc[x] = "waiting" /\ answer[x] # "none"
        /\ UNCHANGED <<work, held, answer, wrote, late, published, stamp, ledger>>
        /\ output' = [output EXCEPT ![x] = answer[x]]
        /\ Keep(x, s) /\ pc' = [pc EXCEPT ![x] = "publish"]
    BY DEF TakeAnswer, worker, time
  <1>2. /\ pc'[x] = "publish" /\ ledger' = [r \in Runs |-> ledger'[r]] /\ late \subseteq Runs
        /\ answer[x] \in {"completed", "blocked"}
    BY <1>1 DEF StateInv, Types, Outputs
  <1>3. ASSUME x \notin late
        PROVE  /\ s \in State /\ s.steps = mem[x].steps \cup wrote[x] \cup {"answered"}
               /\ Behind(x) \subseteq mem[x].steps
    <2>1. Told(x)
      BY <1>3 DEF StateInv
    <2>2. /\ mem[x] \in State /\ disk[x] \in State /\ disk[x].steps = mem[x].steps \cup wrote[x]
          /\ mem[x].steps # disk[x].steps /\ Behind(x) \subseteq mem[x].steps
      BY <1>1, <2>1 DEF Told, WorkersSteps, Earlier
    <2>3. Merge(x) = disk[x]
      BY <2>2, MergeMore
    <2>4. s = AddStep(disk[x], "answered", answer[x])
      BY <1>2, <2>3 DEF OnStep
    <2> HIDE DEF s
    <2> QED BY <1>2, <2>2, <2>4, NewStep DEF Steps, Statuses
  <1> HIDE DEF s
  <1>4. ASSUME x \notin late PROVE HandedOver(x)' /\ Told(x)'
    <2>1. HandedOver(x) /\ Told(x)
      BY <1>4 DEF StateInv
    <2>2. mem'[x] = s /\ disk'[x] = s
      <3>1. mem = [r \in Runs |-> mem[r]] /\ disk = [r \in Runs |-> disk[r]]
        BY DEF StateInv, Types
      <3> QED BY <1>1, <3>1 DEF Keep
    <2>3. HandedOver(x)'
      BY <1>1, <1>2, <2>1 DEF HandedOver, Before
    <2>4. Behind(x)' \subseteq s.steps
      BY <1>1, <1>2, <1>3, <1>4 DEF Behind
    <2>5. Told(x)'
      BY <1>1, <1>2, <1>3, <1>4, <2>1, <2>2, <2>4 DEF Told, Before
    <2> QED BY <2>3, <2>5
  <1> QED BY <1>1, <1>2, <1>4, HandlersStep DEF RunStages, Outputs

LEMMA GiveUpState == ASSUME StateInv, NEW x \in Runs, GiveUp(x) PROVE StateInv'
  <1>1. /\ UNCHANGED <<mem, disk, work, held, answer, wrote, published, stamp, ledger>>
        /\ output' = [output EXCEPT ![x] = "blocked"] /\ pc' = [pc EXCEPT ![x] = "publish"]
        /\ late' = late \cup {x}
    BY DEF GiveUp, worker, time, directory
  <1>2. ledger' = [r \in Runs |-> ledger'[r]] /\ late \subseteq Runs
    BY <1>1 DEF StateInv, Types
  <1> QED BY <1>1, <1>2, HandlersStep DEF RunStages, Outputs

(* What is left of the worker's work.                                       *)
LEMMA WorkGoesOn ==
  ASSUME NEW w \in WorkLeft, w # <<>>
  PROVE  /\ Tail(w) \in WorkLeft /\ Head(w) \in {"started", "plan", "ledger", "ended"}
         /\ Head(w) = "ended" => Tail(w) = <<>>
  <1>1. CASE w = <<"ended">>
    <2>1. Tail(w) = <<>> /\ Head(w) = "ended"
      BY <1>1
    <2> QED BY <2>1 DEF WorkLeft
  <1>2. CASE w = <<"ledger", "ended">>
    <2>1. Tail(w) = <<"ended">> /\ Head(w) = "ledger"
      BY <1>2
    <2> QED BY <2>1 DEF WorkLeft
  <1>3. CASE w = <<"plan", "ledger", "ended">>
    <2>1. Tail(w) = <<"ledger", "ended">> /\ Head(w) = "plan"
      BY <1>3
    <2> QED BY <2>1 DEF WorkLeft
  <1>4. CASE w = Work
    <2>1. Tail(w) = <<"plan", "ledger", "ended">> /\ Head(w) = "started"
      BY <1>4 DEF Work
    <2> QED BY <2>1 DEF WorkLeft
  <1> QED BY <1>1, <1>2, <1>3, <1>4 DEF WorkLeft

LEMMA WorkerReadsState == ASSUME StateInv, NEW x \in Runs, WorkerReads(x) PROVE StateInv'
  <1>1. /\ UNCHANGED <<pc, mem, disk, work, answer, wrote, stamp, output, published>>
        /\ UNCHANGED <<late, ledger>> /\ work[x] # <<>>
        /\ held' = [held EXCEPT ![x] = IF Head(work[x]) = "ledger" THEN <<ledger[x]>>
                                       ELSE <<disk[x]>>]
    BY DEF WorkerReads, handler, directory, time
  <1>2. held = [r \in Runs |-> held[r]]
    BY DEF StateInv, Types
  <1>3. /\ held' = [r \in Runs |-> held'[r]] /\ \A r \in Runs \ {x} : held'[r] = held[r]
        /\ Head(work[x]) # "ledger" => held'[x] = <<disk[x]>>
    BY <1>1, <1>2
  <1>4. Types'
    BY <1>1, <1>3 DEF StateInv, Types
  <1>5. \A r \in Runs \ {x} : Standing(r)' = Standing(r)
    BY <1>1, <1>3 DEF Standing
  <1>6. ASSUME x \notin late' PROVE HandedOver(x)' /\ Told(x)'
    <2>1. HandedOver(x) /\ Told(x)
      BY <1>1, <1>6 DEF StateInv
    <2>2. HandedOver(x)'
      BY <1>1, <2>1 DEF HandedOver
    <2>3. Behind(x)' = Behind(x) /\ Earlier(x)' = Earlier(x) /\ FinalStatus(x)' = FinalStatus(x)
      BY <1>1 DEF Behind, Earlier, FinalStatus
    <2>4. Told(x)'
      BY <1>1, <1>3, <2>1, <2>3 DEF Told
    <2> QED BY <2>2, <2>4
  <1> QED BY <1>1, <1>4, <1>5, <1>6, OthersStand

LEMMA WorkerWritesState == ASSUME StateInv, NEW x \in Runs, WorkerWrites(x) PROVE StateInv'
  <1>1. /\ UNCHANGED <<pc, mem, stamp, output, published, late>>
        /\ work[x] # <<>> /\ work' = [work EXCEPT ![x] = Tail(@)]
        /\ held' = [held EXCEPT ![x] = <<>>]
        /\ Head(work[x]) = "plan" \/ held[x] # <<>>
    BY DEF WorkerWrites, handler, time
  <1>2. /\ held = [r \in Runs |-> held[r]] /\ disk = [r \in Runs |-> disk[r]]
        /\ ledger = [r \in Runs |-> ledger[r]]
        /\ work \in [Runs -> WorkLeft] /\ wrote \in [Runs -> SUBSET WorkersSteps]
        /\ answer \in [Runs -> Outputs]
    BY DEF StateInv, Types
  <1>3. /\ held' = [r \in Runs |-> held'[r]] /\ \A r \in Runs \ {x} : held'[r] = held[r]
        /\ held'[x] = <<>> /\ work'[x] = Tail(work[x])
        /\ work' \in [Runs -> WorkLeft] /\ \A r \in Runs \ {x} : work'[r] = work[r]
    BY <1>1, <1>2, WorkGoesOn
  <1>4. \/ /\ UNCHANGED <<disk, answer, wrote>>
           /\ \E l : ledger' = [ledger EXCEPT ![x] = l]
        \/ \E o \in {"completed", "blocked"} :
           /\ Head(work[x]) \in {"started", "ended"} /\ UNCHANGED ledger
           /\ disk' = [disk EXCEPT ![x] = AddStep(Head(held[x]), Head(work[x]),
                                              IF Head(work[x]) = "ended" THEN o ELSE "running")]
           /\ answer' = [answer EXCEPT ![x] = IF Head(work[x]) = "ended" THEN o ELSE @]
           /\ wrote' = [wrote EXCEPT ![x] = @ \cup {Head(work[x])}]
    BY DEF WorkerWrites
  <1>5. CASE /\ UNCHANGED <<disk, answer, wrote>>
             /\ \E l : ledger' = [ledger EXCEPT ![x] = l]
    <2>1. ledger' = [r \in Runs |-> ledger'[r]]
      BY <1>2, <1>5
    <2>2. Types'
      BY <1>1, <1>3, <1>5, <2>1 DEF StateInv, Types
    <2>3. \A r \in Runs \ {x} : Standing(r)' = Standing(r)
      BY <1>1, <1>3, <1>5 DEF Standing
    <2>4. ASSUME x \notin late' PROVE HandedOver(x)' /\ Told(x)'
      <3>1. HandedOver(x) /\ Told(x)
        BY <1>1, <2>4 DEF StateInv
      <3>2. HandedOver(x)'
        BY <1>1, <1>3, <1>5, <3>1 DEF HandedOver
      <3>3. Behind(x)' = Behind(x) /\ Earlier(x)' = Earlier(x) /\ FinalStatus(x)' = FinalStatus(x)
        BY <1>1 DEF Behind, Earlier, FinalStatus
      <3>4. Told(x)'
        BY <1>1, <1>3, <1>5, <3>1, <3>3 DEF Told
      <3> QED BY <3>2, <3>4
    <2> QED BY <1>1, <2>2, <2>3, <2>4, OthersStand
  <1>6. ASSUME NEW o \in {"completed", "blocked"},
           Head(work[x]) \in {"started", "ended"}, UNCHANGED ledger,
           disk' = [disk EXCEPT ![x] = AddStep(Head(held[x]), Head(work[x]),
                                           IF Head(work[x]) = "ended" THEN o ELSE "running")],
           answer' = [answer EXCEPT ![x] = IF Head(work[x]) = "ended" THEN o ELSE @],
           wrote' = [wrote EXCEPT ![x] = @ \cup {Head(work[x])}]
        PROVE  StateInv'
    <2> DEFINE i == IF Head(work[x]) = "ended" THEN o ELSE "running"
               s == AddStep(Head(held[x]), Head(work[x]), i)
    <2>1. /\ disk' = [r \in Runs |-> disk'[r]] /\ \A r \in Runs \ {x} : disk'[r] = disk[r]
          /\ disk'[x] = s
      BY <1>2, <1>6
    <2>2. /\ answer' \in [Runs -> Outputs] /\ \A r \in Runs \ {x} : answer'[r] = answer[r]
          /\ answer'[x] = IF Head(work[x]) = "ended" THEN o ELSE answer[x]
      BY <1>2, <1>6 DEF Outputs
    <2>3. /\ wrote' \in [Runs -> SUBSET WorkersSteps]
          /\ \A r \in Runs \ {x} : wrote'[r] = wrote[r]
          /\ wrote'[x] = wrote[x] \cup {Head(work[x])}
      BY <1>2, <1>6 DEF WorkersSteps
    <2>4. i \in Statuses /\ Head(work[x]) \in Steps
      BY <1>6 DEF Statuses, Steps, WorkersSteps
    <2> HIDE DEF i
    <2>5. Head(held[x]) \in State => /\ s \in State
                                     /\ s.steps = Head(held[x]).steps \cup {Head(work[x])}
      BY <2>4, NewStep
    <2> HIDE DEF s
    <2>6. Types'
      BY <1>1, <1>2, <1>3, <1>6, <2>1, <2>2, <2>3 DEF StateInv, Types
    <2>7. \A r \in Runs \ {x} : Standing(r)' = Standing(r)
      BY <1>1, <1>3, <2>1, <2>2, <2>3 DEF Standing
    <2>8. ASSUME x \notin late' PROVE HandedOver(x)' /\ Told(x)'
      <3>1. HandedOver(x) /\ Told(x)
        BY <1>1, <2>8 DEF StateInv
      <3>2. pc[x] = "waiting" /\ answer[x] = "none" /\ held[x] = <<disk[x]>>
        BY <1>1, <1>6, <3>1 DEF HandedOver, Told
      <3>3. disk[x] \in State /\ disk[x].steps = mem[x].steps \cup wrote[x]
        BY <3>1, <3>2 DEF Told
      <3>4. s \in State /\ s.steps = mem[x].steps \cup wrote'[x]
        BY <2>3, <2>5, <3>2, <3>3
      <3>5. HandedOver(x)'
        <4>1. Head(work[x]) = "ended" => work'[x] = <<>>
          BY <1>1, <1>2, <1>3, WorkGoesOn
        <4> QED BY <1>1, <1>3, <2>2, <3>2, <4>1 DEF HandedOver, Before
      <3>6. Behind(x)' = Behind(x) /\ Earlier(x)' = Earlier(x)
        BY <1>1 DEF Behind, Earlier
      <3>7. answer'[x] # "none" => "ended" \in wrote'[x]
        BY <2>2, <2>3, <3>2
      <3>8. Told(x)'
        BY <1>1, <1>3, <2>1, <3>1, <3>2, <3>4, <3>6, <3>7 DEF Told, Before
      <3> QED BY <3>5, <3>8
    <2> QED BY <1>1, <2>6, <2>7, <2>8, OthersStand
  <1> QED BY <1>4, <1>5, <1>6

LEMMA CrashState == StateInv /\ Crash => StateInv'
  <1> SUFFICES ASSUME StateInv, Crash PROVE StateInv'
    OBVIOUS
  <1>1. /\ UNCHANGED <<mem, disk, work, held, answer, wrote, stamp, output, published, ledger>>
        /\ pc' = [r \in Runs |-> IF Active(r) THEN "lost" ELSE pc[r]]
        /\ late' = late \cup {r \in Runs : Active(r)}
    BY DEF Crash, directory, worker, time
  <1>2. pc' \in [Runs -> RunStages] /\ late' \subseteq Runs
    BY <1>1 DEF StateInv, Types, RunStages, Ended
  <1>3. Types'
    BY <1>1, <1>2 DEF StateInv, Types
  <1>4. ASSUME NEW r \in Runs \ late' PROVE HandedOver(r)' /\ Told(r)'
    <2>1. pc'[r] = pc[r] /\ r \notin late
      BY <1>1
    <2>2. Standing(r)' = Standing(r)
      BY <1>1, <2>1 DEF Standing
    <2> QED BY <2>1, <2>2, Standing1 DEF StateInv
  <1> QED BY <1>3, <1>4 DEF StateInv

LEMMA NextState == StateInv /\ [Next]_vars => StateInv'
  <1> SUFFICES ASSUME StateInv, [Next]_vars PROVE StateInv'
    OBVIOUS
  <1>1. ASSUME NEW x \in Runs, Handle(x) PROVE StateInv'
    <2>1. FetchParent(x) => StateInv'
      BY FetchParentState
    <2>2. LinkFile(x) \/ FetchLinked(x) \/ Search(x) \/ Fetch(x) \/ SearchAgain(x) => StateInv'
      BY DownloadState DEF LinkFile, FetchLinked, Search, Fetch, SearchAgain
    <2>3. Obtained(x) \/ Classify(x) \/ AnswerNow(x) => StateInv'
      BY ObtainedState, ClassifyState, AnswerNowState
    <2>4. RunAgent(x) \/ RunPipeline(x) \/ Enqueue(x) => StateInv'
      BY RunAgentState, RunPipelineState, EnqueueState
    <2>5. TakeAnswer(x) \/ GiveUp(x) \/ Publish(x) \/ Reply(x) \/ IndexRun(x) => StateInv'
      BY TakeAnswerState, GiveUpState, PublishState, ReplyState, IndexRunState
    <2> QED BY <1>1, <2>1, <2>2, <2>3, <2>4, <2>5 DEF Handle
  <1>2. ASSUME NEW x \in Runs, Start(x) \/ Worker(x) PROVE StateInv'
    BY <1>2, StartState, WorkerReadsState, WorkerWritesState DEF Worker
  <1>3. CASE TimePasses
    BY <1>3, Bystanding DEF TimePasses, handler, directory, worker, StateInv, Types
  <1>4. ASSUME NEW q \in Runs, NEW n \in Names, CleanUp(q, n) PROVE StateInv'
    BY <1>4, Bystanding DEF CleanUp, handler, worker, time, StateInv, Types
  <1>5. CASE UNCHANGED vars
    BY <1>5, Bystanding DEF vars, handler, directory, worker, time, StateInv, Types
  <1> QED BY <1>1, <1>2, <1>3, <1>4, <1>5, CrashState DEF Next

(* The state file of a run that ended tells all of it, the worker's steps   *)
(* and the handler's, and how it ended, unless its worker was given up and  *)
(* may still write (addStep, the merge in onStep, writeState).              *)
THEOREM TaskHandlerStateIsComplete == Spec => []StateIsComplete
  <1>1. StateInv => StateIsComplete
    <2> SUFFICES ASSUME StateInv, NEW r \in Runs, pc[r] = "done", stamp[r] > 0, r \notin late
                 PROVE  /\ wrote[r] \cup {"normalized", "obtained", "task", "gate", "published",
                                          "reply"} \subseteq disk[r].steps
                        /\ disk[r].status = FinalStatus(r)
      BY DEF StateIsComplete
    <2>1. Told(r) /\ ~Earlier(r)
      BY DEF StateInv, Earlier
    <2>2. Behind(r) = {"normalized", "obtained", "task", "gate", "published", "reply"}
      BY DEF Behind
    <2> QED BY <2>1, <2>2 DEF Told
  <1> QED BY <1>1, InitState, NextState, PTL DEF Spec

-----------------------------------------------------------------------------
(* Choices. *)

Over == {r \in Runs : pc[r] \in Ended}
Entry(r) == [scope |-> Scope(message[r]), run |-> r]
Indexable == {Entry(r) : r \in Over}
Unanswered(items) == \A i \in DOMAIN items : items[i].by = {}

(* Only what a run that is over offered can be found and answered; the file *)
(* of a run still under way, and the copy its worker is about to write      *)
(* back, hold no answer.                                                    *)
LedgerInv ==
    /\ index \in Seq(Indexable)
    /\ \A q \in Runs \ (late \cup Over) : Unanswered(ledger[q])
    /\ \A q \in Runs \ late : held[q] # <<>> /\ Head(work[q]) = "ledger" => Unanswered(Head(held[q]))

LEMMA SeqOfMore ==
  ASSUME NEW S, NEW T, S \subseteq T, NEW list \in Seq(S)
  PROVE  list \in Seq(T)
  OBVIOUS

LEMMA SetToSeqIs ==
  ASSUME NEW S, IsFiniteSet(S)
  PROVE  SetToSeq(S) \in Seq(S)
  <1> DEFINE n == Cardinality(S)
  <1>1. n \in Nat /\ \E f : f \in Bijection(1..n, S)
    BY FS_CardinalityType DEF ExistsBijection
  <1>2. PICK f : f \in Bijection(1..n, S)
    BY <1>1
  <1>3. f \in [1..n -> S] /\ IsInjective(f)
    BY <1>2 DEF Bijection, Injection, IsInjective
  <1>4. SetToSeq(S) \in [1..n -> S] /\ IsInjective(SetToSeq(S))
    BY <1>3 DEF SetToSeq
  <1> QED BY <1>1, <1>4

LEMMA NewLedgerIs == Unanswered(NewLedger) /\ Unanswered(NoLedger)
  BY DEF Unanswered, NewLedger, NoLedger

(* The run whose offer is open is over.                                     *)
LEMMA PreviousIsOver ==
  ASSUME LedgerInv, NEW x \in Runs
  PROVE  PreviousLedger(x) \subseteq Over
  <1> DEFINE fit == {e \in ToSet(index) : e.scope = Scope(message[x]) /\ ledger[e.run] # NoLedger}
             known == Only(index, fit)
  <1>1. known \in Seq(Indexable)
    BY OnlyInSeq DEF LedgerInv
  <1>2. PreviousLedger(x) = IF known = <<>> THEN {} ELSE {Head(known).run}
    BY DEF PreviousLedger
  <1> HIDE DEF known
  <1>3. known # <<>> => Head(known) \in Indexable
    BY <1>1
  <1>4. known # <<>> => Head(known).run \in Over
    <2> SUFFICES ASSUME known # <<>> PROVE Head(known).run \in Over
      OBVIOUS
    <2>1. PICK r \in Over : Head(known) = Entry(r)
      BY <1>3 DEF Indexable
    <2> QED BY <2>1 DEF Entry
  <1> QED BY <1>2, <1>4

(* It is answered where nobody has answered.                                *)
LEMMA SelectionWaits ==
  ASSUME LedgerInv, NEW x \in Runs, NEW q, NEW i, <<q, i>> \in Selection(x)
  PROVE  q \in Over /\ ledger[q][i].by = {}
  <1> DEFINE p == <<q, i>>
  <1>1. p \in PreviousLedger(x) \X DOMAIN Plan /\ Pending(ledger[p[1]][p[2]])
    BY DEF Selection
  <1>2. p[1] \in PreviousLedger(x) /\ p[1] = q /\ p[2] = i
    BY <1>1
  <1> QED BY <1>1, <1>2, PreviousIsOver DEF Pending

(* Steps that leave the ledgers alone.                                      *)
LEMMA LedgersStay ==
  ASSUME LedgerInv, UNCHANGED <<index, ledger, message>>, late \subseteq late',
         \A q \in Runs \ late' : held'[q] = <<>> \/ (held'[q] = held[q] /\ work'[q] = work[q]),
         \A q \in Runs : pc[q] \in Ended => pc'[q] \in Ended
  PROVE  LedgerInv'
  <1>1. Over \subseteq Over' /\ \A r \in Runs : Entry(r)' = Entry(r)
    BY DEF Over, Entry, Scope
  <1>2. Indexable \subseteq Indexable'
    BY <1>1 DEF Indexable, Over
  <1>3. index' \in Seq(Indexable')
    BY <1>2, SeqOfMore DEF LedgerInv
  <1>4. \A q \in Runs \ (late' \cup Over') : Unanswered(ledger'[q])
    BY <1>1 DEF LedgerInv
  <1>5. \A q \in Runs \ late' : held'[q] # <<>> /\ Head(work'[q]) = "ledger"
                               => Unanswered(Head(held'[q]))
    BY DEF LedgerInv
  <1> QED BY <1>3, <1>4, <1>5 DEF LedgerInv, Unanswered

LEMMA InitLedger == Init => LedgerInv
  <1> SUFFICES ASSUME Init PROVE LedgerInv
    OBVIOUS
  <1> DEFINE old == {r \in Runs : pc[r] = "done"}
             entries == {[scope |-> Scope(message[r]), run |-> r] : r \in old}
  <1>1. index = SetToSeq(entries) /\ held = [r \in Runs |-> <<>>]
    BY Zenon DEF Init
  <1>2. ledger = [r \in Runs |-> IF r \in old THEN NewLedger ELSE NoLedger]
    BY Zenon DEF Init
  <1>3. entries = {Entry(r) : r \in old} /\ old \subseteq Over
    BY DEF Entry, Over, Ended
  <1>4. IsFiniteSet(entries)
    <2>1. IsFiniteSet(old)
      BY FS_Subset, TaskHandlerAssumption
    <2>2. [r \in old |-> Entry(r)] \in Surjection(old, entries)
      BY <1>3 DEF Surjection
    <2> QED BY <2>1, <2>2, FS_Surjection
  <1> HIDE DEF old, entries
  <1>5. index \in Seq(entries) /\ entries \subseteq Indexable
    BY <1>1, <1>3, <1>4, SetToSeqIs DEF Indexable
  <1>6. index \in Seq(Indexable)
    BY <1>5, SeqOfMore
  <1>7. \A q \in Runs : Unanswered(ledger[q]) /\ held[q] = <<>>
    BY <1>1, <1>2, NewLedgerIs
  <1> QED BY <1>6, <1>7 DEF LedgerInv

(* A choice answers what a run that is over offered, and nothing twice.     *)
LEMMA StartLedger ==
  ASSUME StateInv, LedgerInv, NEW x \in Runs, Start(x)
  PROVE  /\ LedgerInv'
         /\ \A q \in Runs : \A i \in DOMAIN ledger[q] :
              ledger[q][i].by # {} => i \in DOMAIN ledger'[q] /\ ledger'[q][i].by = ledger[q][i].by
  <1>1. /\ pc[x] = "new" /\ UNCHANGED <<message, index, late, held, work>>
        /\ ledger' = [q \in Runs |-> [i \in DOMAIN ledger[q] |->
                        IF <<q, i>> \in Selection(x) THEN [ledger[q][i] EXCEPT !.by = {x}]
                        ELSE ledger[q][i]]]
    BY DEF Start, Answer, given, worker
  <1>2. pc' = [pc EXCEPT ![x] = "download"] \/ pc' = [pc EXCEPT ![x] = "parent"]
    BY DEF Start, Accepted
  <1>3. /\ Over' = Over /\ \A r \in Runs : Entry(r)' = Entry(r)
    BY <1>1, <1>2 DEF StateInv, Types, Over, Ended, Entry, Scope
  <1>4. \A q \in Runs : \A i : i \in DOMAIN ledger'[q] <=> i \in DOMAIN ledger[q]
    BY <1>1
  <1>5. ASSUME NEW q \in Runs, NEW i \in DOMAIN ledger[q], q \notin Over \/ ledger[q][i].by # {}
        PROVE  ledger'[q][i] = ledger[q][i]
    <2>1. <<q, i>> \notin Selection(x)
      BY <1>5, SelectionWaits
    <2> QED BY <1>1, <2>1
  <1>6. \A q \in Runs \ (late' \cup Over') : Unanswered(ledger'[q])
    BY <1>1, <1>3, <1>4, <1>5 DEF LedgerInv, Unanswered
  <1>7. Indexable' = Indexable
    BY <1>3 DEF Indexable, Over
  <1>8. LedgerInv'
    BY <1>1, <1>6, <1>7 DEF LedgerInv, Unanswered
  <1> QED BY <1>4, <1>5, <1>8

LEMMA RunPipelineLedger ==
  ASSUME StateInv, LedgerInv, NEW x \in Runs, RunPipeline(x)
  PROVE  /\ LedgerInv' /\ \A q \in Runs \ {x} : ledger'[q] = ledger[q]
         /\ x \notin late => Unanswered(ledger[x])
  <1>1. /\ pc[x] = "pipeline" /\ pc' = [pc EXCEPT ![x] = "publish"]
        /\ UNCHANGED <<message, index, late, held, work>>
        /\ ledger' = [ledger EXCEPT ![x] = NewLedger]
    BY DEF RunPipeline, given, shared, worker
  <1>2. /\ Over' = Over /\ \A r \in Runs : Entry(r)' = Entry(r)
        /\ \A q \in Runs : ledger'[q] = IF q = x THEN NewLedger ELSE ledger[q]
        /\ x \notin Over
    BY <1>1 DEF StateInv, Types, Over, Ended, Entry, Scope
  <1>3. Indexable' = Indexable
    BY <1>2 DEF Indexable, Over
  <1>4. \A q \in Runs \ (late' \cup Over') : Unanswered(ledger'[q])
    BY <1>1, <1>2, NewLedgerIs DEF LedgerInv
  <1>5. LedgerInv'
    BY <1>1, <1>3, <1>4 DEF LedgerInv, Unanswered
  <1> QED BY <1>2, <1>5 DEF LedgerInv

(* A worker works for a run that is under way.                              *)
LEMMA Waits ==
  ASSUME StateInv, LedgerInv, NEW x \in Runs \ late, work[x] # <<>>
  PROVE  x \notin Over /\ Unanswered(ledger[x])
  BY DEF StateInv, HandedOver, Over, Ended, LedgerInv

LEMMA WorkerReadsLedger ==
  ASSUME StateInv, LedgerInv, NEW x \in Runs, WorkerReads(x)
  PROVE  LedgerInv' /\ ledger' = ledger
  <1>1. /\ UNCHANGED <<pc, message, index, late, work, ledger>> /\ work[x] # <<>>
        /\ held' = [held EXCEPT ![x] = IF Head(work[x]) = "ledger" THEN <<ledger[x]>>
                                       ELSE <<disk[x]>>]
    BY DEF WorkerReads, given, handler, shared, directory
  <1>2. /\ Over' = Over /\ Indexable' = Indexable
        /\ \A q \in Runs \ {x} : held'[q] = held[q]
        /\ Head(work[x]) = "ledger" => held'[x] = <<ledger[x]>>
    BY <1>1 DEF StateInv, Types, Over, Indexable, Entry, Scope
  <1>3. x \notin late => Unanswered(ledger[x])
    BY <1>1, Waits
  <1> QED BY <1>1, <1>2, <1>3 DEF LedgerInv, Unanswered

LEMMA WorkerWritesLedger ==
  ASSUME StateInv, LedgerInv, NEW x \in Runs, WorkerWrites(x)
  PROVE  /\ LedgerInv' /\ \A q \in Runs \ {x} : ledger'[q] = ledger[q]
         /\ x \notin late => Unanswered(ledger[x])
  <1>1. /\ UNCHANGED <<pc, message, index, late>> /\ work[x] # <<>>
        /\ work' = [work EXCEPT ![x] = Tail(@)] /\ held' = [held EXCEPT ![x] = <<>>]
        /\ Head(work[x]) = "plan" \/ held[x] # <<>>
        /\ \/ ledger' = [ledger EXCEPT ![x] = NewLedger]
           \/ Head(work[x]) = "ledger" /\ ledger' = [ledger EXCEPT ![x] = Head(held[x])]
           \/ ledger' = ledger
    BY DEF WorkerWrites, given, handler, shared
  <1>2. /\ Over' = Over /\ Indexable' = Indexable /\ held'[x] = <<>>
        /\ \A q \in Runs \ {x} : held'[q] = held[q] /\ work'[q] = work[q] /\ ledger'[q] = ledger[q]
        /\ \/ ledger'[x] = NewLedger
           \/ held[x] # <<>> /\ Head(work[x]) = "ledger" /\ ledger'[x] = Head(held[x])
           \/ ledger'[x] = ledger[x]
    BY <1>1 DEF StateInv, Types, Over, Indexable, Entry, Scope
  <1>3. x \notin late => x \notin Over /\ Unanswered(ledger[x]) /\ Unanswered(ledger'[x])
    BY <1>1, <1>2, Waits, NewLedgerIs DEF LedgerInv
  <1>4. \A q \in Runs \ (late' \cup Over') : Unanswered(ledger'[q])
    BY <1>1, <1>2, <1>3 DEF LedgerInv
  <1>5. LedgerInv'
    BY <1>1, <1>2, <1>4 DEF LedgerInv, Unanswered
  <1> QED BY <1>2, <1>3, <1>5

LEMMA ReplyLedger ==
  ASSUME StateInv, LedgerInv, NEW x \in Runs, Reply(x)
  PROVE  LedgerInv' /\ ledger' = ledger
  <1>1. /\ pc' = [pc EXCEPT ![x] = "store"] /\ index' = Indexed(x)
        /\ UNCHANGED <<message, late, held, work, ledger>>
    BY DEF Reply, given, worker
  <1>2. Over' = Over \cup {x} /\ \A r \in Runs : Entry(r)' = Entry(r)
    BY <1>1 DEF StateInv, Types, Over, Ended, Entry, Scope
  <1>3. Indexable \subseteq Indexable' /\ Entry(x) \in Indexable'
    <2>1. x \in Over'
      BY <1>2
    <2> QED BY <1>2, <2>1 DEF Indexable, Over
  <1>4. index' \in Seq(Indexable')
    <2> DEFINE others == Only(index, {e \in ToSet(index) : e.scope # Scope(message[x]) /\ e.run # x})
    <2>1. Indexed(x) = IF ledger[x] = NoLedger THEN index ELSE <<Entry(x)>> \o others
      BY DEF Indexed, Entry
    <2>2. index \in Seq(Indexable')
      BY <1>3, SeqOfMore DEF LedgerInv
    <2>3. others \in Seq(Indexable')
      BY <2>2, OnlyInSeq
    <2> HIDE DEF others
    <2>4. <<Entry(x)>> \o others \in Seq(Indexable')
      BY <1>3, <2>3
    <2> QED BY <1>1, <2>1, <2>2, <2>4
  <1> QED BY <1>1, <1>2, <1>4 DEF LedgerInv, Unanswered

(* The other steps of the handler.                                          *)
LEMMA HandledLedger ==
  ASSUME StateInv, LedgerInv, NEW x \in Runs, NEW p,
         (pc' = [pc EXCEPT ![x] = p] /\ (pc[x] \in Ended => p \in Ended)) \/ pc' = pc,
         UNCHANGED <<message, index, ledger, held>>, late \subseteq late',
         UNCHANGED work \/ (\E w \in WorkLeft : work' = [work EXCEPT ![x] = w] /\ (x \in late' \/ held[x] = <<>>))
  PROVE  LedgerInv'
  <1>1. \A q \in Runs : pc[q] \in Ended => pc'[q] \in Ended
    BY DEF StateInv, Types
  <1>2. \A q \in Runs \ late' : held'[q] = <<>> \/ (held'[q] = held[q] /\ work'[q] = work[q])
    BY DEF StateInv, Types
  <1> QED BY <1>1, <1>2, LedgersStay

LEMMA HandleLedger ==
  ASSUME StateInv, LedgerInv, NEW x \in Runs, Handle(x)
  PROVE  /\ LedgerInv' /\ \A q \in Runs \ {x} : ledger'[q] = ledger[q]
         /\ x \notin late => ledger'[x] = ledger[x] \/ Unanswered(ledger[x])
  <1>1. FetchParent(x) => LedgerInv' /\ ledger' = ledger
    BY HandledLedger DEF FetchParent, Accepted, given, worker, Ended
  <1>2. Untouched(x) => LedgerInv' /\ ledger' = ledger
    BY HandledLedger DEF Untouched, given, worker
  <1>3. Obtained(x) => LedgerInv' /\ ledger' = ledger
    BY HandledLedger DEF Obtained, given, worker, Ended
  <1>4. Classify(x) => LedgerInv' /\ ledger' = ledger
    BY HandledLedger DEF Classify, given, worker, Ended
  <1>5. AnswerNow(x) => LedgerInv' /\ ledger' = ledger
    BY HandledLedger DEF AnswerNow, given, worker, shared, Ended
  <1>6. ASSUME RunAgent(x) PROVE LedgerInv' /\ ledger' = ledger
    <2>1. /\ pc[x] \notin Ended /\ UNCHANGED <<message, index, ledger, held, work, late>>
          /\ pc' = [pc EXCEPT ![x] = "publish"] \/ pc' = [pc EXCEPT ![x] = "review"]
      BY <1>6 DEF RunAgent, given, worker, shared, Ended
    <2> QED BY <2>1, HandledLedger
  <1>7. ASSUME Enqueue(x) PROVE LedgerInv' /\ ledger' = ledger
    <2>1. /\ pc[x] = "enqueue" /\ UNCHANGED <<message, index, ledger, held>>
          /\ pc' = [pc EXCEPT ![x] = "publish"] \/ pc' = [pc EXCEPT ![x] = "waiting"]
          /\ late \subseteq late'
          /\ UNCHANGED work \/ work' = [work EXCEPT ![x] = Work]
      BY <1>7 DEF Enqueue, given, shared
    <2>2. x \notin late => held[x] = <<>>
      BY <2>1 DEF StateInv, HandedOver
    <2>3. Work \in WorkLeft
      BY DEF WorkLeft
    <2> QED BY <2>1, <2>2, <2>3, HandledLedger DEF Ended
  <1>8. TakeAnswer(x) => LedgerInv' /\ ledger' = ledger
    BY HandledLedger DEF TakeAnswer, given, worker, shared, Ended
  <1>9. GiveUp(x) => LedgerInv' /\ ledger' = ledger
    BY HandledLedger DEF GiveUp, given, worker, shared, directory, Ended
  <1>10. Publish(x) => LedgerInv' /\ ledger' = ledger
    BY HandledLedger DEF Publish, given, worker, shared, Ended
  <1>11. IndexRun(x) => LedgerInv' /\ ledger' = ledger
    BY HandledLedger DEF IndexRun, given, worker, shared, Ended
  <1> QED BY <1>1, <1>2, <1>3, <1>4, <1>5, <1>6, <1>7, <1>8, <1>9, <1>10, <1>11, ReplyLedger,
             RunPipelineLedger
          DEF Handle, LinkFile, FetchLinked, Search, Fetch, SearchAgain

LEMMA NextLedger ==
  StateInv /\ LedgerInv /\ [Next]_vars =>
    /\ LedgerInv'
    /\ \A q \in Runs \ late : \A i \in DOMAIN ledger[q] :
         ledger[q][i].by # {} => i \in DOMAIN ledger'[q] /\ ledger'[q][i].by = ledger[q][i].by
  <1> SUFFICES ASSUME StateInv, LedgerInv, [Next]_vars
               PROVE  /\ LedgerInv'
                      /\ \A q \in Runs \ late : \A i \in DOMAIN ledger[q] :
                           ledger[q][i].by # {} =>
                             i \in DOMAIN ledger'[q] /\ ledger'[q][i].by = ledger[q][i].by
    OBVIOUS
  <1>1. ASSUME NEW x \in Runs, Handle(x) \/ Worker(x)
        PROVE  /\ LedgerInv' /\ \A q \in Runs \ {x} : ledger'[q] = ledger[q]
               /\ x \notin late => ledger'[x] = ledger[x] \/ Unanswered(ledger[x])
    <2>1. WorkerReads(x) => LedgerInv' /\ ledger' = ledger
      BY WorkerReadsLedger
    <2>2. WorkerWrites(x) => /\ LedgerInv' /\ \A q \in Runs \ {x} : ledger'[q] = ledger[q]
                             /\ x \notin late => Unanswered(ledger[x])
      BY WorkerWritesLedger
    <2> QED BY <1>1, <2>1, <2>2, HandleLedger DEF Worker
  <1>2. ASSUME NEW x \in Runs, Handle(x) \/ Worker(x)
        PROVE  /\ LedgerInv'
               /\ \A q \in Runs \ late : \A i \in DOMAIN ledger[q] :
                    ledger[q][i].by # {} =>
                      i \in DOMAIN ledger'[q] /\ ledger'[q][i].by = ledger[q][i].by
    BY <1>1, <1>2 DEF Unanswered
  <1>3. ASSUME Crash \/ TimePasses \/ UNCHANGED vars \/ \E q \in Runs, n \in Names : CleanUp(q, n)
        PROVE  LedgerInv' /\ ledger' = ledger
    <2>1. /\ UNCHANGED <<message, index, ledger, held, work>> /\ late \subseteq late'
          /\ pc' = [r \in Runs |-> IF Active(r) THEN "lost" ELSE pc[r]] \/ pc' = pc
      BY <1>3 DEF Crash, TimePasses, CleanUp, vars, given, handler, shared, directory, worker
    <2>2. \A q \in Runs : pc[q] \in Ended => pc'[q] \in Ended
      BY <2>1 DEF Ended
    <2> QED BY <2>1, <2>2, LedgersStay
  <1> QED BY <1>2, <1>3, StartLedger DEF Next

(* What a message chose stays chosen: no later message, no pipeline and no  *)
(* worker that is still at it takes the answer back                         *)
(* (resolveLedgerSelection, the worker's planner-envelope.json).            *)
THEOREM TaskHandlerAnswersStay == Spec => AnswersStay
  <1> DEFINE Stays == \A q \in Runs \ late : \A i \in DOMAIN ledger[q] :
                        ledger[q][i].by # {} =>
                          i \in DOMAIN ledger'[q] /\ ledger'[q][i].by = ledger[q][i].by
  <1>1. StateInv /\ LedgerInv /\ [Next]_vars => LedgerInv' /\ Stays
    BY NextLedger
  <1>2. Stays => [Stays]_vars
    OBVIOUS
  <1> QED BY <1>1, <1>2, InitState, InitLedger, NextState, PTL DEF Spec, AnswersStay

-----------------------------------------------------------------------------
(* Files. *)

(* What an attachment can be: one of those the messages bring, with no file *)
(* or the file of its name in some run's directory.                         *)
Attachment ==
    [file : File, src : Nat, linked : BOOLEAN, path : {NoPath} \cup (Runs \X Names),
     status : {"new", "ready", "failed", "skipped"}]
Ident(a) == [file |-> a.file, src |-> a.src, linked |-> a.linked]
Known == {a \in Attachment : /\ Ident(a) \in AllBrought
                             /\ a.path # NoPath => a.path[2] = a.file.name}
(* What a run has obtained is in its own directory.                         *)
Resolutions(r) == {a \in Known : a.status = "ready" => a.path = <<r, a.file.name>>}
EntriesUpTo(n) ==
    [id : Nat, chat : Nat, sender : Nat, thread : Nat, at : 0..n, atts : Seq(Known)]

FileTypes ==
    /\ message \in [Runs -> Message] /\ pc \in [Runs -> RunStages]
    /\ clock \in Nat /\ stamp \in [Runs -> 0..clock]
    /\ task \subseteq Runs /\ stored \subseteq Runs
    /\ atts \in [Runs -> Seq(Known)]
    /\ results \in [Runs -> Seq(Known)] /\ \A r \in Runs : results[r] \in Seq(Resolutions(r))
    /\ cache \in Seq(EntriesUpTo(clock))
    /\ files \in [Runs -> [Names -> Int]] /\ try \in [Runs -> (1..3) \X Nat]

(* A file that cannot be mistaken is nowhere under another's name.          *)
InItsPlace ==
    \A b \in AllBrought : ToldApart(b.file.key) =>
        \A q \in Runs : files[q][b.file.name] \in {0, Remnant, b.file.key}

(* Audio that was obtained is not what a failed download left, and as long  *)
(* as the run goes on it is there; so it is never downloaded a second time  *)
(* over the file that is in use.                                            *)
Firm(a) == a.status = "ready" /\ a.file.kind = "audio" /\ ToldApart(a.file.key)
Firmly(r) ==
    /\ \A a \in ToSet(results[r]) : Firm(a) =>
          At(a.path) # Remnant /\ (pc[r] \notin {"done", "lost"} => At(a.path) # 0)
    /\ pc[r] \in {"new", "parent"} => try[r] = <<1, 0>>
    /\ Downloading(r) /\ try[r] # <<1, 0>> =>
          /\ ~Current(r).linked
          /\ \A a \in ToSet(results[r]) : Firm(a) => a.file.name # Current(r).file.name

FileInv == FileTypes /\ InItsPlace /\ \A r \in Runs : Firmly(r)

LEMMA SameMessages ==
  ASSUME message' = message
  PROVE  /\ AllBrought' = AllBrought /\ Known' = Known
         /\ \A key : ToldApart(key)' <=> ToldApart(key)
         /\ \A r : Resolutions(r)' = Resolutions(r)
         /\ \A n : EntriesUpTo(n)' = EntriesUpTo(n)
         /\ \A a : Firm(a)' <=> Firm(a)
  <1>1. AllBrought' = AllBrought
    BY DEF AllBrought
  <1>2. \A key : ToldApart(key)' <=> ToldApart(key)
    BY <1>1 DEF ToldApart
  <1>3. Known' = Known
    BY <1>1 DEF Known
  <1>4. (\A r : Resolutions(r)' = Resolutions(r)) /\ (\A n : EntriesUpTo(n)' = EntriesUpTo(n))
    BY <1>3 DEF Resolutions, EntriesUpTo
  <1>5. \A a : Firm(a)' <=> Firm(a)
    BY <1>2 DEF Firm
  <1> QED BY <1>1, <1>2, <1>3, <1>4, <1>5

LEMMA OwnKnown ==
  ASSUME message \in [Runs -> Message], NEW x \in Runs, NEW f \in ToSet(message[x].files)
  PROVE  /\ Own(message[x], f) \in Known
         /\ Fetched(x, message[x], f) \in Resolutions(x)
  <1> DEFINE m == message[x]
             i == [file |-> f, src |-> m.id, linked |-> FALSE]
  <1>1. m \in Message
    OBVIOUS
  <1>2. f \in File /\ m.id \in Nat
    BY <1>1, ToSetOfSeq DEF Message
  <1>3. i \in AllBrought
    <2>1. i \in Brought(m)
      BY DEF Brought
    <2> QED BY <2>1 DEF AllBrought
  <1>4. /\ Ident(Own(m, f)) = i /\ Own(m, f) \in Attachment /\ Own(m, f).path = NoPath
        /\ Own(m, f).status = "new"
    BY <1>2 DEF Own, Ident, Attachment
  <1>5. /\ Ident(Fetched(x, m, f)) = i /\ Fetched(x, m, f) \in Attachment
        /\ Fetched(x, m, f).path = <<x, f.name>> /\ Fetched(x, m, f).file = f
    BY <1>2 DEF Own, Fetched, Ident, Attachment, File
  <1> HIDE DEF i, m
  <1>6. Own(m, f) \in Known
    BY <1>3, <1>4 DEF Known
  <1>7. Fetched(x, m, f) \in Known
    <2>1. <<x, f.name>>[2] = f.name
      OBVIOUS
    <2> QED BY <1>3, <1>5, <2>1 DEF Known
  <1> QED BY <1>5, <1>6, <1>7 DEF Resolutions, m

LEMMA LinkedKnown ==
  ASSUME FileTypes, NEW x \in Runs, NEW f \in ToSet(message[x].linked)
  PROVE  Linked(message[x], f) \in Known
  <1> DEFINE m == message[x]
             i == [file |-> f, src |-> m.id, linked |-> TRUE]
  <1>1. m \in Message
    BY DEF FileTypes
  <1>2. f \in File /\ m.id \in Nat
    BY <1>1, ToSetOfSeq DEF Message
  <1>3. i \in AllBrought
    <2>1. i \in Brought(m)
      BY DEF Brought
    <2> QED BY <2>1 DEF AllBrought
  <1>4. /\ Ident(Linked(m, f)) = i /\ Linked(m, f) \in Attachment /\ Linked(m, f).path = NoPath
    BY <1>2 DEF Own, Linked, Ident, Attachment
  <1> HIDE DEF i, m
  <1>5. Linked(m, f) \in Known
    BY <1>3, <1>4 DEF Known
  <1> QED BY <1>5 DEF m

LEMMA AboveKnown ==
  ASSUME FileTypes, NEW x \in Runs,
         NEW f \in ToSet(message[x].embedded) \cup ToSet(message[x].parents)
  PROVE  Above(message[x], f) \in Known
  <1> DEFINE m == message[x]
             i == [file |-> f.file, src |-> f.src, linked |-> FALSE]
  <1>1. m \in Message
    BY DEF FileTypes
  <1>2. f \in [file : File, src : Nat]
    <2>1. ToSet(m.embedded) \subseteq [file : File, src : Nat]
      BY <1>1, ToSetOfSeq DEF Message
    <2>2. ToSet(m.parents) \subseteq [file : File, src : Nat]
      BY <1>1, ToSetOfSeq DEF Message
    <2> QED BY <2>1, <2>2
  <1>3. i \in AllBrought
    <2>1. i \in Brought(m)
      BY DEF Brought
    <2> QED BY <2>1 DEF AllBrought
  <1>4. /\ Ident(Above(m, f)) = i /\ Above(m, f) \in Attachment /\ Above(m, f).path = NoPath
    BY <1>2 DEF Own, Above, Ident, Attachment
  <1> HIDE DEF i, m
  <1>5. Above(m, f) \in Known
    BY <1>3, <1>4 DEF Known
  <1> QED BY <1>5 DEF m

(* What a run starts with. *)
LEMMA SentKnown ==
  ASSUME FileTypes, NEW x \in Runs
  PROVE  /\ Sent(message[x]) \in Seq(Known)
         /\ [i \in DOMAIN message[x].embedded |-> Above(message[x], message[x].embedded[i])]
               \in Seq(Known)
         /\ [i \in DOMAIN message[x].parents |-> Above(message[x], message[x].parents[i])]
               \in Seq(Known)
  <1> DEFINE m == message[x]
  <1>1. m \in Message
    BY DEF FileTypes
  <1>2. /\ m.files \in Seq(File) /\ m.linked \in Seq(File)
        /\ m.embedded \in Seq([file : File, src : Nat]) /\ m.parents \in Seq([file : File, src : Nat])
    BY <1>1 DEF Message
  <1> HIDE DEF m
  <1>3. [i \in DOMAIN m.files |-> Own(m, m.files[i])] \in Seq(Known)
    <2>1. \A i \in DOMAIN m.files : Own(m, m.files[i]) \in Known
      BY OwnKnown DEF ToSet, m, FileTypes
    <2>2. Len(m.files) \in Nat /\ DOMAIN m.files = 1..Len(m.files)
      BY <1>2
    <2> QED BY <2>1, <2>2
  <1>4. [i \in DOMAIN m.linked |-> Linked(m, m.linked[i])] \in Seq(Known)
    <2>1. \A i \in DOMAIN m.linked : Linked(m, m.linked[i]) \in Known
      BY LinkedKnown DEF ToSet, m
    <2>2. Len(m.linked) \in Nat /\ DOMAIN m.linked = 1..Len(m.linked)
      BY <1>2
    <2> QED BY <2>1, <2>2
  <1>5. Sent(m) \in Seq(Known)
    BY <1>3, <1>4 DEF Sent
  <1>6. [i \in DOMAIN m.embedded |-> Above(m, m.embedded[i])] \in Seq(Known)
    <2>1. \A i \in DOMAIN m.embedded : Above(m, m.embedded[i]) \in Known
      BY AboveKnown DEF ToSet, m
    <2>2. Len(m.embedded) \in Nat /\ DOMAIN m.embedded = 1..Len(m.embedded)
      BY <1>2
    <2> QED BY <2>1, <2>2
  <1>7. [i \in DOMAIN m.parents |-> Above(m, m.parents[i])] \in Seq(Known)
    <2>1. \A i \in DOMAIN m.parents : Above(m, m.parents[i]) \in Known
      BY AboveKnown DEF ToSet, m
    <2>2. Len(m.parents) \in Nat /\ DOMAIN m.parents = 1..Len(m.parents)
      BY <1>2
    <2> QED BY <2>1, <2>2
  <1> QED BY <1>5, <1>6, <1>7 DEF m

(* What the cache knows of a message. *)
LEMMA CachedKnown ==
  ASSUME FileTypes, NEW x \in Runs
  PROVE  Cached(x) \in Seq(Known)
  <1> DEFINE m == message[x]
             fits == {e \in ToSet(cache) :
                         /\ e.chat = m.chat /\ e.sender = m.sender
                         /\ e.at > cutoff
                         /\ m.thread = 0 \/ e.thread = 0 \/ e.thread = m.thread
                         /\ e.atts # <<>>}
             newest == CHOOSE e \in fits : \A d \in fits : d.at <= e.at
  <1>1. Cached(x) = IF fits = {} THEN <<>> ELSE newest.atts
    BY Zenon DEF Cached
  <1>2. fits \subseteq EntriesUpTo(clock) /\ clock \in Nat
    BY ToSetOfSeq DEF FileTypes
  <1> HIDE DEF fits
  <1>3. ASSUME fits # {} PROVE \E e \in fits : \A d \in fits : d.at <= e.at
    <2> DEFINE since == {clock - e.at : e \in fits}
    <2>1. since \subseteq Nat /\ since # {}
      <3>1. \A c \in EntriesUpTo(clock) : c.at \in 0..clock
        BY DEF EntriesUpTo
      <3>2. \A e \in fits : clock - e.at \in Nat
        BY <1>2, <3>1
      <3> QED BY <1>3, <3>2
    <2>2. PICK n \in since : \A k \in since : n <= k
      BY <2>1, Least
    <2>3. PICK e \in fits : n = clock - e.at
      BY <2>2
    <2>4. ASSUME NEW d \in fits PROVE d.at <= e.at
      <3>1. clock - e.at <= clock - d.at
        BY <2>2, <2>3
      <3>2. \A c \in EntriesUpTo(clock) : c.at \in 0..clock
        BY DEF EntriesUpTo
      <3>3. d \in EntriesUpTo(clock) /\ e \in EntriesUpTo(clock)
        BY <1>2
      <3>4. d.at \in 0..clock /\ e.at \in 0..clock
        BY <3>2, <3>3
      <3> QED BY <1>2, <3>1, <3>4
    <2> QED BY <2>4
  <1>4. fits # {} => newest \in EntriesUpTo(clock)
    BY <1>2, <1>3
  <1> HIDE DEF newest
  <1> QED BY <1>1, <1>4 DEF EntriesUpTo

LEMMA SubSeqIn ==
  ASSUME NEW S, NEW list \in Seq(S), NEW i \in Nat \ {0}
  PROVE  SubSeq(list, i, Len(list)) \in Seq(S)
  OBVIOUS

LEMMA RememberKnown ==
  ASSUME FileTypes, NEW x \in Runs, NEW n \in Nat, clock <= n, NEW when \in 0..n,
         NEW all \in Seq(Known)
  PROVE  Remember(x, when, all) \in Seq(EntriesUpTo(n))
  <1> DEFINE as == Only(all, {a \in ToSet(all) : ~a.linked \/ a.path # NoPath})
             e0 == CacheEntry(message[x], when, as)
             rest == Only(cache, {e \in ToSet(cache) : e.id # message[x].id})
             fresh == Append(rest, e0)
             young == Only(fresh, {e \in ToSet(fresh) : e.at > cutoff})
             k == IF Len(young) > CacheSize THEN Len(young) - CacheSize ELSE 0
  <1>1. Remember(x, when, all) = IF as = <<>> THEN cache ELSE SubSeq(young, 1 + k, Len(young))
    BY Zenon DEF Remember
  <1>2. EntriesUpTo(clock) \subseteq EntriesUpTo(n)
    BY DEF EntriesUpTo, FileTypes
  <1>3. cache \in Seq(EntriesUpTo(n))
    BY <1>2, SeqOfMore DEF FileTypes
  <1>4. e0 \in EntriesUpTo(n)
    <2>1. as \in Seq(Known)
      BY OnlyInSeq
    <2>2. message[x] \in Message
      BY DEF FileTypes
    <2> HIDE DEF as
    <2> QED BY <2>1, <2>2 DEF CacheEntry, EntriesUpTo, Message
  <1>5. rest \in Seq(EntriesUpTo(n))
    BY <1>3, OnlyInSeq
  <1> HIDE DEF e0, rest, as
  <1>6. fresh \in Seq(EntriesUpTo(n))
    BY <1>4, <1>5
  <1> HIDE DEF fresh
  <1>7. young \in Seq(EntriesUpTo(n))
    BY <1>6, OnlyInSeq
  <1> HIDE DEF young
  <1>8. 1 + k \in Nat \ {0}
    BY <1>7, TaskHandlerAssumption
  <1> HIDE DEF k
  <1>9. SubSeq(young, 1 + k, Len(young)) \in Seq(EntriesUpTo(n))
    BY <1>7, <1>8, SubSeqIn
  <1> QED BY <1>1, <1>3, <1>9

LEMMA DownloadsKnown ==
  ASSUME NEW as \in Seq(Known)
  PROVE  RememberedDownloads(as) \in Seq(Known)
  <1> DEFINE obtained == {a \in ToSet(as) : Reusable(a)}
             failed == Only(as, {a \in ToSet(as) : Failed(a)})
             bare == [i \in DOMAIN failed |-> [failed[i] EXCEPT !.path = NoPath]]
  <1>1. RememberedDownloads(as) = IF obtained # {} THEN Only(as, obtained) ELSE bare
    BY Zenon DEF RememberedDownloads
  <1>2. Only(as, obtained) \in Seq(Known)
    BY OnlyInSeq
  <1>3. failed \in Seq(Known)
    BY OnlyInSeq
  <1> HIDE DEF obtained, failed
  <1>4. ASSUME NEW a \in Known PROVE [a EXCEPT !.path = NoPath] \in Known
    <2> DEFINE b == [a EXCEPT !.path = NoPath]
    <2>1. b \in Attachment /\ b.path = NoPath /\ Ident(b) = Ident(a)
      BY DEF Known, Attachment, Ident
    <2> QED BY <2>1 DEF Known
  <1>5. \A i \in DOMAIN failed : failed[i] \in Known
    BY <1>3
  <1>6. bare \in Seq(Known)
    BY <1>3, <1>4, <1>5
  <1> QED BY <1>1, <1>2, <1>6

LEMMA NoneOf == ToSet(<<>>) = {}
  <1>1. DOMAIN <<>> = {}
    OBVIOUS
  <1> QED BY <1>1 DEF ToSet

LEMMA InitFiles == Init => FileInv
  <1> SUFFICES ASSUME Init PROVE FileInv
    OBVIOUS
  <1> DEFINE old == {r \in Runs : pc[r] = "done"}
             ready(r) == [i \in DOMAIN message[r].files |->
                             Fetched(r, message[r], message[r].files[i])]
             named(r, n) == CHOOSE a \in ToSet(results[r]) : a.file.name = n
  <1>1. message \in [Runs -> Message] /\ pc \in [Runs -> {"new", "done"}]
    <2>1. PICK x \in Scenarios : /\ message = x.message
                                 /\ pc = [r \in Runs |-> IF r \in x.earlier THEN "done" ELSE "new"]
      BY DEF Init
    <2> QED BY <2>1, TaskHandlerAssumption
  <1>2. results = [r \in Runs |-> IF r \in old THEN ready(r) ELSE <<>>]
    BY Zenon DEF Init
  <1>3. files = [r \in Runs |-> [n \in Names |->
                   IF r \in old /\ \E a \in ToSet(results[r]) : a.file.name = n
                     THEN named(r, n).file.key ELSE 0]]
    BY Zenon DEF Init
  <1>4. /\ task = old /\ stored = {} /\ try = [r \in Runs |-> <<1, 0>>] /\ cache = <<>>
        /\ clock = 0 /\ stamp = [r \in Runs |-> 0] /\ atts = [r \in Runs |-> <<>>]
    BY Zenon DEF Init
  <1>5. ASSUME NEW r \in Runs
        PROVE  results[r] \in Seq(Resolutions(r)) /\ results[r] \in Seq(Known)
    <2>1. message[r].files \in Seq(File)
      BY <1>1 DEF Message
    <2>2. \A i \in DOMAIN message[r].files :
             Fetched(r, message[r], message[r].files[i]) \in Resolutions(r)
      BY <1>1, OwnKnown DEF ToSet
    <2>3. ready(r) \in Seq(Resolutions(r))
      BY <2>1, <2>2
    <2>4. <<>> \in Seq(Resolutions(r))
      OBVIOUS
    <2>5. results[r] \in Seq(Resolutions(r))
      BY <1>2, <2>3, <2>4
    <2>6. Resolutions(r) \subseteq Known
      BY DEF Resolutions
    <2> QED BY <2>5, <2>6, SeqOfMore
  <1>6. ASSUME NEW r \in Runs, NEW a \in ToSet(results[r])
        PROVE  a \in Resolutions(r) /\ a \in Known /\ a.file.name \in Names /\ a.file.key \in Nat \ {0}
    <2>1. a \in Resolutions(r)
      BY <1>5, ToSetOfSeq
    <2> QED BY <2>1 DEF Resolutions, Known, Attachment, File
  <1>7. ASSUME NEW r \in Runs, NEW n \in Names
        PROVE  \/ files[r][n] = 0 /\ ~ \E a \in ToSet(results[r]) : a.file.name = n
               \/ \E a \in ToSet(results[r]) : a.file.name = n /\ files[r][n] = a.file.key
    <2>1. (\E a \in ToSet(results[r]) : a.file.name = n)
             => named(r, n) \in ToSet(results[r]) /\ named(r, n).file.name = n
      OBVIOUS
    <2>2. files[r][n] = IF r \in old /\ \E a \in ToSet(results[r]) : a.file.name = n
                          THEN named(r, n).file.key ELSE 0
      BY <1>3
    <2>3. r \notin old => ToSet(results[r]) = {}
      BY <1>2, NoneOf
    <2> HIDE DEF named, old
    <2> QED BY <2>1, <2>2, <2>3
  <1>8. files \in [Runs -> [Names -> Int]]
    <2>1. \A r \in Runs : \A n \in Names : files[r][n] \in Int
      BY <1>6, <1>7
    <2>2. files = [r \in Runs |-> [n \in Names |-> files[r][n]]]
      <3> DEFINE g(r, n) == IF r \in old /\ \E a \in ToSet(results[r]) : a.file.name = n
                              THEN named(r, n).file.key ELSE 0
      <3>1. files = [r \in Runs |-> [n \in Names |-> g(r, n)]]
        BY <1>3
      <3> HIDE DEF g
      <3> QED BY <3>1
    <2> QED BY <2>1, <2>2
  <1>9. FileTypes
    <2>1. results = [r \in Runs |-> results[r]]
      BY <1>2
    <2>2. results \in [Runs -> Seq(Known)] /\ \A r \in Runs : results[r] \in Seq(Resolutions(r))
      BY <1>5, <2>1
    <2>3. pc \in [Runs -> RunStages]
      BY <1>1 DEF RunStages, Before, Ended
    <2>4. /\ clock \in Nat /\ stamp \in [Runs -> 0..clock] /\ atts \in [Runs -> Seq(Known)]
          /\ cache \in Seq(EntriesUpTo(clock)) /\ try \in [Runs -> (1..3) \X Nat]
      BY <1>4
    <2> QED BY <1>1, <1>4, <1>8, <2>2, <2>3, <2>4 DEF FileTypes
  <1>10. ASSUME NEW b \in AllBrought, ToldApart(b.file.key), NEW q \in Runs
         PROVE  files[q][b.file.name] \in {0, Remnant, b.file.key}
    <2>1. b.file.name \in Names => \/ files[q][b.file.name] = 0
                                   \/ \E a \in ToSet(results[q]) :
                                        /\ a.file.name = b.file.name
                                        /\ files[q][b.file.name] = a.file.key
      BY <1>7
    <2>2. b.file.name \in Names
      <3>1. PICK r \in Runs : b \in Brought(message[r])
        BY DEF AllBrought
      <3> DEFINE m == message[r]
      <3>2. /\ m.files \in Seq(File) /\ m.linked \in Seq(File)
            /\ m.embedded \in Seq([file : File, src : Nat])
            /\ m.parents \in Seq([file : File, src : Nat])
        BY <1>1 DEF Message
      <3>3. /\ ToSet(m.files) \subseteq File /\ ToSet(m.linked) \subseteq File
            /\ ToSet(m.embedded) \subseteq [file : File, src : Nat]
            /\ ToSet(m.parents) \subseteq [file : File, src : Nat]
        BY <3>2, ToSetOfSeq
      <3>4. b.file \in File
        BY <3>1, <3>3 DEF Brought
      <3> QED BY <3>4 DEF File
    <2>3. \A a \in ToSet(results[q]) : a.file.name = b.file.name => a.file.key = b.file.key
      <3> TAKE a \in ToSet(results[q])
      <3>1. Ident(a) \in AllBrought /\ Ident(a).file = a.file
        BY <1>6 DEF Known, Ident
      <3> QED BY <1>10, <3>1 DEF ToldApart
    <2> QED BY <2>1, <2>2, <2>3
  <1>11. ASSUME NEW r \in Runs PROVE Firmly(r)
    <2>1. ASSUME NEW a \in ToSet(results[r]), Firm(a) PROVE At(a.path) # Remnant
      <3>1. a.path = <<r, a.file.name>> /\ a.file.name \in Names
        BY <1>6, <2>1 DEF Resolutions, Firm
      <3>2. At(a.path) = files[r][a.file.name]
        BY <3>1 DEF At
      <3>3. files[r][a.file.name] = 0 \/ \E c \in ToSet(results[r]) : files[r][a.file.name] = c.file.key
        BY <1>7, <3>1
      <3> QED BY <1>6, <3>2, <3>3 DEF Remnant
    <2>2. r \notin old => ToSet(results[r]) = {}
      BY <1>2, NoneOf
    <2>3. pc[r] \in {"new", "done"} /\ try[r] = <<1, 0>>
      BY <1>1, <1>4
    <2> QED BY <2>1, <2>2, <2>3 DEF Firmly, Downloading
  <1> QED BY <1>9, <1>10, <1>11 DEF FileInv, InItsPlace

(* Steps that leave the files, and what of them was obtained, alone.        *)
LEMMA Elsewhere ==
  ASSUME FileInv, FileTypes', UNCHANGED <<message, files, results, try>>,
         \A r \in Runs : \/ pc'[r] = pc[r] /\ atts'[r] = atts[r]
                         \/ try[r] = <<1, 0>> /\ pc[r] \notin {"done", "lost"}
                         \/ /\ pc'[r] \notin {"new", "parent", "download"}
                            /\ pc'[r] \notin {"done", "lost"} => pc[r] \notin {"done", "lost"}
  PROVE  FileInv'
  <1>1. /\ AllBrought' = AllBrought /\ \A key : ToldApart(key)' <=> ToldApart(key)
        /\ \A a : Firm(a)' <=> Firm(a)
    BY SameMessages
  <1>2. InItsPlace'
    BY <1>1 DEF FileInv, InItsPlace
  <1>3. ASSUME NEW r \in Runs PROVE Firmly(r)'
    <2>1. Firmly(r)
      BY DEF FileInv
    <2>2. CASE pc'[r] = pc[r] /\ atts'[r] = atts[r]
      BY <1>1, <2>1, <2>2 DEF Firmly, Downloading, Reached, Current, At
    <2>3. CASE try[r] = <<1, 0>> /\ pc[r] \notin {"done", "lost"}
      BY <1>1, <2>1, <2>3 DEF Firmly, At
    <2>4. CASE /\ pc'[r] \notin {"new", "parent", "download"}
               /\ pc'[r] \notin {"done", "lost"} => pc[r] \notin {"done", "lost"}
      BY <1>1, <2>1, <2>4 DEF Firmly, Downloading, At
    <2> QED BY <2>2, <2>3, <2>4
  <1> QED BY <1>2, <1>3 DEF FileInv

(* What is typed stays so.                                                  *)
LEMMA FileTypesStay ==
  ASSUME FileTypes, UNCHANGED <<message, files, results, try>>,
         clock' \in Nat, clock <= clock', stamp' \in [Runs -> 0..clock'],
         task' \subseteq Runs, stored' \subseteq Runs, pc' \in [Runs -> RunStages],
         atts' \in [Runs -> Seq(Known)], cache' \in Seq(EntriesUpTo(clock'))
  PROVE  FileTypes'
  BY SameMessages DEF FileTypes

LEMMA StartFiles ==
  ASSUME FileInv, NEW x \in Runs, Start(x) PROVE FileInv'
  <1> DEFINE m == message[x]
             above == [i \in DOMAIN m.embedded |-> Above(m, m.embedded[i])]
  <1>1. /\ pc[x] = "new" /\ clock' = clock + 1 /\ stamp' = [stamp EXCEPT ![x] = clock + 1]
        /\ UNCHANGED <<message, files, results, try, task, stored>>
        /\ \/ \E as \in {Sent(m), above, Cached(x)} : Accepted(x, clock + 1, as)
           \/ pc' = [pc EXCEPT ![x] = "parent"] /\ UNCHANGED <<atts, cache>>
    BY DEF Start, given
  <1>2. FileTypes
    BY DEF FileInv
  <1>3. Sent(m) \in Seq(Known) /\ above \in Seq(Known) /\ Cached(x) \in Seq(Known)
    BY <1>2, SentKnown, CachedKnown
  <1>4. clock' \in Nat /\ clock <= clock' /\ clock + 1 \in 0..clock' /\ clock' = clock + 1
    BY <1>1, <1>2 DEF FileTypes
  <1>5. stamp' \in [Runs -> 0..clock']
    BY <1>1, <1>2, <1>4 DEF FileTypes
  <1>6. /\ pc' \in [Runs -> RunStages] /\ atts' \in [Runs -> Seq(Known)]
        /\ cache' \in Seq(EntriesUpTo(clock'))
        /\ \A r \in Runs \ {x} : pc'[r] = pc[r] /\ atts'[r] = atts[r]
    <2>1. CASE \E as \in {Sent(m), above, Cached(x)} : Accepted(x, clock + 1, as)
      <3>1. PICK as \in Seq(Known) : Accepted(x, clock + 1, as)
        BY <1>3, <2>1
      <3>2. /\ atts' = [atts EXCEPT ![x] = as] /\ cache' = Remember(x, clock + 1, as)
            /\ pc' = [pc EXCEPT ![x] = "download"]
        BY <3>1 DEF Accepted
      <3>3. cache' \in Seq(EntriesUpTo(clock'))
        BY <1>2, <1>4, <3>2, RememberKnown
      <3> QED BY <1>2, <3>2, <3>3 DEF FileTypes, RunStages, Before
    <2>2. CASE pc' = [pc EXCEPT ![x] = "parent"] /\ UNCHANGED <<atts, cache>>
      <3>1. EntriesUpTo(clock) \subseteq EntriesUpTo(clock')
        BY <1>2, <1>4 DEF EntriesUpTo, FileTypes
      <3>2. cache' \in Seq(EntriesUpTo(clock'))
        BY <1>2, <2>2, <3>1, SeqOfMore DEF FileTypes
      <3> QED BY <1>2, <2>2, <3>2 DEF FileTypes, RunStages, Before
    <2> QED BY <1>1, <2>1, <2>2
  <1>7. FileTypes'
    <2>1. task' \subseteq Runs /\ stored' \subseteq Runs
      BY <1>1, <1>2 DEF FileTypes
    <2> QED BY <1>1, <1>2, <1>4, <1>5, <1>6, <2>1, FileTypesStay
  <1>8. try[x] = <<1, 0>>
    BY <1>1 DEF FileInv, Firmly
  <1> QED BY <1>1, <1>6, <1>7, <1>8, Elsewhere

LEMMA FetchParentFiles ==
  ASSUME FileInv, NEW x \in Runs, FetchParent(x) PROVE FileInv'
  <1> DEFINE m == message[x]
             found == [i \in DOMAIN m.parents |-> Above(m, m.parents[i])]
  <1>1. FileTypes
    BY DEF FileInv
  <1>2. found \in Seq(Known) /\ Cached(x) \in Seq(Known)
    BY <1>1, SentKnown, CachedKnown
  <1>3. PICK as \in Seq(Known) : Accepted(x, stamp[x], as)
    BY <1>2 DEF FetchParent
  <1>4. /\ pc[x] = "parent" /\ UNCHANGED <<message, files, results, try, task, stored, clock, stamp>>
        /\ atts' = [atts EXCEPT ![x] = as] /\ cache' = Remember(x, stamp[x], as)
        /\ pc' = [pc EXCEPT ![x] = "download"]
    BY <1>3 DEF FetchParent, Accepted, given, time
  <1>5. cache' \in Seq(EntriesUpTo(clock'))
    <2>1. clock \in Nat /\ stamp[x] \in 0..clock /\ clock <= clock
      BY <1>1 DEF FileTypes
    <2>2. cache' \in Seq(EntriesUpTo(clock))
      BY <1>1, <1>4, <2>1, RememberKnown
    <2> QED BY <1>4, <2>2
  <1>6. FileTypes'
    <2>1. /\ clock' \in Nat /\ clock <= clock' /\ stamp' \in [Runs -> 0..clock']
          /\ task' \subseteq Runs /\ stored' \subseteq Runs
      BY <1>1, <1>4 DEF FileTypes
    <2>2. pc' \in [Runs -> RunStages] /\ atts' \in [Runs -> Seq(Known)]
      BY <1>1, <1>4 DEF FileTypes, RunStages, Before
    <2> QED BY <1>1, <1>4, <1>5, <2>1, <2>2, FileTypesStay
  <1>7. /\ \A r \in Runs \ {x} : pc'[r] = pc[r] /\ atts'[r] = atts[r]
        /\ try[x] = <<1, 0>>
    BY <1>1, <1>4 DEF FileTypes, FileInv, Firmly
  <1> QED BY <1>4, <1>6, <1>7, Elsewhere

LEMMA ObtainedFiles ==
  ASSUME FileInv, NEW x \in Runs, Obtained(x) PROVE FileInv'
  <1>1. FileTypes
    BY DEF FileInv
  <1>2. /\ pc[x] = "download" /\ pc' = [pc EXCEPT ![x] = "contexts"]
        /\ UNCHANGED <<message, files, results, try, task, stored, clock, stamp, atts>>
        /\ cache' = Remember(x, stamp[x], RememberedDownloads(results[x]))
    BY DEF Obtained, given, time
  <1>3. cache' \in Seq(EntriesUpTo(clock'))
    <2>1. clock \in Nat /\ stamp[x] \in 0..clock /\ results[x] \in Seq(Known)
      BY <1>1 DEF FileTypes
    <2>2. RememberedDownloads(results[x]) \in Seq(Known)
      BY <2>1, DownloadsKnown
    <2> QED BY <1>1, <1>2, <2>1, <2>2, RememberKnown
  <1>4. FileTypes'
    <2>1. /\ clock' \in Nat /\ clock <= clock' /\ stamp' \in [Runs -> 0..clock']
          /\ task' \subseteq Runs /\ stored' \subseteq Runs /\ atts' \in [Runs -> Seq(Known)]
      BY <1>1, <1>2 DEF FileTypes
    <2>2. pc' \in [Runs -> RunStages]
      BY <1>1, <1>2 DEF FileTypes, RunStages, Before
    <2> QED BY <1>1, <1>2, <1>3, <2>1, <2>2, FileTypesStay
  <1>5. \A r \in Runs : (pc'[r] = pc[r] /\ atts'[r] = atts[r]) \/ (r = x /\ pc'[r] = "contexts")
    BY <1>1, <1>2 DEF FileTypes
  <1> QED BY <1>2, <1>4, <1>5, Elsewhere

(* After the downloads the files of a run are left alone.                   *)
LEMMA LaterFiles ==
  ASSUME FileInv, NEW x \in Runs, NEW p \in RunStages \ {"new", "parent", "download"},
         UNCHANGED <<message, files, results, try, clock, stamp, atts, cache>>,
         task' \subseteq task \cup {x}, stored' \subseteq stored \cup {x},
         pc' = [pc EXCEPT ![x] = p], pc[x] \notin {"done", "lost"}
  PROVE  FileInv'
  <1>1. FileTypes
    BY DEF FileInv
  <1>2. FileTypes'
    <2>1. /\ clock' \in Nat /\ clock <= clock' /\ stamp' \in [Runs -> 0..clock']
          /\ task' \subseteq Runs /\ stored' \subseteq Runs /\ atts' \in [Runs -> Seq(Known)]
          /\ pc' \in [Runs -> RunStages] /\ cache' \in Seq(EntriesUpTo(clock'))
      BY <1>1 DEF FileTypes
    <2> QED BY <1>1, <2>1, FileTypesStay
  <1>3. \A r \in Runs : (pc'[r] = pc[r] /\ atts'[r] = atts[r]) \/ (r = x /\ pc'[r] = p)
    BY <1>1 DEF FileTypes
  <1> QED BY <1>2, <1>3, Elsewhere

(* The attachment a run is at. *)
LEMMA CurrentIs ==
  ASSUME FileTypes, NEW x \in Runs, Downloading(x)
  PROVE  /\ Current(x) \in Known /\ Ident(Current(x)) \in AllBrought
         /\ Ident(Current(x)).file = Current(x).file
         /\ Ident(Current(x)).src = Current(x).src /\ Ident(Current(x)).linked = Current(x).linked
         /\ Current(x).file \in File /\ Current(x).file.name \in Names
         /\ Current(x).file.key \in Nat \ {0}
         /\ Target(x) = <<x, Current(x).file.name>>
         /\ Current(x).path # NoPath => /\ Current(x).path[1] \in Runs
                                        /\ Current(x).path = <<Current(x).path[1], Current(x).file.name>>
  <1>1. Len(results[x]) \in Nat /\ atts[x] \in Seq(Known)
    BY DEF FileTypes
  <1>2. Current(x) \in Known
    BY <1>1 DEF Downloading, Reached, Current
  <1>3. Current(x) \in Attachment /\ Ident(Current(x)) \in AllBrought
    BY <1>2 DEF Known
  <1>4. Current(x).path # NoPath => /\ Current(x).path \in Runs \X Names
                                    /\ Current(x).path[2] = Current(x).file.name
    BY <1>2 DEF Known, Attachment
  <1> QED BY <1>2, <1>3, <1>4 DEF Attachment, File, Target, Ident

(* Whatever could be mistaken for an attachment that cannot be mistaken is  *)
(* the same file.                                                           *)
LEMMA Alike ==
  ASSUME NEW b \in AllBrought, NEW c \in AllBrought, ToldApart(b.file.key),
         b.file.name = c.file.name \/ (~b.linked /\ ~c.linked /\ b.src = c.src)
  PROVE  c.file.key = b.file.key /\ c.file.kind = b.file.kind
  BY DEF ToldApart

(* What a run has obtained.                                                 *)
LEMMA ObtainedIs ==
  ASSUME FileTypes, NEW q \in Runs, NEW c \in ToSet(results[q])
  PROVE  /\ c \in Known /\ Ident(c) \in AllBrought /\ Ident(c).file = c.file
         /\ Ident(c).src = c.src /\ Ident(c).linked = c.linked
         /\ c.file \in File /\ c.file.name \in Names
         /\ c.status = "ready" => c.path = <<q, c.file.name>>
  <1>1. c \in Resolutions(q)
    BY ToSetOfSeq DEF FileTypes
  <1>2. c \in Known /\ (c.status = "ready" => c.path = <<q, c.file.name>>)
    BY <1>1 DEF Resolutions
  <1>3. c \in Attachment /\ Ident(c) \in AllBrought
    BY <1>2 DEF Known
  <1> QED BY <1>2, <1>3 DEF Attachment, File, Ident

LEMMA PutFile ==
  ASSUME FileInv, NEW x \in Runs, Downloading(x), NEW content \in Int, Put(Target(x), content),
         message' = message,
         ToldApart(Current(x).file.key) => content \in {0, Remnant, Current(x).file.key}
  PROVE  /\ files' \in [Runs -> [Names -> Int]] /\ InItsPlace'
         /\ files'[x][Current(x).file.name] = content
         /\ \A q \in Runs, n \in Names :
              q # x \/ n # Current(x).file.name => files'[q][n] = files[q][n]
  <1> DEFINE a == Current(x)
             t == Target(x)
  <1>1. /\ Ident(a) \in AllBrought /\ Ident(a).file = a.file /\ a.file.name \in Names
        /\ t = <<x, a.file.name>>
    BY CurrentIs DEF FileInv
  <1>2. files \in [Runs -> [Names -> Int]]
    BY DEF FileInv, FileTypes
  <1>3. files' = [files EXCEPT ![t[1]][t[2]] = content]
    BY DEF Put
  <1>4. t[1] = x /\ t[2] = a.file.name
    BY <1>1
  <1> HIDE DEF a, t
  <1>5. files' = [files EXCEPT ![x][a.file.name] = content]
    BY <1>3, <1>4
  <1>6. /\ files' \in [Runs -> [Names -> Int]]
        /\ files'[x][a.file.name] = content
        /\ \A q \in Runs, n \in Names : q # x \/ n # a.file.name => files'[q][n] = files[q][n]
    BY <1>1, <1>2, <1>5
  <1>7. InItsPlace'
    <2> SUFFICES ASSUME NEW b \in AllBrought, ToldApart(b.file.key), NEW q \in Runs
                 PROVE  files'[q][b.file.name] \in {0, Remnant, b.file.key}
      BY SameMessages DEF InItsPlace
    <2>1. files[q][b.file.name] \in {0, Remnant, b.file.key}
      BY DEF FileInv, InItsPlace
    <2>2. CASE b.file.name = a.file.name
      <3>1. a.file.key = b.file.key
        BY <1>1, <2>2, Alike
      <3>2. content \in {0, Remnant, b.file.key}
        BY <3>1 DEF a
      <3>3. q # x => files'[q][b.file.name] = files[q][b.file.name]
        BY <1>1, <1>6, <2>2
      <3> QED BY <1>6, <2>1, <2>2, <3>2, <3>3
    <2>3. CASE b.file.name # a.file.name
      <3>1. files' = [q1 \in Runs |-> [files[q1] EXCEPT ![a.file.name] =
                                          IF q1 = x THEN content ELSE files[q1][a.file.name]]]
        BY <1>2, <1>5
      <3>2. files'[q] = [files[q] EXCEPT ![a.file.name] = IF q = x THEN content
                                                         ELSE files[q][a.file.name]]
        BY <3>1
      <3>3. files'[q][b.file.name] = files[q][b.file.name]
        BY <2>3, <3>2, <1>2, <1>6
      <3> QED BY <2>1, <3>3
    <2> QED BY <2>2, <2>3
  <1> QED BY <1>6, <1>7 DEF a

Settled(x, status, path, content) ==
    /\ Resolved(x, status, path) /\ status \in {"ready", "failed", "skipped"}
    /\ path = Target(x) \/ (status = "failed" /\ path = Current(x).path)
    /\ status = "ready" /\ Current(x).file.kind = "audio" /\ ToldApart(Current(x).file.key)
         => content \notin {0, Remnant}
Unsettled(x, t) ==
    /\ try' = [try EXCEPT ![x] = t] /\ UNCHANGED results /\ t \in (1..3) \X Nat
    /\ t # <<1, 0>> => /\ ~Current(x).linked
                       /\ \A e \in ToSet(results[x]) :
                            Firm(e) => e.file.name # Current(x).file.name
Resolution(x, status, path) == [Current(x) EXCEPT !.status = status, !.path = path]

LEMMA ResolvedIs ==
  ASSUME FileTypes, NEW x \in Runs, Downloading(x), NEW status, NEW path, NEW content,
         Settled(x, status, path, content)
  PROVE  /\ Resolution(x, status, path) \in Resolutions(x) /\ Resolution(x, status, path) \in Known
         /\ Resolution(x, status, path).file = Current(x).file
         /\ Resolution(x, status, path).status = status /\ Resolution(x, status, path).path = path
         /\ status = "ready" => path = <<x, Current(x).file.name>>
  <1> DEFINE c == Current(x)
             a == [c EXCEPT !.status = status, !.path = path]
  <1>1. c \in Known /\ c \in Attachment /\ Ident(c) \in AllBrought
    BY CurrentIs DEF Known
  <1>2. /\ status \in {"ready", "failed", "skipped"}
        /\ path = <<x, c.file.name>> \/ (status = "failed" /\ path = c.path)
        /\ c.file.name \in Names
    BY CurrentIs DEF Settled
  <1>3. path \in {NoPath} \cup (Runs \X Names) /\ (path # NoPath => path[2] = c.file.name)
    <2>1. CASE path = <<x, c.file.name>>
      <3>1. path \in Runs \X Names /\ path[2] = c.file.name
        BY <1>2, <2>1
      <3> QED BY <3>1
    <2>2. CASE path = c.path
      BY <1>1, <2>2 DEF Known, Attachment
    <2> QED BY <1>2, <2>1, <2>2
  <1>4. c \in [file : File, src : Nat, linked : BOOLEAN, path : {NoPath} \cup (Runs \X Names),
               status : {"new", "ready", "failed", "skipped"}]
    BY <1>1 DEF Attachment
  <1> HIDE DEF c
  <1>5. /\ a \in Attachment /\ a.file = c.file /\ a.src = c.src /\ a.linked = c.linked
        /\ a.path = path /\ a.status = status
    BY <1>2, <1>3, <1>4 DEF Attachment
  <1>6. Ident(a) = Ident(c)
    BY <1>5 DEF Ident
  <1> HIDE DEF a
  <1>7. a \in Known
    BY <1>1, <1>3, <1>5, <1>6 DEF Known
  <1>8. a \in Resolutions(x)
    BY <1>2, <1>5, <1>7 DEF Resolutions
  <1> QED BY <1>2, <1>5, <1>7, <1>8 DEF a, c, Resolution

LEMMA Downloaded ==
  ASSUME FileInv, NEW x \in Runs, Downloading(x), Untouched(x),
         NEW content \in Int, Put(Target(x), content),
         ToldApart(Current(x).file.key) => content \in {0, Remnant, Current(x).file.key},
         \A e \in ToSet(results[x]) :
            Firm(e) /\ e.file.name = Current(x).file.name => content \notin {0, Remnant},
         \/ \E status, path : Settled(x, status, path, content)
         \/ \E t : Unsettled(x, t)
  PROVE  FileInv'
  <1> DEFINE c == Current(x)
  <1>1. /\ UNCHANGED <<message, pc, atts, cache, task, stored, clock, stamp>>
    BY DEF Untouched, given, time
  <1>2. FileTypes /\ c.file.name \in Names
    BY CurrentIs DEF FileInv
  <1>3. /\ AllBrought' = AllBrought /\ Known' = Known
        /\ \A key : ToldApart(key)' <=> ToldApart(key)
        /\ \A r : Resolutions(r)' = Resolutions(r)
        /\ \A n : EntriesUpTo(n)' = EntriesUpTo(n)
        /\ \A a : Firm(a)' <=> Firm(a)
    BY <1>1, SameMessages
  <1>4. /\ files' \in [Runs -> [Names -> Int]] /\ InItsPlace'
        /\ files'[x][c.file.name] = content
        /\ \A q \in Runs, n \in Names : q # x \/ n # c.file.name => files'[q][n] = files[q][n]
    BY <1>1, PutFile
  <1>5. \/ \E a \in Resolutions(x) :
             /\ results' = [results EXCEPT ![x] = Append(@, a)] /\ try' = [try EXCEPT ![x] = <<1, 0>>]
             /\ a \in Known /\ a.file = c.file
             /\ Firm(a) => a.path = <<x, c.file.name>> /\ content \notin {0, Remnant}
        \/ \E t \in (1..3) \X Nat : Unsettled(x, t)
    <2>1. ASSUME NEW status, NEW path, Settled(x, status, path, content)
          PROVE  \E a \in Resolutions(x) :
             /\ results' = [results EXCEPT ![x] = Append(@, a)] /\ try' = [try EXCEPT ![x] = <<1, 0>>]
             /\ a \in Known /\ a.file = c.file
             /\ Firm(a) => a.path = <<x, c.file.name>> /\ content \notin {0, Remnant}
      <3> DEFINE a == Resolution(x, status, path)
      <3>1. /\ a \in Resolutions(x) /\ a \in Known /\ a.file = Current(x).file
            /\ a.status = status /\ a.path = path
            /\ status = "ready" => path = <<x, Current(x).file.name>>
        BY <1>2, <2>1, ResolvedIs
      <3>2. results' = [results EXCEPT ![x] = Append(@, a)] /\ try' = [try EXCEPT ![x] = <<1, 0>>]
        BY <2>1 DEF Settled, Resolved, Resolution
      <3> HIDE DEF a
      <3>3. Firm(a) => a.path = <<x, c.file.name>> /\ content \notin {0, Remnant}
        BY <2>1, <3>1 DEF Settled, Firm
      <3> QED BY <3>1, <3>2, <3>3
    <2> QED BY <2>1 DEF Unsettled
  <1> HIDE DEF c
  <1>6. /\ results' \in [Runs -> Seq(Known)] /\ \A r \in Runs : results'[r] \in Seq(Resolutions(r))
        /\ try' \in [Runs -> (1..3) \X Nat] /\ \A r \in Runs \ {x} : results'[r] = results[r] /\ try'[r] = try[r]
    <2>1. CASE \E a \in Resolutions(x) :
             /\ results' = [results EXCEPT ![x] = Append(@, a)] /\ try' = [try EXCEPT ![x] = <<1, 0>>]
             /\ a \in Known
      <3>1. PICK a \in Resolutions(x) :
             /\ results' = [results EXCEPT ![x] = Append(@, a)] /\ try' = [try EXCEPT ![x] = <<1, 0>>]
             /\ a \in Known
        BY <2>1
      <3>2. /\ Append(results[x], a) \in Seq(Known)
            /\ Append(results[x], a) \in Seq(Resolutions(x))
        BY <1>2, <3>1 DEF FileTypes
      <3> QED BY <1>2, <3>1, <3>2 DEF FileTypes
    <2>2. CASE \E t \in (1..3) \X Nat : Unsettled(x, t)
      BY <1>2, <2>2 DEF FileTypes, Unsettled
    <2> QED BY <1>5, <2>1, <2>2
  <1>7. FileTypes'
    BY <1>1, <1>2, <1>3, <1>4, <1>6 DEF FileTypes
  <1>8. ASSUME NEW r \in Runs, NEW a \in ToSet(results[r]), Firm(a)
        PROVE  At(a.path)' # Remnant /\ (pc'[r] \notin {"done", "lost"} => At(a.path)' # 0)
    <2>1. a.path = <<r, a.file.name>> /\ a.file.name \in Names
      BY <1>2, <1>8, ObtainedIs DEF Firm
    <2>2. At(a.path) = files[r][a.file.name] /\ At(a.path)' = files'[r][a.file.name]
      BY <2>1 DEF At
    <2>3. At(a.path) # Remnant /\ (pc[r] \notin {"done", "lost"} => At(a.path) # 0)
      BY <1>8 DEF FileInv, Firmly
    <2>4. CASE r = x /\ a.file.name = c.file.name
      <3>1. content \notin {0, Remnant}
        BY <1>8, <2>4 DEF c
      <3> QED BY <1>4, <2>2, <2>4, <3>1
    <2>5. CASE r # x \/ a.file.name # c.file.name
      BY <1>1, <1>4, <2>1, <2>2, <2>3, <2>5
    <2> QED BY <2>4, <2>5
  <1>9. ASSUME NEW r \in Runs \ {x} PROVE Firmly(r)'
    <2>1. /\ results'[r] = results[r] /\ try'[r] = try[r] /\ pc'[r] = pc[r] /\ atts'[r] = atts[r]
          /\ Downloading(r)' = Downloading(r) /\ Current(r)' = Current(r)
      BY <1>1, <1>6 DEF Downloading, Reached, Current
    <2>2. Firmly(r)
      BY DEF FileInv
    <2> QED BY <1>3, <1>8, <2>1, <2>2 DEF Firmly
  <1>10. Firmly(x)'
    <2>1. pc'[x] = "download" /\ pc[x] = "download"
      BY <1>1 DEF Downloading
    <2>2. CASE \E a \in Resolutions(x) :
             /\ results' = [results EXCEPT ![x] = Append(@, a)] /\ try' = [try EXCEPT ![x] = <<1, 0>>]
             /\ Firm(a) => a.path = <<x, c.file.name>> /\ content \notin {0, Remnant}
      <3>1. PICK a \in Resolutions(x) :
             /\ results' = [results EXCEPT ![x] = Append(@, a)] /\ try' = [try EXCEPT ![x] = <<1, 0>>]
             /\ Firm(a) => a.path = <<x, c.file.name>> /\ content \notin {0, Remnant}
        BY <2>2
      <3>2. try'[x] = <<1, 0>> /\ results'[x] = Append(results[x], a)
        BY <1>2, <3>1 DEF FileTypes
      <3>3. ToSet(results'[x]) = ToSet(results[x]) \cup {a}
        BY <1>2, <3>2, ToSetAppend DEF FileTypes
      <3>4. Firm(a) => At(a.path)' # Remnant /\ At(a.path)' # 0
        BY <1>4, <3>1 DEF At
      <3> QED BY <1>3, <1>8, <2>1, <3>2, <3>3, <3>4 DEF Firmly
    <2>3. CASE \E t \in (1..3) \X Nat : Unsettled(x, t)
      <3>1. PICK t : Unsettled(x, t)
        BY <2>3
      <3>2. try'[x] = t /\ results' = results /\ Current(x)' = Current(x)
        BY <1>1, <1>2, <3>1 DEF FileTypes, Unsettled, Current, Reached
      <3> QED BY <1>3, <1>8, <2>1, <3>1, <3>2 DEF Firmly, Unsettled
    <2> QED BY <1>5, <2>2, <2>3
  <1> QED BY <1>4, <1>7, <1>9, <1>10 DEF FileInv

(* What a run finds at its target. *)
LEMMA TargetIs ==
  ASSUME FileInv, NEW x \in Runs, Downloading(x)
  PROVE  /\ At(Target(x)) \in Int
         /\ ToldApart(Current(x).file.key) => At(Target(x)) \in {0, Remnant, Current(x).file.key}
         /\ \A e \in ToSet(results[x]) : Firm(e) /\ e.file.name = Current(x).file.name =>
              /\ At(Target(x)) \notin {0, Remnant} /\ Current(x).file.kind = "audio"
              /\ ToldApart(Current(x).file.key)
         /\ UNCHANGED files => Put(Target(x), At(Target(x)))
  <1> DEFINE c == Current(x)
  <1>1. /\ Ident(c) \in AllBrought /\ Ident(c).file = c.file /\ c.file.name \in Names
        /\ Target(x) = <<x, c.file.name>>
    BY CurrentIs DEF FileInv
  <1>2. At(Target(x)) = files[x][c.file.name] /\ files \in [Runs -> [Names -> Int]]
    BY <1>1 DEF At, FileInv, FileTypes
  <1> HIDE DEF c
  <1>3. At(Target(x)) \in Int
    BY <1>1, <1>2
  <1>4. ToldApart(c.file.key) => At(Target(x)) \in {0, Remnant, c.file.key}
    <2>1. ToldApart(Ident(c).file.key) => files[x][Ident(c).file.name] \in {0, Remnant, Ident(c).file.key}
      BY <1>1 DEF FileInv, InItsPlace
    <2> QED BY <1>1, <1>2, <2>1
  <1>5. ASSUME NEW e \in ToSet(results[x]), Firm(e), e.file.name = c.file.name
        PROVE  At(Target(x)) \notin {0, Remnant} /\ c.file.kind = "audio" /\ ToldApart(c.file.key)
    <2>1. e.path = <<x, e.file.name>> /\ Ident(e) \in AllBrought /\ Ident(e).file = e.file
      BY <1>5, ObtainedIs DEF Firm, FileInv
    <2>2. At(e.path) \notin {0, Remnant}
      BY <1>5 DEF FileInv, Firmly, Downloading
    <2>3. At(e.path) = At(Target(x))
      BY <1>1, <1>5, <2>1
    <2>4. c.file.key = e.file.key /\ c.file.kind = e.file.kind
      BY <1>1, <1>5, <2>1, Alike DEF Firm
    <2> QED BY <1>5, <2>2, <2>3, <2>4 DEF Firm
  <1>6. UNCHANGED files => Put(Target(x), At(Target(x)))
    <2>1. files = [files EXCEPT ![x][c.file.name] = files[x][c.file.name]]
      BY <1>1, <1>2
    <2> QED BY <1>1, <1>2, <2>1 DEF Put
  <1> QED BY <1>3, <1>4, <1>5, <1>6 DEF c

(* What it finds of others. *)
LEMMA FoundIs ==
  ASSUME FileInv, NEW x \in Runs, Downloading(x), ~Current(x).linked,
         NEW f \in FromStore(x) \cup FromRuns(x)
  PROVE  /\ At(f.path) \in Int /\ Sound(At(f.path), Current(x).file.kind)
         /\ ToldApart(Current(x).file.key) => At(f.path) \in {0, Remnant, Current(x).file.key}
  <1> DEFINE c == Current(x)
  <1>1. /\ Ident(c) \in AllBrought /\ Ident(c).file = c.file /\ Ident(c).src = c.src
        /\ Ident(c).linked = c.linked
    BY CurrentIs DEF FileInv
  <1>2. PICK q \in Runs : f \in ToSet(results[q])
    BY DEF FromStore, FromRuns, FileInv, FileTypes
  <1>3. /\ f.file.kind = c.file.kind /\ f.status = "ready" /\ Sound(At(f.path), c.file.kind)
        /\ f.file.key = c.file.key \/ SourceMatches(c, f)
    BY DEF FromStore, FromRuns, Ready, Usable
  <1>4. /\ f.path = <<q, f.file.name>> /\ Ident(f) \in AllBrought /\ Ident(f).file = f.file
        /\ Ident(f).src = f.src /\ Ident(f).linked = f.linked /\ f.file.name \in Names
    BY <1>2, <1>3, ObtainedIs DEF FileInv
  <1>5. At(f.path) = files[q][f.file.name] /\ files \in [Runs -> [Names -> Int]]
    BY <1>4 DEF At, FileInv, FileTypes
  <1>6. At(f.path) \in Int
    BY <1>4, <1>5
  <1>7. ASSUME ToldApart(c.file.key) PROVE At(f.path) \in {0, Remnant, c.file.key}
    <2>1. f.file.key = c.file.key
      BY <1>1, <1>3, <1>4, <1>7, Alike DEF SourceMatches
    <2>2. ToldApart(Ident(f).file.key)
      BY <1>4, <1>7, <2>1
    <2>3. files[q][Ident(f).file.name] \in {0, Remnant, Ident(f).file.key}
      BY <1>4, <2>2 DEF FileInv, InItsPlace
    <2> QED BY <1>4, <1>5, <2>1, <2>3
  <1> QED BY <1>3, <1>6, <1>7

LEMMA LinkFileFiles == ASSUME FileInv, NEW x \in Runs, LinkFile(x) PROVE FileInv'
  <1> DEFINE c == Current(x)
  <1>1. Downloading(x) /\ Untouched(x) /\ UsesItsFile(x)
    BY DEF LinkFile
  <1>2. HasFile(c) /\ (At(c.path) = 0 \/ Sound(Linkable(x), c.file.kind))
    BY <1>1 DEF UsesItsFile
  <1>3. CASE At(c.path) = 0 /\ Resolved(x, "failed", c.path) /\ UNCHANGED files
    <2>1. Settled(x, "failed", c.path, At(Target(x)))
      BY <1>3 DEF Settled
    <2> QED BY <1>1, <1>3, <2>1, TargetIs, Downloaded
  <1>4. CASE At(c.path) # 0 /\ Put(Target(x), Linkable(x)) /\ Resolved(x, "ready", Target(x))
    <2>1. Sound(Linkable(x), c.file.kind)
      BY <1>2, <1>4
    <2>2. /\ Ident(c) \in AllBrought /\ Ident(c).file = c.file /\ c.file.name \in Names
          /\ c.path[1] \in Runs /\ c.path = <<c.path[1], c.file.name>>
      BY <1>1, <1>2, CurrentIs DEF HasFile, FileInv
    <2>3. /\ At(c.path) \in Int
          /\ ToldApart(c.file.key) => At(c.path) \in {0, Remnant, c.file.key}
      <3> DEFINE q == c.path[1]
      <3>1. q \in Runs /\ c.path[2] = c.file.name
        BY <2>2
      <3>2. At(c.path) = files[q][c.file.name]
        BY <3>1 DEF At
      <3> HIDE DEF q
      <3>3. files[q][c.file.name] \in Int
        <4>1. files \in [Runs -> [Names -> Int]]
          BY DEF FileInv, FileTypes
        <4> QED BY <2>2, <3>1, <4>1
      <3>4. ToldApart(Ident(c).file.key)
              => files[q][Ident(c).file.name] \in {0, Remnant, Ident(c).file.key}
        BY <2>2, <3>1 DEF FileInv, InItsPlace
      <3> QED BY <2>2, <3>2, <3>3, <3>4
    <2>4. Linkable(x) \in {At(Target(x)), At(c.path)}
      BY DEF Linkable
    <2>5. /\ Linkable(x) \in Int
          /\ ToldApart(c.file.key) => Linkable(x) \in {0, Remnant, c.file.key}
      BY <1>1, <2>3, <2>4, TargetIs
    <2>6. \A e \in ToSet(results[x]) :
            Firm(e) /\ e.file.name = c.file.name => Linkable(x) \notin {0, Remnant}
      BY <1>1, <2>1, TargetIs DEF Sound
    <2>7. Settled(x, "ready", Target(x), Linkable(x))
      BY <1>4, <2>1 DEF Settled, Sound
    <2> HIDE DEF c
    <2> QED BY <1>1, <1>4, <2>5, <2>6, <2>7, Downloaded DEF c
  <1> QED BY <1>3, <1>4 DEF LinkFile

LEMMA FetchLinkedFiles == ASSUME FileInv, NEW x \in Runs, FetchLinked(x) PROVE FileInv'
  <1>1. Downloading(x) /\ Untouched(x)
    BY DEF FetchLinked
  <1>2. ASSUME NEW status \in {"skipped", "failed"}, Resolved(x, status, Target(x)), UNCHANGED files
        PROVE  FileInv'
    <2>1. Settled(x, status, Target(x), At(Target(x)))
      BY <1>2 DEF Settled
    <2> QED BY <1>1, <1>2, <2>1, TargetIs, Downloaded
  <1>3. CASE Put(Target(x), Current(x).file.key) /\ Resolved(x, "ready", Target(x))
    <2> DEFINE k == Current(x).file.key
    <2>1. k \in Int /\ k \notin {0, Remnant}
      BY <1>1, CurrentIs DEF Remnant, FileInv
    <2>2. Settled(x, "ready", Target(x), k)
      BY <1>3, <2>1 DEF Settled
    <2> QED BY <1>1, <1>3, <2>1, <2>2, Downloaded
  <1> QED BY <1>2, <1>3 DEF FetchLinked

(* A file of another run, put at the target. *)
LEMMA FoundFiles ==
  ASSUME FileInv, NEW x \in Runs, Downloading(x), Untouched(x), ~Current(x).linked,
         NEW f \in FromStore(x) \cup FromRuns(x),
         Put(Target(x), At(f.path)), Resolved(x, "ready", Target(x))
  PROVE  FileInv'
  <1>1. /\ At(f.path) \in Int /\ Sound(At(f.path), Current(x).file.kind)
        /\ ToldApart(Current(x).file.key) => At(f.path) \in {0, Remnant, Current(x).file.key}
    BY FoundIs
  <1>2. \A e \in ToSet(results[x]) :
          Firm(e) /\ e.file.name = Current(x).file.name => At(f.path) \notin {0, Remnant}
    BY <1>1, TargetIs DEF Sound
  <1>3. Settled(x, "ready", Target(x), At(f.path))
    BY <1>1 DEF Settled, Sound
  <1> QED BY <1>1, <1>2, <1>3, Downloaded

LEMMA SearchFiles == ASSUME FileInv, NEW x \in Runs, Search(x) PROVE FileInv'
  <1>1. Downloading(x) /\ Untouched(x) /\ ~Current(x).linked
    BY DEF Search
  <1>2. CASE HasTarget(x) /\ Resolved(x, "ready", Target(x)) /\ UNCHANGED files
    <2>1. Settled(x, "ready", Target(x), At(Target(x)))
      BY <1>2 DEF Settled, HasTarget, Usable, Sound
    <2> QED BY <1>1, <1>2, <2>1, TargetIs, Downloaded
  <1>3. CASE \E f \in FromStore(x) \cup FromRuns(x) :
                Put(Target(x), At(f.path)) /\ Resolved(x, "ready", Target(x))
    BY <1>1, <1>3, FoundFiles
  <1>4. CASE /\ ~HasTarget(x) /\ Put(Target(x), 0)
             /\ IF options.dry THEN Resolved(x, "skipped", Target(x))
                ELSE try' = [try EXCEPT ![x] = <<1, 1>>] /\ UNCHANGED results
    <2>1. \A e \in ToSet(results[x]) : Firm(e) => e.file.name # Current(x).file.name
      BY <1>1, <1>4, TargetIs DEF HasTarget, Usable, Sound
    <2>2. Settled(x, "skipped", Target(x), 0) \/ Unsettled(x, <<1, 1>>)
      BY <1>1, <1>4, <2>1 DEF Settled, Unsettled
    <2> QED BY <1>1, <1>4, <2>1, <2>2, Downloaded
  <1> QED BY <1>2, <1>3, <1>4 DEF Search

LEMMA FetchFiles == ASSUME FileInv, NEW x \in Runs, Fetch(x) PROVE FileInv'
  <1>1. Downloading(x) /\ Untouched(x) /\ try[x] # <<1, 0>> /\ try[x] \in (1..3) \X Nat
    BY DEF Fetch, FileInv, FileTypes
  <1>2. /\ ~Current(x).linked
        /\ \A e \in ToSet(results[x]) : Firm(e) => e.file.name # Current(x).file.name
    BY <1>1 DEF FileInv, Firmly
  <1>3. CASE Put(Target(x), Current(x).file.key) /\ Resolved(x, "ready", Target(x))
    <2> DEFINE k == Current(x).file.key
    <2>1. k \in Int /\ k \notin {0, Remnant}
      BY <1>1, CurrentIs DEF Remnant, FileInv
    <2>2. Settled(x, "ready", Target(x), k)
      BY <1>3, <2>1 DEF Settled
    <2> QED BY <1>1, <1>2, <1>3, <2>1, <2>2, Downloaded
  <1>4. ASSUME NEW left \in {At(Target(x)), Remnant}, Put(Target(x), left),
               IF Sound(left, Current(x).file.kind) THEN Resolved(x, "ready", Target(x))
               ELSE /\ \E retryable \in BOOLEAN :
                         try' = [try EXCEPT ![x] = NextTry(@, retryable)]
                    /\ UNCHANGED results
        PROVE  FileInv'
    <2>1. left \in Int /\ (ToldApart(Current(x).file.key) => left \in {0, Remnant, Current(x).file.key})
      BY <1>1, TargetIs DEF Remnant
    <2>2. (\E status, path : Settled(x, status, path, left)) \/ \E t : Unsettled(x, t)
      <3>1. CASE Sound(left, Current(x).file.kind)
        BY <1>4, <3>1 DEF Settled, Sound
      <3>2. CASE ~Sound(left, Current(x).file.kind)
        <4>1. PICK retryable \in BOOLEAN : try' = [try EXCEPT ![x] = NextTry(try[x], retryable)]
          BY <1>4, <3>2
        <4>2. NextTry(try[x], retryable) \in (1..3) \X Nat
          BY <1>1 DEF NextTry
        <4>3. Unsettled(x, NextTry(try[x], retryable))
          BY <1>2, <1>4, <3>2, <4>1, <4>2 DEF Unsettled
        <4> QED BY <4>3
      <3> QED BY <3>1, <3>2
    <2> QED BY <1>1, <1>2, <1>4, <2>1, <2>2, Downloaded
  <1> QED BY <1>3, <1>4 DEF Fetch

LEMMA SearchAgainFiles == ASSUME FileInv, NEW x \in Runs, SearchAgain(x) PROVE FileInv'
  <1>1. Downloading(x) /\ Untouched(x) /\ try[x] # <<1, 0>>
    BY DEF SearchAgain
  <1>2. ~Current(x).linked
    BY <1>1 DEF FileInv, Firmly
  <1>3. CASE \E f \in FromStore(x) \cup FromRuns(x) :
                Put(Target(x), At(f.path)) /\ Resolved(x, "ready", Target(x))
    BY <1>1, <1>2, <1>3, FoundFiles
  <1>4. CASE Resolved(x, "failed", Target(x)) /\ UNCHANGED files
    <2>1. Settled(x, "failed", Target(x), At(Target(x)))
      BY <1>4 DEF Settled
    <2> QED BY <1>1, <1>4, <2>1, TargetIs, Downloaded
  <1> QED BY <1>3, <1>4 DEF SearchAgain

(* The retention of the runtime store. *)
LEMMA CleanUpFiles ==
  ASSUME FileInv, NEW q \in Runs, NEW n \in Names, CleanUp(q, n) PROVE FileInv'
  <1>1. /\ UNCHANGED <<message, pc, atts, results, try, cache, task, stored, clock, stamp>>
        /\ pc[q] \in {"done", "lost"} /\ files' = [files EXCEPT ![q][n] = 0]
    BY DEF CleanUp, given, handler, shared, time, Put
  <1>2. files \in [Runs -> [Names -> Int]]
    BY DEF FileInv, FileTypes
  <1>3. /\ files' \in [Runs -> [Names -> Int]]
        /\ \A r \in Runs : \A m : files'[r][m] = files[r][m] \/ (r = q /\ files'[r][m] = 0)
    <2>1. files' \in [Runs -> [Names -> Int]]
      BY <1>1, <1>2
    <2>2. \A r \in Runs \ {q} : files'[r] = files[r]
      BY <1>1, <1>2
    <2>3. files'[q] = [files[q] EXCEPT ![n] = 0]
      BY <1>1, <1>2
    <2>4. \A m : files'[q][m] = files[q][m] \/ files'[q][m] = 0
      BY <1>2, <2>1, <2>3
    <2> QED BY <2>1, <2>2, <2>4
  <1>4. /\ AllBrought' = AllBrought /\ Known' = Known
        /\ \A key : ToldApart(key)' <=> ToldApart(key)
        /\ \A r : Resolutions(r)' = Resolutions(r)
        /\ \A k : EntriesUpTo(k)' = EntriesUpTo(k)
        /\ \A a : Firm(a)' <=> Firm(a)
    BY <1>1, SameMessages
  <1>5. FileTypes'
    BY <1>1, <1>3, <1>4 DEF FileInv, FileTypes
  <1>6. InItsPlace'
    BY <1>3, <1>4 DEF FileInv, InItsPlace
  <1>7. ASSUME NEW r \in Runs PROVE Firmly(r)'
    <2>1. Firmly(r) /\ Downloading(r)' = Downloading(r) /\ Current(r)' = Current(r)
      BY <1>1 DEF FileInv, Downloading, Reached, Current
    <2>2. ASSUME NEW a \in ToSet(results[r]), Firm(a)
          PROVE  At(a.path)' # Remnant /\ (pc[r] \notin {"done", "lost"} => At(a.path)' # 0)
      <3>1. a.path = <<r, a.file.name>>
        BY <2>2, ObtainedIs DEF Firm, FileInv
      <3>2. At(a.path) = files[r][a.file.name] /\ At(a.path)' = files'[r][a.file.name]
        BY <3>1 DEF At
      <3>3. At(a.path) # Remnant /\ (pc[r] \notin {"done", "lost"} => At(a.path) # 0)
        BY <2>1, <2>2 DEF Firmly
      <3> QED BY <1>1, <1>3, <3>2, <3>3 DEF Remnant
    <2> QED BY <1>1, <1>4, <2>1, <2>2 DEF Firmly
  <1> QED BY <1>5, <1>6, <1>7 DEF FileInv

LEMMA HandleFiles == ASSUME FileInv, StateInv, NEW x \in Runs, Handle(x) PROVE FileInv'
  <1>1. Classify(x) => FileInv'
    <2> SUFFICES ASSUME Classify(x) PROVE FileInv'
      OBVIOUS
    <2>1. Route(x) \in RunStages \ {"new", "parent", "download"}
      BY DEF Route, RunStages, Before
    <2> QED BY <2>1, LaterFiles DEF Classify, given, time
  <1>2. AnswerNow(x) => FileInv'
    BY LaterFiles DEF AnswerNow, given, time, shared, RunStages
  <1>3. ASSUME RunAgent(x) PROVE FileInv'
    <2>1. /\ pc[x] \in {"primary", "review"}
          /\ UNCHANGED <<message, files, results, try, clock, stamp, atts, cache, task, stored>>
          /\ \E p \in {"publish", "review"} : pc' = [pc EXCEPT ![x] = p]
      BY <1>3 DEF RunAgent, given, time, shared
    <2> QED BY <2>1, LaterFiles DEF RunStages, Before
  <1>4. RunPipeline(x) => FileInv'
    BY LaterFiles DEF RunPipeline, given, time, shared, RunStages
  <1>5. ASSUME Enqueue(x) PROVE FileInv'
    <2>1. /\ pc[x] = "enqueue"
          /\ UNCHANGED <<message, files, results, try, clock, stamp, atts, cache, task, stored>>
          /\ \E p \in {"publish", "waiting"} : pc' = [pc EXCEPT ![x] = p]
      BY <1>5 DEF Enqueue, given, time, shared
    <2> QED BY <2>1, LaterFiles DEF RunStages
  <1>6. TakeAnswer(x) => FileInv'
    BY LaterFiles DEF TakeAnswer, given, time, shared, RunStages
  <1>7. GiveUp(x) => FileInv'
    BY LaterFiles DEF GiveUp, given, time, shared, directory, RunStages
  <1>8. Publish(x) => FileInv'
    BY LaterFiles DEF Publish, given, time, shared, RunStages
  <1>9. Reply(x) => FileInv'
    BY LaterFiles DEF Reply, given, time, RunStages, Ended
  <1>10. ASSUME IndexRun(x) PROVE FileInv'
    <2>1. /\ pc[x] = "store" /\ pc' = [pc EXCEPT ![x] = "done"]
          /\ UNCHANGED <<message, files, results, try, clock, stamp, atts, cache, task>>
          /\ stored' \subseteq stored \cup {x}
      BY <1>10 DEF IndexRun, given, time, shared
    <2> QED BY <2>1, LaterFiles DEF RunStages, Ended
  <1> QED BY <1>1, <1>2, <1>3, <1>4, <1>5, <1>6, <1>7, <1>8, <1>9, <1>10, FetchParentFiles,
             LinkFileFiles, FetchLinkedFiles, SearchFiles, FetchFiles, SearchAgainFiles, ObtainedFiles
          DEF Handle

LEMMA NextFiles == FileInv /\ StateInv /\ [Next]_vars => FileInv'
  <1> SUFFICES ASSUME FileInv, StateInv, [Next]_vars PROVE FileInv'
    OBVIOUS
  <1>1. ASSUME /\ UNCHANGED <<message, files, results, try, clock, stamp, atts, cache, task, stored>>
               /\ pc' = pc \/ pc' = [r \in Runs |-> IF Active(r) THEN "lost" ELSE pc[r]]
        PROVE  FileInv'
    <2>1. FileTypes
      BY DEF FileInv
    <2>2. pc' \in [Runs -> RunStages]
      BY <1>1, <2>1 DEF FileTypes, RunStages, Ended
    <2>3. FileTypes'
      BY <1>1, <2>1, <2>2, SameMessages DEF FileTypes
    <2>4. \A r \in Runs : pc'[r] = pc[r] \/ pc'[r] = "lost"
      BY <1>1
    <2> QED BY <1>1, <2>3, <2>4, Elsewhere
  <1>2. ASSUME NEW x \in Runs, Worker(x) PROVE FileInv'
    BY <1>1, <1>2 DEF Worker, WorkerReads, WorkerWrites, given, handler, shared, directory, time
  <1>3. CASE Crash \/ TimePasses \/ UNCHANGED vars
    BY <1>1, <1>3 DEF Crash, TimePasses, vars, given, handler, shared, directory, time
  <1> QED BY <1>2, <1>3, StartFiles, HandleFiles, CleanUpFiles DEF Next

(* A run works on the file that was sent, whatever it was obtained from: a  *)
(* download, the cache, another run's directory (downloadAttachments,       *)
(* findAndMaterializeReusableAttachment, existingNonEmptyFile).             *)
THEOREM TaskHandlerHoldsItsFile == Spec => []HoldsItsFile
  <1>1. FileInv => HoldsItsFile
    <2> SUFFICES ASSUME FileInv, NEW r \in Runs, NEW a \in ToSet(results[r]), a.status = "ready",
                        ToldApart(a.file.key)
                 PROVE  At(a.path) \in {0, a.file.key}
                                         \cup (IF a.file.kind = "audio" THEN {} ELSE {Remnant})
      BY DEF HoldsItsFile
    <2>1. /\ a.path = <<r, a.file.name>> /\ Ident(a) \in AllBrought /\ Ident(a).file = a.file
      BY ObtainedIs DEF FileInv
    <2>2. files[r][Ident(a).file.name] \in {0, Remnant, Ident(a).file.key}
      BY <2>1 DEF FileInv, InItsPlace
    <2>3. At(a.path) \in {0, Remnant, a.file.key}
      BY <2>1, <2>2 DEF At
    <2>4. a.file.kind = "audio" => At(a.path) # Remnant
      BY DEF FileInv, Firmly, Firm
    <2> QED BY <2>3, <2>4
  <1> QED BY <1>1, InitState, InitFiles, NextState, NextFiles, PTL DEF Spec
=============================================================================
