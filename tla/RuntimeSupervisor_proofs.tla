---------------------- MODULE RuntimeSupervisor_proofs ----------------------
(***************************************************************************)
(* Safety of the supervised runtime for any number of process ids, of      *)
(* commands and of crashes and hangs.                                      *)
(***************************************************************************)
EXTENDS RuntimeSupervisor, FiniteSetTheorems, WellFoundedInduction, TLAPS

-----------------------------------------------------------------------------
(* The inductive invariant.                                                *)

Lives == {"none", "starting", "up", "hung"}
Places == {"boot", "initial", "ensure", "handler", "gateway", "asr", "report", "sleep",
           "stopping", "final"}
Memory == [pc : Places, stop : BOOLEAN, child : [Services -> Pids \cup {None}],
           misses : Nat, hits : Nat, asrMisses : Nat,
           handlerOk : BOOLEAN, gatewayOk : BOOLEAN, asrOk : BOOLEAN]
Commands == [op : {"none", "start", "stop", "restart"},
             pc : {"idle", "look", "takeover", "spawn", "mark", "stop", "wait", "terminate",
                   "finish"},
             pid : Supervisors \cup {None}, gaveUp : BOOLEAN,
             answer : {"none", "already_running", "started", "stopped",
                       "supervisor_stop_timeout"}]

TypeOK ==
    /\ sc \in Scenario
    /\ life \in [Pids -> Lives]
    /\ sup \in [Supervisors -> Memory]
    /\ \A s \in Supervisors, k \in Services : sup[s].child[k] \in Pool(k) \cup {None}
    /\ unread \in Nat
    /\ pidFile \in Supervisors \cup {None}
    /\ asrPidFile \in Recognizers \cup {None}
    /\ statusDoc \in {"unknown", "ok", "blocked", "degraded", "stopped"}
    /\ ctl \in Commands
    /\ left \in [commands : Nat, trouble : Nat]

(* The one supervisor that may run at a point of a command: none that a    *)
(* start has taken over from, the one it has just started, else the one    *)
(* the PID file names; and a stop waits for that one.                      *)
Allowed == IF ctl.pc \in {"takeover", "spawn"} THEN {}
           ELSE IF ctl.pc = "mark" THEN {ctl.pid} ELSE {pidFile}
OneSupervisor ==
    /\ Alive(Supervisors) \subseteq Allowed
    /\ ctl.pc \in {"wait", "terminate", "finish"} => Alive(Supervisors) \subseteq {ctl.pid}

(* A gateway that runs is the child of the supervisor that runs, once this *)
(* one has started its children; there is one at most also when its        *)
(* supervisor is gone, and none after a takeover.                          *)
KeepsGateway(s) ==
    \A g \in Alive(Gateways) :
        sup[s].pc \notin {"boot", "initial"} /\ g = sup[s].child["gateway"]
GatewaysOK ==
    /\ \A g \in Alive(Gateways), h \in Alive(Gateways) : g = h
    /\ \A s \in Alive(Supervisors) : KeepsGateway(s)
    /\ ctl.pc = "spawn" => Alive(Gateways) = {}

(* A stop that did not give up has seen the supervisor go, and has then    *)
(* terminated what was left.                                               *)
StopOK ==
    /\ ctl.pc # "idle" => ctl.answer = "none"
    /\ ctl.pc \in {"terminate", "finish"} /\ ~ctl.gaveUp => Alive(Supervisors) = {}
    /\ ctl.pc = "finish" /\ ~ctl.gaveUp => Alive(Handlers \cup Gateways) = {}
    /\ StoppedMeansStopped

IInv == TypeOK /\ OneSupervisor /\ GatewaysOK /\ StopOK

-----------------------------------------------------------------------------
(* Process ids.                                                            *)

\* A new process has the least id that is free.
LEMMA NewPid ==
  ASSUME NEW pool \in SUBSET Pids, Free(pool) # {}
  PROVE  New(pool) \in Free(pool)
  <1> DEFINE less == OpToRel(<, Nat)
  <1>1. Free(pool) \subseteq Nat
    BY PidsAssumption DEF PidsAssumption, Free
  <1>2. IsWellFoundedOn(less, Nat)
    BY NatLessThanWellFounded
  <1>3. PICK p \in Free(pool) : \A q \in Free(pool) : ~(<<q, p>> \in less)
    BY <1>1, <1>2, WFMin
  <1>4. ASSUME NEW q \in Free(pool) PROVE p <= q
    <2>1. p \in Nat /\ q \in Nat
      BY <1>1, <1>3
    <2>2. ~(q < p)
      BY <1>3, <2>1 DEF OpToRel
    <2> QED BY <2>1, <2>2
  <1> QED BY <1>3, <1>4 DEF New

LEMMA Pools ==
  /\ Supervisors \subseteq Pids /\ Handlers \subseteq Pids
  /\ Gateways \subseteq Pids /\ Recognizers \subseteq Pids
  /\ None \notin Pids
  /\ \A k \in Services : Pool(k) \subseteq Pids
  /\ Pool("handler") = Handlers /\ Pool("gateway") = Gateways
  /\ Services = {"handler", "gateway"}
  BY PidsAssumption DEF PidsAssumption, Pids, Pool, Services

\* Nothing runs under a free id, and no supervisor that runs has it for a child.
LEMMA FreePids ==
  ASSUME NEW pool, NEW p \in Free(pool)
  PROVE  /\ p \in pool /\ life[p] = "none" /\ p # pidFile
         /\ \A s \in Alive(Supervisors), k \in Services : p # sup[s].child[k]
  BY DEF Free, Referenced

-----------------------------------------------------------------------------
(* What a supervisor does.                                                 *)

StartEffect(s, ks, dying, pc) ==
    /\ life' \in [Pids -> Lives]
    /\ sup' \in [Supervisors -> Memory]
    /\ \A t \in Supervisors, k \in Services : sup'[t].child[k] \in Pool(k) \cup {None}
    /\ unread' \in Nat
    /\ \A t \in Supervisors : life'[t] = life[t]
    /\ sup'[s].pc = pc
    /\ \A g \in Gateways : life'[g] # "none" =>
         \/ "gateway" \in ks /\ g = sup'[s].child["gateway"]
         \/ life[g] # "none" /\ g \notin dying
    /\ "gateway" \notin ks => sup'[s].child["gateway"] = sup[s].child["gateway"]

\* Services are started under new ids of their own kind, and nothing but what was
\* stopped first dies.
LEMMA StartedServices ==
  ASSUME TypeOK, NEW s \in Supervisors, life[s] # "none",
         NEW ks \in SUBSET Services, NEW dying, dying \subseteq Handlers \cup Gateways \cup {None},
         NEW me \in Memory, me.child = sup[s].child,
         StartServices(s, ks, dying, me)
  PROVE  StartEffect(s, ks, dying, me.pc)
  <1> DEFINE new == [k \in ks |-> New(Pool(k))]
             Runs(p) == {k \in ks : new[k] = p}
             born == [p \in Pids |->
                        IF p \in dying THEN "none"
                        ELSE IF Runs(p) # {} THEN Born(CHOOSE k \in Runs(p) : TRUE)
                        ELSE life[p]]
             child == [k \in Services |-> IF k \in ks THEN new[k] ELSE me.child[k]]
             mine == [me EXCEPT !.child = child]
  <1>1. /\ \A k \in ks : Free(Pool(k)) # {}
        /\ life' = born
        /\ sup' = [sup EXCEPT ![s] = mine]
        /\ unread' = IF "gateway" \in ks THEN 0 ELSE unread
    BY DEF StartServices
  <1>2. ASSUME NEW k \in ks PROVE new[k] \in Pool(k) /\ new[k] \in Pids
    <2>1. Pool(k) \in SUBSET Pids /\ Free(Pool(k)) # {}
      BY <1>1, Pools
    <2>2. New(Pool(k)) \in Free(Pool(k))
      BY <2>1, NewPid
    <2> QED BY <2>1, <2>2, FreePids
  <1>3. sup \in [Supervisors -> Memory] /\ me.child \in [Services -> Pids \cup {None}]
    BY DEF TypeOK, Memory
  <1>4. /\ child \in [Services -> Pids \cup {None}]
        /\ \A k \in Services : child[k] \in Pool(k) \cup {None}
    <2> HIDE DEF new
    <2>1. \A k \in Services : me.child[k] \in Pool(k) \cup {None}
      BY DEF TypeOK
    <2> QED BY <1>2, <1>3, <2>1
  <1> HIDE DEF child
  <1>5. mine \in Memory /\ mine.child = child /\ mine.pc = me.pc
    BY <1>4 DEF Memory
  <1> HIDE DEF mine
  <1>6. /\ sup' \in [Supervisors -> Memory]
        /\ sup'[s] = mine
        /\ \A t \in Supervisors : t # s => sup'[t] = sup[t]
    BY <1>1, <1>3, <1>5
  <1>7. \A t \in Supervisors, k \in Services : sup'[t].child[k] \in Pool(k) \cup {None}
    <2> TAKE t \in Supervisors, k \in Services
    <2>1. CASE t = s
      BY <1>4, <1>5, <1>6, <2>1
    <2>2. CASE t # s
      BY <1>6, <2>2 DEF TypeOK
    <2> QED BY <2>1, <2>2
  <1>8. unread' \in Nat
    BY <1>1 DEF TypeOK
  <1>9. ASSUME NEW p \in Pids
        PROVE  /\ born[p] \in Lives
               /\ born[p] = life[p] \/ p \in dying \/ Runs(p) # {}
               /\ p \in dying => born[p] = "none"
    <2>1. life[p] \in Lives
      BY DEF TypeOK
    <2>2. \A k : Born(k) \in Lives
      BY DEF Born, Lives
    <2>3. "none" \in Lives
      BY DEF Lives
    <2> HIDE DEF Runs
    <2> QED BY <2>1, <2>2, <2>3
  <1>10. life' \in [Pids -> Lives]
    <2> HIDE DEF new
    <2> QED BY <1>1, <1>9
  <1>11. ASSUME NEW p \in Pids, Runs(p) # {} PROVE \E k \in ks : p = new[k] /\ p \in Pool(k)
    <2> HIDE DEF new
    <2> QED BY <1>2, <1>11
  <1>12. \A t \in Supervisors : life'[t] = life[t]
    <2> TAKE t \in Supervisors
    <2>1. t \in Pids /\ t \notin Handlers \cup Gateways \cup {None}
      BY Pools, PidsAssumption DEF PidsAssumption
    <2>2. Runs(t) = {}
      <3>1. \A k \in ks : t \notin Pool(k)
        BY <2>1 DEF Pool
      <3> HIDE DEF Runs, new
      <3> QED BY <1>11, <2>1, <3>1
    <2> HIDE DEF Runs
    <2> QED BY <1>1, <1>9, <2>1, <2>2
  <1>13. ASSUME NEW g \in Gateways, life'[g] # "none"
         PROVE  \/ "gateway" \in ks /\ g = child["gateway"]
                \/ life[g] # "none" /\ g \notin dying
    <2>1. g \in Pids /\ g \notin Handlers /\ "gateway" \in Services
      BY Pools, PidsAssumption DEF PidsAssumption
    <2>2. g \notin dying
      BY <1>1, <1>9, <1>13, <2>1
    <2>3. CASE Runs(g) # {}
      <3>1. PICK k \in ks : g = new[k] /\ g \in Pool(k)
        BY <1>11, <2>1, <2>3
      <3>2. k = "gateway"
        BY <2>1, <3>1, Pools
      <3>3. child["gateway"] = new["gateway"]
        BY <2>1, <3>1, <3>2 DEF child
      <3> QED BY <3>1, <3>2, <3>3
    <2>4. CASE Runs(g) = {}
      <3> HIDE DEF Runs
      <3> QED BY <1>1, <1>9, <1>13, <2>1, <2>2, <2>4
    <2> QED BY <2>3, <2>4
  <1>14. "gateway" \notin ks => child["gateway"] = sup[s].child["gateway"]
    BY Pools DEF child
  <1> QED BY <1>5, <1>6, <1>7, <1>8, <1>10, <1>12, <1>13, <1>14 DEF StartEffect

\* What a step of a supervisor amounts to for the invariant.
TickEffect(s) ==
    /\ TypeOK'
    /\ ctl' = ctl
    /\ Alive(Supervisors)' \subseteq Alive(Supervisors)
    /\ \/ pidFile' \in {pidFile, s}
       \/ pidFile' = None /\ s \notin Alive(Supervisors)'
    /\ \A g \in Alive(Gateways)', h \in Alive(Gateways)' : g = h
    /\ s \in Alive(Supervisors)' => KeepsGateway(s)'

LEMMA TickKeeps ==
  ASSUME IInv, NEW s \in Supervisors, life[s] # "none", TickEffect(s)
  PROVE  IInv'
  <1>1. TypeOK'
    BY DEF TickEffect
  <1>2. s \in Alive(Supervisors) /\ ctl' = ctl
    BY DEF Alive, TickEffect
  <1>3. Alive(Supervisors) = {s} /\ Alive(Supervisors)' \subseteq {s}
    <2>1. \E x : Allowed \subseteq {x}
      BY DEF Allowed
    <2>2. Alive(Supervisors) \subseteq Allowed /\ Alive(Supervisors)' \subseteq Alive(Supervisors)
      BY DEF IInv, OneSupervisor, TickEffect
    <2> QED BY <1>2, <2>1, <2>2
  <1>4. OneSupervisor'
    <2>1. ctl.pc \notin {"takeover", "spawn"}
      BY <1>2 DEF IInv, OneSupervisor, Allowed
    <2>2. ctl.pc = "mark" => ctl.pid = s
      BY <1>2 DEF IInv, OneSupervisor, Allowed
    <2>3. ctl.pc # "mark" => pidFile = s
      BY <1>2, <2>1 DEF IInv, OneSupervisor, Allowed
    <2>4. pidFile' \in {pidFile, s} \/ (pidFile' = None /\ s \notin Alive(Supervisors)')
      BY DEF TickEffect
    <2>5. ctl.pc \in {"wait", "terminate", "finish"} => ctl.pid = s
      BY <1>2 DEF IInv, OneSupervisor
    <2> QED BY <1>2, <1>3, <2>1, <2>2, <2>3, <2>4, <2>5 DEF OneSupervisor, Allowed
  <1>5. GatewaysOK'
    <2>1. ctl.pc # "spawn"
      BY <1>2 DEF IInv, OneSupervisor, Allowed
    <2> QED BY <1>2, <1>3, <2>1 DEF GatewaysOK, TickEffect
  <1>6. StopOK'
    <2>1. ~(ctl.pc \in {"terminate", "finish"} /\ ~ctl.gaveUp)
      BY <1>2 DEF IInv, StopOK
    <2>2. ~(ctl.answer = "stopped" /\ ~ctl.gaveUp)
      BY <1>2 DEF IInv, StopOK, StoppedMeansStopped, Alive
    <2> QED BY <1>2, <2>1, <2>2 DEF IInv, StopOK, StoppedMeansStopped
  <1> QED BY <1>1, <1>4, <1>5, <1>6 DEF IInv

\* A supervisor whose memory changes but for its children.
LEMMA MemoryTypes ==
  ASSUME TypeOK, NEW s \in Supervisors, NEW me \in Memory, me.child = sup[s].child,
         sup' = [sup EXCEPT ![s] = me]
  PROVE  /\ sup' \in [Supervisors -> Memory]
         /\ \A t \in Supervisors, k \in Services : sup'[t].child[k] \in Pool(k) \cup {None}
         /\ sup'[s] = me
  <1>1. sup \in [Supervisors -> Memory]
    BY DEF TypeOK
  <1>2. sup' \in [Supervisors -> Memory] /\ sup'[s] = me
    BY <1>1
  <1>3. \A t \in Supervisors, k \in Services : sup'[t].child[k] \in Pool(k) \cup {None}
    <2> TAKE t \in Supervisors, k \in Services
    <2>1. sup'[t].child = sup[t].child
      BY <1>1, <1>2
    <2> QED BY <2>1 DEF TypeOK
  <1> QED BY <1>2, <1>3

\* A supervisor that starts services and leaves everything else alone: those it starts
\* include the gateway only if none is left running.
LEMMA StartsKeep ==
  ASSUME IInv, NEW s \in Supervisors, life[s] # "none",
         NEW ks \in SUBSET Services, NEW dying, dying \subseteq Handlers \cup Gateways \cup {None},
         NEW me \in Memory, me.child = sup[s].child, me.pc \notin {"boot", "initial"},
         "gateway" \in ks => Alive(Gateways) \subseteq dying,
         "gateway" \notin ks => KeepsGateway(s),
         StartServices(s, ks, dying, me),
         UNCHANGED <<pidFile, asrPidFile, statusDoc>>, KeepCtl
  PROVE  IInv'
  <1>1. TypeOK
    BY DEF IInv
  <1>2. /\ life' \in [Pids -> Lives]
        /\ sup' \in [Supervisors -> Memory]
        /\ \A t \in Supervisors, k \in Services : sup'[t].child[k] \in Pool(k) \cup {None}
        /\ unread' \in Nat
        /\ \A t \in Supervisors : life'[t] = life[t]
        /\ sup'[s].pc = me.pc
        /\ \A g \in Gateways : life'[g] # "none" =>
              \/ "gateway" \in ks /\ g = sup'[s].child["gateway"]
              \/ life[g] # "none" /\ g \notin dying
        /\ "gateway" \notin ks => sup'[s].child["gateway"] = sup[s].child["gateway"]
    <2>1. StartEffect(s, ks, dying, me.pc)
      BY <1>1, StartedServices
    <2> QED BY <2>1 DEF StartEffect
  <1>3. TypeOK'
    BY <1>1, <1>2 DEF TypeOK, KeepCtl
  <1>4. Alive(Supervisors)' \subseteq Alive(Supervisors)
    BY <1>2 DEF Alive
  <1>5. \A g \in Alive(Gateways)' : g = sup'[s].child["gateway"]
    BY <1>2 DEF Alive, KeepsGateway
  <1>6. KeepsGateway(s)'
    BY <1>2, <1>5 DEF KeepsGateway
  <1>7. TickEffect(s)
    <2>1. ctl' = ctl /\ pidFile' = pidFile
      BY DEF KeepCtl
    <2> QED BY <1>3, <1>4, <1>5, <1>6, <2>1 DEF TickEffect
  <1> QED BY <1>7, TickKeeps

\* A step in which nothing is started and no supervisor goes on to another child.
LEMMA NothingStarts ==
  ASSUME IInv, NEW s \in Supervisors, life[s] # "none", TypeOK', ctl' = ctl,
         \A p \in Supervisors \cup Gateways : life'[p] # "none" => life[p] # "none",
         \/ pidFile' \in {pidFile, s}
         \/ pidFile' = None /\ life'[s] = "none",
         life'[s] # "none" => sup'[s].child = sup[s].child
                              /\ (sup'[s].pc \in {"boot", "initial"} => sup[s].pc \in {"boot", "initial"})
  PROVE  IInv'
  <1>1. /\ Alive(Supervisors)' \subseteq Alive(Supervisors)
        /\ Alive(Gateways)' \subseteq Alive(Gateways)
        /\ s \in Alive(Supervisors) /\ (s \in Alive(Supervisors)' <=> life'[s] # "none")
    BY DEF Alive
  <1>2. \A g \in Alive(Gateways)', h \in Alive(Gateways)' : g = h
    BY <1>1 DEF IInv, GatewaysOK
  <1>3. s \in Alive(Supervisors)' => KeepsGateway(s)'
    BY <1>1 DEF IInv, GatewaysOK, KeepsGateway
  <1>4. TickEffect(s)
    BY <1>1, <1>2, <1>3 DEF TickEffect
  <1> QED BY <1>4, TickKeeps

LEMMA StartSteps ==
  ASSUME IInv, NEW s \in Supervisors,
         InitialStart(s) \/ EnsureRunning(s)
  PROVE  IInv'
  <1>1. sup[s] \in Memory /\ life[s] # "none" /\ s \in Alive(Supervisors)
    BY DEF IInv, TypeOK, InitialStart, EnsureRunning, Begin, Alive
  <1>2. KeepsGateway(s)
    BY <1>1 DEF IInv, GatewaysOK
  <1>3. CASE InitialStart(s)
    <2> DEFINE me == [sup[s] EXCEPT !.pc = "ensure"]
    <2>1. /\ sup[s].pc = "initial"
          /\ StartServices(s, Services, {}, me)
          /\ UNCHANGED <<pidFile, asrPidFile, statusDoc>> /\ KeepCtl
      BY <1>3 DEF InitialStart, Begin
    <2>2. me \in Memory /\ me.child = sup[s].child /\ me.pc = "ensure"
      BY <1>1 DEF Memory, Places
    <2>3. Alive(Gateways) = {}
      BY <1>2, <2>1 DEF KeepsGateway
    <2> HIDE DEF me
    <2> QED BY <1>1, <2>1, <2>2, <2>3, Pools, StartsKeep
  <1>4. CASE EnsureRunning(s)
    <2> DEFINE me == [sup[s] EXCEPT !.pc = "handler"]
               ks == {k \in Services : ~running(sup[s].child[k])}
    <2>1. /\ StartServices(s, ks, {}, me)
          /\ UNCHANGED <<pidFile, asrPidFile, statusDoc>> /\ KeepCtl
      BY <1>4 DEF EnsureRunning
    <2>2. me \in Memory /\ me.child = sup[s].child /\ me.pc = "handler"
      BY <1>1 DEF Memory, Places
    <2>3. "gateway" \in ks => Alive(Gateways) = {}
      <3>1. ASSUME NEW g \in Alive(Gateways) PROVE running(sup[s].child["gateway"])
        <4>1. g = sup[s].child["gateway"] /\ life[g] # "none" /\ g \in Gateways
          BY <1>2, <3>1 DEF KeepsGateway, Alive
        <4>2. g # None
          BY <4>1, Pools
        <4> QED BY <4>1, <4>2 DEF running
      <3> QED BY <3>1
    <2>4. ks \in SUBSET Services
      OBVIOUS
    <2> HIDE DEF me, ks
    <2> QED BY <1>1, <1>2, <2>1, <2>2, <2>3, <2>4, StartsKeep
  <1> QED BY <1>3, <1>4

\* A restart at the threshold, or the counts alone.
LEMMA WatchSteps ==
  ASSUME IInv, NEW s \in Supervisors,
         CheckHandler(s) \/ WatchGateway(s)
  PROVE  IInv'
  <1>1. sup[s] \in Memory /\ life[s] # "none" /\ s \in Alive(Supervisors) /\ TypeOK
    BY DEF IInv, TypeOK, CheckHandler, WatchGateway, Begin, Alive
  <1>2. KeepsGateway(s)
    BY <1>1 DEF IInv, GatewaysOK
  <1>3. "handler" \in Services /\ "gateway" \in Services /\ "handler" # "gateway"
    BY Pools
  <1>4. \A k \in Services : sup[s].child[k] \in Pool(k) \cup {None}
    BY <1>1 DEF TypeOK
  <1>5. CASE CheckHandler(s)
    <2> DEFINE misses == MissesAfter(s)
               me == [sup[s] EXCEPT !.pc = "gateway", !.handlerOk = http_health]
               again == [me EXCEPT !.misses = 0]
               counted == [me EXCEPT !.misses = misses]
    <2>1. /\ sup[s].pc = "handler"
          /\ IF misses >= HealthThreshold
             THEN StartServices(s, {"handler"}, {sup[s].child["handler"]}, again)
             ELSE sup' = [sup EXCEPT ![s] = counted] /\ UNCHANGED <<life, unread>>
          /\ UNCHANGED <<pidFile, asrPidFile, statusDoc>> /\ KeepCtl
      BY <1>5 DEF CheckHandler, Restart, Begin
    <2>2. misses \in Nat
      BY <1>1 DEF MissesAfter, Memory
    <2>3. http_health \in BOOLEAN
      BY DEF http_health, InState
    <2>4. /\ again \in Memory /\ again.child = sup[s].child /\ again.pc = "gateway"
          /\ counted \in Memory /\ counted.child = sup[s].child /\ counted.pc = "gateway"
      <3> HIDE DEF misses
      <3> QED BY <1>1, <2>2, <2>3 DEF Memory, Places
    <2> HIDE DEF misses, again, counted
    <2>5. CASE misses >= HealthThreshold
      <3>1. {sup[s].child["handler"]} \subseteq Handlers \cup Gateways \cup {None}
        BY <1>3, <1>4 DEF Pool
      <3>2. {"handler"} \in SUBSET Services /\ "gateway" \notin {"handler"}
        BY <1>3
      <3>3. StartServices(s, {"handler"}, {sup[s].child["handler"]}, again)
        BY <2>1, <2>5
      <3> QED BY <1>1, <1>2, <2>1, <2>4, <3>1, <3>2, <3>3, StartsKeep
    <2>6. CASE ~(misses >= HealthThreshold)
      <3>1. sup' = [sup EXCEPT ![s] = counted] /\ UNCHANGED <<life, unread>>
        BY <2>1, <2>6
      <3>2. /\ sup' \in [Supervisors -> Memory]
            /\ \A t \in Supervisors, k \in Services : sup'[t].child[k] \in Pool(k) \cup {None}
            /\ sup'[s] = counted
        BY <1>1, <2>4, <3>1, MemoryTypes
      <3>3. TypeOK'
        BY <1>1, <2>1, <3>1, <3>2 DEF TypeOK, KeepCtl
      <3> QED BY <1>1, <2>1, <2>4, <3>1, <3>2, <3>3, NothingStarts DEF KeepCtl
    <2> QED BY <2>5, <2>6
  <1>6. CASE WatchGateway(s)
    <2> DEFINE hits == HitsAfter(s)
               up == running(sup[s].child["gateway"])
               again == [[sup[s] EXCEPT !.pc = "asr"] EXCEPT !.hits = 0, !.gatewayOk = TRUE]
               counted == [[sup[s] EXCEPT !.pc = "asr"] EXCEPT !.hits = hits, !.gatewayOk = up]
    <2>1. /\ sup[s].pc = "gateway"
          /\ IF hits >= TimeoutThreshold
             THEN StartServices(s, {"gateway"}, {sup[s].child["gateway"]}, again)
             ELSE sup' = [sup EXCEPT ![s] = counted] /\ unread' = 0 /\ UNCHANGED life
          /\ UNCHANGED <<pidFile, asrPidFile, statusDoc>> /\ KeepCtl
      BY <1>6 DEF WatchGateway, Restart, Begin
    <2>2. hits \in Nat
      BY <1>1 DEF HitsAfter, Memory, TypeOK
    <2>3. up \in BOOLEAN
      BY DEF running
    <2>4. /\ again \in Memory /\ again.child = sup[s].child /\ again.pc = "asr"
          /\ counted \in Memory /\ counted.child = sup[s].child /\ counted.pc = "asr"
      <3> HIDE DEF hits, up
      <3> QED BY <1>1, <2>2, <2>3 DEF Memory, Places
    <2> HIDE DEF hits, up, again, counted
    <2>5. CASE hits >= TimeoutThreshold
      <3>1. {sup[s].child["gateway"]} \subseteq Handlers \cup Gateways \cup {None}
        BY <1>3, <1>4 DEF Pool
      <3>2. Alive(Gateways) \subseteq {sup[s].child["gateway"]}
        BY <1>2 DEF KeepsGateway
      <3>3. StartServices(s, {"gateway"}, {sup[s].child["gateway"]}, again)
        BY <2>1, <2>5
      <3>4. {"gateway"} \in SUBSET Services
        BY <1>3
      <3> QED BY <1>1, <2>1, <2>4, <3>1, <3>2, <3>3, <3>4, StartsKeep
    <2>6. CASE ~(hits >= TimeoutThreshold)
      <3>1. sup' = [sup EXCEPT ![s] = counted] /\ unread' = 0 /\ UNCHANGED life
        BY <2>1, <2>6
      <3>2. /\ sup' \in [Supervisors -> Memory]
            /\ \A t \in Supervisors, k \in Services : sup'[t].child[k] \in Pool(k) \cup {None}
            /\ sup'[s] = counted
        BY <1>1, <2>4, <3>1, MemoryTypes
      <3>3. TypeOK'
        BY <1>1, <2>1, <3>1, <3>2 DEF TypeOK, KeepCtl
      <3> QED BY <1>1, <2>1, <2>4, <3>1, <3>2, <3>3, NothingStarts DEF KeepCtl
    <2> QED BY <2>5, <2>6
  <1> QED BY <1>5, <1>6

LEMMA NewbornTypes ==
  ASSUME TypeOK, NEW s \in Supervisors, sup' = [sup EXCEPT ![s] = Newborn]
  PROVE  /\ sup' \in [Supervisors -> Memory]
         /\ \A t \in Supervisors, k \in Services : sup'[t].child[k] \in Pool(k) \cup {None}
         /\ sup'[s] = Newborn
  <1>1. sup \in [Supervisors -> Memory]
    BY DEF TypeOK
  <1>2. Newborn \in Memory /\ \A k \in Services : Newborn.child[k] = None
    BY DEF Newborn, Memory, Places
  <1>3. sup' \in [Supervisors -> Memory] /\ sup'[s] = Newborn
    BY <1>1, <1>2
  <1>4. ASSUME NEW t \in Supervisors, NEW k \in Services
        PROVE  sup'[t].child[k] \in Pool(k) \cup {None}
    <2>1. CASE t = s
      BY <1>2, <1>3, <2>1
    <2>2. CASE t # s
      BY <1>1, <2>2 DEF TypeOK
    <2> QED BY <2>1, <2>2
  <1> QED BY <1>3, <1>4

\* The steps in which a supervisor goes on to another place and starts no service.
LEMMA PlainSteps ==
  ASSUME IInv, NEW s \in Supervisors,
         \/ Boot(s) \/ LeaveLoop(s) \/ CheckAsr(s) \/ Report(s) \/ Wake(s)
         \/ StopServices(s) \/ Exit(s)
  PROVE  IInv'
  <1>0. CheckAsr(s) => Begin(s, "asr")
    BY Zenon DEF CheckAsr
  <1>1. sup[s] \in Memory /\ life[s] # "none" /\ TypeOK
    BY <1>0 DEF IInv, TypeOK, Boot, LeaveLoop, Report, Wake, StopServices, Exit, Begin
  <1>2. sup \in [Supervisors -> Memory] /\ life \in [Pids -> Lives] /\ s \in Pids
    BY <1>1, Pools DEF TypeOK
  <1>3. CASE Boot(s)
    <2> DEFINE me == [sup[s] EXCEPT !.pc = "initial"]
    <2>1. /\ sup[s].pc = "boot" /\ pidFile' = s /\ sup' = [sup EXCEPT ![s] = me]
          /\ UNCHANGED <<life, unread, asrPidFile, statusDoc>> /\ KeepCtl
      BY <1>3 DEF Boot, Begin
    <2>2. me \in Memory /\ me.child = sup[s].child
      BY <1>1 DEF Memory, Places
    <2> HIDE DEF me
    <2>3. /\ sup' \in [Supervisors -> Memory]
          /\ \A t \in Supervisors, k \in Services : sup'[t].child[k] \in Pool(k) \cup {None}
          /\ sup'[s] = me
      BY <1>1, <2>1, <2>2, MemoryTypes
    <2>4. TypeOK'
      BY <1>1, <2>1, <2>3 DEF TypeOK, KeepCtl
    <2> QED BY <1>1, <2>1, <2>2, <2>3, <2>4, NothingStarts DEF KeepCtl
  <1>4. CASE LeaveLoop(s) \/ Wake(s)
    <2> DEFINE Moved(pc) == [sup[s] EXCEPT !.pc = pc]
    <2>1. PICK pc \in {"stopping", "ensure"} :
            /\ sup' = [sup EXCEPT ![s] = Moved(pc)]
            /\ UNCHANGED <<life, unread, pidFile, asrPidFile, statusDoc>> /\ KeepCtl
      BY <1>4 DEF LeaveLoop, Wake
    <2>2. Moved(pc) \in Memory /\ Moved(pc).child = sup[s].child /\ Moved(pc).pc = pc
      BY <1>1 DEF Memory, Places
    <2> HIDE DEF Moved
    <2>3. /\ sup' \in [Supervisors -> Memory]
          /\ \A t \in Supervisors, k \in Services : sup'[t].child[k] \in Pool(k) \cup {None}
          /\ sup'[s] = Moved(pc)
      BY <1>1, <2>1, <2>2, MemoryTypes
    <2>4. TypeOK'
      BY <1>1, <2>1, <2>3 DEF TypeOK, KeepCtl
    <2> QED BY <1>1, <2>1, <2>2, <2>3, <2>4, NothingStarts DEF KeepCtl
  <1>5. CASE CheckAsr(s)
    <2>0. PICK status \in asr_status :
             /\ LaunchAsr \/ UNCHANGED <<life, asrPidFile>>
             /\ sup' = [sup EXCEPT ![s].pc = "report", ![s].asrOk = status = "ok",
                                   ![s].asrMisses = AsrMissesAfter(s, status)]
             /\ UNCHANGED <<unread, pidFile, statusDoc>> /\ KeepCtl
      BY <1>5, Zenon DEF CheckAsr
    <2>2. AsrMissesAfter(s, status) \in Nat
      BY <1>1 DEF AsrMissesAfter, Memory, AsrThreshold
    <2> DEFINE me == [sup[s] EXCEPT !.pc = "report", !.asrOk = status = "ok",
                                    !.asrMisses = AsrMissesAfter(s, status)]
    <2>1. /\ LaunchAsr \/ UNCHANGED <<life, asrPidFile>>
          /\ sup' = [sup EXCEPT ![s] = me]
          /\ UNCHANGED <<unread, pidFile, statusDoc>> /\ KeepCtl
      BY <1>2, <2>0
    <2>4. me \in Memory /\ me.child = sup[s].child /\ me.pc = "report"
      BY <1>1, <2>2 DEF Memory, Places
    <2> HIDE DEF me
    <2>5. /\ sup' \in [Supervisors -> Memory]
          /\ \A t \in Supervisors, k \in Services : sup'[t].child[k] \in Pool(k) \cup {None}
          /\ sup'[s] = me
      BY <1>1, <2>1, <2>4, MemoryTypes
    <2>6. /\ life' \in [Pids -> Lives]
          /\ asrPidFile' \in Recognizers \cup {None}
          /\ \A p \in Supervisors \cup Handlers \cup Gateways : life'[p] = life[p]
      <3>1. CASE UNCHANGED <<life, asrPidFile>>
        BY <1>1, <3>1 DEF TypeOK
      <3>2. CASE ~UNCHANGED <<life, asrPidFile>>
        <4>1. /\ Free(Recognizers) # {}
              /\ life' = [life EXCEPT ![New(Recognizers)] = "starting"]
              /\ asrPidFile' = New(Recognizers)
          BY <2>1, <3>2 DEF LaunchAsr
        <4>2. New(Recognizers) \in Recognizers
          BY <4>1, NewPid, Pools, FreePids
        <4>3. \A p \in Supervisors \cup Handlers \cup Gateways : p \in Pids /\ p # New(Recognizers)
          BY <4>2, Pools, PidsAssumption DEF PidsAssumption
        <4> QED BY <1>2, <4>1, <4>2, <4>3 DEF Lives
      <3> QED BY <3>1, <3>2
    <2>7. TypeOK'
      BY <1>1, <2>1, <2>5, <2>6 DEF TypeOK, KeepCtl
    <2> QED BY <1>1, <2>1, <2>4, <2>5, <2>6, <2>7, NothingStarts DEF KeepCtl
  <1>6. CASE Report(s)
    <2> DEFINE me == [sup[s] EXCEPT !.pc = "sleep", !.handlerOk = FALSE, !.gatewayOk = FALSE,
                                    !.asrOk = FALSE]
    <2>1. /\ statusDoc' = status_document(sup[s])
          /\ sup' = [sup EXCEPT ![s] = me]
          /\ UNCHANGED <<life, unread, pidFile, asrPidFile>> /\ KeepCtl
      <3>1. sup' = [sup EXCEPT ![s].pc = "sleep", ![s].handlerOk = FALSE,
                               ![s].gatewayOk = FALSE, ![s].asrOk = FALSE]
        BY <1>6 DEF Report
      <3>2. sup' = [sup EXCEPT ![s] = me]
        BY <1>2, <3>1
      <3> QED BY <1>6, <3>2 DEF Report
    <2>2. me \in Memory /\ me.child = sup[s].child /\ me.pc = "sleep"
      BY <1>1 DEF Memory, Places
    <2> HIDE DEF me
    <2>3. /\ sup' \in [Supervisors -> Memory]
          /\ \A t \in Supervisors, k \in Services : sup'[t].child[k] \in Pool(k) \cup {None}
          /\ sup'[s] = me
      BY <1>1, <2>1, <2>2, MemoryTypes
    <2>4. statusDoc' \in {"ok", "blocked", "degraded"}
      BY <2>1 DEF status_document
    <2>5. TypeOK'
      BY <1>1, <2>1, <2>3, <2>4 DEF TypeOK, KeepCtl
    <2> QED BY <1>1, <2>1, <2>2, <2>3, <2>5, NothingStarts DEF KeepCtl
  <1>7. CASE StopServices(s)
    <2> DEFINE me == [sup[s] EXCEPT !.pc = "final"]
               after == [p \in Pids |-> IF \E k \in Services : sup[s].child[k] = p
                                        THEN "none" ELSE life[p]]
    <2>1. /\ life' = after /\ sup' = [sup EXCEPT ![s] = me]
          /\ UNCHANGED <<unread, pidFile, asrPidFile, statusDoc>> /\ KeepCtl
      BY <1>7 DEF StopServices
    <2>2. me \in Memory /\ me.child = sup[s].child /\ me.pc = "final"
      BY <1>1 DEF Memory, Places
    <2>3. after \in [Pids -> Lives] /\ \A p \in Pids : after[p] # "none" => life[p] # "none"
      BY <1>2 DEF Lives
    <2> HIDE DEF me, after
    <2>4. /\ sup' \in [Supervisors -> Memory]
          /\ \A t \in Supervisors, k \in Services : sup'[t].child[k] \in Pool(k) \cup {None}
          /\ sup'[s] = me
      BY <1>1, <2>1, <2>2, MemoryTypes
    <2>5. TypeOK'
      BY <1>1, <2>1, <2>3, <2>4 DEF TypeOK, KeepCtl
    <2> QED BY <1>1, <2>1, <2>2, <2>3, <2>4, <2>5, Pools, NothingStarts DEF KeepCtl
  <1>8. CASE Exit(s)
    <2>1. /\ statusDoc' = "stopped" /\ pidFile' = None
          /\ life' = [life EXCEPT ![s] = "none"] /\ sup' = [sup EXCEPT ![s] = Newborn]
          /\ UNCHANGED <<unread, asrPidFile>> /\ KeepCtl
      BY <1>8 DEF Exit
    <2>2. /\ sup' \in [Supervisors -> Memory]
          /\ \A t \in Supervisors, k \in Services : sup'[t].child[k] \in Pool(k) \cup {None}
      BY <1>1, <2>1, NewbornTypes
    <2>3. /\ life' \in [Pids -> Lives] /\ life'[s] = "none"
          /\ \A p \in Pids : life'[p] # "none" => life[p] # "none"
      BY <1>2, <2>1 DEF Lives
    <2>4. TypeOK'
      BY <1>1, <2>1, <2>2, <2>3 DEF TypeOK, KeepCtl
    <2> QED BY <1>1, <2>1, <2>3, <2>4, Pools, NothingStarts DEF KeepCtl
  <1> QED BY <1>3, <1>4, <1>5, <1>6, <1>7, <1>8

LEMMA TickStep == ASSUME IInv, NEW s \in Supervisors, Tick(s) PROVE IInv'
  BY StartSteps, WatchSteps, PlainSteps DEF Tick

-----------------------------------------------------------------------------
(* What processes and commands do.                                         *)

\* Nothing is started, and the supervisors that go on have their place and children.
Fewer ==
    /\ \A p \in Supervisors \cup Handlers \cup Gateways : life'[p] # "none" => life[p] # "none"
    /\ \A s \in Supervisors : life'[s] # "none" =>
         sup'[s].pc = sup[s].pc /\ sup'[s].child = sup[s].child

LEMMA FewerAlive ==
  ASSUME IInv, Fewer
  PROVE  /\ Alive(Supervisors)' \subseteq Alive(Supervisors)
         /\ Alive(Handlers \cup Gateways)' \subseteq Alive(Handlers \cup Gateways)
         /\ Alive(Gateways)' \subseteq Alive(Gateways)
         /\ (ctl'.pc = "spawn" => Alive(Gateways)' = {}) => GatewaysOK'
  <1>1. /\ Alive(Supervisors)' \subseteq Alive(Supervisors)
        /\ Alive(Handlers \cup Gateways)' \subseteq Alive(Handlers \cup Gateways)
        /\ Alive(Gateways)' \subseteq Alive(Gateways)
    BY DEF Fewer, Alive
  <1>2. \A g \in Alive(Gateways)', h \in Alive(Gateways)' : g = h
    BY <1>1 DEF IInv, GatewaysOK
  <1>3. ASSUME NEW s \in Alive(Supervisors)' PROVE KeepsGateway(s)'
    <2>1. sup'[s].pc = sup[s].pc /\ sup'[s].child = sup[s].child
      BY DEF Fewer, Alive
    <2>2. KeepsGateway(s)
      BY <1>1 DEF IInv, GatewaysOK
    <2> QED BY <1>1, <2>1, <2>2 DEF KeepsGateway
  <1> QED BY <1>1, <1>2, <1>3 DEF GatewaysOK

\* All the services.
LEMMA FewerParts ==
  Alive(Supervisors \cup Handlers \cup Gateways)
     = Alive(Supervisors) \cup Alive(Handlers \cup Gateways)
  BY DEF Alive

LEMMA QuietKeeps ==
  ASSUME IInv, Fewer, TypeOK', ctl' = ctl, pidFile' = pidFile
  PROVE  IInv'
  <1>1. /\ Alive(Supervisors)' \subseteq Alive(Supervisors)
        /\ Alive(Handlers \cup Gateways)' \subseteq Alive(Handlers \cup Gateways)
        /\ Alive(Gateways)' \subseteq Alive(Gateways)
        /\ (ctl'.pc = "spawn" => Alive(Gateways)' = {}) => GatewaysOK'
    BY FewerAlive
  <1>2. GatewaysOK'
    BY <1>1 DEF IInv, GatewaysOK
  <1>3. OneSupervisor'
    BY <1>1 DEF IInv, OneSupervisor, Allowed
  <1>4. StopOK'
    <2>1. Alive(Supervisors \cup Handlers \cup Gateways)'
            = Alive(Supervisors)' \cup Alive(Handlers \cup Gateways)'
      BY DEF Alive
    <2>2. StoppedMeansStopped'
      BY <1>1, <2>1, FewerParts DEF IInv, StopOK, StoppedMeansStopped
    <2> QED BY <1>1, <2>2 DEF IInv, StopOK
  <1> QED BY <1>2, <1>3, <1>4 DEF IInv

LEMMA ProcessStep ==
  ASSUME IInv,
         \/ \E h \in Handlers : BindHandler(h)
         \/ \E r \in Recognizers : LoadAsr(r)
         \/ \E g \in Gateways : GatewayLogs(g)
         \/ \E p \in Pids : Crash(p) \/ Hang(p) \/ Recover(p)
  PROVE  IInv'
  <1>1. TypeOK /\ life \in [Pids -> Lives] /\ sup \in [Supervisors -> Memory]
    BY DEF IInv, TypeOK
  <1>2. ASSUME NEW p \in Pids, NEW l \in Lives, life[p] # "none",
               life' = [life EXCEPT ![p] = l], UNCHANGED <<sup, unread, left>>, Quiet
        PROVE  IInv'
    <2>1. TypeOK'
      BY <1>1, <1>2 DEF TypeOK, Quiet
    <2>2. Fewer
      BY <1>1, <1>2, Pools DEF Fewer
    <2> QED BY <1>2, <2>1, <2>2, QuietKeeps DEF Quiet
  <1>3. ASSUME NEW pool, NEW p \in pool, pool \subseteq Pids, Bind(pool, p) PROVE IInv'
    <2>1. PICK l \in {"none", "up"} : life' = [life EXCEPT ![p] = l]
      BY <1>3 DEF Bind
    <2>2. life[p] # "none" /\ UNCHANGED <<sup, unread, left>> /\ Quiet
      BY <1>3 DEF Bind
    <2>3. l \in Lives /\ p \in Pids
      BY <1>3 DEF Lives
    <2> QED BY <1>2, <2>1, <2>2, <2>3
  <1>4. ASSUME NEW g \in Gateways, GatewayLogs(g) PROVE IInv'
    <2>1. unread' = unread + 1 /\ UNCHANGED <<life, sup, left>> /\ Quiet
      BY <1>4 DEF GatewayLogs
    <2>2. TypeOK'
      BY <1>1, <2>1 DEF TypeOK, Quiet
    <2>3. Fewer
      BY <2>1 DEF Fewer
    <2> QED BY <2>1, <2>2, <2>3, QuietKeeps DEF Quiet
  <1>5. ASSUME Trouble
        PROVE  /\ left' \in [commands : Nat, trouble : Nat]
               /\ Quiet /\ UNCHANGED unread
    BY <1>1, <1>5 DEF Trouble, TypeOK
  <1>6. ASSUME NEW p \in Pids, Crash(p) PROVE IInv'
    <2>1. life' = [life EXCEPT ![p] = "none"] /\ Trouble
      BY <1>6 DEF Crash
    <2>2. /\ sup' \in [Supervisors -> Memory]
          /\ \A t \in Supervisors, k \in Services : sup'[t].child[k] \in Pool(k) \cup {None}
          /\ \A t \in Supervisors : t # p => sup'[t] = sup[t]
      <3>1. CASE p \in Supervisors
        <4>1. sup' = [sup EXCEPT ![p] = Newborn]
          BY <1>6, <3>1 DEF Crash
        <4>2. \A t \in Supervisors : t # p => sup'[t] = sup[t]
          BY <1>1, <4>1
        <4> QED BY <1>1, <3>1, <4>1, <4>2, NewbornTypes
      <3>2. CASE p \notin Supervisors
        BY <1>1, <1>6, <3>2 DEF Crash, TypeOK
      <3> QED BY <3>1, <3>2
    <2>3. life' \in [Pids -> Lives] /\ life'[p] = "none" /\ \A q \in Pids : q # p => life'[q] = life[q]
      BY <1>1, <2>1 DEF Lives
    <2>4. TypeOK'
      BY <1>1, <1>5, <2>1, <2>2, <2>3 DEF TypeOK, Quiet
    <2>5. Fewer
      BY <2>2, <2>3, Pools DEF Fewer
    <2> QED BY <1>5, <2>1, <2>4, <2>5, QuietKeeps DEF Quiet
  <1>7. ASSUME NEW p \in Pids, Hang(p) PROVE IInv'
    <2>1. life[p] # "none" /\ life' = [life EXCEPT ![p] = "hung"] /\ Trouble /\ sup' = sup
      BY <1>7 DEF Hang
    <2>2. TypeOK'
      BY <1>1, <1>5, <2>1 DEF TypeOK, Quiet, Lives
    <2>3. Fewer
      BY <1>1, <2>1, Pools DEF Fewer
    <2> QED BY <1>5, <2>1, <2>2, <2>3, QuietKeeps DEF Quiet
  <1>8. ASSUME NEW p \in Pids, Recover(p) PROVE IInv'
    BY <1>2, <1>8 DEF Recover, Lives
  <1> QED BY <1>3, <1>4, <1>6, <1>7, <1>8, Pools DEF BindHandler, LoadAsr

\* The memory of the command, at another place of it or back where none runs.
LEMMA CtlTypes ==
  ASSUME TypeOK
  PROVE  /\ \A pc \in {"look", "takeover", "spawn", "mark", "stop", "wait", "terminate", "finish"} :
              Goto(pc) => /\ ctl' \in Commands
                          /\ ctl'.pc = pc /\ ctl'.op = ctl.op /\ ctl'.pid = ctl.pid
                          /\ ctl'.gaveUp = ctl.gaveUp /\ ctl'.answer = ctl.answer
         /\ \A op \in {"none", "start", "stop", "restart"},
               word \in {"already_running", "started", "stopped", "supervisor_stop_timeout"} :
              Answer(op, word) => /\ ctl' \in Commands
                                  /\ ctl'.pc = "idle" /\ ctl'.pid = None
                                  /\ ctl'.gaveUp = ctl.gaveUp /\ ctl'.answer = word
  <1>1. ctl \in Commands
    BY DEF TypeOK
  <1>2. ASSUME NEW pc \in {"look", "takeover", "spawn", "mark", "stop", "wait", "terminate", "finish"},
               Goto(pc)
        PROVE  /\ ctl' \in Commands
               /\ ctl'.pc = pc /\ ctl'.op = ctl.op /\ ctl'.pid = ctl.pid
               /\ ctl'.gaveUp = ctl.gaveUp /\ ctl'.answer = ctl.answer
    BY <1>1, <1>2 DEF Goto, Commands
  <1>3. ASSUME NEW op \in {"none", "start", "stop", "restart"},
               NEW word \in {"already_running", "started", "stopped", "supervisor_stop_timeout"},
               Answer(op, word)
        PROVE  /\ ctl' \in Commands
               /\ ctl'.pc = "idle" /\ ctl'.pid = None
               /\ ctl'.gaveUp = ctl.gaveUp /\ ctl'.answer = word
    BY <1>1, <1>3 DEF Answer, NoCommand, Commands
  <1> QED BY <1>2, <1>3

\* Steps that leave the processes alone: the command goes on to pc or answers.
LEMMA ReadingSteps ==
  ASSUME IInv, Look \/ Mark \/ Waited \/ (\E op \in {"start", "stop", "restart"} : Command(op))
  PROVE  IInv'
  <1>1. TypeOK /\ ctl \in Commands /\ ctl.op \in {"none", "start", "stop", "restart"}
        /\ ctl.pid \in Supervisors \cup {None} /\ pidFile \in Supervisors \cup {None}
    BY DEF IInv, TypeOK, Commands
  <1>2. /\ life' = life /\ sup' = sup
        /\ UNCHANGED <<sc, asrPidFile, statusDoc, unread>>
    BY DEF Look, Mark, Waited, Command, Keep
  <1>3. Alive(Supervisors)' = Alive(Supervisors)
        /\ Alive(Handlers \cup Gateways)' = Alive(Handlers \cup Gateways)
        /\ Alive(Gateways)' = Alive(Gateways)
    BY <1>2 DEF Alive
  <1>4. (ctl'.pc = "spawn" => Alive(Gateways)' = {}) => GatewaysOK'
    <2>1. Fewer
      BY <1>2 DEF Fewer
    <2> QED BY <2>1, FewerAlive
  <1>5. ASSUME NEW p \in Supervisors \cup {None}, ~running(p), Alive(Supervisors) \subseteq {p}
        PROVE  Alive(Supervisors) = {}
    BY <1>5, Pools DEF running, Alive
  <1>6. CASE Look
    <2>1. ctl.pc = "look" /\ UNCHANGED <<pidFile, left>>
      BY <1>6 DEF Look, At
    <2>2. Alive(Supervisors) \subseteq {pidFile} /\ ctl.answer = "none"
      BY <2>1 DEF IInv, OneSupervisor, Allowed, StopOK
    <2>3. CASE running(pidFile)
      <3>1. ctl' \in Commands /\ ctl'.pc = "idle" /\ ctl'.answer = "already_running"
        BY <1>1, <1>6, <2>3, CtlTypes DEF Look
      <3>2. TypeOK'
        BY <1>1, <1>2, <2>1, <3>1 DEF TypeOK
      <3>3. OneSupervisor' /\ StopOK'
        BY <1>3, <2>1, <2>2, <3>1 DEF OneSupervisor, Allowed, StopOK, StoppedMeansStopped
      <3> QED BY <1>4, <3>1, <3>2, <3>3 DEF IInv
    <2>4. CASE ~running(pidFile)
      <3>1. ctl' \in Commands /\ ctl'.pc = "takeover" /\ ctl'.answer = "none"
        BY <1>1, <1>6, <2>2, <2>4, CtlTypes DEF Look
      <3>2. TypeOK'
        BY <1>1, <1>2, <2>1, <3>1 DEF TypeOK
      <3>3. Alive(Supervisors) = {}
        BY <1>1, <1>5, <2>2, <2>4
      <3>4. OneSupervisor' /\ StopOK'
        BY <1>3, <3>1, <3>3 DEF OneSupervisor, Allowed, StopOK, StoppedMeansStopped
      <3> QED BY <1>4, <3>1, <3>2, <3>4 DEF IInv
    <2> QED BY <2>3, <2>4
  <1>7. CASE Mark
    <2>1. ctl.pc = "mark" /\ pidFile' = ctl.pid /\ left' = left /\ Answer(ctl.op, "started")
      BY <1>7 DEF Mark, At
    <2>2. ctl' \in Commands /\ ctl'.pc = "idle" /\ ctl'.answer = "started"
      BY <1>1, <2>1, CtlTypes
    <2>3. TypeOK'
      BY <1>1, <1>2, <2>1, <2>2 DEF TypeOK
    <2>4. OneSupervisor' /\ StopOK'
      BY <1>3, <2>1, <2>2 DEF IInv, OneSupervisor, Allowed, StopOK, StoppedMeansStopped
    <2> QED BY <1>4, <2>2, <2>3, <2>4 DEF IInv
  <1>8. CASE Waited
    <2>1. /\ ctl.pc = "wait" /\ UNCHANGED <<pidFile, left>>
          /\ ctl' = [ctl EXCEPT !.pc = "terminate", !.gaveUp = running(ctl.pid)]
      BY <1>8 DEF Waited, At
    <2>2. running(ctl.pid) \in BOOLEAN
      BY DEF running
    <2>3. /\ ctl' \in Commands /\ ctl'.pc = "terminate" /\ ctl'.answer = ctl.answer
          /\ ctl'.gaveUp = running(ctl.pid) /\ ctl'.pid = ctl.pid
      BY <1>1, <2>1, <2>2 DEF Commands
    <2>4. TypeOK'
      BY <1>1, <1>2, <2>1, <2>3 DEF TypeOK
    <2>5. /\ Alive(Supervisors) \subseteq {pidFile} /\ Alive(Supervisors) \subseteq {ctl.pid}
          /\ ctl.answer = "none"
      BY <2>1 DEF IInv, OneSupervisor, Allowed, StopOK
    <2>6. ~running(ctl.pid) => Alive(Supervisors) = {}
      BY <1>1, <1>5, <2>5
    <2>7. OneSupervisor' /\ StopOK'
      BY <1>3, <2>1, <2>3, <2>5, <2>6 DEF OneSupervisor, Allowed, StopOK, StoppedMeansStopped
    <2> QED BY <1>4, <2>3, <2>4, <2>7 DEF IInv
  <1>9. CASE \E op \in {"start", "stop", "restart"} : Command(op)
    <2>1. PICK op \in {"start", "stop", "restart"} : Command(op)
      BY <1>9
    <2>2. /\ ctl.pc = "idle" /\ left.commands > 0 /\ pidFile' = pidFile
          /\ left' = [left EXCEPT !.commands = @ - 1]
          /\ ctl' = [NoCommand EXCEPT !.op = op, !.pc = IF op = "start" THEN "look" ELSE "stop"]
      BY <2>1 DEF Command, At
    <2>3. /\ ctl' \in Commands /\ ctl'.pc \in {"look", "stop"} /\ ctl'.answer = "none"
      BY <2>2 DEF NoCommand, Commands
    <2>4. left' \in [commands : Nat, trouble : Nat]
      BY <1>1, <2>2 DEF TypeOK
    <2>5. TypeOK'
      BY <1>1, <1>2, <2>2, <2>3, <2>4 DEF TypeOK
    <2>6. OneSupervisor' /\ StopOK'
      BY <1>3, <2>2, <2>3 DEF IInv, OneSupervisor, Allowed, StopOK, StoppedMeansStopped
    <2> QED BY <1>4, <2>3, <2>5, <2>6 DEF IInv
  <1> QED BY <1>6, <1>7, <1>8, <1>9

\* Takeover and Terminate: no service is left.
LEMMA ServicesTerminated ==
  ASSUME IInv, terminate_matching_processes, sup' = sup
  PROVE  /\ life' \in [Pids -> Lives] /\ Fewer
         /\ Alive(Supervisors)' = Alive(Supervisors)
         /\ Alive(Handlers \cup Gateways)' = {} /\ Alive(Gateways)' = {}
  <1>1. life \in [Pids -> Lives]
    BY DEF IInv, TypeOK
  <1>2. \A p \in Pids : life'[p] = IF p \in Handlers \cup Gateways THEN "none" ELSE life[p]
    BY DEF terminate_matching_processes
  <1>3. life' \in [Pids -> Lives]
    BY <1>1 DEF terminate_matching_processes, Lives
  <1>4. \A p \in Supervisors : p \in Pids /\ p \notin Handlers \cup Gateways
    BY Pools, PidsAssumption DEF PidsAssumption
  <1>5. \A p \in Handlers \cup Gateways : p \in Pids
    BY Pools
  <1>6. \A p \in Supervisors : life'[p] = life[p]
    BY <1>2, <1>4
  <1>7. \A p \in Handlers \cup Gateways : life'[p] = "none"
    BY <1>2, <1>5
  <1> QED BY <1>3, <1>6, <1>7 DEF Fewer, Alive

LEMMA TerminatingSteps ==
  ASSUME IInv, Takeover \/ Terminate
  PROVE  IInv'
  <1>1. PICK pc \in {"spawn", "finish"} :
          /\ ctl.pc = IF pc = "spawn" THEN "takeover" ELSE "terminate"
          /\ terminate_matching_processes /\ Goto(pc) /\ Keep
          /\ UNCHANGED <<sup, pidFile, left>>
    BY DEF Takeover, Terminate, At
  <1>2. TypeOK
    BY DEF IInv
  <1>3. /\ ctl' \in Commands /\ ctl'.pc = pc /\ ctl'.pid = ctl.pid
        /\ ctl'.gaveUp = ctl.gaveUp /\ ctl'.answer = ctl.answer
    BY <1>1, <1>2, CtlTypes
  <1>4. /\ life' \in [Pids -> Lives] /\ Fewer
        /\ Alive(Supervisors)' = Alive(Supervisors)
        /\ Alive(Handlers \cup Gateways)' = {} /\ Alive(Gateways)' = {}
    BY <1>1, ServicesTerminated
  <1>5. TypeOK'
    BY <1>1, <1>2, <1>3, <1>4 DEF TypeOK, Keep
  <1>6. GatewaysOK'
    BY <1>4, FewerAlive
  <1>7. ctl.answer = "none"
    BY <1>1 DEF IInv, StopOK
  <1>8. OneSupervisor'
    BY <1>1, <1>3, <1>4 DEF IInv, OneSupervisor, Allowed
  <1>9. StopOK'
    BY <1>1, <1>3, <1>4, <1>7 DEF IInv, StopOK, StoppedMeansStopped
  <1> QED BY <1>5, <1>6, <1>8, <1>9 DEF IInv

LEMMA SpawnStep == ASSUME IInv, Spawn PROVE IInv'
  <1> DEFINE n == New(Supervisors)
  <1>1. TypeOK /\ life \in [Pids -> Lives] /\ sup \in [Supervisors -> Memory] /\ ctl \in Commands
    BY DEF IInv, TypeOK
  <1>2. /\ ctl.pc = "spawn" /\ Free(Supervisors) # {}
        /\ life' = [life EXCEPT ![n] = "up"] /\ sup' = [sup EXCEPT ![n] = Newborn]
        /\ ctl' = [ctl EXCEPT !.pc = "mark", !.pid = n]
        /\ Keep /\ UNCHANGED <<pidFile, left>>
    BY DEF Spawn, At
  <1>3. n \in Supervisors /\ n \in Pids
    BY <1>2, NewPid, Pools, FreePids
  <1> HIDE DEF n
  <1>4. /\ ctl' \in Commands /\ ctl'.pc = "mark" /\ ctl'.pid = n
        /\ ctl'.gaveUp = ctl.gaveUp /\ ctl'.answer = ctl.answer
    BY <1>1, <1>2, <1>3 DEF Commands
  <1>5. /\ sup' \in [Supervisors -> Memory]
        /\ \A t \in Supervisors, k \in Services : sup'[t].child[k] \in Pool(k) \cup {None}
    BY <1>1, <1>2, <1>3, NewbornTypes
  <1>6. /\ life' \in [Pids -> Lives]
        /\ \A p \in Pids : p # n => life'[p] = life[p]
    BY <1>1, <1>2, <1>3 DEF Lives
  <1>7. TypeOK'
    BY <1>1, <1>2, <1>4, <1>5, <1>6 DEF TypeOK, Keep
  <1>8. Alive(Supervisors) = {} /\ Alive(Gateways) = {} /\ ctl.answer = "none"
    BY <1>2 DEF IInv, OneSupervisor, Allowed, GatewaysOK, StopOK
  <1>9. Alive(Supervisors)' \subseteq {n}
    BY <1>6, <1>8, Pools DEF Alive
  <1>10. Alive(Gateways)' = {}
    <2>1. \A g \in Gateways : g \in Pids /\ g # n
      BY <1>3, Pools, PidsAssumption DEF PidsAssumption
    <2> QED BY <1>6, <1>8, <2>1 DEF Alive
  <1>11. OneSupervisor'
    BY <1>4, <1>9 DEF OneSupervisor, Allowed
  <1>12. GatewaysOK'
    BY <1>10 DEF GatewaysOK, KeepsGateway
  <1>13. StopOK'
    BY <1>4, <1>8 DEF StopOK, StoppedMeansStopped
  <1> QED BY <1>7, <1>11, <1>12, <1>13 DEF IInv

LEMMA StopStep == ASSUME IInv, Stop PROVE IInv'
  <1>1. TypeOK /\ life \in [Pids -> Lives] /\ sup \in [Supervisors -> Memory] /\ ctl \in Commands
        /\ pidFile \in Supervisors \cup {None}
    BY DEF IInv, TypeOK
  <1>2. /\ ctl.pc = "stop"
        /\ ctl' = [ctl EXCEPT !.pid = pidFile,
                              !.pc = IF running(pidFile) THEN "wait" ELSE "terminate"]
        /\ IF running(pidFile) THEN Signal(pidFile) ELSE UNCHANGED <<life, sup>>
        /\ Keep /\ UNCHANGED <<pidFile, left>>
    BY DEF Stop, At
  <1>3. /\ ctl' \in Commands /\ ctl'.pid = pidFile
        /\ ctl'.pc = IF running(pidFile) THEN "wait" ELSE "terminate"
        /\ ctl'.gaveUp = ctl.gaveUp /\ ctl'.answer = ctl.answer
    BY <1>1, <1>2 DEF Commands
  <1>4. /\ life' \in [Pids -> Lives] /\ sup' \in [Supervisors -> Memory]
        /\ \A t \in Supervisors, k \in Services : sup'[t].child[k] \in Pool(k) \cup {None}
        /\ Fewer
    <2>1. CASE ~running(pidFile)
      BY <1>1, <1>2, <2>1 DEF TypeOK, Fewer
    <2>2. CASE running(pidFile) /\ sup[pidFile].pc = "boot"
      <3>1. pidFile \in Supervisors /\ pidFile \in Pids
        BY <1>1, <2>2, Pools DEF running
      <3>2. life' = [life EXCEPT ![pidFile] = "none"] /\ sup' = [sup EXCEPT ![pidFile] = Newborn]
        BY <1>2, <2>2 DEF Signal
      <3>3. /\ sup' \in [Supervisors -> Memory]
            /\ \A t \in Supervisors, k \in Services : sup'[t].child[k] \in Pool(k) \cup {None}
        BY <1>1, <3>1, <3>2, NewbornTypes
      <3>4. /\ life' \in [Pids -> Lives]
            /\ \A p \in Pids : life'[p] # "none" => p # pidFile /\ life[p] # "none"
        BY <1>1, <3>1, <3>2 DEF Lives
      <3>5. Fewer
        BY <1>1, <3>1, <3>2, <3>4, Pools DEF Fewer
      <3> QED BY <3>3, <3>4, <3>5
    <2>3. CASE running(pidFile) /\ sup[pidFile].pc # "boot"
      <3> DEFINE me == [sup[pidFile] EXCEPT !.stop = TRUE]
      <3>1. pidFile \in Supervisors
        BY <1>1, <2>3, Pools DEF running
      <3>2. life' = life /\ sup' = [sup EXCEPT ![pidFile] = me]
        BY <1>2, <2>3 DEF Signal
      <3>3. sup[pidFile] \in Memory
        BY <1>1, <3>1
      <3>4. me \in Memory /\ me.child = sup[pidFile].child /\ me.pc = sup[pidFile].pc
        BY <3>3 DEF Memory
      <3> HIDE DEF me
      <3>5. /\ sup' \in [Supervisors -> Memory]
            /\ \A t \in Supervisors, k \in Services : sup'[t].child[k] \in Pool(k) \cup {None}
            /\ sup'[pidFile] = me
        BY <1>1, <3>1, <3>2, <3>4, MemoryTypes
      <3>6. Fewer
        BY <1>1, <3>1, <3>2, <3>4, <3>5 DEF Fewer
      <3> QED BY <1>1, <3>2, <3>5, <3>6
    <2> QED BY <2>1, <2>2, <2>3
  <1>5. TypeOK'
    BY <1>1, <1>2, <1>3, <1>4 DEF TypeOK, Keep
  <1>6. Alive(Supervisors)' \subseteq Alive(Supervisors)
    BY <1>4, FewerAlive
  <1>7. Alive(Supervisors) \subseteq {pidFile} /\ ctl.answer = "none"
    BY <1>2 DEF IInv, OneSupervisor, Allowed, StopOK
  <1>8. ~running(pidFile) => Alive(Supervisors) = {}
    BY <1>1, <1>7, Pools DEF running, Alive
  <1>9. OneSupervisor'
    BY <1>2, <1>3, <1>6, <1>7 DEF OneSupervisor, Allowed
  <1>10. GatewaysOK'
    BY <1>3, <1>4, FewerAlive
  <1>11. StopOK'
    BY <1>3, <1>6, <1>7, <1>8 DEF StopOK, StoppedMeansStopped
  <1> QED BY <1>5, <1>9, <1>10, <1>11 DEF IInv

LEMMA FinishStep == ASSUME IInv, Finish PROVE IInv'
  <1>1. /\ TypeOK /\ life \in [Pids -> Lives] /\ ctl \in Commands
        /\ pidFile \in Supervisors \cup {None} /\ asrPidFile \in Recognizers \cup {None}
        /\ ctl.pid \in Supervisors \cup {None}
    BY DEF IInv, TypeOK, Commands
  <1>2. /\ ctl.pc = "finish" /\ StopAsr(asrPidFile)
        /\ pidFile' = IF running(ctl.pid) THEN pidFile ELSE None
        /\ UNCHANGED <<sc, sup, statusDoc, unread, left>>
    BY DEF Finish, At
  <1>3. \/ /\ ctl' = [ctl EXCEPT !.pc = "look", !.pid = None]
        \/ Answer("stop", IF running(ctl.pid) THEN "supervisor_stop_timeout" ELSE "stopped")
    BY DEF Finish
  <1>4. /\ ctl' \in Commands /\ ctl'.pc \in {"look", "idle"} /\ ctl'.gaveUp = ctl.gaveUp
        /\ ctl'.pc = "look" => ctl'.answer = ctl.answer
        /\ ctl'.answer \in {ctl.answer, "stopped", "supervisor_stop_timeout"}
    <2>1. CASE ctl' = [ctl EXCEPT !.pc = "look", !.pid = None]
      BY <1>1, <2>1 DEF Commands
    <2>2. CASE Answer("stop", IF running(ctl.pid) THEN "supervisor_stop_timeout" ELSE "stopped")
      <3>1. PICK word \in {"stopped", "supervisor_stop_timeout"} : Answer("stop", word)
        BY <2>2
      <3> QED BY <1>1, <3>1, CtlTypes
    <2> QED BY <1>3, <2>1, <2>2
  <1>5. /\ life' \in [Pids -> Lives] /\ asrPidFile' \in Recognizers \cup {None}
        /\ \A p \in Pids : life'[p] = life[p] \/ life'[p] = "none"
    <2>1. CASE sc.stopAsr /\ running(asrPidFile)
      <3>1. life' = [life EXCEPT ![asrPidFile] = "none"] /\ asrPidFile' = None
        BY <1>2, <2>1 DEF StopAsr
      <3> QED BY <1>1, <3>1 DEF Lives
    <2>2. CASE ~(sc.stopAsr /\ running(asrPidFile))
      <3>1. life' = life /\ asrPidFile' = IF sc.stopAsr THEN None ELSE asrPidFile
        BY <1>2, <2>2 DEF StopAsr
      <3> QED BY <1>1, <3>1
    <2> QED BY <2>1, <2>2
  <1>6. Fewer
    BY <1>2, <1>5, Pools DEF Fewer
  <1>7. /\ Alive(Supervisors)' \subseteq Alive(Supervisors)
        /\ Alive(Handlers \cup Gateways)' \subseteq Alive(Handlers \cup Gateways)
        /\ GatewaysOK'
    BY <1>4, <1>6, FewerAlive
  <1>8. TypeOK'
    BY <1>1, <1>2, <1>4, <1>5 DEF TypeOK
  <1>9. /\ Alive(Supervisors) \subseteq {pidFile} /\ Alive(Supervisors) \subseteq {ctl.pid}
        /\ ctl.answer = "none"
    BY <1>2 DEF IInv, OneSupervisor, Allowed, StopOK
  <1>10. OneSupervisor'
    <2>1. ~running(ctl.pid) => Alive(Supervisors) = {}
      BY <1>1, <1>9, Pools DEF running, Alive
    <2> QED BY <1>2, <1>4, <1>7, <1>9, <2>1 DEF OneSupervisor, Allowed
  <1>11. StopOK'
    <2>1. ~ctl.gaveUp => Alive(Supervisors) = {} /\ Alive(Handlers \cup Gateways) = {}
      BY <1>2 DEF IInv, StopOK
    <2>2. Alive(Supervisors \cup Handlers \cup Gateways)'
            = Alive(Supervisors)' \cup Alive(Handlers \cup Gateways)'
      BY DEF Alive
    <2> QED BY <1>4, <1>7, <1>9, <2>1, <2>2 DEF StopOK, StoppedMeansStopped
  <1> QED BY <1>7, <1>8, <1>10, <1>11 DEF IInv

-----------------------------------------------------------------------------
(* The invariant.                                                          *)

LEMMA IInvInit == Init => IInv
  <1> SUFFICES ASSUME Init PROVE IInv
    OBVIOUS
  <1>1. /\ sc \in Scenario /\ life = [p \in Pids |-> "none"]
        /\ sup = [s \in Supervisors |-> Newborn]
        /\ unread = 0 /\ pidFile = None /\ asrPidFile = None /\ statusDoc = "unknown"
        /\ ctl = NoCommand /\ left = [commands |-> sc.commands, trouble |-> sc.trouble]
    BY ScenariosAssumption DEF ScenariosAssumption, Init
  <1>2. \A pool \in SUBSET Pids : Alive(pool) = {}
    BY <1>1 DEF Alive
  <1>3. Newborn \in Memory /\ \A k \in Services : Newborn.child[k] = None
    BY DEF Newborn, Memory, Places
  <1>4. NoCommand \in Commands /\ NoCommand.pc = "idle" /\ NoCommand.answer = "none"
    BY DEF NoCommand, Commands
  <1>5. left \in [commands : Nat, trouble : Nat]
    BY <1>1 DEF Scenario
  <1>6. TypeOK
    <2>1. life \in [Pids -> Lives] /\ sup \in [Supervisors -> Memory]
      BY <1>1, <1>3 DEF Lives
    <2>2. \A s \in Supervisors, k \in Services : sup[s].child[k] \in Pool(k) \cup {None}
      BY <1>1, <1>3
    <2> QED BY <1>1, <1>4, <1>5, <2>1, <2>2 DEF TypeOK
  <1>7. Alive(Supervisors) = {} /\ Alive(Gateways) = {}
    BY <1>2, Pools
  <1>8. OneSupervisor /\ GatewaysOK /\ StopOK
    BY <1>1, <1>4, <1>7 DEF OneSupervisor, GatewaysOK, StopOK, StoppedMeansStopped
  <1> QED BY <1>6, <1>8 DEF IInv

LEMMA IInvStep == IInv /\ [Next]_vars => IInv'
  <1> SUFFICES ASSUME IInv, [Next]_vars PROVE IInv'
    OBVIOUS
  <1>1. ASSUME NEW s \in Supervisors, Tick(s) PROVE IInv'
    BY <1>1, TickStep
  <1>2. CASE \E op \in {"start", "stop", "restart"} : Command(op)
    BY <1>2, ReadingSteps
  <1>3. CASE CtlStep
    BY <1>3, ReadingSteps, TerminatingSteps, SpawnStep, StopStep, FinishStep DEF CtlStep
  <1>4. CASE \/ \E h \in Handlers : BindHandler(h)
             \/ \E r \in Recognizers : LoadAsr(r)
             \/ \E g \in Gateways : GatewayLogs(g)
             \/ \E p \in Pids : Crash(p) \/ Hang(p) \/ Recover(p)
    BY <1>4, ProcessStep
  <1>5. CASE UNCHANGED vars
    <2>1. Fewer
      BY <1>5 DEF vars, Fewer
    <2>2. TypeOK' /\ ctl' = ctl /\ pidFile' = pidFile
      BY <1>5 DEF vars, IInv, TypeOK
    <2> QED BY <2>1, <2>2, QuietKeeps
  <1> QED BY <1>1, <1>2, <1>3, <1>4, <1>5 DEF Next

(* One supervisor runs at most, its PID file or the command that starts it *)
(* names it, and what runs of its services is its own, whatever crashes,   *)
(* hangs or is stopped and started again.                                  *)
THEOREM Invariant == Spec => []IInv
<1> QED BY IInvInit, IInvStep, PTL DEF Spec

(* Processes, memories, files and answers have their form.                 *)
THEOREM TypeCorrect == Spec => []TypeOK
<1>1. IInv => TypeOK
  BY DEF IInv
<1> QED BY <1>1, Invariant, PTL

(* One consumer of the bot's events runs at most (build_services, restart, *)
(* start's takeover), for any number of crashes, hangs and commands.       *)
THEOREM OneConsumer == Spec => []OneGateway
<1>1. IInv => OneGateway
  <2> SUFFICES ASSUME IInv PROVE Cardinality(Alive(Gateways)) <= 1
    BY DEF OneGateway
  <2>1. CASE Alive(Gateways) = {}
    BY <2>1, FS_EmptySet
  <2>2. CASE Alive(Gateways) # {}
    <3>1. PICK g \in Alive(Gateways) : TRUE
      BY <2>2
    <3>2. Alive(Gateways) = {g}
      BY <3>1 DEF IInv, GatewaysOK
    <3> QED BY <3>2, FS_Singleton
  <2> QED BY <2>1, <2>2
<1> QED BY <1>1, Invariant, PTL

(* A stop that did not give up and said stopped has left no supervisor and *)
(* no service running, whatever had crashed before or during it.           *)
THEOREM StopsAll == Spec => []StoppedMeansStopped
<1>1. IInv => StoppedMeansStopped
  BY DEF IInv, StopOK
<1> QED BY <1>1, Invariant, PTL

====
