------------------------- MODULE RuntimeSupervisor -------------------------
(***************************************************************************)
(* The supervisor of the local runtime (tools/local_runtime_supervisor.py),*)
(* the command that starts and stops it (local_runtime_ctl.py) and the     *)
(* speech service it recovers (local_asr_service_ctl.py).                  *)
(*                                                                         *)
(* A supervisor starts the task handler and the gateway as its children    *)
(* and then repeats a tick: it starts a child that is gone, asks the       *)
(* handler for its health, reads what the gateway logged, asks the speech  *)
(* service, writes its status and sleeps.  A command reads the PID file,   *)
(* and whatever a supervisor that died has left running is found by its    *)
(* command line and terminated.                                            *)
(***************************************************************************)
EXTENDS Naturals, FiniteSets

CONSTANTS
    Supervisors, Handlers, Gateways, Recognizers, \* process ids, by what they run
    Scenarios    \* the cases a run starts from

VARIABLES
    sc,          \* the scenario
    life,        \* what each process does
    sup,         \* the memory of each supervisor
    unread,      \* timeouts in the gateway's log that were not read yet
    pidFile,     \* supervisor.pid
    asrPidFile,  \* local-asr.pid
    statusDoc,   \* the word in status.json
    ctl,         \* the command that runs
    left         \* commands and troubles still to come

vars == <<sc, life, sup, unread, pidFile, asrPidFile, statusDoc, ctl, left>>

None == 0
Services == {"handler", "gateway"}
Pids == Supervisors \cup Handlers \cup Gateways \cup Recognizers
HealthThreshold == 2
TimeoutThreshold == 3
AsrThreshold == 2
MaxUnread == TimeoutThreshold       \* bound on the lines nobody has read

(* What a scenario fixes: whether a gateway that is stuck logs websocket   *)
(* timeouts (the SDK does; the command line consumer runs quiet), whether  *)
(* speech is recognized locally, whether stop includes the speech service, *)
(* and how much may be asked and may go wrong.                             *)
Scenario == [sdk : BOOLEAN, localAsr : BOOLEAN, stopAsr : BOOLEAN,
             commands : Nat, trouble : Nat]

(* A process id says what runs under it, and is never 0.                   *)
ASSUME PidsAssumption ==
    /\ Pids \subseteq Nat \ {None}
    /\ Supervisors \cap (Handlers \cup Gateways \cup Recognizers) = {}
    /\ Handlers \cap (Gateways \cup Recognizers) = {}
    /\ Gateways \cap Recognizers = {}
ASSUME ScenariosAssumption == Scenarios \subseteq Scenario

(* A supervisor's memory: its place in the tick, the signal, its children, *)
(* its counts, and what this tick has found.                               *)
Newborn == [pc |-> "boot", stop |-> FALSE, child |-> [k \in Services |-> None],
            misses |-> 0, hits |-> 0, asrMisses |-> 0,
            handlerOk |-> FALSE, gatewayOk |-> FALSE, asrOk |-> FALSE]

(* The command: pid is the process it reads or starts, gaveUp whether the  *)
(* supervisor was still there when its wait ended.                         *)
NoCommand == [op |-> "none", pc |-> "idle", pid |-> None, gaveUp |-> FALSE, answer |-> "none"]

(* ---- Processes ---- *)

running(p) == p # None /\ life[p] # "none"
Alive(pool) == {p \in pool : life[p] # "none"}

(* Ids a new process may get: nothing runs under them or names them.       *)
Referenced == {pidFile, asrPidFile, ctl.pid}
              \cup UNION {{sup[s].child[k] : k \in Services} : s \in Alive(Supervisors)}
Free(pool) == {p \in pool : life[p] = "none"} \ Referenced
New(pool) == CHOOSE p \in Free(pool) : \A q \in Free(pool) : p <= q

Pool(k) == IF k = "handler" THEN Handlers ELSE Gateways
Born(k) == IF k = "handler" THEN "starting" ELSE "up"

(* ManagedService.start for the services ks, after the processes in dying  *)
(* were stopped: me is the supervisor's memory but for the new children.   *)
(* A gateway's log is read from where it ends at that time.                *)
StartServices(s, ks, dying, me) ==
    LET new == [k \in ks |-> New(Pool(k))]
        Runs(p) == {k \in ks : new[k] = p}
    IN /\ \A k \in ks : Free(Pool(k)) # {}
       /\ life' = [p \in Pids |->
                     IF p \in dying THEN "none"
                     ELSE IF Runs(p) # {} THEN Born(CHOOSE k \in Runs(p) : TRUE)
                     ELSE life[p]]
       /\ sup' = [sup EXCEPT ![s] = [me EXCEPT !.child =
                     [k \in Services |-> IF k \in ks THEN new[k] ELSE @[k]]]]
       /\ unread' = IF "gateway" \in ks THEN 0 ELSE unread

(* ManagedService.restart: stop, with the signals it takes, then start.    *)
Restart(s, k, me) == StartServices(s, {k}, {sup[s].child[k]}, me)

Begin(s, pc) == life[s] = "up" /\ sup[s].pc = pc
KeepCtl == UNCHANGED <<sc, ctl, left>>

(* The new process writes its PID file and takes its signals from here on. *)
Boot(s) ==
    /\ Begin(s, "boot")
    /\ pidFile' = s
    /\ sup' = [sup EXCEPT ![s].pc = "initial"]
    /\ UNCHANGED <<life, unread, asrPidFile, statusDoc>> /\ KeepCtl

InitialStart(s) ==
    /\ Begin(s, "initial")
    /\ StartServices(s, Services, {}, [sup[s] EXCEPT !.pc = "ensure"])
    /\ UNCHANGED <<pidFile, asrPidFile, statusDoc>> /\ KeepCtl

(* The head of the loop: leave it after a signal, else start what is gone. *)
EnsureRunning(s) ==
    /\ Begin(s, "ensure") /\ ~sup[s].stop
    /\ StartServices(s, {k \in Services : ~running(sup[s].child[k])}, {},
                     [sup[s] EXCEPT !.pc = "handler"])
    /\ UNCHANGED <<pidFile, asrPidFile, statusDoc>> /\ KeepCtl

LeaveLoop(s) ==
    /\ Begin(s, "ensure") /\ sup[s].stop
    /\ sup' = [sup EXCEPT ![s].pc = "stopping"]
    /\ UNCHANGED <<life, unread, pidFile, asrPidFile, statusDoc>> /\ KeepCtl

(* Whoever holds the port answers.  At the threshold the child is          *)
(* restarted, and the status still says what the question found.           *)
InState(pool, state) == \E p \in pool : life[p] = state
http_health == InState(Handlers, "up")
MissesForgotten(s) == IF http_health THEN 0 ELSE 1
MissesAfter(s) == IF http_health THEN 0 ELSE sup[s].misses + 1

CheckHandler(s) ==
    LET misses == MissesAfter(s)
        me == [sup[s] EXCEPT !.pc = "gateway", !.handlerOk = http_health]
    IN /\ Begin(s, "handler")
       /\ IF misses >= HealthThreshold
          THEN Restart(s, "handler", [me EXCEPT !.misses = 0])
          ELSE /\ sup' = [sup EXCEPT ![s] = [me EXCEPT !.misses = misses]]
               /\ UNCHANGED <<life, unread>>
       /\ UNCHANGED <<pidFile, asrPidFile, statusDoc>> /\ KeepCtl

(* The timeouts logged since the last look are added up over the ticks.    *)
HitsAfter(s) == sup[s].hits + unread

WatchGateway(s) ==
    LET hits == HitsAfter(s)
        me == [sup[s] EXCEPT !.pc = "asr"]
    IN /\ Begin(s, "gateway")
       /\ IF hits >= TimeoutThreshold
          THEN Restart(s, "gateway", [me EXCEPT !.hits = 0, !.gatewayOk = TRUE])
          ELSE /\ sup' = [sup EXCEPT ![s] = [me EXCEPT !.hits = hits,
                              !.gatewayOk = running(sup[s].child["gateway"])]]
               /\ unread' = 0
               /\ UNCHANGED life
       /\ UNCHANGED <<pidFile, asrPidFile, statusDoc>> /\ KeepCtl

(* local_asr_service_ctl: what status may say of the speech service.  One  *)
(* that hangs but whose port still takes connections counts as ok (busy),  *)
(* and as down once its queue of connections is full.                      *)
asr_status == IF InState(Recognizers, "up") THEN {"ok"}
              ELSE IF InState(Recognizers, "hung") THEN {"ok", "blocked"}
              ELSE {"blocked"}

(* start launches one more service if status does not say ok, also while   *)
(* an earlier one still loads its model.  Its process is the one the PID   *)
(* file names from then on.                                                *)
LaunchAsr ==
    IF Free(Recognizers) = {}      \* bound: no process id is left
    THEN UNCHANGED <<life, asrPidFile>>
    ELSE /\ life' = [life EXCEPT ![New(Recognizers)] = "starting"]
         /\ asrPidFile' = New(Recognizers)

(* Only a speech service that is needed is counted and recovered, and the  *)
(* count stays at its limit until the service answers.                     *)
AsrMissesAfter(s, status) ==
    IF status = "ok" \/ ~sc.localAsr THEN 0
    ELSE IF sup[s].asrMisses = AsrThreshold THEN AsrThreshold
    ELSE sup[s].asrMisses + 1

CheckAsr(s) ==
    \E status \in asr_status :
        /\ Begin(s, "asr")
        /\ sup' = [sup EXCEPT ![s].pc = "report", ![s].asrOk = status = "ok",
                              ![s].asrMisses = AsrMissesAfter(s, status)]
        /\ \/ AsrMissesAfter(s, status) >= AsrThreshold /\ LaunchAsr
           \/ /\ AsrMissesAfter(s, status) < AsrThreshold \/ "ok" \in asr_status
              /\ UNCHANGED <<life, asrPidFile>>
        /\ UNCHANGED <<unread, pidFile, statusDoc>> /\ KeepCtl

status_document(me) ==
    IF me.handlerOk /\ me.gatewayOk /\ (me.asrOk \/ ~sc.localAsr) THEN "ok"
    ELSE IF sc.localAsr /\ ~me.asrOk THEN "blocked" ELSE "degraded"

Report(s) ==
    /\ Begin(s, "report")
    /\ statusDoc' = status_document(sup[s])
    /\ sup' = [sup EXCEPT ![s].pc = "sleep", ![s].handlerOk = FALSE,
                          ![s].gatewayOk = FALSE, ![s].asrOk = FALSE]
    /\ UNCHANGED <<life, unread, pidFile, asrPidFile>> /\ KeepCtl

(* The interval is longer than a handler needs to bind its port.           *)
Wake(s) ==
    /\ Begin(s, "sleep")
    /\ \A h \in Handlers : life[h] # "starting"
    /\ sup' = [sup EXCEPT ![s].pc = "ensure"]
    /\ UNCHANGED <<life, unread, pidFile, asrPidFile, statusDoc>> /\ KeepCtl

(* The loop is left: the children are stopped, then the status is written  *)
(* and the PID file removed, whomever it names.                            *)
StopServices(s) ==
    /\ Begin(s, "stopping")
    /\ life' = [p \in Pids |-> IF \E k \in Services : sup[s].child[k] = p
                               THEN "none" ELSE life[p]]
    /\ sup' = [sup EXCEPT ![s].pc = "final"]
    /\ UNCHANGED <<unread, pidFile, asrPidFile, statusDoc>> /\ KeepCtl

Exit(s) ==
    /\ Begin(s, "final")
    /\ statusDoc' = "stopped"
    /\ pidFile' = None
    /\ life' = [life EXCEPT ![s] = "none"]
    /\ sup' = [sup EXCEPT ![s] = Newborn]
    /\ UNCHANGED <<unread, asrPidFile>> /\ KeepCtl

Tick(s) == \/ Boot(s) \/ InitialStart(s) \/ EnsureRunning(s) \/ LeaveLoop(s)
           \/ CheckHandler(s) \/ WatchGateway(s) \/ CheckAsr(s) \/ Report(s)
           \/ Wake(s) \/ StopServices(s) \/ Exit(s)

(* ---- Commands ---- *)

(* SIGTERM: the signal handler only sets a flag; before it is installed    *)
(* the process dies of the signal.                                         *)
Signal(s) ==
    IF sup[s].pc = "boot"
    THEN /\ life' = [life EXCEPT ![s] = "none"]
         /\ sup' = [sup EXCEPT ![s] = Newborn]
    ELSE /\ sup' = [sup EXCEPT ![s].stop = TRUE]
         /\ UNCHANGED life

(* The services found by their command line die of the signal.             *)
terminate_matching_processes ==
    life' = [p \in Pids |-> IF p \in Handlers \cup Gateways THEN "none" ELSE life[p]]
TerminateNothing == life' = life

Keep == UNCHANGED <<sc, asrPidFile, statusDoc, unread>>
Answer(op, word) == ctl' = [NoCommand EXCEPT !.op = op, !.gaveUp = ctl.gaveUp, !.answer = word]
At(pc) == ctl.pc = pc
Goto(pc) == ctl' = [ctl EXCEPT !.pc = pc]

Command(op) ==
    /\ At("idle") /\ left.commands > 0
    /\ left' = [left EXCEPT !.commands = @ - 1]
    /\ ctl' = [NoCommand EXCEPT !.op = op, !.pc = IF op = "start" THEN "look" ELSE "stop"]
    /\ Keep /\ UNCHANGED <<life, sup, pidFile>>

(* start: a supervisor that runs is left alone.                            *)
Look ==
    /\ At("look")
    /\ IF running(pidFile) THEN Answer(ctl.op, "already_running") ELSE Goto("takeover")
    /\ Keep /\ UNCHANGED <<life, sup, pidFile, left>>

(* (start --no-takeover)                                                   *)
NoTakeover ==
    /\ At("takeover")
    /\ TerminateNothing
    /\ Goto("spawn")
    /\ Keep /\ UNCHANGED <<sup, pidFile, left>>

(* What an earlier supervisor left behind is terminated first.             *)
Takeover ==
    /\ At("takeover")
    /\ terminate_matching_processes
    /\ Goto("spawn")
    /\ Keep /\ UNCHANGED <<sup, pidFile, left>>

Spawn ==
    /\ At("spawn") /\ Free(Supervisors) # {}
    /\ life' = [life EXCEPT ![New(Supervisors)] = "up"]
    /\ sup' = [sup EXCEPT ![New(Supervisors)] = Newborn]
    /\ ctl' = [ctl EXCEPT !.pc = "mark", !.pid = New(Supervisors)]
    /\ Keep /\ UNCHANGED <<pidFile, left>>

(* The child is not waited for, so its process id counts as running        *)
(* whatever has become of it.                                              *)
Mark ==
    /\ At("mark")
    /\ pidFile' = ctl.pid
    /\ Answer(ctl.op, "started")
    /\ Keep /\ UNCHANGED <<life, sup, left>>

(* stop: signal the supervisor the file names, and wait for it at most     *)
(* twelve seconds, less than its longest tick and its own stop take.       *)
Stop ==
    /\ At("stop")
    /\ ctl' = [ctl EXCEPT !.pid = pidFile,
                          !.pc = IF running(pidFile) THEN "wait" ELSE "terminate"]
    /\ IF running(pidFile) THEN Signal(pidFile) ELSE UNCHANGED <<life, sup>>
    /\ Keep /\ UNCHANGED <<pidFile, left>>

Waited ==
    /\ At("wait")
    /\ ctl' = [ctl EXCEPT !.pc = "terminate", !.gaveUp = running(ctl.pid)]
    /\ Keep /\ UNCHANGED <<life, sup, pidFile, left>>

(* (stop --no-kill-children)                                               *)
TerminateNone ==
    /\ At("terminate")
    /\ TerminateNothing
    /\ Goto("finish")
    /\ Keep /\ UNCHANGED <<sup, pidFile, left>>

(* Whatever services still run are terminated, and the speech service too  *)
(* if asked for: the one its PID file names.                               *)
Terminate ==
    /\ At("terminate")
    /\ terminate_matching_processes
    /\ Goto("finish")
    /\ Keep /\ UNCHANGED <<sup, pidFile, left>>

StopAsr(r) == IF sc.stopAsr /\ running(r)
              THEN life' = [life EXCEPT ![r] = "none"] /\ asrPidFile' = None
              ELSE /\ UNCHANGED life
                   /\ asrPidFile' = IF sc.stopAsr THEN None ELSE asrPidFile

(* The answer, and for a restart the start that follows in any case.       *)
Finish ==
    /\ At("finish")
    /\ StopAsr(asrPidFile)
    /\ pidFile' = IF running(ctl.pid) THEN pidFile ELSE None
    /\ IF ctl.op = "restart" THEN ctl' = [ctl EXCEPT !.pc = "look", !.pid = None]
       ELSE Answer("stop", IF running(ctl.pid) THEN "supervisor_stop_timeout" ELSE "stopped")
    /\ UNCHANGED <<sc, sup, statusDoc, unread, left>>

CtlStep == \/ Look \/ Takeover \/ Spawn \/ Mark
           \/ Stop \/ Waited \/ Terminate \/ Finish

(* ---- The processes themselves ---- *)

Quiet == UNCHANGED <<sc, pidFile, asrPidFile, statusDoc, ctl>>

(* A handler binds the port or dies of its being taken; the speech service *)
(* loads its model first.                                                  *)
Bind(pool, p) ==
    /\ life[p] = "starting"
    /\ life' = [life EXCEPT ![p] = IF \E q \in pool : life[q] \in {"up", "hung"}
                                   THEN "none" ELSE "up"]
    /\ Quiet /\ UNCHANGED <<sup, unread, left>>
BindHandler(h) == Bind(Handlers, h)
LoadAsr(r) == Bind(Recognizers, r)

(* A gateway whose websocket is stuck says so in its log, time and again.  *)
GatewayLogs(g) ==
    /\ life[g] = "hung" /\ sc.sdk /\ unread < MaxUnread
    /\ unread' = unread + 1
    /\ Quiet /\ UNCHANGED <<life, sup, left>>

Trouble == /\ left.trouble > 0
           /\ left' = [left EXCEPT !.trouble = @ - 1]
           /\ Quiet /\ UNCHANGED unread

Crash(p) ==
    /\ life[p] # "none" /\ Trouble
    /\ life' = [life EXCEPT ![p] = "none"]
    /\ sup' = IF p \in Supervisors THEN [sup EXCEPT ![p] = Newborn] ELSE sup

Hang(p) ==
    /\ life[p] = "up" /\ p \notin Supervisors /\ Trouble
    /\ life' = [life EXCEPT ![p] = "hung"]
    /\ UNCHANGED sup

Recover(p) ==
    /\ life[p] = "hung"
    /\ life' = [life EXCEPT ![p] = "up"]
    /\ Quiet /\ UNCHANGED <<sup, unread, left>>

Init ==
    /\ sc \in Scenarios
    /\ life = [p \in Pids |-> "none"]
    /\ sup = [s \in Supervisors |-> Newborn]
    /\ unread = 0 /\ pidFile = None /\ asrPidFile = None /\ statusDoc = "unknown"
    /\ ctl = NoCommand
    /\ left = [commands |-> sc.commands, trouble |-> sc.trouble]

Next ==
    \/ \E s \in Supervisors : Tick(s)
    \/ \E op \in {"start", "stop", "restart"} : Command(op)
    \/ CtlStep
    \/ \E h \in Handlers : BindHandler(h)
    \/ \E r \in Recognizers : LoadAsr(r)
    \/ \E g \in Gateways : GatewayLogs(g)
    \/ \E p \in Pids : Crash(p) \/ Hang(p) \/ Recover(p)

(* The scheduler runs every process, a stuck gateway keeps logging, and a  *)
(* command that was given comes to its end.                                *)
Fairness ==
    /\ \A s \in Supervisors : WF_vars(Tick(s))
    /\ WF_vars(CtlStep)
    /\ \A h \in Handlers : WF_vars(BindHandler(h))
    /\ \A r \in Recognizers : WF_vars(LoadAsr(r))
    /\ \A g \in Gateways : WF_vars(GatewayLogs(g))

Spec == Init /\ [][Next]_vars /\ Fairness

(* ---- Properties ---- *)

(* One consumer of the bot's events runs at a time, over crashes of the    *)
(* supervisor, restarts and takeovers: with two, every message would be    *)
(* handled by both.                                                        *)
OneGateway == Cardinality(Alive(Gateways)) <= 1

(* After a stop that saw the supervisor go, or found none, and said        *)
(* stopped nothing of the runtime runs, whatever had become of supervisor  *)
(* and children before: no service, and no supervisor to start one.  (One  *)
(* that gave up waiting and then finds the supervisor dead of a crash may  *)
(* have missed services started in between.)                               *)
StoppedMeansStopped ==
    ctl.answer = "stopped" /\ ~ctl.gaveUp => Alive(Supervisors \cup Handlers \cup Gateways) = {}

Supervised == \E s \in Supervisors : life[s] # "none" /\ ~sup[s].stop
Served(k) == CASE k = "handler" -> http_health
               [] k = "gateway" -> InState(Gateways, "up")
               [] k = "asr"     -> InState(Recognizers, "up") \/ ~sc.localAsr

(* What a supervisor cannot cure: a speech service that hangs holds its    *)
(* port, so that it counts as busy or its replacement dies of the port,    *)
(* and of a gateway that is stuck without logging only the process is      *)
(* looked at.                                                              *)
BeyondCure(k) == CASE k = "handler" -> FALSE
                   [] k = "gateway" -> ~sc.sdk /\ InState(Gateways, "hung")
                   [] k = "asr"     -> InState(Recognizers, "hung")

(* While a supervisor runs that nobody asked to stop, a service that is    *)
(* gone comes back, and so do a handler that hangs and a gateway whose     *)
(* websocket timeouts are logged.  A speech service that hangs and a       *)
(* gateway that is stuck in silence need not: nothing restarts these.      *)
ServicesComeBack ==
    \A k \in Services \cup {"asr"} :
        Supervised /\ ~Served(k) ~> Served(k) \/ ~Supervised \/ BeyondCure(k)
=============================================================================
