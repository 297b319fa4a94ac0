---------------------------- MODULE EventIngress ----------------------------
(***************************************************************************)
(* How a chat message reaches the task handler.  Feishu delivers each      *)
(* message at least once, to the event runner ("cli", one concurrent task  *)
(* per line of lark-cli) or to the bot gateway ("sdk").  Either drops      *)
(* duplicates, POSTs the event to the handler and waits a bounded time.    *)
(* The handler answers at once and works in the background ("async") or    *)
(* when the work is done ("sync").  The runner remembers a message, in     *)
(* memory and on disk, once the handler accepted it; the gateway, in       *)
(* memory only, before it forwards it.                                     *)
(*                                                                         *)
(* A task is one delivery of one message.                                  *)
(***************************************************************************)
EXTENDS Naturals, Sequences, FiniteSets

CONSTANTS
    Events,         \* message ids
    Tasks,          \* the deliveries: <<message, 1>>, <<message, 2>>, ...
    SeenLimit,      \* ids remembered: 5000 by the runner, 1000 by the gateway
    Inbounds,       \* FEISHU_INBOUND_MODE: "cli", "sdk"
    AckModes,       \* FEISHU_AGENT_ASYNC: "async", "sync"
    MaxFaults       \* bound on crashes, lost requests and replies, and exceptions

ASSUME IngressAssumption ==
    /\ Tasks \subseteq Events \X (Nat \ {0})
    /\ \A e \in Events : <<e, 1>> \in Tasks
    /\ SeenLimit \in Nat \ {0}
    /\ MaxFaults \in Nat

VARIABLES
    inbound, ackMode, \* the deployment, fixed at the start
    delivery,     \* stage of each delivery in the runner or gateway
    outcome,  \* what the POST of each delivery came to
    run,      \* the handler's run for each delivery
    said,     \* who wrote to the user because of each delivery
    seen,     \* ids in memory, in insertion order
    file,     \* ids in .feishu-event-runner-dedupe.json
    marks,    \* history: every id the runner marked, in order
    torn,     \* history: a crash hit the dedupe file while it was written
    mishaps

modeVars == <<inbound, ackMode>>
memory == <<seen, file, marks, torn>>
ingressVars == <<modeVars, delivery, outcome, run, said, memory, mishaps>>

Stages == {"none", "logging", "posting", "done"}
\* "handled": 2xx with suppressGatewayReply; "silent": 2xx without.
Outcomes == {"none", "handled", "silent", "failed", "broken", "timeout"}
\* "unheard": the run ended, its reply arrived and counts as failed.
Progress == {"none", "sent", "working", "ended", "unheard", "failed", "lost"}
CameToEnd == {"ended", "unheard"}
\* The handler took the event up.
Started == {"working", "failed"} \cup CameToEnd

Ids(s) == {s[i] : i \in 1..Len(s)}
\* [...seen].slice(-5000)
Recent(s) == SubSeq(s, IF Len(s) > SeenLimit THEN Len(s) - SeenLimit + 1 ELSE 1, Len(s))

TypeOK ==
    /\ inbound \in Inbounds
    /\ ackMode \in AckModes
    /\ delivery \in [Tasks -> Stages]
    /\ outcome \in [Tasks -> Outcomes]
    /\ run \in [Tasks -> Progress]
    /\ said \in [Tasks -> SUBSET {"handler", "gateway"}]
    /\ seen \in Seq(Events) /\ file \in Seq(Events) /\ marks \in Seq(Events)
    /\ torn \in BOOLEAN
    /\ mishaps \in 0..MaxFaults
    /\ \A t \in Tasks : delivery[t] = "none" => run[t] = "none" /\ outcome[t] = "none"

InitIngress ==
    /\ inbound \in Inbounds
    /\ ackMode \in AckModes
    /\ delivery = [t \in Tasks |-> "none"]
    /\ outcome = [t \in Tasks |-> "none"]
    /\ run = [t \in Tasks |-> "none"]
    /\ said = [t \in Tasks |-> {}]
    /\ seen = <<>> /\ file = <<>> /\ marks = <<>>
    /\ torn = FALSE
    /\ mishaps = 0

Goes(t, stage) == delivery' = [delivery EXCEPT ![t] = stage]
Ends(t, result) == outcome' = [outcome EXCEPT ![t] = result]

\* The next delivery of a message that is due.
Due(t) ==
    /\ delivery[t] = "none"
    /\ \A u \in Tasks : u[1] = t[1] /\ u[2] < t[2] => delivery[u] # "none"

Mishap ==
    /\ mishaps < MaxFaults
    /\ mishaps' = mishaps + 1

-----------------------------------------------------------------------------
(* The event runner (lark-cli event consume).                              *)

\* A line arrives: a new async task appends it to the event log.
Line(t) ==
    /\ inbound = "cli"
    /\ Due(t)
    /\ Goes(t, "logging")
    /\ UNCHANGED <<modeVars, outcome, run, said, memory, mishaps>>

SkipDuplicate(t) ==
    /\ delivery[t] = "logging"
    /\ t[1] \in Ids(seen)
    /\ Goes(t, "done")
    /\ UNCHANGED <<modeVars, outcome, run, said, memory, mishaps>>

Post(t) ==
    /\ Goes(t, "posting")
    /\ run' = [run EXCEPT ![t] = "sent"]

Forward(t) ==
    /\ delivery[t] = "logging"
    /\ t[1] \notin Ids(seen)
    /\ Post(t)
    /\ UNCHANGED <<modeVars, outcome, said, memory, mishaps>>

\* appendFile throws: the line is reported as event_parse_failed and dropped.
LogFails(t) ==
    /\ delivery[t] = "logging"
    /\ Mishap
    /\ Goes(t, "done")
    /\ UNCHANGED <<modeVars, outcome, run, said, memory>>

\* saveSeen keeps the ids added last; a second Set.add of an id changes nothing.
Mark(t) ==
    /\ inbound = "cli"
    /\ delivery[t] = "posting"
    /\ outcome[t] \in {"handled", "silent"}
    /\ Goes(t, "done")
    /\ IF t[1] \in Ids(seen)
       THEN file' = Recent(seen) /\ UNCHANGED <<seen, marks>>
       ELSE /\ seen' = Append(seen, t[1])
            /\ file' = Recent(seen')
            /\ marks' = Append(marks, t[1])
    /\ UNCHANGED <<modeVars, outcome, run, said, torn, mishaps>>

\* An error status or a thrown fetch leaves the event unmarked.
LeaveUnmarked(t) ==
    /\ inbound = "cli"
    /\ delivery[t] = "posting"
    /\ outcome[t] \in {"failed", "broken", "timeout"}
    /\ Goes(t, "done")
    /\ UNCHANGED <<modeVars, outcome, run, said, memory, mishaps>>

-----------------------------------------------------------------------------
(* The bot gateway (SDK long connection).                                  *)

\* Marked first; a set grown past its limit is cleared, the new id included.
Receive(t) ==
    /\ inbound = "sdk"
    /\ Due(t)
    /\ t[1] \notin Ids(seen)
    /\ seen' = IF Len(seen) = SeenLimit THEN <<>> ELSE Append(seen, t[1])
    /\ Post(t)
    /\ UNCHANGED <<modeVars, outcome, said, file, marks, torn, mishaps>>

DropDuplicate(t) ==
    /\ inbound = "sdk"
    /\ Due(t)
    /\ t[1] \in Ids(seen)
    /\ Goes(t, "done")
    /\ UNCHANGED <<modeVars, outcome, run, said, memory, mishaps>>

\* Slip: suppressGatewayReply is not looked at.
AnswerAlways(t) ==
    /\ inbound = "sdk"
    /\ delivery[t] = "posting"
    /\ outcome[t] # "none"
    /\ Goes(t, "done")
    /\ \/ said' = [said EXCEPT ![t] = @ \cup {"gateway"}]
       \/ said' = said
    /\ UNCHANGED <<modeVars, outcome, run, memory, mishaps>>

\* The gateway writes the handler's text or an apology, unless told not to; a
\* failing send is only logged.
AnswerUser(t) ==
    /\ inbound = "sdk"
    /\ delivery[t] = "posting"
    /\ outcome[t] # "none"
    /\ Goes(t, "done")
    /\ \/ outcome[t] # "handled" /\ said' = [said EXCEPT ![t] = @ \cup {"gateway"}]
       \/ said' = said
    /\ UNCHANGED <<modeVars, outcome, run, memory, mishaps>>

-----------------------------------------------------------------------------
(* The POST and the handler.                                               *)

\* The caller aborts after its limit; the request may still be on its way.
TimesOut(t) ==
    /\ delivery[t] = "posting"
    /\ outcome[t] = "none"
    /\ Ends(t, "timeout")
    /\ UNCHANGED <<modeVars, delivery, run, said, memory, mishaps>>

\* The connection is refused or reset before the handler read the request.
RequestLost(t) ==
    /\ run[t] = "sent"
    /\ Mishap
    /\ run' = [run EXCEPT ![t] = "lost"]
    /\ outcome' = [outcome EXCEPT ![t] = IF @ = "none" THEN "broken" ELSE @]
    /\ UNCHANGED <<modeVars, delivery, said, memory>>

\* What the waiting caller receives; nobody waits once it gave up.
Respond(t, result) ==
    outcome' = [outcome EXCEPT ![t] = IF @ = "none" /\ delivery[t] = "posting" THEN result ELSE @]

\* Slip: an abandoned request is not taken up.
AcceptIfAwaited(t) ==
    /\ run[t] = "sent"
    /\ delivery[t] = "posting" /\ outcome[t] = "none"
    /\ run' = [run EXCEPT ![t] = "working"]
    /\ IF ackMode = "async" THEN Respond(t, "handled") ELSE UNCHANGED outcome
    /\ UNCHANGED <<modeVars, delivery, said, memory, mishaps>>

\* handleEvent starts; in async mode 202 is sent without waiting for it.
Accept(t) ==
    /\ run[t] = "sent"
    /\ run' = [run EXCEPT ![t] = "working"]
    /\ IF ackMode = "async" THEN Respond(t, "handled") ELSE UNCHANGED outcome
    /\ UNCHANGED <<modeVars, delivery, said, memory, mishaps>>

\* The run ends, its reply sent or not (blocked by mode, no message id, failed).
Finish(t) ==
    /\ run[t] = "working"
    /\ run' = [run EXCEPT ![t] = "ended"]
    /\ \/ said' = [said EXCEPT ![t] = @ \cup {"handler"}] /\ Respond(t, "handled")
       \/ said' = said /\ Respond(t, "silent")
    /\ UNCHANGED <<modeVars, delivery, memory, mishaps>>

\* Its reply arrives, but lark-cli reports a failure or is stopped by its time
\* limit: it counts as failed, and the gateway is not told to keep quiet.
FinishUnheard(t) ==
    /\ run[t] = "working"
    /\ Mishap
    /\ run' = [run EXCEPT ![t] = "unheard"]
    /\ said' = [said EXCEPT ![t] = @ \cup {"handler"}]
    /\ Respond(t, "silent")
    /\ UNCHANGED <<modeVars, delivery, memory>>

\* handleEvent throws, before or after it replied: 500, or a log line if async.
Throws(t) ==
    /\ run[t] = "working"
    /\ Mishap
    /\ run' = [run EXCEPT ![t] = "failed"]
    /\ \/ said' = [said EXCEPT ![t] = @ \cup {"handler"}]
       \/ said' = said
    /\ Respond(t, "failed")
    /\ UNCHANGED <<modeVars, delivery, memory>>

\* The handler dies with its runs; what it had not yet written is lost.
HandlerCrash ==
    /\ Mishap
    /\ \E t \in Tasks : run[t] = "working"
    /\ \E told \in SUBSET {t \in Tasks : run[t] = "working"} :
        said' = [t \in Tasks |-> said[t] \cup IF t \in told THEN {"handler"} ELSE {}]
    /\ run' = [t \in Tasks |-> IF run[t] = "working" THEN "failed" ELSE run[t]]
    /\ outcome' = [t \in Tasks |->
                     IF run[t] = "working" /\ delivery[t] = "posting" /\ outcome[t] = "none"
                     THEN "broken" ELSE outcome[t]]
    /\ UNCHANGED <<modeVars, delivery, memory>>

-----------------------------------------------------------------------------
(* The runner or gateway process dies and the supervisor starts it again.  *)

Interrupted == [t \in Tasks |-> IF delivery[t] = "none" THEN "none" ELSE "done"]

\* Slip: the new process starts with an empty set.
RestartForgetting ==
    /\ Mishap
    /\ delivery' = Interrupted
    /\ seen' = <<>>
    /\ UNCHANGED <<modeVars, outcome, run, said, file, marks, torn>>

\* loadSeen reads the file; the gateway has none.
Restart ==
    /\ Mishap
    /\ delivery' = Interrupted
    /\ seen' = file
    /\ UNCHANGED <<modeVars, outcome, run, said, file, marks, torn>>

\* The crash leaves a truncated dedupe file, which loads as an empty set.
RestartTorn ==
    /\ Mishap
    /\ inbound = "cli"
    /\ \E t \in Tasks : delivery[t] = "posting" /\ outcome[t] \in {"handled", "silent"}
    /\ delivery' = Interrupted
    /\ seen' = <<>> /\ file' = <<>>
    /\ torn' = TRUE
    /\ UNCHANGED <<modeVars, outcome, run, said, marks>>

-----------------------------------------------------------------------------
Deliver(t) == Line(t) \/ Receive(t) \/ DropDuplicate(t)

IngressStep(t) ==
    SkipDuplicate(t) \/ Forward(t) \/ Mark(t) \/ LeaveUnmarked(t) \/ AnswerUser(t) \/ TimesOut(t)

HandlerStep(t) == Accept(t) \/ Finish(t)

NextIngress ==
    \/ \E t \in Tasks : \/ Deliver(t) \/ IngressStep(t) \/ HandlerStep(t)
                        \/ LogFails(t) \/ RequestLost(t) \/ Throws(t) \/ FinishUnheard(t)
    \/ HandlerCrash \/ Restart \/ RestartTorn

IngressSpec == InitIngress /\ [][NextIngress]_ingressVars

\* Tasks of a live event loop run on, their waits have a timer, the handler's
\* loop reads every request it got, and each of its runs is bounded by timeouts.
FairIngressSpec ==
    /\ IngressSpec
    /\ \A t \in Tasks : WF_ingressVars(IngressStep(t)) /\ WF_ingressVars(HandlerStep(t))

-----------------------------------------------------------------------------
(* Properties.                                                             *)

\* The runner forgets a message only once the handler has it: whatever crashes
\* or times out, an id in memory or on disk belongs to a started run.
MarkedWasAccepted ==
    inbound = "cli" => \A e \in Ids(seen) \cup Ids(file) :
        \E t \in Tasks : t[1] = e /\ run[t] \in Started

\* A message among the last SeenLimit the runner marked is not forwarded again,
\* by whatever process: restarts load what the dedupe file kept.
NoReplayOfMarked ==
    [][inbound = "cli" /\ ~torn => \A t \in Tasks :
          run[t] = "none" /\ run'[t] = "sent" => t[1] \notin Ids(Recent(marks))]_ingressVars

\* suppressGatewayReply: gateway and handler both write about one delivery only
\* if the gateway never got the handler's own answer, or if the handler, asked to
\* wait with its answer, took a reply that had arrived for a failed one.  Nor is
\* the gateway silenced by a waiting handler that has not written itself.
OneVoice ==
    \A t \in Tasks :
        /\ said[t] = {"handler", "gateway"} =>
              \/ outcome[t] \in {"failed", "broken", "timeout"}
              \/ ackMode # "async" /\ run[t] = "unheard"
        /\ ackMode # "async" /\ outcome[t] = "handled" => "handler" \in said[t]

\* Without faults every delivered message is worked on to the end, though its
\* sender may have given up waiting or have taken it for a duplicate.
DeliveredIsHandled ==
    \A e \in Events : delivery[<<e, 1>>] # "none"
        ~> mishaps > 0 \/ \E t \in Tasks : t[1] = e /\ run[t] \in CameToEnd
=============================================================================
