--------------------------- MODULE TaskExecution ---------------------------
(***************************************************************************)
(* TaskExecution: the pipelines of tools/task_execution_runner.mjs that    *)
(* turn the task of a run into agent-output.json.                          *)
(*                                                                         *)
(* An execution is one process working through the pipeline of the task's  *)
(* profile.  Its tools are child processes that may fail; the execution    *)
(* itself may crash, and the run may be executed again, after the first    *)
(* execution or, when the host only gave up waiting, beside it.  All       *)
(* executions of the run share its directory: the ledger, which the user   *)
(* changes too, the gates, the transcript, the analysed chapters and the   *)
(* output.  Speech recognition, document workers and models are their      *)
(* outcomes here; what the gates answer is QualityGates.                   *)
(***************************************************************************)
EXTENDS ExecutionLedger, QualityGates

CONSTANTS
    Executions,   \* executions of the run, 1 .. n in the order they are started
    Scenarios,    \* the task and what may go wrong
    Versions,     \* texts the source may have: it may change between executions
    Official,     \* the texts that come with an official transcript
    Noticed,      \* what the checks may find in the documents of a meeting
    Flawed,       \* what may be wrong with one document
    Chapters      \* chapters of a transcript: 1 .. n

Profiles == {"answer", "summary", "documents", "source"}

(* Bounds: trouble is the number of outcomes that are not the best ones    *)
(* (a gate that does not pass, a call that fails), selections the user's   *)
(* choices, crashes the executions that die.                               *)
Scenario == [profile : Profiles, requested : SUBSET DocumentTypes, audio : BOOLEAN,
             resolveOnly : BOOLEAN, overlap : BOOLEAN, publish : BOOLEAN, revision : BOOLEAN,
             trouble : Nat, selections : Nat, crashes : Nat]

ASSUME ExecutionAssumption ==
    /\ IsFiniteSet(Executions) /\ Executions = 1 .. Cardinality(Executions)
    /\ IsFiniteSet(Chapters) /\ Chapters = 1 .. Cardinality(Chapters) /\ Chapters # {}
    /\ Scenarios \subseteq Scenario
    /\ \A s \in Scenarios : s.profile = "documents" => s.requested # {}
    /\ Versions # {} /\ Official \subseteq Versions
    /\ Noticed \subseteq Findings /\ Flawed \subseteq DocumentFlaws

VARIABLES
    task,        \* the scenario
    pc,          \* where each execution stands
    mine,        \* activeLedger of each execution
    base,        \* the ledger its child process has read, while it reconciles
    got,         \* what the execution holds in memory
    ledger,      \* planner-envelope.json
    qa, policy,  \* qa-gate.json and policy-gate.json
    transcript,  \* the transcript in the run's directory
    chapter,     \* public-source/chapters/*.json
    pack,        \* source-pack.json
    output,      \* agent-output.json
    trouble, selections, crashes,
    disturbed    \* history: executions that threw, had a change refused or met others' changes

execution == <<pc, mine, base, got>>
gates == <<qa, policy>>
sources == <<transcript, chapter, pack>>
bounds == <<trouble, selections, crashes>>
vars == <<task, execution, ledger, gates, sources, output, bounds, disturbed>>

NoText == 0
NoGate == [gate |-> Unanswered, by |-> 0]
NoDecision == [decision |-> "blocked", by |-> 0]
NoChapter == [of |-> NoText, completed |-> FALSE]
NoPack == [of |-> NoText, parts |-> [c \in Chapters |-> NoText]]
NoOutput == [status |-> None, documents |-> {}, by |-> 0]
Empty == [analysed |-> FALSE, results |-> {}, whole |-> FALSE, review |-> Unchecked,
          qa |-> Unanswered, saved |-> FALSE, policy |-> "blocked", left |-> {}, next |-> "start",
          blocked |-> None, why |-> None, text |-> NoText,
          parts |-> [c \in Chapters |-> NoText], chapter |-> 1, try |-> 1]
Unread == [NoPlan EXCEPT !.status = "unread"]
Ended == {"idle", "end", "crashed"}

Init ==
    /\ task \in Scenarios
    /\ pc = [e \in Executions |-> "idle"]
    /\ mine = [e \in Executions |-> NoPlan]
    /\ base = [e \in Executions |-> Unread]
    /\ got = [e \in Executions |-> Empty]
    /\ ledger = NoPlan
    /\ qa = NoGate /\ policy = NoDecision
    /\ transcript = NoText
    /\ chapter = [c \in Chapters |-> NoChapter]
    /\ pack = NoPack
    /\ output = NoOutput
    /\ trouble = 0 /\ selections = 0 /\ crashes = 0
    /\ disturbed = {}

Running(e) == pc[e] \notin Ended
Trouble ==
    /\ trouble < task.trouble
    /\ trouble' = trouble + 1

(* An outcome of a tool: the best one, or trouble.                         *)
Outcome(best) == IF best THEN UNCHANGED trouble ELSE Trouble

At(e, stage) == pc[e] = stage /\ base[e] = Unread
Goes(e, stage) == pc' = [pc EXCEPT ![e] = stage]
Has(e, g) == got' = [got EXCEPT ![e] = g]
Writes(e, status, documents) ==
    output' = [status |-> status, documents |-> documents, by |-> e]
Blocks(e) == Writes(e, "blocked", {}) /\ Goes(e, "end")

(* finishBlocked: a source's ledger is told which step it is that blocks.  *)
finishBlocked(e, step, why) ==
    IF mine[e].valid /\ step # None
    THEN /\ Has(e, [got[e] EXCEPT !.blocked = step, !.why = why])
         /\ Goes(e, "block")
         /\ UNCHANGED output
    ELSE Blocks(e) /\ UNCHANGED got

FirstStage ==
    CASE task.profile = "answer"  -> "route-reply"
      [] task.profile = "summary" -> "context"
      [] task.profile = "source"  -> "plan"
      [] OTHER -> IF task.audio THEN "transcribe" ELSE "understand"

(* The next execution starts when the ones before it have ended, or when   *)
(* the host has given them up.                                             *)
Start(e) ==
    /\ pc[e] = "idle"
    /\ \A f \in 1 .. e - 1 : pc[f] # "idle" /\ (task.overlap \/ ~Running(f))
    /\ Goes(e, FirstStage)
    /\ UNCHANGED <<task, mine, base, got, ledger, gates, sources, output, bounds, disturbed>>

-----------------------------------------------------------------------------
(* Answers and summaries.                                                  *)

buildFileSummaryContext(e) ==
    /\ At(e, "context")
    /\ \E readable \in BOOLEAN :
        /\ Outcome(readable)
        /\ IF readable THEN Goes(e, "route-reply") /\ UNCHANGED output ELSE Blocks(e)
    /\ UNCHANGED <<task, mine, base, got, ledger, gates, sources, selections, crashes, disturbed>>

planFastDraftRoute(e) ==
    /\ At(e, "route-reply")
    /\ \E selected \in BOOLEAN :
        /\ Outcome(selected)
        /\ IF selected THEN Goes(e, "reply") /\ UNCHANGED output ELSE Blocks(e)
    /\ UNCHANGED <<task, mine, base, got, ledger, gates, sources, selections, crashes, disturbed>>

generateDirectReply(e) ==
    /\ At(e, "reply")
    /\ \E generated \in BOOLEAN :
        /\ Outcome(generated)
        /\ IF generated THEN Writes(e, "completed", {}) /\ Goes(e, "end") ELSE Blocks(e)
    /\ UNCHANGED <<task, mine, base, got, ledger, gates, sources, selections, crashes, disturbed>>

-----------------------------------------------------------------------------
(* The execution ledger: a child process reads it, and writes it again.    *)

Updates(steps, status) == [s \in steps |-> status]
Opens == {"resolving", "acquiring", "hearing", "analyzing"}
Skips == {"skip-text", "skip-analysis", "skip-verify", "official"}
Closes == {"resolved", "acquired", "heard", "analyzed", "verified"}
LedgerStages == {"start", "project", "record", "verify", "block"} \cup Opens \cup Skips \cup Closes

StepOf(stage) ==
    CASE stage \in {"resolving", "resolved"} -> "resolve"
      [] stage \in {"acquiring", "acquired"} -> "acquire"
      [] stage \in {"skip-text", "official", "hearing", "heard"} -> "transcribe"
      [] stage \in {"skip-analysis", "analyzing", "analyzed"} -> "analyze"
      [] OTHER -> "verify-source"

AfterTransition(stage) ==
    CASE stage = "resolving" -> "policy"
      [] stage = "resolved" -> "acquiring"
      [] stage = "acquiring" -> "acquired"
      [] stage = "acquired" -> IF task.resolveOnly THEN "skip-text" ELSE "text"
      [] stage = "skip-text" -> "skip-analysis"
      [] stage = "skip-analysis" -> "skip-verify"
      [] stage = "hearing" -> "hear"
      [] stage \in {"official", "heard"} -> "segments"
      [] stage = "analyzing" -> "chapters"
      [] stage = "analyzed" -> "verified"
      [] OTHER -> "output"

(* What the execution asks for at each stage.  An operation has the name   *)
(* of the stage; a document's is the document, a blocked step's the reason;*)
(* a projection is numbered by the revision it starts from.                *)
Asked(e, stage) ==
    LET l == mine[e]
        ready == {d \in task.requested : l.steps[d] = "ready"}
        One(op, step, status) == Change(<<op, 0>>, l.revision, Updates({step}, status), {step})
    IN  CASE stage = "start" -> Change(<<stage, 0>>, l.revision, Updates(ready, "in_progress"), {})
          [] stage = "project" ->
               [Change(<<stage, l.revision>>, l.revision, NoStep, {}) EXCEPT !.events = TRUE]
          [] stage = "record" -> One(got[e].next, got[e].next, "completed")
          [] stage = "verify" -> One(stage, "verify", "completed")
          [] stage = "block" ->
               [One(got[e].why, got[e].blocked, "blocked")
                    EXCEPT !.asks = {got[e].why}, !.evidence = {}]
          [] stage \in Opens -> [One(stage, StepOf(stage), "in_progress") EXCEPT !.evidence = {}]
          [] stage \in Skips -> One(stage, StepOf(stage), "skipped")
          [] stage = "verified" -> [One(stage, StepOf(stage), "completed") EXCEPT !.asks = {"next"}]
          [] OTHER -> One(stage, StepOf(stage), "completed")

(* The task goes on with the ledger it got back; only documents stop when  *)
(* they cannot be started, and stop recording when one is refused.         *)
GoesOn(e, stage, answer) ==
    LET takes == mine' = [mine EXCEPT ![e] = IF answer.valid THEN answer ELSE @]
        refused == answer.status = "blocked"
    IN  CASE stage = "start" ->
               IF refused THEN Blocks(e) /\ UNCHANGED <<mine, got>>
               ELSE takes /\ Goes(e, "route") /\ UNCHANGED <<got, output>>
          [] stage = "project" -> takes /\ Goes(e, "judge") /\ UNCHANGED <<got, output>>
          [] stage = "record" ->
               IF refused THEN Goes(e, "deliver") /\ UNCHANGED <<mine, got, output>>
               ELSE /\ takes
                    /\ Has(e, [got[e] EXCEPT !.left = @ \ {got[e].next}])
                    /\ Goes(e, "next")
                    /\ UNCHANGED output
          [] stage = "verify" ->
               /\ IF refused THEN UNCHANGED mine ELSE takes
               /\ Goes(e, "output") /\ UNCHANGED <<got, output>>
          [] stage = "block" -> takes /\ Blocks(e) /\ UNCHANGED got
          [] OTHER -> takes /\ Goes(e, AfterTransition(stage)) /\ UNCHANGED <<got, output>>

readPlannerEnvelope(e) ==
    /\ pc[e] \in LedgerStages
    /\ base[e] = Unread
    /\ base' = [base EXCEPT ![e] = ledger]
    /\ UNCHANGED <<task, pc, mine, got, ledger, gates, sources, output, bounds, disturbed>>

(* A call that fails may have written the ledger before it did.            *)
execution_ledger_reconcile(e) ==
    /\ base[e] # Unread
    /\ \E fails \in BOOLEAN, written \in BOOLEAN :
        LET next == reconcileLedger(base[e], Asked(e, pc[e]))
            answer == IF fails THEN Refused ELSE next
        IN  /\ Outcome(~fails)
            /\ ~fails => written
            /\ ledger' = IF written /\ next # Refused THEN next ELSE ledger
            /\ GoesOn(e, pc[e], answer)
            /\ disturbed' = IF answer = Refused \/ base[e] # mine[e] \/ ledger # base[e]
                            THEN disturbed \cup {e} ELSE disturbed
    /\ base' = [base EXCEPT ![e] = Unread]
    /\ UNCHANGED <<task, gates, sources, selections, crashes>>

(* The handler records the user's choice in the ledger of a conversation   *)
(* whose run it has answered.                                              *)
Select ==
    /\ ledger.valid /\ ledger.asks # {}
    /\ selections < task.selections
    /\ task.overlap \/ \A e \in Executions : ~Running(e)
    /\ selections' = selections + 1
    /\ \E ask \in ledger.asks :
        ledger' = [ledger EXCEPT !.revision = @ + 1, !.status = "active",
                                 !.asks = @ \ {ask}, !.answered = @ \cup {ask}]
    /\ UNCHANGED <<task, execution, gates, sources, output, trouble, crashes, disturbed>>

-----------------------------------------------------------------------------
(* The plan.                                                               *)

planner_envelope_plan(e) ==
    /\ At(e, "plan")
    /\ \E planned \in BOOLEAN :
        LET source == task.profile = "source"
            asks == IF got[e].analysed THEN {"choice"} ELSE {}
            envelope == buildEnvelope(IF source THEN "source" ELSE "documents",
                                      task.requested, got[e].analysed, asks)
        IN  /\ Outcome(planned)
            /\ IF source /\ ~planned
               THEN Blocks(e) /\ UNCHANGED mine
               ELSE /\ mine' = [mine EXCEPT ![e] = IF planned THEN envelope ELSE Refused]
                    /\ Goes(e, "write-plan")
                    /\ UNCHANGED output
    /\ UNCHANGED <<task, base, got, ledger, gates, sources, selections, crashes, disturbed>>

(* Whether the plan was written is not asked; documents that could not be  *)
(* planned have the refusal written, too.                                  *)
planner_envelope_write(e) ==
    /\ At(e, "write-plan")
    /\ \E written \in BOOLEAN :
        /\ Outcome(written)
        /\ ledger' = IF written THEN mine[e] ELSE ledger
    /\ IF mine[e].status = "blocked" THEN Blocks(e)
       ELSE /\ Goes(e, IF task.profile = "source" THEN "resolving" ELSE "start")
            /\ UNCHANGED output
    /\ UNCHANGED <<task, mine, base, got, gates, sources, selections, crashes, disturbed>>

-----------------------------------------------------------------------------
(* Documents.                                                              *)

(* A stage that blocks the task when its tool does not deliver.            *)
Needs(e, stage, next) ==
    /\ At(e, stage)
    /\ \E delivers \in BOOLEAN :
        /\ Outcome(delivers)
        /\ IF delivers THEN Goes(e, next) /\ UNCHANGED output ELSE Blocks(e)
    /\ UNCHANGED <<task, mine, base, got, ledger, gates, sources, selections, crashes, disturbed>>

(* A transcript the run has is not made again.                             *)
Transcribes(text) == transcript' = IF transcript = NoText THEN text ELSE transcript

ensureAsrTranscription(e) ==
    /\ At(e, "transcribe")
    /\ \/ /\ \E v \in Versions : Transcribes(v)
          /\ Goes(e, "understand")
          /\ UNCHANGED <<output, trouble>>
       \/ Trouble /\ Blocks(e) /\ UNCHANGED transcript
    /\ UNCHANGED <<task, mine, base, got, ledger, gates, chapter, pack, selections, crashes,
                   disturbed>>

(* Only a transcript can be understood; without one the minutes are        *)
(* written all the same.                                                   *)
ensureMeetingIntelligence(e) ==
    /\ At(e, "understand")
    /\ Has(e, [got[e] EXCEPT !.analysed = "minutes" \in task.requested /\ transcript # NoText])
    /\ Goes(e, "evidence")
    /\ UNCHANGED <<task, mine, base, ledger, gates, sources, output, bounds, disturbed>>

(* A revision goes by what each of its sources answered.                   *)
buildReviewContext(e) ==
    \E outcomes \in SUBSET SourceOutcomes :
        LET status == fetchFeishuDocumentReviewContext(outcomes)
        IN  /\ Outcome(status = "ready")
            /\ Has(e, [got[e] EXCEPT !.review = status])

buildEvidencePack(e) ==
    /\ At(e, "evidence")
    /\ \/ /\ IF task.revision THEN buildReviewContext(e) ELSE UNCHANGED <<got, trouble>>
          /\ Goes(e, "plan") /\ UNCHANGED output
       \/ Trouble /\ Blocks(e) /\ UNCHANGED got
    /\ UNCHANGED <<task, mine, base, ledger, gates, sources, selections, crashes, disturbed>>

model_route_plan(e) == Needs(e, "route", "render")
document_prompt_render_batch(e) == Needs(e, "render", "work")

(* The document workers: which documents have a text, and whether all of   *)
(* them are completed; the projection may have failed beside that.         *)
document_workers_run(e) ==
    /\ At(e, "work")
    /\ \E texts \in SUBSET task.requested, whole \in BOOLEAN, events \in BOOLEAN :
        /\ whole => texts = task.requested
        /\ Outcome(whole /\ ~events)
        /\ Has(e, [got[e] EXCEPT !.results = texts, !.whole = whole])
        /\ Goes(e, IF events THEN "project" ELSE "judge")
    /\ UNCHANGED <<task, mine, base, ledger, gates, sources, output, selections, crashes, disturbed>>

(* Nothing partial goes on.                                                *)
publishPartial(e) ==
    /\ At(e, "judge")
    /\ IF got[e].results # {} /\ got[e].whole THEN Goes(e, "qa") /\ UNCHANGED output ELSE Blocks(e)
    /\ UNCHANGED <<task, mine, base, got, ledger, gates, sources, bounds, disturbed>>

(* What the gate is told: of a source its pack, which is complete or would *)
(* not have come here; of documents what is wrong with them, what the      *)
(* analysis of the meeting, when there is one, says against them, and the  *)
(* comments of a revision.                                                 *)
SourceInput == [EvaluationInput("source_pack", FALSE, {}, [d \in {} |-> {}]) EXCEPT !.pack = {}]
DocumentInput(e, found, wrong) ==
    [EvaluationInput(IF task.revision THEN "document_revision"
                     ELSE IF "minutes" \in task.requested THEN "meeting_minutes"
                     ELSE "office_document",
                     task.publish, found, [d \in got[e].results |-> wrong[d]])
        EXCEPT !.review = got[e].review]

(* Bound: the checks find one thing at most, in the meeting or in one      *)
(* document.                                                               *)
Nothing == [d \in DocumentTypes |-> {}]
BestInput(e) == IF task.profile = "source" THEN SourceInput ELSE DocumentInput(e, {}, Nothing)
Found(e, c) == DocumentInput(e, {c}, Nothing)
Wrong(e, d, c) == DocumentInput(e, {}, [Nothing EXCEPT ![d] = {c}])
OtherInputs(e) ==
    IF task.profile = "source" THEN {}
    ELSE {Found(e, c) : c \in IF got[e].analysed THEN Noticed ELSE {}}
         \cup {Wrong(e, d, c) : d \in got[e].results, c \in Flawed}

qa_gate_evaluate(e) ==
    /\ At(e, "qa")
    /\ \/ \E input \in {BestInput(e)} \cup OtherInputs(e) :
            /\ Outcome(input = BestInput(e))
            /\ Has(e, [got[e] EXCEPT !.qa = Evaluation(input)])
       \/ Trouble /\ Has(e, [got[e] EXCEPT !.qa = Unanswered])
    /\ Goes(e, "save-qa")
    /\ UNCHANGED <<task, mine, base, ledger, gates, sources, output, selections, crashes, disturbed>>

(* A gate that is not the evaluation of its input is refused.              *)
qa_gate_write(e) ==
    /\ At(e, "save-qa")
    /\ \E saved \in BOOLEAN, written \in BOOLEAN :
        LET now == [got[e] EXCEPT !.saved = saved]
            honest == assertGateIntegrity(got[e].qa)
        IN  /\ Outcome(saved = honest) /\ (saved => written) /\ (written => honest)
            /\ qa' = IF written THEN [gate |-> got[e].qa, by |-> e] ELSE qa
            /\ IF task.profile # "source"
               THEN Has(e, now) /\ Goes(e, "policy") /\ UNCHANGED output
               ELSE IF got[e].qa.status = "pass"
               THEN Has(e, now) /\ Goes(e, "write-pack") /\ UNCHANGED output
               ELSE finishBlocked(e, "analyze", "qa")
    /\ UNCHANGED <<task, mine, base, ledger, policy, sources, selections, crashes, disturbed>>

(* policy_gate_check and policy_gate_write; what the check answers is      *)
(* written whatever it is, and whether it was written is not asked.        *)
Request ==
    PolicyRequest(IF task.profile = "source" THEN "external_web" ELSE "publish_customer_visible", TRUE)

policy_gate_check(e) ==
    /\ At(e, "policy")
    /\ \E answered \in BOOLEAN, written \in BOOLEAN :
        LET decision == IF answered THEN buildDecision(Request) ELSE "blocked"
            now == [got[e] EXCEPT !.policy = decision, !.left = task.requested]
        IN  /\ Outcome(answered /\ written)
            /\ policy' = IF written THEN [decision |-> decision, by |-> e] ELSE policy
            /\ IF task.profile # "source"
               THEN Has(e, now) /\ Goes(e, "next") /\ UNCHANGED output
               ELSE IF decision = "pass"
               THEN Has(e, now) /\ Goes(e, "resolve") /\ UNCHANGED output
               ELSE finishBlocked(e, "resolve", "policy")
    /\ UNCHANGED <<task, mine, base, ledger, qa, sources, selections, crashes, disturbed>>

(* The documents are recorded in the order of their dependencies.          *)
Recordable(e, d) ==
    LET l == mine[e]
    IN  d \in DOMAIN l.steps /\ \A p \in l.deps[d] : l.steps[p] = "completed"

readyIndex(e) ==
    /\ At(e, "next")
    /\ \/ \E d \in got[e].left :
            /\ Recordable(e, d)
            /\ Has(e, [got[e] EXCEPT !.next = d])
            /\ Goes(e, "record")
       \/ /\ \A d \in got[e].left : ~Recordable(e, d)
          /\ Goes(e, "deliver")
          /\ UNCHANGED got
    /\ UNCHANGED <<task, mine, base, ledger, gates, sources, output, bounds, disturbed>>

publishableWithoutSaving(g) == g.qa.status = "pass" /\ g.policy = "pass" /\ g.whole
publishable(g) == g.qa.status = "pass" /\ g.saved /\ g.policy = "pass" /\ g.whole

deliverables(e) ==
    /\ At(e, "deliver")
    /\ LET l == mine[e]
       IN  Goes(e, IF publishable(got[e]) /\ "verify" \in DOMAIN l.steps /\ l.steps["verify"] = "ready"
                   THEN "verify" ELSE "output")
    /\ UNCHANGED <<task, mine, base, got, ledger, gates, sources, output, bounds, disturbed>>

(* The output: a source is complete when it comes to it, documents when    *)
(* they may be published.                                                  *)
writeOutput(e) ==
    /\ At(e, "output")
    /\ IF task.profile = "source" THEN Writes(e, "completed", {})
       ELSE IF publishable(got[e]) THEN Writes(e, "completed", task.requested)
       ELSE Writes(e, "needs_fix", {})
    /\ Goes(e, "end")
    /\ UNCHANGED <<task, mine, base, got, ledger, gates, sources, bounds, disturbed>>

-----------------------------------------------------------------------------
(* Public sources.                                                         *)

(* A stage that blocks one step of the source.                             *)
NeedsFor(e, stage, next, step) ==
    /\ At(e, stage)
    /\ \E delivers \in BOOLEAN :
        /\ Outcome(delivers)
        /\ IF delivers THEN Goes(e, next) /\ UNCHANGED <<got, output>>
           ELSE finishBlocked(e, step, stage)
    /\ UNCHANGED <<task, mine, base, ledger, gates, sources, selections, crashes, disturbed>>

sourceResolver(e) ==
    /\ At(e, "resolve")
    /\ \/ \E v \in Versions :
            /\ Has(e, [got[e] EXCEPT !.text = v])
            /\ Goes(e, "resolved")
            /\ UNCHANGED <<output, trouble>>
       \/ Trouble /\ finishBlocked(e, "resolve", "unresolved")
    /\ UNCHANGED <<task, mine, base, ledger, gates, sources, selections, crashes, disturbed>>

(* The official transcript is taken when there is one; otherwise there has *)
(* to be media to listen to.                                               *)
sourceTranscript(e) ==
    /\ At(e, "text")
    /\ \/ /\ got[e].text \in Official
          /\ transcript' = got[e].text
          /\ Goes(e, "official")
          /\ UNCHANGED <<got, output, trouble>>
       \/ /\ got[e].text \notin Official
          /\ \E media \in BOOLEAN :
              /\ Outcome(media)
              /\ IF media THEN Goes(e, "hearing") /\ UNCHANGED <<got, output>>
                 ELSE finishBlocked(e, "transcribe", "media")
          /\ UNCHANGED transcript
    /\ UNCHANGED <<task, mine, base, ledger, gates, chapter, pack, selections, crashes, disturbed>>

hearSource(e) ==
    /\ At(e, "hear")
    /\ \/ /\ Transcribes(got[e].text)
          /\ Has(e, [got[e] EXCEPT !.text = transcript'])
          /\ Goes(e, "heard")
          /\ UNCHANGED <<output, trouble>>
       \/ Trouble /\ finishBlocked(e, "transcribe", "asr") /\ UNCHANGED transcript
    /\ UNCHANGED <<task, mine, base, ledger, gates, chapter, pack, selections, crashes, disturbed>>

buildProvenanceIndex(e) == NeedsFor(e, "segments", "analyzing", "transcribe")
partitionSourceSegments(e) == NeedsFor(e, "chapters", "chapter", "analyze")

(* A chapter that was analysed before counts when it is the same text.     *)
reusableAnyText(c, text) == chapter[c].completed
reusableSourceChapterAnalysis(c, text) == chapter[c].completed /\ chapter[c].of = text

NextChapter(e, g) ==
    IF g.chapter + 1 \in Chapters
    THEN Has(e, [g EXCEPT !.chapter = @ + 1, !.try = 1]) /\ UNCHANGED pc
    ELSE Has(e, g) /\ Goes(e, "pack")

reuseChapter(e) ==
    LET c == got[e].chapter
    IN  /\ At(e, "chapter") /\ got[e].try = 1
        /\ reusableSourceChapterAnalysis(c, got[e].text)
        /\ NextChapter(e, [got[e] EXCEPT !.parts[c] = chapter[c].of])
        /\ UNCHANGED <<task, mine, base, ledger, gates, sources, output, bounds, disturbed>>

(* Two attempts; what they come to is kept, and a failure ends the loop.  A *)
(* second failure is the same trouble.                                     *)
analyzeChapterForever(e) ==
    LET c == got[e].chapter
    IN  /\ At(e, "chapter")
        /\ got[e].try = 1 => ~reusableSourceChapterAnalysis(c, got[e].text)
        /\ \E good \in BOOLEAN :
            /\ Outcome(good \/ trouble = task.trouble)
            /\ IF good
               THEN /\ chapter' = [chapter EXCEPT ![c] = [of |-> got[e].text, completed |-> TRUE]]
                    /\ NextChapter(e, [got[e] EXCEPT !.parts[c] = got[e].text])
               ELSE Has(e, [got[e] EXCEPT !.try = 3 - @]) /\ UNCHANGED <<chapter, pc>>
        /\ UNCHANGED <<task, mine, base, ledger, gates, transcript, pack, output, selections,
                       crashes, disturbed>>
analyzeChapter(e) ==
    LET c == got[e].chapter
    IN  /\ At(e, "chapter")
        /\ got[e].try = 1 => ~reusableSourceChapterAnalysis(c, got[e].text)
        /\ \E good \in BOOLEAN :
            /\ Outcome(good \/ got[e].try = 2)
            /\ IF good
               THEN /\ chapter' = [chapter EXCEPT ![c] = [of |-> got[e].text, completed |-> TRUE]]
                    /\ NextChapter(e, [got[e] EXCEPT !.parts[c] = got[e].text])
               ELSE IF got[e].try = 1
               THEN Has(e, [got[e] EXCEPT !.try = 2]) /\ UNCHANGED <<chapter, pc>>
               ELSE /\ chapter' = [chapter EXCEPT ![c] = [of |-> got[e].text, completed |-> FALSE]]
                    /\ Goes(e, "pack") /\ UNCHANGED got
        /\ UNCHANGED <<task, mine, base, ledger, gates, transcript, pack, output, selections,
                       crashes, disturbed>>

buildKnowledgeSourcePack(e) ==
    /\ At(e, "pack")
    /\ IF \A c \in Chapters : got[e].parts[c] # NoText
       THEN Goes(e, "qa") /\ UNCHANGED <<got, output>>
       ELSE finishBlocked(e, "analyze", "pack")
    /\ UNCHANGED <<task, mine, base, ledger, gates, sources, bounds, disturbed>>

writeSourcePack(e) ==
    /\ At(e, "write-pack")
    /\ pack' = [of |-> got[e].text, parts |-> got[e].parts]
    /\ Goes(e, "analyzed")
    /\ UNCHANGED <<task, mine, base, got, ledger, gates, transcript, chapter, output, bounds,
                   disturbed>>

-----------------------------------------------------------------------------
(* Exceptions are caught: a source blocks the step it is at.               *)
Throw(e) ==
    /\ Running(e) /\ base[e] = Unread /\ pc[e] \notin LedgerStages
    /\ Trouble
    /\ LET l == mine[e]
           current == {s \in DOMAIN l.steps : l.steps[s] = "in_progress"}
       IN  IF task.profile = "source"
           THEN \E s \in IF current = {} THEN {None} ELSE current : finishBlocked(e, s, s)
           ELSE Blocks(e) /\ UNCHANGED got
    /\ disturbed' = disturbed \cup {e}
    /\ UNCHANGED <<task, mine, base, ledger, gates, sources, selections, crashes>>

Crash(e) ==
    /\ Running(e)
    /\ crashes < task.crashes
    /\ crashes' = crashes + 1
    /\ Goes(e, "crashed")
    /\ base' = [base EXCEPT ![e] = Unread]
    /\ mine' = [mine EXCEPT ![e] = NoPlan]
    /\ Has(e, Empty)
    /\ UNCHANGED <<task, ledger, gates, sources, output, trouble, selections, disturbed>>

Reply(e) == buildFileSummaryContext(e) \/ planFastDraftRoute(e) \/ generateDirectReply(e)
Plan(e) == planner_envelope_plan(e) \/ planner_envelope_write(e)
Reconcile(e) == readPlannerEnvelope(e) \/ execution_ledger_reconcile(e)
Prepare(e) == ensureAsrTranscription(e) \/ ensureMeetingIntelligence(e) \/ buildEvidencePack(e)
Write(e) ==
    \/ model_route_plan(e) \/ document_prompt_render_batch(e)
    \/ document_workers_run(e) \/ publishPartial(e)
Check(e) == qa_gate_evaluate(e) \/ qa_gate_write(e) \/ policy_gate_check(e)
Deliver(e) == readyIndex(e) \/ deliverables(e) \/ writeOutput(e)
Resolve(e) == sourceResolver(e) \/ sourceTranscript(e) \/ hearSource(e) \/ buildProvenanceIndex(e)
Analyze(e) ==
    \/ partitionSourceSegments(e) \/ reuseChapter(e) \/ analyzeChapter(e)
    \/ buildKnowledgeSourcePack(e) \/ writeSourcePack(e)
Work(e) ==
    \/ Reply(e) \/ Plan(e) \/ Reconcile(e) \/ Prepare(e) \/ Write(e) \/ Check(e)
    \/ Deliver(e) \/ Resolve(e) \/ Analyze(e)

Next == Select \/ \E e \in Executions : Start(e) \/ Work(e) \/ Throw(e) \/ Crash(e)

(* A process that runs goes on: every call it makes has a time limit.      *)
Spec == Init /\ [][Next]_vars /\ \A e \in Executions : WF_vars(Work(e))

-----------------------------------------------------------------------------
(* A completed output has every document that was asked for, and the gate  *)
(* on disk that lets it pass is its own: the one its execution evaluated   *)
(* and wrote (task_execution_runner.mjs, publishable), not one an earlier  *)
(* execution left in the directory.  That gate is the honest evaluation of *)
(* what it was asked; documents to be published, and minutes, have nothing *)
(* against them but warnings, and for a revision every source has answered *)
(* with comments.  (That is less than having read them all: the fallback   *)
(* asks for one page, and replies that cannot be listed count as none.)    *)
OutputIsGated ==
    output.status = "completed" /\ task.profile = "documents" =>
        /\ output.documents = task.requested
        /\ qa.by = output.by =>
            /\ qa.gate.status = "pass" /\ assertGateIntegrity(qa.gate)
            /\ \A d \in output.documents :
                task.publish \/ d = "minutes" => qa.gate.input.documents[d] \subseteq DocumentWarnings
            /\ qa.gate.input.found \cap Breaches = {}
            /\ task.revision => qa.gate.input.review = "ready"
        /\ ~task.overlap => qa.by >= output.by

(* An execution that was not disturbed leaves a ledger that says what the  *)
(* output says: completed and all of its steps done, or neither.  Minutes  *)
(* of a meeting nobody could understand are the exception: they are        *)
(* delivered, and their ledger never completes.                            *)
LedgerAgrees ==
    \A e \in Executions \ disturbed :
        pc[e] = "end" /\ output.by = e /\ mine[e].valid /\ ledger = mine[e] =>
            /\ ledger.status = "completed" => output.status = "completed"
            /\ output.status = "completed" =>
                \/ ledger.status = "completed"
                \/ "minutes" \in task.requested /\ ~got[e].analysed

(* A source pack is of one text: every chapter in it was analysed from the *)
(* text the pack is of, though the source may have changed between two     *)
(* executions and chapters are reused (reusableSourceChapterAnalysis).     *)
PackOfOneSource == \A c \in Chapters : pack.parts[c] = pack.of

(* Every execution ends, with an output unless it dies: whatever fails is  *)
(* answered, and no loop of attempts or of documents goes on for ever.     *)
PipelineEnds == \A e \in Executions : Running(e) ~> ~Running(e)
=============================================================================
