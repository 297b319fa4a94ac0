---------------------------- MODULE QualityGates ----------------------------
(***************************************************************************)
(* The two gates before a delivery: quality (extensions/qa-gate.ts, with   *)
(* the requirements of src/contracts/qa-contracts.ts) and policy           *)
(* (extensions/policy-gate.ts).  Only operators: a gate is a function of   *)
(* what it is asked.  Who asks, and what becomes of the answer, is         *)
(* TaskExecution; MeetingMemory reads the answer.                          *)
(***************************************************************************)
EXTENDS Integers, FiniteSets

None == "none"

(* What may be found in a run, by how much it weighs.                      *)
Breaches == {"secret_leak", "unsupported_entities", "cross_meeting_terms", "web_not_allowed"}
Doubts == {"omitted_topics", "uncertain_evidence"}
Gaps == {"missing_evidence", "action_gaps", "speaker_attribution", "ambiguous_terms",
         "title_sync", "web_sources_missing", "feishu_env", "feishu_permissions"}
Findings == Breaches \cup Doubts \cup Gaps

(* What may be wrong with a source pack, with the comments a revision goes *)
(* by, and with one document.                                              *)
PackBreaches == {"transcript_missing", "chapters_incomplete", "claims_without_evidence",
                 "partial_published", "quality_undisclosed"}
PackFlaws == PackBreaches \cup {"provenance_missing"}
ReviewFlaws == {"context_missing", "comments_unscoped", "matches_not_noted"}
DocumentBreaches == {"bad_title", "html_table", "contamination"}
DocumentWarnings == {"identity_missing"}
DocumentFlaws == DocumentBreaches \cup DocumentWarnings \cup
    {"unreadable_table", "missing_sections", "unsupported_claims", "router_reason",
     "missing_upstream", "upstream_not_used", "audience", "no_open_questions"}

Issue(code, severity, blocksDelivery) ==
    [code |-> code, severity |-> severity, blocksDelivery |-> blocksDelivery]

(* What became of each source of a revision.  One that answered is ready,  *)
(* also if it was asked for one page only or some replies were not listed. *)
SourceOutcomes == {"ready", "permission_blocked", "unavailable"}
fetchFeishuDocumentReviewContext(outcomes) ==
    IF "ready" \in outcomes
    THEN IF outcomes = {"ready"} THEN "ready" ELSE "partial_ready"
    ELSE IF "permission_blocked" \in outcomes THEN "permission_blocked" ELSE "comments_not_available"

(* Findings about the run as a whole always count.                         *)
findingIssues(found, publish) ==
    {Issue(c, IF c \in Breaches \/ (publish /\ c \in Doubts) THEN "blocking" ELSE "needs_fix", TRUE) :
        c \in found}

sourcePackIssues(flaws) ==
    {Issue(c, IF c \in PackBreaches THEN "blocking" ELSE "needs_fix", TRUE) : c \in flaws}

reviewIssues(status, flaws) ==
    {Issue(c, IF c = "comments_unscoped" THEN "blocking" ELSE "needs_fix", TRUE) :
        c \in flaws \cup ({status} \ {"ready"})}

(* Only minutes are a primary document, unless all of them are published.  *)
priorityOf(d, publish) == IF publish \/ d = "minutes" THEN "primary" ELSE "follow_up"

documentIssues(flaws, priority) ==
    {Issue(c, CASE c \in DocumentBreaches -> "blocking"
                [] c \in DocumentWarnings -> "warning"
                [] OTHER -> "needs_fix", priority = "primary") : c \in flaws}

issueStatus(issues) ==
    LET severities == {i.severity : i \in issues}
    IN  IF "blocking" \in severities THEN "blocked"
        ELSE IF "needs_fix" \in severities THEN "needs_fix" ELSE "pass"

(* What the gate is asked; Unchecked where the checks say nothing.         *)
Unchecked == "unchecked"
NotChecked == {Unchecked}
EvaluationInput(profile, publish, found, documents) ==
    [profile |-> profile, publish |-> publish, found |-> found, documents |-> documents,
     meeting |-> TRUE, pack |-> NotChecked, review |-> Unchecked, reviewFlaws |-> {}]

evaluateGate(input) ==
    LET priority(d) == priorityOf(d, input.publish)
        scoped == [d \in DOMAIN input.documents |->
                      documentIssues(input.documents[d], priority(d))]
        issues ==
            findingIssues(input.found, input.publish)
            \cup (IF input.pack = NotChecked THEN {} ELSE sourcePackIssues(input.pack))
            \cup (IF input.review = Unchecked THEN {}
                  ELSE reviewIssues(input.review, input.reviewFlaws))
            \cup UNION {scoped[d] : d \in DOMAIN scoped}
        status == issueStatus({i \in issues : i.blocksDelivery})
        others == {d \in DOMAIN scoped : priority(d) # "primary"}
        minor == {i \in issues : ~i.blocksDelivery}
    IN  [input |-> input,
         status |-> status,
         artifacts |-> [d \in DOMAIN scoped |-> issueStatus(scoped[d])],
         followUp |-> IF others = {} THEN "not_applicable"
                      ELSE issueStatus(UNION {scoped[d] : d \in others}),
         overall |-> IF status # "pass" THEN "blocked"
                     ELSE IF issueStatus(minor) # "pass" THEN "partial_ready" ELSE "ready"]

(* A profile whose checks are not given is not evaluated at all.           *)
qaProfileRequirementFailure(input) ==
    \/ input.profile = "source_pack" /\ input.pack = NotChecked
    \/ input.profile # "source_pack" /\ DOMAIN input.documents = {}
    \/ input.profile = "meeting_minutes" /\ ~input.meeting
    \/ input.profile = "document_revision" /\ input.review = Unchecked

blockedGate(input) ==
    [input |-> input, status |-> "blocked", artifacts |-> [d \in {} |-> "blocked"],
     followUp |-> "blocked", overall |-> "blocked"]

Evaluation(input) ==
    IF qaProfileRequirementFailure(input) THEN blockedGate(input) ELSE evaluateGate(input)

(* The answer of a call that failed.                                       *)
Unanswered == [status |-> "blocked"]

(* Only what an evaluation came to is written.                             *)
assertGateIntegrity(gate) == gate # Unanswered /\ gate = Evaluation(gate.input)

-----------------------------------------------------------------------------
(* The policy of an action.                                                *)
CONFIRMATION_REQUIRED == {"notify_people", "mutate_calendar", "assign_task", "install_dependency"}
FEISHU_WRITE_INTENTS == {"write_private", "publish_customer_visible"}
TARGETED == {"publish_customer_visible", "notify_people", "mutate_calendar", "assign_task"}

PolicyRequest(intent, feishu) ==
    [intent |-> intent, feishu |-> feishu, secrets |-> FALSE, destructive |-> FALSE,
     modifies |-> FALSE, targeted |-> TRUE, requested |-> TRUE, confirmed |-> FALSE]

isFeishuExplicitWriteAllowed(r) ==
    /\ r.intent \in FEISHU_WRITE_INTENTS
    /\ r.feishu /\ r.requested
    /\ ~r.destructive
    /\ r.modifies => r.targeted

explicitTargetedActionAllowed(r) ==
    /\ r.requested
    /\ ~r.destructive /\ r.intent # "delete"
    /\ r.modifies => r.targeted
    /\ r.intent \in TARGETED
    /\ r.targeted \/ isFeishuExplicitWriteAllowed(r)

NeedsConfirmation(r) ==
    \/ (r.intent = "delete" \/ r.destructive) /\ ~(r.confirmed /\ r.targeted)
    \/ r.modifies /\ ~r.targeted
    \/ r.intent = "publish_customer_visible" /\ ~explicitTargetedActionAllowed(r)
    \/ /\ r.intent \in CONFIRMATION_REQUIRED
       /\ ~explicitTargetedActionAllowed(r) /\ ~r.confirmed

buildDecision(r) ==
    IF r.secrets THEN "blocked" ELSE IF NeedsConfirmation(r) THEN "needs_confirmation" ELSE "pass"
=============================================================================
