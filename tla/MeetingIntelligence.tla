------------------------ MODULE MeetingIntelligence ------------------------
(***************************************************************************)
(* What a meeting is understood to have been: the segments and the         *)
(* participants of a transcript, the model's analysis put right against    *)
(* them, the review delegated to sub-agents, and what the quality gate is  *)
(* told (tools/meeting_intelligence_helpers.mjs,                           *)
(* meeting_workflow_helpers.mjs, pi_meeting_orchestration_helpers.mjs).    *)
(* Only operators: MeetingMemory is the process that uses them.            *)
(*                                                                         *)
(* A text stands for what is said with it: a claim appears in the minutes  *)
(* when its text is there.                                                 *)
(***************************************************************************)
EXTENDS QualityGates

(* A transcript gives each segment its quality; one without text is none.  *)
Qualities == {"ready", "needs_review", "empty"}
normalizeMeetingSegments(raw) ==
    [s \in {t \in DOMAIN raw : raw[t] # "empty"} |-> raw[s]]

(* Who speaks, and whom the user has named.  Somebody always speaks.       *)
buildParticipantMap(speakers, named) ==
    [a \in IF speakers = {} THEN {"A"} ELSE speakers |->
        IF a \in speakers \cap named THEN "user_confirmed" ELSE "alias"]

(* A slip: one clear segment would be enough.                              *)
evidenceQualityOfBest(ids, segments) ==
    LET qualities == {segments[s] : s \in ids \cap DOMAIN segments}
    IN  CASE qualities = {} -> "missing"
          [] qualities = {"needs_review"} -> "needs_review_only"
          [] OTHER -> "ready"

evidenceQuality(ids, segments) ==
    LET qualities == {segments[s] : s \in ids \cap DOMAIN segments}
    IN  CASE qualities = {} -> "missing"
          [] qualities = {"needs_review"} -> "needs_review_only"
          [] {"needs_review", "ready"} \subseteq qualities -> "mixed"
          [] OTHER -> "ready"

normalizeEvidenceIds(ids, segments) == ids \cap DOMAIN segments

(* An item without evidence of its own has that of its topic; an action of *)
(* doubtful evidence belongs to nobody.                                    *)
normalizeClaimItems(items, segments, topicIds) ==
    {LET own == normalizeEvidenceIds(i.evidence, segments)
         ids == IF own = {} THEN topicIds ELSE own
     IN  [i EXCEPT !.evidence = ids,
                   !.owned = @ /\ evidenceQuality(ids, segments) # "needs_review_only"] :
        i \in items}

(* A topic is what its evidence, or else its time range, holds of the      *)
(* meeting; without either it is dropped.                                  *)
TopicIds(topic, segments) ==
    LET own == normalizeEvidenceIds(topic.evidence, segments)
    IN  IF own = {} THEN topic.range \cap DOMAIN segments ELSE own

normalizeTopics(topics, segments) ==
    {LET ids == TopicIds(t, segments)
     IN  [t EXCEPT !.evidence = ids, !.items = normalizeClaimItems(@, segments, ids)] :
        t \in {u \in topics : TopicIds(u, segments) # {}}}

Claim(type, text, status, ids, segments) ==
    [type |-> type, text |-> text, status |-> status, evidence |-> ids,
     quality |-> evidenceQuality(ids, segments)]

(* The status of a claim is what its evidence allows, whatever the model   *)
(* says; only decisions that were agreed are supported.                    *)
ItemStatus(i, segments) ==
    LET quality == evidenceQuality(i.evidence, segments)
        supported == IF quality \in {"ready", "mixed"} THEN "supported" ELSE "unresolved"
    IN  CASE i.type = "decision" ->
               IF i.agreed /\ quality # "needs_review_only" THEN "supported" ELSE "unresolved"
          [] i.type = "action" ->
               IF quality # "needs_review_only" /\ ~i.owned THEN "open" ELSE supported
          [] i.type = "open_question" -> "open"
          [] OTHER -> supported

(* A topic may come without a judgment.                                    *)
Pending == "pending"
Judgments(t) ==
    IF t.judgment = Pending THEN {}
    ELSE {[type |-> "core_judgment", text |-> t.judgment, agreed |-> FALSE, owned |-> FALSE,
           evidence |-> t.evidence]}

buildEvidenceMap(topics, segments) ==
    {Claim(i.type, i.text, ItemStatus(i, segments), i.evidence, segments) :
        i \in UNION {t.items \cup Judgments(t) : t \in topics}}

Analysis(status, topics, claims, participants) ==
    [status |-> status, validated |-> status = "complete", topics |-> topics, claims |-> claims,
     participants |-> participants]

(* Bound: without a model the meeting is one window of one topic.          *)
buildFallbackMeetingAnalysis(segments, participants) ==
    LET question == [type |-> "open_question", text |-> "unclear", agreed |-> FALSE,
                     owned |-> FALSE, evidence |-> DOMAIN segments]
        topic == [title |-> "window", judgment |-> Pending, range |-> {},
                  evidence |-> DOMAIN segments, items |-> {question}]
    IN  Analysis("needs_review", {topic}, {}, participants)

(* An answer none of whose topics can be kept is no answer.                *)
normalizeMeetingAnalysisResponse(answer, segments, participants) ==
    LET topics == normalizeTopics(answer, segments)
    IN  IF topics = {} THEN buildFallbackMeetingAnalysis(segments, participants)
        ELSE Analysis("complete", topics, buildEvidenceMap(topics, segments), participants)

-----------------------------------------------------------------------------
(* The review of the analysis by sub-agents.                               *)
sustained(topic) == Cardinality(topic.evidence) >= 3
ItemsOf(a, type) ==
    UNION {{<<t.title, i>> : i \in {j \in t.items : j.type = type}} : t \in a.topics}
UnresolvedClaims(a) ==
    {c \in a.claims : c.status = "unresolved" \/ c.quality = "needs_review_only"}

Points(n, condition) == IF condition THEN n ELSE 0

meetingSignals(a) ==
    LET topics == Cardinality(a.topics)
        loose == Cardinality(ItemsOf(a, "risk")) + Cardinality(ItemsOf(a, "open_question"))
    IN  Points(2, topics >= 2) + Points(1, topics >= 5)
        + Points(2, Cardinality({t \in a.topics : sustained(t)}) >= 3)
        + Points(1, ItemsOf(a, "decision") # {}) + Points(1, ItemsOf(a, "action") # {})
        + Points(1, loose > 2)
        + Points(2, UnresolvedClaims(a) # {}) + Points(2, ~a.validated)

(* How many specialists review it: one for each of the three largest       *)
(* topics of several, and one for each kind of doubt.                      *)
specialistTasks(a) ==
    LET topics == Cardinality(a.topics)
    IN  (CASE topics < 2 -> 0 [] topics = 2 -> 2 [] OTHER -> 3)
        + Points(1, ItemsOf(a, "decision") # {}) + Points(1, ItemsOf(a, "action") # {})
        + Points(1, UnresolvedClaims(a) # {} \/ a.status # "complete")

buildMeetingOrchestrationPlan(a) ==
    LET n == specialistTasks(a)
        score == meetingSignals(a)
    IN  CASE n >= 2 /\ score >= 5 -> "workflow"
          [] n = 1 \/ (n > 0 /\ score <= 4) -> "subagent"
          [] OTHER -> "direct"

shouldRunPiMeetingOrchestration(plan, enabled) == enabled /\ plan # "direct"

(* A sub-agent is only believed when the tool that was asked for has run.  *)
parsePiMeetingOrchestrationOutput(child, tool) ==
    child.exits /\ child.tool = tool /\ ~child.error

(* What the review refers to has to be segments of this meeting, and what  *)
(* it finds has to refer to some.                                          *)
NoReview == [completed |-> FALSE, invalid |-> {}, unevidenced |-> FALSE]
reconcilePiMeetingOrchestrationResult(child, segments) ==
    [completed |-> TRUE, invalid |-> child.refers \ DOMAIN segments,
     unevidenced |-> child.unevidenced]

(* What the gate is told of the minutes, which mention texts and aliases.  *)
(* Only a validated analysis says anything.                                *)
topicTextCovered(topic, minutes) ==
    {topic.title, topic.judgment} \cap minutes.mentions # {}

buildMeetingQaFindings(a, review, minutes) ==
    LET omitted == {t \in a.topics : sustained(t) /\ ~topicTextCovered(t, minutes)}
        uncertain ==
            {c \in a.claims : /\ c.status = "unresolved"
                              /\ c.type \in {"decision", "action", "core_judgment"}
                              /\ c.text \in minutes.mentions}
        without ==
            {t \in a.topics :
                LET actions == {i \in t.items : i.type = "action"}
                IN  actions # {} /\ \A i \in actions : i.text \notin minutes.mentions}
        strangers == minutes.aliases \ DOMAIN a.participants
    IN  IF ~a.validated THEN {}
        ELSE (IF omitted # {} THEN {"omitted_topics"} ELSE {})
             \cup (IF uncertain # {} \/ review.unevidenced THEN {"uncertain_evidence"} ELSE {})
             \cup (IF without # {} THEN {"action_gaps"} ELSE {})
             \cup (IF strangers # {} THEN {"speaker_attribution", "unsupported_entities"} ELSE {})
             \cup (IF review.invalid # {} THEN {"cross_meeting_terms"} ELSE {})
=============================================================================
