-------------------------- MODULE MCMeetingMemory --------------------------
(***************************************************************************)
(* A small instance of MeetingMemory: two runs of the workspace, whose     *)
(* curators propose the same key, each other's evidence, and people.       *)
(***************************************************************************)
EXTENDS MeetingMemory, TLC

CONSTANTS r1, r2
MCRuns == {r1, r2}
Symmetry == Permutations(MCRuns)

MCMeetings ==
    {[segments |-> [s \in {"s1", "s2", "s3", "s4", "s5"} |->
                        CASE s = "s4" -> "needs_review" [] s = "s5" -> "empty" [] OTHER -> "ready"],
      speakers |-> {"A", "B"}, named |-> {"B"}, curates |-> TRUE, publish |-> FALSE],
     [segments |-> [s \in {"s1", "s2", "s3"} |-> "ready"],
      speakers |-> {}, named |-> {}, curates |-> TRUE, publish |-> TRUE]}

Item(type, text, agreed, owned, evidence) ==
    [type |-> type, text |-> text, agreed |-> agreed, owned |-> owned, evidence |-> evidence]
Topic(title, judgment, range, evidence, items) ==
    [title |-> title, judgment |-> judgment, range |-> range, evidence |-> evidence, items |-> items]

Budget == Topic("budget", "cheap", {"s1", "s2", "s3"}, {}, {Item("decision", "buy", TRUE, FALSE, {"s1"})})
Hiring == Topic("hiring", "slow", {}, {"s3", "s4"},
                {Item("action", "ask", FALSE, TRUE, {}), Item("decision", "wait", FALSE, FALSE, {})})
MCAnswers == {{Budget, Hiring}, {[Budget EXCEPT !.items = {}]}}

Child == [exits |-> TRUE, tool |-> "workflow", error |-> FALSE, refers |-> {}, unevidenced |-> FALSE]
MCChildren == {Child, [Child EXCEPT !.tool = "subagent"], [Child EXCEPT !.refers = {"s9"}],
               [Child EXCEPT !.unevidenced = TRUE]}

MCMinutes ==
    {[mentions |-> {"budget", "ask"}, aliases |-> {"A"}, flaws |-> {}],
     [mentions |-> {"wait"}, aliases |-> {"A", "C"}, flaws |-> {"missing_sections"}]}

Candidate(type, key, content, evidence) ==
    [type |-> type, key |-> key, content |-> content, confidence |-> "high", clean |-> TRUE,
     claims |-> {content}, evidence |-> evidence]
Bought == Candidate("decision", "purchase", "buy", {"s1"})
Cheap == Candidate("project_fact", "purchase", "cheap", {"s2", "s3"})
Slow == Candidate("project_fact", "hiring", "slow", {"s3", "s4"})
Somebody == [Candidate("participant_identity", "B", "Bo", {}) EXCEPT !.claims = {}]
Twisted == [Bought EXCEPT !.content = "never buy"]
Invented == [Bought EXCEPT !.content = "lease not buy"]
MCPayloads ==
    {<<Bought, Slow>>, <<Cheap, Somebody>>, <<[Bought EXCEPT !.confidence = "low"]>>,
     <<Twisted, Invented>>}

(* Half of the words of "never buy" are in the claim "buy", and a third of *)
(* those of "lease not buy".                                               *)
MCWords ==
    [t \in {"buy", "cheap", "slow", "ask", "wait", "unclear", "never buy", "lease not buy",
            "Bo"} |->
        CASE t = "buy" -> {"buy"}
          [] t = "never buy" -> {"never", "buy"}
          [] t = "lease not buy" -> {"lease", "not", "buy"}
          [] t = "Bo" -> {"B", "Bo"}
          [] OTHER -> {t}]

MCEarlier ==
    {<<>>, <<[type |-> "terminology", key |-> "term", content |-> "ERP", claims |-> {"ERP"},
              evidence |-> {"s1"}, run |-> "earlier"]>>}
=============================================================================
