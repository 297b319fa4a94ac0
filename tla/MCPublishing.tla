--------------------------- MODULE MCPublishing ---------------------------
(* Small instances of Publishing. *)
EXTENDS Publishing

CONSTANTS r1, r2

Request(types, qa, policy, prompt, token) ==
    [docs |-> types, direct |-> types = <<>>, qa |-> qa, policy |-> policy, prompt |-> prompt,
     token |-> token, project |-> "p1"]

Two == Request(<<"prd", "plan">>, TRUE, "other", "publish", FALSE)
One == Request(<<"prd">>, TRUE, "pass", "publish", FALSE)
Other == Request(<<"plan">>, TRUE, "pass", "publish", FALSE)
Overwrite == Request(<<"prd", "plan">>, TRUE, "pass", "modify", TRUE)
BadQuality == Request(<<"prd">>, FALSE, "pass", "publish", FALSE)
Forbidden == Request(<<"prd">>, TRUE, "blocked", "publish", FALSE)
AnswerOnly == Request(<<>>, TRUE, "pass", "plain", FALSE)

Scene(a, b, target, mode, most) ==
    [input |-> (r1 :> a @@ r2 :> b), options |-> [target |-> target, mode |-> mode],
     applies |-> most]

(* Two runs of one project side by side (in the Drive with the command      *)
(* beside them), a run of two documents with the command around it, one      *)
(* alone with two invocations, an overwriting run, and stopped runs.         *)
MCScenarios ==
    {Scene(One, Other, "wiki", "live", 0), Scene(One, Other, "drive", "live", 1),
     Scene(Two, AnswerOnly, "auto", "live", 1),
     Scene(Overwrite, BadQuality, "auto", "live", 1),
     Scene(One, Forbidden, "wiki", "live", 2),
     Scene(Two, Forbidden, "auto", "dry-run", 1)}
=============================================================================
