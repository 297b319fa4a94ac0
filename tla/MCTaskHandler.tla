--------------------------- MODULE MCTaskHandler ---------------------------
(* Small instances of TaskHandler. *)
EXTENDS TaskHandler

CONSTANTS r0, r1, r2, prd, keep

Audio(key, name) == [key |-> key, name |-> name, kind |-> "audio"]
Text(key, name) == [key |-> key, name |-> name, kind |-> "text"]

Plain == [id |-> 1, sender |-> 1, chat |-> 1, thread |-> 0, files |-> <<>>, linked |-> <<>>,
          refers |-> FALSE, answers |-> FALSE, embedded |-> <<>>, parents |-> <<>>,
          profile |-> "answer", choice |-> NoChoice]
Upload(n, f) == [Plain EXCEPT !.id = n, !.files = <<f>>, !.profile = "audio"]
FollowUp(n) == [Plain EXCEPT !.id = n, !.refers = TRUE, !.profile = "audio"]
ReplyTo(n, m) == [FollowUp(n) EXCEPT !.answers = TRUE,
                                     !.parents = <<[file |-> m.files[1], src |-> m.id]>>]
Choice(n, o) == [Plain EXCEPT !.id = n, !.choice = o]
Written(n) == [Plain EXCEPT !.id = n, !.profile = "document"]

Live == [dry |-> FALSE, mock |-> FALSE, docker |-> TRUE, reviewer |-> TRUE, store |-> TRUE,
         silent |-> FALSE]
AtMost(f, c, a) == [faults |-> f, crashes |-> c, ages |-> a]

Scene(a, b, o, most) ==
    [message |-> (r0 :> [Upload(10, Audio(1, "a")) EXCEPT !.thread = IF b.profile = "document" THEN 2 ELSE 0]
                    @@ r1 :> a @@ r2 :> b),
     options |-> o, bound |-> most, earlier |-> {r0}]

MCPlan == <<{prd, keep}>>
Old == Upload(10, Audio(1, "a"))
New == Upload(11, Audio(2, "b"))

(* An upload and a text that refers to it, sent at any time.                *)
FollowedUp == Scene(New, FollowUp(12), Live, AtMost(1, 0, 1))
(* An upload that cannot be obtained, and a text that answers it.           *)
Unobtainable == Scene(New, ReplyTo(12, New), [Live EXCEPT !.silent = TRUE], AtMost(3, 0, 0))
(* A text refers to an old file by its parent, the next one to the cache.   *)
Referred == Scene(ReplyTo(11, Old), FollowUp(12), [Live EXCEPT !.docker = FALSE], AtMost(1, 0, 1))
(* Two messages make the same choice, which asks for a document.            *)
ChosenTwice == Scene(Choice(11, prd), Choice(12, prd), Live, AtMost(1, 0, 0))
ChosenCrash == Scene(Choice(11, prd), Choice(12, keep), Live, AtMost(0, 1, 0))
(* A document, by the pipeline, and an answer to what it offers.            *)
Offered == Scene(Choice(12, keep), [Written(11) EXCEPT !.linked = <<Text(3, "c")>>],
                 [Live EXCEPT !.docker = FALSE], AtMost(1, 0, 0))
(* A dry run of the agent's mock, with one file in two messages.            *)
Mocked == Scene([FollowUp(11) EXCEPT !.embedded = <<[file |-> Audio(1, "a"), src |-> 10],
                                                    [file |-> Audio(1, "a"), src |-> 9]>>],
                [Written(12) EXCEPT !.files = <<Text(4, "d")>>, !.linked = <<Text(3, "c")>>],
                [Live EXCEPT !.dry = TRUE, !.mock = TRUE, !.store = FALSE, !.silent = TRUE],
                AtMost(1, 0, 0))
(* Text attachments, and an agent asked for an answer.                      *)
Asked == Scene([Upload(11, Text(4, "d")) EXCEPT !.profile = "answer"], Plain,
               [Live EXCEPT !.reviewer = FALSE], AtMost(2, 1, 0))

(* An upload with the name of an older file, which is taken for it.         *)
Misnamed == Scene(Upload(11, Audio(2, "a")), Plain, [Live EXCEPT !.docker = FALSE], AtMost(1, 0, 0))

MCScenarios ==
    {FollowedUp, Unobtainable, Referred, ChosenTwice, ChosenCrash, Offered, Mocked, Asked, Misnamed}
=============================================================================
