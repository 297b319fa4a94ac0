-------------------------- MODULE GatedPublishing --------------------------
(***************************************************************************)
(* What publishing promises, whatever the destination: nothing of a run    *)
(* becomes visible unless its gates are open and the handler writes for    *)
(* real, nothing becomes visible after the result was recorded, a document *)
(* is reported done only as it becomes visible, and a result "published"   *)
(* is only recorded when all are reported done.  They are then all         *)
(* visible, unless the run writes them over one file: each replaces the    *)
(* one before it, and only the last can be read.                           *)
(***************************************************************************)
EXTENDS Naturals

CONSTANTS
    Runs       \* runs of the handler

VARIABLES
    wanted,    \* documents of each run's output, numbered
    oneFile,   \* does the run write them all over the same file?
    open,      \* do the run's gates let it write?
    visible,   \* documents of the run that somebody can read somewhere
    reported,  \* documents the run has noted as written
    verdict    \* recorded result of the run, "none" before

gatedVars == <<wanted, oneFile, open, visible, reported, verdict>>

Init ==
    /\ visible = [r \in Runs |-> {}]
    /\ reported = [r \in Runs |-> {}]
    /\ verdict = [r \in Runs |-> "none"]

(* Documents become visible: beside the others, or in place of the one     *)
(* before.                                                                 *)
Shows(r, more) ==
    /\ more \subseteq wanted[r]
    /\ more # {} => open[r]
    /\ visible' = [visible EXCEPT ![r] = IF oneFile[r] /\ more # {} THEN more ELSE @ \cup more]
    /\ oneFile[r] => \A d, e \in more : d = e

(* What is noted as written now can be read now.                           *)
Reports(r) ==
    \E noted \in SUBSET visible'[r] : reported' = [reported EXCEPT ![r] = @ \cup noted]

(* Documents of a run whose gates are open become visible.                 *)
Show(r) ==
    /\ verdict[r] = "none"
    /\ \E more \in SUBSET wanted[r] : Shows(r, more)
    /\ Reports(r)
    /\ UNCHANGED <<wanted, oneFile, open, verdict>>

Last(r) == {d \in wanted[r] : \A e \in wanted[r] : e <= d}

(* The result is recorded, together with the documents the last step made  *)
(* visible.                                                                *)
Close(r) ==
    /\ verdict[r] = "none"
    /\ \E more \in SUBSET wanted[r] : Shows(r, more)
    /\ Reports(r)
    /\ \E v \in {"published", "blocked", "skipped", "dry_run"} :
          /\ v = "published" => /\ open[r]
                                /\ reported'[r] = wanted[r]
                                /\ visible'[r] = IF oneFile[r] THEN Last(r) ELSE wanted[r]
          /\ v \in {"skipped", "dry_run"} => visible'[r] = {}
          /\ verdict' = [verdict EXCEPT ![r] = v]
    /\ UNCHANGED <<wanted, oneFile, open>>

Next == \E r \in Runs : Show(r) \/ Close(r)

Spec == Init /\ [][Next]_gatedVars
=============================================================================
