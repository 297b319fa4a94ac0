-------------------------- MODULE DocumentDelivery --------------------------
(***************************************************************************)
(* What handing a document task to a worker promises its caller: every     *)
(* call gets exactly one answer (or its caller dies), and the answer       *)
(* "completed", on which documents are published, is given only when a     *)
(* worker has produced the complete documents of that run directory.       *)
(***************************************************************************)
CONSTANTS Jobs, Dirs, NoDir

VARIABLES
    status,   \* of each job's call: "new", "pending", "completed", "blocked", "lost"
    dir,      \* run directory of each call
    produced  \* run directories that hold complete documents

dvars == <<status, dir, produced>>

Init ==
    /\ status = [j \in Jobs |-> "new"]
    /\ dir = [j \in Jobs |-> NoDir]
    /\ produced = {}

Request(j, d) ==
    /\ status[j] = "new"
    /\ status' = [status EXCEPT ![j] = "pending"]
    /\ dir' = [dir EXCEPT ![j] = d]
    /\ UNCHANGED produced

Produce(j) ==
    /\ status[j] # "new"
    /\ produced' = produced \cup {dir[j]}
    /\ UNCHANGED <<status, dir>>

\* Another attempt in the same directory supersedes what was there.
Supersede(j) ==
    /\ status[j] # "new"
    /\ produced' = produced \ {dir[j]}
    /\ UNCHANGED <<status, dir>>

AnswerCompleted(j) ==
    /\ status[j] = "pending"
    /\ dir[j] \in produced
    /\ status' = [status EXCEPT ![j] = "completed"]
    /\ UNCHANGED <<dir, produced>>

AnswerBlocked(j) ==
    /\ status[j] = "pending"
    /\ status' = [status EXCEPT ![j] = "blocked"]
    /\ produced' = produced \ {dir[j]}
    /\ UNCHANGED dir

\* The callers die together: they are tasks of one process.
CallersDie ==
    /\ status' = [j \in Jobs |-> IF status[j] = "pending" THEN "lost" ELSE status[j]]
    /\ UNCHANGED <<dir, produced>>

Next ==
    \/ \E j \in Jobs : \/ \E d \in Dirs : Request(j, d)
                       \/ Produce(j) \/ Supersede(j)
                       \/ AnswerCompleted(j) \/ AnswerBlocked(j)
    \/ CallersDie

Spec == Init /\ [][Next]_dvars
=============================================================================
