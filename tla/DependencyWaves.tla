--------------------------- MODULE DependencyWaves ---------------------------
(***************************************************************************)
(* dependencyWaves of extensions/document-worker-runtime.ts: how the       *)
(* documents of one request are put into execution waves, for every list   *)
(* of document types and every dependsOn graph over them, cyclic or not.   *)
(* One step is one turn of the while loop.                                 *)
(***************************************************************************)
EXTENDS Naturals

CONSTANTS
    Items,     \* indexes of documentWorkItems
    DocTypes   \* document types, requested or not

VARIABLES
    docType,   \* docType of each item; two items may have the same one
    dependsOn, \* dependsOn of each item, as document types
    waveOf,    \* number of the wave an item was put in, 0: still unresolved
    waves,     \* waves.length
    resolved,  \* resolvedDocTypes
    cycle      \* dependencyCycleDetected

request == <<docType, dependsOn>>
planVars == <<request, waveOf, waves, resolved, cycle>>

PlanTypeOK ==
    /\ docType \in [Items -> DocTypes]
    /\ dependsOn \in [Items -> SUBSET DocTypes]
    /\ waveOf \in [Items -> Nat]
    /\ waves \in Nat
    /\ resolved \in SUBSET DocTypes
    /\ cycle \in BOOLEAN

InitPlan ==
    /\ docType \in [Items -> DocTypes]
    /\ dependsOn \in [Items -> SUBSET DocTypes]
    /\ waveOf = [i \in Items |-> 0]
    /\ waves = 0
    /\ resolved = {}
    /\ cycle = FALSE

Unresolved == {i \in Items : waveOf[i] = 0}
Providers(t) == {i \in Items : docType[i] = t}

\* requiredPresentDeps: dependencies on documents of the same request.
Requires(i) == {t \in dependsOn[i] : Providers(t) # {}}

Ready == {i \in Unresolved : Requires(i) \subseteq resolved}

Place(take) ==
    /\ waves' = waves + 1
    /\ waveOf' = [i \in Items |-> IF i \in take THEN waves + 1 ELSE waveOf[i]]
    /\ UNCHANGED request

\* All ready items form a wave; if there is none, there is a cycle and the
\* rest goes into one last wave.
PlanWave ==
    /\ Unresolved # {}
    /\ LET take == IF Ready = {} THEN Unresolved ELSE Ready
       IN Place(take) /\ resolved' = resolved \cup {docType[i] : i \in take}
    /\ cycle' = (cycle \/ Ready = {})

PlanSpec == InitPlan /\ [][PlanWave]_planVars

-----------------------------------------------------------------------------
(* Properties.                                                             *)

\* Dependencies that some requested document provides.
Needed(i) == {t \in dependsOn[i] : \E j \in Items : docType[j] = t}

\* Items that wait for each other: each needs a document that only items of
\* the set provide.
Stuck(S) == \A i \in S : \E t \in Needed(i) : Providers(t) \subseteq S

\* The plan reports a cycle exactly if some items can never become ready:
\* execute() blocks a request if, and only if, it cannot be ordered.
CycleIsExact ==
    Unresolved = {} => (cycle <=> \E S \in SUBSET Items : S # {} /\ Stuck(S))

\* Without a cycle every document comes after some requested document of each
\* type it depends on.
WavesOrdered ==
    ~cycle => \A i \in Items \ Unresolved : \A t \in Needed(i) :
        \E j \in Providers(t) : 0 < waveOf[j] /\ waveOf[j] < waveOf[i]

\* Without a cycle no document waits longer than its dependencies make it.
NoNeedlessWait ==
    ~cycle => \A i \in Items \ Unresolved :
        \/ waveOf[i] = 1
        \/ \E t \in Needed(i) : \A j \in Providers(t) : waveOf[j] = 0 \/ waveOf[j] + 1 >= waveOf[i]
=============================================================================
