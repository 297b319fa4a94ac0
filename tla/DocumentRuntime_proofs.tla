----------------------- MODULE DocumentRuntime_proofs -----------------------
(***************************************************************************)
(* What a document task rests on.  That an execution of                    *)
(* extensions/document-worker-runtime.ts is the only one of its run        *)
(* (DocumentRunLock, for any number of executions, workers, units, inputs  *)
(* and crashes); the order of its documents (DependencyWaves, for any      *)
(* number of documents and any dependsOn graph); and the queue that brings *)
(* it to a worker and its answer back (DocumentWorkerQueue, for any number *)
(* of handler calls, worker slots, jobs, run directories and faults).      *)
(***************************************************************************)
EXTENDS DocumentRunLock, DependencyWaves, DocumentWorkerQueue, SequenceTheorems,
        FiniteSetTheorems, TLAPS

-----------------------------------------------------------------------------
(* The run lock.                                                           *)

\* An execution holds the lock only in the stages between acquire and release.
HeldStages ==
    \A r \in Runs :
        /\ held[r] => pc[r] \in OwnerStages
        /\ pc[r] = "unlinking" => held[r]

\* A working execution has an input, and what it remembers belongs to it.
ProgressMatchesInput ==
    \A r \in Runs :
        /\ pc[r] # "idle" \/ active[r] # {} => input[r] \in Inputs
        /\ \A u \in progress[r] : u[1] = input[r]

\* Whoever is about to move a lock aside has seen a stale one.
StaleSeen ==
    /\ lockAge = "stale" => aged
    /\ \A r \in Runs : pc[r] = "reclaim" => aged

\* The inductive invariant: the properties above and what they rest on.
RunLockInv ==
    /\ LockTypeOK
    /\ HeldStages
    /\ ProgressMatchesInput
    /\ StaleSeen
    /\ OwnerIsInLockFile
    /\ StolenOnlyAfterStale
    /\ CheckpointMatchesInput

LEMMA InitRunLockInv == InitLock => RunLockInv
  <1> SUFFICES ASSUME InitLock PROVE RunLockInv
    OBVIOUS
  <1> USE RunsAssumption DEF RunsAssumption, InitLock
  <1>1. LockTypeOK
    <2>1. checkpoint \in [input: Inputs \cup {NoInput}, units: SUBSET Unit]
      BY DEF NoCheckpoint
    <2>2. pc \in [Runs -> Stages] /\ held \in [Runs -> BOOLEAN]
      BY DEF Stages
    <2>3. /\ input \in [Runs -> Inputs \cup {NoInput}]
          /\ progress \in [Runs -> SUBSET Unit]
          /\ active \in [Runs -> SUBSET Workers]
      OBVIOUS
    <2>4. crashes \in 0..MaxCrashes
      OBVIOUS
    <2> QED BY <2>1, <2>2, <2>3, <2>4 DEF LockTypeOK
  <1>2. HeldStages /\ ProgressMatchesInput /\ StaleSeen
    BY DEF HeldStages, ProgressMatchesInput, StaleSeen
  <1>3. OwnerIsInLockFile /\ StolenOnlyAfterStale /\ CheckpointMatchesInput
    BY DEF OwnerIsInLockFile, StolenOnlyAfterStale, CheckpointMatchesInput, Owns, NoCheckpoint
  <1> QED BY <1>1, <1>2, <1>3 DEF RunLockInv

\* Loading never mixes inputs: a checkpoint of another input is set aside.
LEMMA LoadKeepsInv ==
  ASSUME NEW r \in Runs, RunLockInv, LoadCheckpoint(r)
  PROVE  RunLockInv'
  <1> USE RunsAssumption DEF RunsAssumption
  <1> USE DEF RunLockInv, LoadCheckpoint, lockVars, history
  <1>1. PICK i \in Inputs :
          /\ input' = [input EXCEPT ![r] = i]
          /\ IF checkpoint.input \in {i, NoInput}
             THEN progress' = [progress EXCEPT ![r] = checkpoint.units] /\ UNCHANGED checkpoint
             ELSE progress' = [progress EXCEPT ![r] = {}] /\ checkpoint' = NoCheckpoint
    OBVIOUS
  <1>2. checkpoint.input = NoInput => checkpoint.units = {}
    BY DEF LockTypeOK, CheckpointMatchesInput, Unit
  <1>3. LockTypeOK'
    BY <1>1 DEF LockTypeOK, NoCheckpoint, Stages, AcquireStages
  <1>4. HeldStages'
    BY DEF HeldStages, LockTypeOK, OwnerStages
  <1>5. ProgressMatchesInput'
    BY <1>1, <1>2 DEF ProgressMatchesInput, LockTypeOK, CheckpointMatchesInput
  <1>6. StaleSeen' /\ StolenOnlyAfterStale'
    BY DEF StaleSeen, StolenOnlyAfterStale, LockTypeOK
  <1>7. OwnerIsInLockFile'
    BY DEF OwnerIsInLockFile, Owns, OwnerStages, LockTypeOK
  <1>8. CheckpointMatchesInput'
    BY <1>1 DEF CheckpointMatchesInput, NoCheckpoint
  <1> QED BY <1>3, <1>4, <1>5, <1>6, <1>7, <1>8

\* The steps of acquireWorkflowRunLock and releaseWorkflowRunLock.
LEMMA AdvanceKeepsInv ==
  ASSUME NEW r \in Runs, RunLockInv, Advance(r)
  PROVE  RunLockInv'
  <1> USE RunsAssumption DEF RunsAssumption
  <1> USE DEF RunLockInv, lockVars, history, Return, StartWorkers
  <1>1. CASE StartWithoutLock(r)
    <2> USE <1>1 DEF StartWithoutLock
    <2>1. LockTypeOK' /\ HeldStages' /\ ProgressMatchesInput' /\ StaleSeen'
      BY DEF LockTypeOK, HeldStages, ProgressMatchesInput, StaleSeen, Stages, AcquireStages, OwnerStages
    <2>2. OwnerIsInLockFile' /\ StolenOnlyAfterStale' /\ CheckpointMatchesInput'
      BY DEF LockTypeOK, OwnerIsInLockFile, StolenOnlyAfterStale, CheckpointMatchesInput, Owns, OwnerStages
    <2> QED BY <2>1, <2>2
  <1>2. CASE CreateLock(r)
    <2> USE <1>2 DEF CreateLock
    <2>1. LockTypeOK' /\ HeldStages' /\ ProgressMatchesInput' /\ StaleSeen'
      BY DEF LockTypeOK, HeldStages, ProgressMatchesInput, StaleSeen, Stages, AcquireStages, OwnerStages
    <2>2. ~stolen => \A q \in Runs : ~Owns(q)
      BY DEF OwnerIsInLockFile
    <2>3. OwnerIsInLockFile'
      BY <2>2 DEF OwnerIsInLockFile, Owns, OwnerStages, LockTypeOK
    <2>4. StolenOnlyAfterStale' /\ CheckpointMatchesInput'
      BY DEF StolenOnlyAfterStale, CheckpointMatchesInput
    <2> QED BY <2>1, <2>3, <2>4
  <1>3. CASE CreateLockWriteError(r)
    <2> USE <1>3 DEF CreateLockWriteError
    <2>1. LockTypeOK' /\ HeldStages' /\ ProgressMatchesInput' /\ StaleSeen'
      BY DEF LockTypeOK, HeldStages, ProgressMatchesInput, StaleSeen, Stages, AcquireStages, OwnerStages
    <2>2. OwnerIsInLockFile' /\ StolenOnlyAfterStale' /\ CheckpointMatchesInput'
      BY DEF LockTypeOK, OwnerIsInLockFile, StolenOnlyAfterStale, CheckpointMatchesInput, Owns, OwnerStages
    <2> QED BY <2>1, <2>2
  <1>4. CASE LockExists(r)
    <2> USE <1>4 DEF LockExists
    <2>1. LockTypeOK' /\ HeldStages' /\ ProgressMatchesInput' /\ StaleSeen'
      BY DEF LockTypeOK, HeldStages, ProgressMatchesInput, StaleSeen, Stages, AcquireStages, OwnerStages
    <2>2. OwnerIsInLockFile' /\ StolenOnlyAfterStale' /\ CheckpointMatchesInput'
      BY DEF LockTypeOK, OwnerIsInLockFile, StolenOnlyAfterStale, CheckpointMatchesInput, Owns, OwnerStages
    <2> QED BY <2>1, <2>2
  <1>5. CASE InspectLock(r)
    <2> USE <1>5 DEF InspectLock
    <2>1. LockTypeOK' /\ HeldStages' /\ ProgressMatchesInput' /\ StaleSeen'
      BY DEF LockTypeOK, HeldStages, ProgressMatchesInput, StaleSeen, Stages, AcquireStages, OwnerStages
    <2>2. OwnerIsInLockFile' /\ StolenOnlyAfterStale' /\ CheckpointMatchesInput'
      BY DEF LockTypeOK, OwnerIsInLockFile, StolenOnlyAfterStale, CheckpointMatchesInput, Owns, OwnerStages
    <2> QED BY <2>1, <2>2
  <1>6. CASE ReclaimLock(r)
    <2> USE <1>6 DEF ReclaimLock
    <2>1. LockTypeOK' /\ HeldStages' /\ ProgressMatchesInput' /\ StaleSeen'
      BY DEF LockTypeOK, HeldStages, ProgressMatchesInput, StaleSeen, Stages, AcquireStages, OwnerStages
    <2>2. StolenOnlyAfterStale' /\ CheckpointMatchesInput'
      BY DEF StaleSeen, StolenOnlyAfterStale, CheckpointMatchesInput
    <2>3. \A q \in Runs : Owns(q)' => Owns(q)
      BY DEF Owns, OwnerStages, LockTypeOK
    <2>4. ~stolen' => \A q \in Runs : ~Owns(q)
      BY DEF OwnerIsInLockFile, LockTypeOK
    <2>5. OwnerIsInLockFile'
      BY <2>3, <2>4 DEF OwnerIsInLockFile
    <2> QED BY <2>1, <2>2, <2>5
  <1>7. CASE ReadToken(r)
    <2> USE <1>7 DEF ReadToken
    <2>1. LockTypeOK'
      <3>1. pc' \in [Runs -> Stages]
        BY DEF LockTypeOK, Stages, AcquireStages, OwnerStages
      <3>2. held' \in [Runs -> BOOLEAN]
        BY DEF LockTypeOK
      <3> QED BY <3>1, <3>2 DEF LockTypeOK
    <2>2. HeldStages'
      BY DEF LockTypeOK, HeldStages, OwnerStages
    <2>3. ProgressMatchesInput' /\ StaleSeen'
      BY DEF LockTypeOK, ProgressMatchesInput, StaleSeen
    <2>4. OwnerIsInLockFile' /\ StolenOnlyAfterStale' /\ CheckpointMatchesInput'
      BY DEF LockTypeOK, OwnerIsInLockFile, StolenOnlyAfterStale, CheckpointMatchesInput, Owns, OwnerStages
    <2> QED BY <2>1, <2>2, <2>3, <2>4
  <1>8. CASE Unlink(r)
    <2> USE <1>8 DEF Unlink
    <2>1. LockTypeOK' /\ HeldStages' /\ ProgressMatchesInput' /\ StaleSeen'
      BY DEF LockTypeOK, HeldStages, ProgressMatchesInput, StaleSeen, Stages, AcquireStages, OwnerStages
    <2>2. ~stolen => \A q \in Runs \ {r} : ~Owns(q)
      BY DEF OwnerIsInLockFile, HeldStages, Owns, OwnerStages
    <2>3. OwnerIsInLockFile'
      BY <2>2 DEF OwnerIsInLockFile, Owns, OwnerStages, LockTypeOK
    <2>4. StolenOnlyAfterStale' /\ CheckpointMatchesInput'
      BY DEF StolenOnlyAfterStale, CheckpointMatchesInput
    <2> QED BY <2>1, <2>3, <2>4
  <1> QED BY <1>1, <1>2, <1>3, <1>4, <1>5, <1>6, <1>7, <1>8 DEF Advance

\* The steps of the worker pool.
LEMMA WorkersKeepInv ==
  ASSUME NEW r \in Runs, NEW w \in Workers, RunLockInv,
         SaveUnit(r, w) \/ WorkerDone(r, w) \/ WorkerThrows(r, w)
  PROVE  RunLockInv'
  <1> USE RunsAssumption DEF RunsAssumption
  <1> USE DEF RunLockInv, lockVars, history
  <1>1. CASE SaveUnit(r, w)
    <2> USE <1>1 DEF SaveUnit
    <2>1. PICK u \in Units :
            /\ progress' = [progress EXCEPT ![r] = @ \cup {<<input[r], u>>}]
            /\ checkpoint' = [input |-> input[r], units |-> progress[r] \cup {<<input[r], u>>}]
      OBVIOUS
    <2>2. input[r] \in Inputs /\ <<input[r], u>> \in Unit
      BY DEF ProgressMatchesInput, Unit, LockTypeOK
    <2>3. LockTypeOK'
      BY <2>1, <2>2 DEF LockTypeOK
    <2>4. HeldStages' /\ StaleSeen' /\ OwnerIsInLockFile' /\ StolenOnlyAfterStale'
      BY DEF HeldStages, StaleSeen, OwnerIsInLockFile, StolenOnlyAfterStale, Owns
    <2>5. ProgressMatchesInput' /\ CheckpointMatchesInput'
      BY <2>1 DEF ProgressMatchesInput, CheckpointMatchesInput, LockTypeOK
    <2> QED BY <2>3, <2>4, <2>5
  <1>2. CASE WorkerDone(r, w)
    <2> USE <1>2 DEF WorkerDone
    <2>1. LockTypeOK' /\ HeldStages' /\ ProgressMatchesInput' /\ StaleSeen'
      BY DEF LockTypeOK, HeldStages, ProgressMatchesInput, StaleSeen, Stages, AcquireStages, OwnerStages
    <2>2. OwnerIsInLockFile' /\ StolenOnlyAfterStale' /\ CheckpointMatchesInput'
      BY DEF LockTypeOK, OwnerIsInLockFile, StolenOnlyAfterStale, CheckpointMatchesInput, Owns, OwnerStages
    <2> QED BY <2>1, <2>2
  <1>3. CASE WorkerThrows(r, w)
    <2> USE <1>3 DEF WorkerThrows
    <2>1. LockTypeOK' /\ HeldStages' /\ ProgressMatchesInput' /\ StaleSeen'
      BY DEF LockTypeOK, HeldStages, ProgressMatchesInput, StaleSeen, Stages, AcquireStages, OwnerStages
    <2>2. OwnerIsInLockFile' /\ StolenOnlyAfterStale' /\ CheckpointMatchesInput'
      BY DEF LockTypeOK, OwnerIsInLockFile, StolenOnlyAfterStale, CheckpointMatchesInput, Owns, OwnerStages
    <2> QED BY <2>1, <2>2
  <1> QED BY <1>1, <1>2, <1>3

\* Crashes and the passing of time.
LEMMA EnvironmentKeepsInv ==
  ASSUME RunLockInv, LockAges \/ \E r \in Runs : Crash(r)
  PROVE  RunLockInv'
  <1> USE RunsAssumption DEF RunsAssumption
  <1> USE DEF RunLockInv, lockVars, history, Return
  <1>1. CASE LockAges
    BY <1>1 DEF LockAges, LockTypeOK, HeldStages, ProgressMatchesInput, StaleSeen, runVars,
                OwnerIsInLockFile, StolenOnlyAfterStale, CheckpointMatchesInput, Owns
  <1>2. ASSUME NEW r \in Runs, Crash(r)
        PROVE  RunLockInv'
    <2> USE <1>2 DEF Crash
    <2>1. LockTypeOK' /\ HeldStages' /\ ProgressMatchesInput' /\ StaleSeen'
      BY DEF LockTypeOK, HeldStages, ProgressMatchesInput, StaleSeen, Stages, AcquireStages, OwnerStages
    <2>2. OwnerIsInLockFile' /\ StolenOnlyAfterStale' /\ CheckpointMatchesInput'
      BY DEF LockTypeOK, OwnerIsInLockFile, StolenOnlyAfterStale, CheckpointMatchesInput, Owns, OwnerStages
    <2> QED BY <2>1, <2>2
  <1> QED BY <1>1, <1>2

\* RunLockInv is an invariant of every behaviour of the protocol.
THEOREM RunLockInvariant == LockSpec => []RunLockInv
  <1>1. RunLockInv /\ UNCHANGED runLockVars => RunLockInv'
    BY DEF runLockVars, lockVars, runVars, history, RunLockInv, LockTypeOK, HeldStages, ProgressMatchesInput,
           StaleSeen, OwnerIsInLockFile, StolenOnlyAfterStale, CheckpointMatchesInput, Owns
  <1>2. RunLockInv /\ [NextLock]_runLockVars => RunLockInv'
    BY <1>1, LoadKeepsInv, AdvanceKeepsInv, WorkersKeepInv, EnvironmentKeepsInv DEF NextLock
  <1> QED BY InitRunLockInv, <1>2, PTL DEF LockSpec

\* State variables keep their types (all of extensions/document-worker-
\* runtime.ts's lock and checkpoint state).
THEOREM RunLockTypeOK == LockSpec => []LockTypeOK
  <1>1. RunLockInv => LockTypeOK
    BY DEF RunLockInv
  <1> QED BY <1>1, RunLockInvariant, PTL

\* Until a lock in use is moved aside, whoever believes it holds the run lock
\* is the execution named in run.lock.
THEOREM RunLockOwnership == LockSpec => []OwnerIsInLockFile
  <1>1. RunLockInv => OwnerIsInLockFile
    BY DEF RunLockInv
  <1> QED BY <1>1, RunLockInvariant, PTL

\* As long as no lock gets older than 8 hours, two executions that hold the
\* lock never write at the same time.
THEOREM RunLockMutualExclusion == LockSpec => [](~aged => SingleWriter)
  <1>1. RunLockInv => (~aged => SingleWriter)
    BY DEF RunLockInv, OwnerIsInLockFile, StolenOnlyAfterStale, SingleWriter, LockedWriters,
           Owns, OwnerStages
  <1> QED BY <1>1, RunLockInvariant, PTL

\* A lock in use is only ever moved aside after some lock went stale.
THEOREM RunLockStolenOnlyAfterStale == LockSpec => []StolenOnlyAfterStale
  <1>1. RunLockInv => StolenOnlyAfterStale
    BY DEF RunLockInv
  <1> QED BY <1>1, RunLockInvariant, PTL

\* checkpoint.json never contains a unit generated for another input.
THEOREM CheckpointInputBinding == LockSpec => []CheckpointMatchesInput
  <1>1. RunLockInv => CheckpointMatchesInput
    BY DEF RunLockInv
  <1> QED BY <1>1, RunLockInvariant, PTL

-----------------------------------------------------------------------------
(* The waves: cycles are reported exactly, waves respect the dependencies, *)
(* and no document waits longer than it must.                              *)

\* resolvedDocTypes are the types of the items already placed.
ResolvedIsPlaced == resolved = {docType[i] : i \in Items \ Unresolved}

NoLaterWave == \A i \in Items : waveOf[i] <= waves

\* As long as no cycle is reported, items that wait for each other are all
\* still unresolved ...
StuckItemsStay == ~cycle => \A S \in SUBSET Items : Stuck(S) => S \subseteq Unresolved

\* ... and a cycle is only reported if there are such items.
CycleHasItems == cycle => \E S \in SUBSET Items : S # {} /\ Stuck(S)

\* An item is still unresolved because the last wave was its last obstacle,
\* or because it has one left.
HeldBack ==
    ~cycle => \A i \in Unresolved :
        \/ waves = 0
        \/ \E t \in Needed(i) : \A j \in Providers(t) : waveOf[j] = 0 \/ waveOf[j] = waves

WavesInv ==
    /\ PlanTypeOK
    /\ ResolvedIsPlaced
    /\ NoLaterWave
    /\ StuckItemsStay
    /\ CycleHasItems
    /\ HeldBack
    /\ WavesOrdered
    /\ NoNeedlessWait

\* The code's filter on presentDocTypes is the set of needed dependencies.
LEMMA RequiresIsNeeded ==
  ASSUME NEW i \in Items
  PROVE  Requires(i) = Needed(i)
  BY DEF Requires, Needed, Providers

\* An item that is not ready needs a document nobody placed provides.
LEMMA NotReady ==
  ASSUME ResolvedIsPlaced, NEW i \in Unresolved, i \notin Ready
  PROVE  \E t \in Needed(i) : Providers(t) \subseteq Unresolved
  <1>1. i \in Items
    BY DEF Unresolved
  <1>2. PICK t \in Needed(i) : t \notin resolved
    BY <1>1, RequiresIsNeeded DEF Ready
  <1>3. Providers(t) \subseteq Unresolved
    BY <1>2 DEF Providers, ResolvedIsPlaced
  <1> QED BY <1>3

\* A ready item has a placed provider for every document it needs.
LEMMA ReadyIsProvided ==
  ASSUME ResolvedIsPlaced, NEW i \in Ready, NEW t \in Needed(i)
  PROVE  \E j \in Providers(t) : j \in Items \ Unresolved
  <1>1. i \in Items
    BY DEF Ready, Unresolved
  <1>2. t \in resolved
    BY <1>1, RequiresIsNeeded DEF Ready
  <1> QED BY <1>2 DEF ResolvedIsPlaced, Providers

LEMMA InitWavesInv == InitPlan => WavesInv
  <1> SUFFICES ASSUME InitPlan PROVE WavesInv
    OBVIOUS
  <1> USE DEF InitPlan
  <1>1. Unresolved = Items
    BY DEF Unresolved
  <1>2. PlanTypeOK /\ ResolvedIsPlaced /\ NoLaterWave
    <2>1. PlanTypeOK
      BY DEF PlanTypeOK
    <2>2. Items \ Unresolved = {}
      BY <1>1
    <2>3. ResolvedIsPlaced
      <3>1. {docType[i] : i \in {}} = {}
        OBVIOUS
      <3> QED BY <2>2, <3>1 DEF ResolvedIsPlaced
    <2>4. NoLaterWave
      <3>1. \A i \in Items : waveOf[i] = 0
        OBVIOUS
      <3>2. waves = 0 /\ 0 <= 0
        OBVIOUS
      <3> QED BY <3>1, <3>2 DEF NoLaterWave
    <2> QED BY <2>1, <2>3, <2>4
  <1>3. StuckItemsStay
    <2>1. \A S \in SUBSET Items : S \subseteq Unresolved
      BY <1>1
    <2> QED BY <2>1 DEF StuckItemsStay
  <1>4. CycleHasItems
    BY DEF CycleHasItems
  <1>5. HeldBack /\ WavesOrdered /\ NoNeedlessWait
    BY <1>1 DEF HeldBack, WavesOrdered, NoNeedlessWait
  <1> QED BY <1>2, <1>3, <1>4, <1>5 DEF WavesInv

LEMMA PlanWaveKeepsInv ==
  ASSUME WavesInv, PlanWave
  PROVE  WavesInv'
  <1> DEFINE take == IF Ready = {} THEN Unresolved ELSE Ready
  <1> USE DEF WavesInv
  <1>1. /\ Unresolved # {}
        /\ waves' = waves + 1
        /\ waveOf' = [i \in Items |-> IF i \in take THEN waves + 1 ELSE waveOf[i]]
        /\ docType' = docType /\ dependsOn' = dependsOn
        /\ resolved' = resolved \cup {docType[i] : i \in take}
        /\ cycle' = (cycle \/ Ready = {})
    BY DEF PlanWave, Place, request
  <1>2. take \subseteq Unresolved /\ Unresolved \subseteq Items
    BY DEF Ready, Unresolved
  <1>3. Unresolved' = Unresolved \ take
    BY <1>1, <1>2 DEF Unresolved, PlanTypeOK
  <1>4. /\ \A i \in Items : Needed(i)' = Needed(i)
        /\ \A t : Providers(t)' = Providers(t)
        /\ \A S \in SUBSET Items : Stuck(S)' <=> Stuck(S)
    BY <1>1 DEF Needed, Providers, Stuck
  <1>5. PlanTypeOK'
    <2>1. {docType[i] : i \in take} \subseteq DocTypes
      BY <1>2 DEF PlanTypeOK
    <2>2. waveOf' \in [Items -> Nat]
      BY <1>1 DEF PlanTypeOK
    <2> QED BY <1>1, <2>1, <2>2 DEF PlanTypeOK
  <1>6. ResolvedIsPlaced'
    BY <1>1, <1>2, <1>3 DEF ResolvedIsPlaced
  <1>7. NoLaterWave'
    BY <1>1 DEF NoLaterWave, PlanTypeOK
  <1>8. StuckItemsStay'
    <2> SUFFICES ASSUME ~cycle', NEW S \in SUBSET Items, Stuck(S), NEW i \in S, i \in take
                 PROVE  FALSE
      BY <1>1, <1>3, <1>4 DEF StuckItemsStay
    <2>1. i \in Ready /\ S \subseteq Unresolved
      BY <1>1 DEF StuckItemsStay
    <2>2. PICK t \in Needed(i) : Providers(t) \subseteq S
      BY DEF Stuck
    <2>3. PICK j \in Providers(t) : j \notin Unresolved
      BY <2>1, <2>2, ReadyIsProvided
    <2> QED BY <2>1, <2>2, <2>3
  <1>9. CycleHasItems'
    <2>1. CASE cycle
      BY <2>1, <1>4 DEF CycleHasItems
    <2>2. CASE ~cycle /\ Ready = {}
      <3>1. Stuck(Unresolved)
        BY <2>2, NotReady DEF Stuck
      <3> QED BY <3>1, <1>1, <1>2, <1>4 DEF CycleHasItems
    <2> QED BY <2>1, <2>2, <1>1 DEF CycleHasItems
  <1>10. HeldBack'
    <2> SUFFICES ASSUME ~cycle', NEW i \in Unresolved, i \notin take
                 PROVE  \E t \in Needed(i) : \A j \in Providers(t) : waveOf'[j] = 0 \/ waveOf'[j] = waves'
      BY <1>3, <1>4, <1>2 DEF HeldBack
    <2>1. i \notin Ready
      BY <1>1
    <2>2. PICK t \in Needed(i) : Providers(t) \subseteq Unresolved
      BY <2>1, NotReady
    <2>3. \A j \in Unresolved : waveOf'[j] = 0 \/ waveOf'[j] = waves'
      BY <1>1, <1>2 DEF Unresolved
    <2> QED BY <2>2, <2>3
  <1>11. WavesOrdered'
    <2> SUFFICES ASSUME ~cycle', NEW i \in Items \ Unresolved', NEW t \in Needed(i)
                 PROVE  \E j \in Providers(t) : 0 < waveOf'[j] /\ waveOf'[j] < waveOf'[i]
      BY <1>4 DEF WavesOrdered
    <2>1. CASE i \in take
      <3>1. PICK j \in Providers(t) : j \in Items \ Unresolved
        BY <2>1, <1>1, ReadyIsProvided
      <3>2. waveOf'[j] = waveOf[j] /\ waveOf[j] # 0 /\ waveOf[j] <= waves
        BY <3>1, <1>1, <1>2 DEF Unresolved, NoLaterWave
      <3> QED BY <3>1, <3>2, <2>1, <1>1 DEF PlanTypeOK
    <2>2. CASE i \notin take
      <3>1. i \in Items \ Unresolved
        BY <2>2, <1>3
      <3>2. PICK j \in Providers(t) : 0 < waveOf[j] /\ waveOf[j] < waveOf[i]
        BY <3>1, <1>1 DEF WavesOrdered
      <3>3. j \notin take /\ j \in Items
        BY <3>2, <1>2 DEF Unresolved, Providers
      <3> QED BY <3>1, <3>2, <3>3, <2>2, <1>1
    <2> QED BY <2>1, <2>2
  <1>12. NoNeedlessWait'
    <2> SUFFICES ASSUME ~cycle', NEW i \in Items \ Unresolved'
                 PROVE  \/ waveOf'[i] = 1
                        \/ \E t \in Needed(i) : \A j \in Providers(t) :
                             waveOf'[j] = 0 \/ waveOf'[j] + 1 >= waveOf'[i]
      BY <1>4 DEF NoNeedlessWait
    <2>0. \A j \in Items : waveOf[j] \in Nat /\ waveOf[j] <= waves /\ waves \in Nat
      BY DEF PlanTypeOK, NoLaterWave
    <2>1. CASE i \in take
      <3>1. i \in Unresolved /\ waveOf'[i] = waves + 1
        BY <2>1, <1>1, <1>2
      <3>2. CASE waves = 0
        BY <3>1, <3>2
      <3>3. CASE waves # 0
        <4>1. PICK t \in Needed(i) : \A j \in Providers(t) : waveOf[j] = 0 \/ waveOf[j] = waves
          BY <3>1, <3>3, <1>1 DEF HeldBack
        <4>2. \A j \in Providers(t) : waveOf'[j] = 0 \/ waveOf'[j] + 1 >= waveOf'[i]
          BY <4>1, <3>1, <2>0, <1>1 DEF Providers
        <4> QED BY <4>2
      <3> QED BY <3>2, <3>3
    <2>2. CASE i \notin take
      <3>1. i \in Items \ Unresolved /\ waveOf'[i] = waveOf[i]
        BY <2>2, <1>1, <1>3
      <3>2. CASE waveOf[i] = 1
        BY <3>1, <3>2
      <3>3. CASE waveOf[i] # 1
        <4>1. PICK t \in Needed(i) : \A j \in Providers(t) : waveOf[j] = 0 \/ waveOf[j] + 1 >= waveOf[i]
          BY <3>1, <3>3, <1>1 DEF NoNeedlessWait
        <4>2. \A j \in Providers(t) : waveOf'[j] = 0 \/ waveOf'[j] + 1 >= waveOf'[i]
          BY <4>1, <3>1, <2>0, <1>1 DEF Providers
        <4> QED BY <4>2
      <3> QED BY <3>2, <3>3
    <2> QED BY <2>1, <2>2
  <1> QED BY <1>5, <1>6, <1>7, <1>8, <1>9, <1>10, <1>11, <1>12

THEOREM WavesInvariant == PlanSpec => []WavesInv
  <1>1. WavesInv /\ UNCHANGED planVars => WavesInv'
    <2> SUFFICES ASSUME WavesInv, UNCHANGED planVars PROVE WavesInv'
      OBVIOUS
    <2> USE DEF WavesInv, planVars, request
    <2>1. PlanTypeOK' /\ ResolvedIsPlaced' /\ NoLaterWave'
      BY DEF PlanTypeOK, ResolvedIsPlaced, NoLaterWave, Unresolved
    <2>2. StuckItemsStay' /\ CycleHasItems'
      <3>1. \A S : Stuck(S)' <=> Stuck(S)
        BY DEF Stuck, Needed, Providers
      <3>2. Unresolved' = Unresolved /\ cycle' = cycle
        BY DEF Unresolved
      <3>3. StuckItemsStay'
        BY <3>1, <3>2 DEF StuckItemsStay
      <3>4. CycleHasItems'
        BY <3>1, <3>2 DEF CycleHasItems
      <3> QED BY <3>3, <3>4
    <2>3. HeldBack' /\ WavesOrdered' /\ NoNeedlessWait'
      BY DEF HeldBack, WavesOrdered, NoNeedlessWait, Unresolved, Needed, Providers
    <2> QED BY <2>1, <2>2, <2>3
  <1>2. WavesInv /\ [PlanWave]_planVars => WavesInv'
    BY <1>1, PlanWaveKeepsInv
  <1> QED BY InitWavesInv, <1>2, PTL DEF PlanSpec

\* A request is reported as cyclic exactly if some of its documents wait for
\* each other (the guard that blocks a request in execute()).
THEOREM CycleReportedExactly == PlanSpec => []CycleIsExact
  <1>1. WavesInv => CycleIsExact
    BY DEF WavesInv, CycleIsExact, StuckItemsStay, CycleHasItems
  <1> QED BY <1>1, WavesInvariant, PTL

\* In a plan without a cycle every document comes after the documents it
\* depends on (wave.taskIndexes).
THEOREM WavesRespectDependencies == PlanSpec => []WavesOrdered
  <1>1. WavesInv => WavesOrdered
    BY DEF WavesInv
  <1> QED BY <1>1, WavesInvariant, PTL

\* In a plan without a cycle every document is in the earliest wave it can be in.
THEOREM WavesAreEarliest == PlanSpec => []NoNeedlessWait
  <1>1. WavesInv => NoNeedlessWait
    BY DEF WavesInv
  <1> QED BY <1>1, WavesInvariant, PTL

\* Item numbers, waves and resolved types keep their types.
THEOREM WavesTypeOK == PlanSpec => []PlanTypeOK
  <1>1. WavesInv => PlanTypeOK
    BY DEF WavesInv
  <1> QED BY <1>1, WavesInvariant, PTL

-----------------------------------------------------------------------------
(* The queue.                                                              *)

-----------------------------------------------------------------------------
(* Type correctness. *)

LEMMA InitTypeOK == Init => TypeOK
  <1> SUFFICES ASSUME Init PROVE TypeOK
    OBVIOUS
  <1> USE QueueAssumption DEF QueueAssumption, Init
  <1>1. RedisOK
    BY EmptySeq DEF RedisOK
  <1>2. NoFile \in File
    BY DEF NoFile, File, FileStatuses
  <1>3. HostsOK
    BY <1>2 DEF HostsOK, HostStages
  <1>4. FilesOK
    BY <1>2 DEF FilesOK
  <1>5. SlotsOK
    BY DEF SlotsOK, SlotStages
  <1>6. IssuedOK
    BY EmptySeq DEF IssuedOK
  <1>7. faults \in 0..MaxFaults
    OBVIOUS
  <1> QED BY <1>1, <1>3, <1>4, <1>5, <1>6, <1>7 DEF TypeOK

\* The blocked output a host writes keeps the types of what it touches.
LEMMA BlockedKeepsType ==
  ASSUME HostsOK, FilesOK, NEW h \in Hosts, Issued(hostJob[h]),
         NEW reason \in HostStatuses, Blocked(h, reason), lock' = lock
  PROVE  /\ HostsOK' /\ FilesOK'
         /\ dirOf' = dirOf /\ hostJob' = hostJob
         /\ \A g \in Hosts : hostPc'[g] # "idle" => hostPc[g] # "idle"
  <1> DEFINE file == [job |-> hostJob[h], status |-> reason]
  <1>1. hostJob[h] \in Jobs /\ HostDir(h) \in Dirs
    BY QueueAssumption DEF Issued, HostsOK, HostDir, QueueAssumption
  <1>2. file \in File
    BY <1>1 DEF File, FileStatuses
  <1>3. /\ output' = [output EXCEPT ![HostDir(h)] = file]
        /\ old' = [old EXCEPT ![HostDir(h)] = FALSE]
        /\ answer' = [answer EXCEPT ![hostJob[h]] = file]
        /\ hostPc' = [hostPc EXCEPT ![h] = "idle"]
        /\ hostJob' = hostJob /\ dirOf' = dirOf /\ heard' = heard
    BY DEF Blocked
  <1> HIDE DEF file
  <1>4. HostsOK'
    BY <1>1, <1>2, <1>3 DEF HostsOK, HostStages
  <1>5. FilesOK'
    BY <1>1, <1>2, <1>3 DEF FilesOK
  <1>6. \A g \in Hosts : hostPc'[g] # "idle" => hostPc[g] # "idle"
    BY <1>3 DEF HostsOK
  <1> QED BY <1>3, <1>4, <1>5, <1>6

\* A job stays issued.
LEMMA IssuedIsStable ==
  ASSUME NEW j, Issued(j), dirOf' = dirOf
  PROVE  Issued(j)'
  BY DEF Issued

LEMMA DispatchKeepsType ==
  ASSUME TypeOK, NEW h \in Hosts, NEW j \in Jobs, NEW d \in Dirs, Dispatch(h, j, d)
  PROVE  TypeOK'
  <1> USE DEF TypeOK
  <1>1. RedisOK'
    BY DEF RedisOK, Dispatch, redisVars
  <1>2. HostsOK'
    BY DEF HostsOK, HostStages, Dispatch
  <1>3. FilesOK'
    BY DEF FilesOK, Dispatch
  <1>4. SlotsOK'
    BY DEF SlotsOK, Dispatch, slotVars
  <1>5. Issued(j)' /\ \A k : Issued(k) => Issued(k)'
    BY QueueAssumption DEF QueueAssumption, Issued, Dispatch, HostsOK
  <1>6. IssuedOK'
    BY <1>5 DEF IssuedOK, Dispatch, redisVars, slotVars, HostsOK
  <1>7. (faults \in 0..MaxFaults)'
    BY DEF Dispatch
  <1> QED BY <1>1, <1>2, <1>3, <1>4, <1>6, <1>7

LEMMA HostStepKeepsType ==
  ASSUME TypeOK, NEW h \in Hosts, HostStep(h)
  PROVE  TypeOK'
  <1> USE DEF TypeOK
  <1>1. hostPc[h] # "idle" /\ dirOf' = dirOf /\ hostJob' = hostJob
    BY DEF HostStep, CheckDepth, Overloaded, Enqueue, HostCommandFails, Receive, WaitTimeout,
           SeveredWait, ReadOutput, ReadUnusableOutput, Blocked
  <1>2. Issued(hostJob[h]) /\ hostJob[h] \in Jobs /\ HostDir(h) \in Dirs
    BY <1>1, QueueAssumption DEF IssuedOK, Issued, HostsOK, HostDir, QueueAssumption
  <1>3. lock' = lock /\ slotVars' = slotVars
    BY DEF HostStep, CheckDepth, Overloaded, Enqueue, HostCommandFails, Receive, WaitTimeout,
           SeveredWait, ReadOutput, ReadUnusableOutput
  <1>4. ASSUME NEW reason \in HostStatuses, Blocked(h, reason)
        PROVE  HostsOK' /\ FilesOK' /\ \A g \in Hosts : hostPc'[g] # "idle" => hostPc[g] # "idle"
    BY <1>2, <1>3, <1>4, BlockedKeepsType
  <1>5. HostsOK' /\ FilesOK' /\ \A g \in Hosts : hostPc'[g] # "idle" => hostPc[g] # "idle"
    <2>1. CASE CheckDepth(h)
      BY <2>1 DEF CheckDepth, HostsOK, FilesOK, fileVars, HostStages
    <2>2. CASE Enqueue(h)
      BY <2>2 DEF Enqueue, HostsOK, FilesOK, fileVars, HostStages
    <2>3. CASE Receive(h)
      <3>1. Head(results[hostJob[h]]) \in WorkerStatuses
        BY <2>3, <1>2, HeadTailProperties DEF Receive, RedisOK
      <3> QED BY <2>3, <3>1, <1>2 DEF Receive, HostsOK, FilesOK, fileVars, HostStages
    <2>4. CASE ReadOutput(h)
      <3>1. output[HostDir(h)] \in File
        BY <1>2 DEF FilesOK
      <3> QED BY <2>4, <3>1, <1>2 DEF ReadOutput, HostsOK, FilesOK, fileVars, HostStages
    <2>5. CASE Overloaded(h) \/ HostCommandFails(h) \/ WaitTimeout(h) \/ SeveredWait(h)
                 \/ ReadUnusableOutput(h)
      BY <2>5, <1>4 DEF Overloaded, HostCommandFails, WaitTimeout, SeveredWait,
                        ReadUnusableOutput, HostStatuses
    <2> QED BY <2>1, <2>2, <2>3, <2>4, <2>5 DEF HostStep
  <1>6. \/ queue' = queue
        \/ queue' = Append(queue, hostJob[h])
    BY DEF HostStep, CheckDepth, Overloaded, Enqueue, HostCommandFails, Receive, WaitTimeout,
           SeveredWait, ReadOutput, ReadUnusableOutput, redisVars
  <1>7. queue' \in Seq(Jobs) /\ \A i \in 1..Len(queue') : Issued(queue'[i])
    <2>1. CASE queue' = queue
      BY <2>1 DEF RedisOK, IssuedOK
    <2>2. CASE queue' = Append(queue, hostJob[h])
      BY <2>2, <1>2, AppendProperties DEF RedisOK, IssuedOK
    <2> QED BY <1>6, <2>1, <2>2
  <1>8. results' \in [Jobs -> Seq(WorkerStatuses)]
    <2>1. CASE results' = results
      BY <2>1 DEF RedisOK
    <2>2. CASE Receive(h)
      <3>1. Tail(results[hostJob[h]]) \in Seq(WorkerStatuses)
        BY <2>2, <1>2, HeadTailProperties DEF Receive, RedisOK
      <3> QED BY <2>2, <3>1 DEF Receive, RedisOK
    <2>3. results' = results \/ Receive(h)
      BY DEF HostStep, CheckDepth, Overloaded, Enqueue, HostCommandFails, WaitTimeout,
             SeveredWait, ReadOutput, ReadUnusableOutput, redisVars
    <2> QED BY <2>1, <2>2, <2>3
  <1>9. SlotsOK'
    BY <1>3 DEF SlotsOK, slotVars
  <1>10. IssuedOK'
    <2>1. (\A i \in 1..Len(queue) : Issued(queue[i]))'
      BY <1>7, <1>1 DEF Issued
    <2>2. (\A g \in Hosts : hostPc[g] # "idle" => Issued(hostJob[g]))'
      BY <1>1, <1>5 DEF IssuedOK, Issued
    <2>3. (\A s \in Slots : slotPc[s] \notin {"idle", "severed"} => Issued(slotJob[s]))'
      BY <1>1, <1>3 DEF IssuedOK, Issued, slotVars
    <2> QED BY <2>1, <2>2, <2>3 DEF IssuedOK
  <1>11. faults' \in 0..MaxFaults
    BY QueueAssumption DEF HostStep, CheckDepth, Overloaded, Enqueue, HostCommandFails, Receive,
           WaitTimeout, SeveredWait, ReadOutput, ReadUnusableOutput, Fault, QueueAssumption
  <1> QED BY <1>5, <1>7, <1>8, <1>9, <1>10, <1>11 DEF RedisOK

\* A slot leaves the host side alone.
LEMMA SlotStepKeepsType ==
  ASSUME TypeOK, NEW s \in Slots, SlotStep(s)
  PROVE  TypeOK'
  <1> USE DEF TypeOK
  <1>1. hostVars' = hostVars
    BY DEF SlotStep, Pop, TakeRunLock, RefusedByRunLock, Generate, BeginWrite, EndWrite,
           PushResult, ExpireResult, StepThrows
  <1>2. HostsOK' /\ dirOf' = dirOf
    BY <1>1 DEF HostsOK, hostVars
  <1>3. ASSUME slotPc[s] \notin {"idle", "severed"}
        PROVE  slotJob[s] \in Jobs /\ SlotDir(s) \in Dirs
    BY <1>3, QueueAssumption DEF IssuedOK, Issued, HostsOK, SlotDir, QueueAssumption
  <1>4. faults' \in 0..MaxFaults
    BY QueueAssumption DEF SlotStep, Pop, TakeRunLock, RefusedByRunLock, Generate, BeginWrite,
           EndWrite, PushResult, ExpireResult, StepThrows, Fault, QueueAssumption
  <1>5. ASSUME queue # <<>>
        PROVE  /\ Head(queue) \in Jobs /\ Issued(Head(queue))
               /\ Tail(queue) \in Seq(Jobs)
               /\ \A i \in 1..Len(Tail(queue)) : Issued(Tail(queue)[i])
    <2>1. Head(queue) = queue[1] /\ 1 \in 1..Len(queue)
      BY <1>5, EmptySeq DEF RedisOK
    <2>2. Tail(queue) \in Seq(Jobs) /\ Len(Tail(queue)) = Len(queue) - 1
          /\ \A i \in 1..Len(Tail(queue)) : Tail(queue)[i] = queue[i + 1]
      BY <1>5, HeadTailProperties DEF RedisOK
    <2>3. \A i \in 1..Len(Tail(queue)) : i + 1 \in 1..Len(queue)
      BY <2>2, LenProperties DEF RedisOK
    <2> QED BY <2>1, <2>2, <2>3 DEF IssuedOK, Issued
  <1>6. RedisOK' /\ (\A i \in 1..Len(queue) : Issued(queue[i]))'
    <2>1. CASE redisVars' = redisVars
      BY <2>1, <1>2 DEF redisVars, RedisOK, IssuedOK, Issued
    <2>2. CASE Pop(s)
      BY <2>2, <1>2, <1>5 DEF Pop, RedisOK, Issued
    <2>3. CASE slotPc[s] = "reply" /\ queue' = queue
               /\ results' = [results EXCEPT ![slotJob[s]] = Append(@, slotStatus[s])]
      <3>1. results[slotJob[s]] \in Seq(WorkerStatuses) /\ slotStatus[s] \in WorkerStatuses
        BY <2>3, <1>3 DEF RedisOK, SlotsOK
      <3>2. Append(results[slotJob[s]], slotStatus[s]) \in Seq(WorkerStatuses)
        BY <3>1, AppendProperties
      <3> QED BY <2>3, <3>2, <1>2 DEF RedisOK, IssuedOK, Issued
    <2> QED BY <2>1, <2>2, <2>3 DEF SlotStep, TakeRunLock, RefusedByRunLock, Generate,
              BeginWrite, EndWrite, PushResult, ExpireResult, StepThrows, redisVars
  <1>7. FilesOK'
    <2>1. CASE Pop(s) \/ RefusedByRunLock(s) \/ PushResult(s) \/ ExpireResult(s) \/ StepThrows(s)
      BY <2>1 DEF Pop, RefusedByRunLock, PushResult, ExpireResult, StepThrows, FilesOK, fileVars
    <2>2. CASE TakeRunLock(s)
      BY <2>2, <1>3 DEF TakeRunLock, FilesOK, fileVars
    <2>3. CASE \E st \in PipelineStatuses : Generate(s, st)
      BY <2>3, <1>3 DEF Generate, FilesOK, fileVars
    <2>4. CASE BeginWrite(s)
      <3>1. [job |-> slotJob[s], status |-> "torn"] \in File
        BY <2>4, <1>3 DEF BeginWrite, File, FileStatuses
      <3> QED BY <2>4, <3>1, <1>3 DEF BeginWrite, FilesOK
    <2>5. CASE EndWrite(s)
      <3>1. [job |-> slotJob[s], status |-> slotStatus[s]] \in File
        BY <2>5, <1>3 DEF EndWrite, SlotsOK, File, FileStatuses
      <3> QED BY <2>5, <3>1, <1>3 DEF EndWrite, FilesOK
    <2> QED BY <2>1, <2>2, <2>3, <2>4, <2>5 DEF SlotStep
  <1>8. SlotsOK'
    <2>1. CASE Pop(s)
      BY <2>1, <1>5 DEF Pop, SlotGoes, SlotSets, SlotsOK, SlotStages
    <2>2. CASE TakeRunLock(s) \/ BeginWrite(s) \/ EndWrite(s) \/ PushResult(s) \/ ExpireResult(s)
      BY <2>2 DEF TakeRunLock, BeginWrite, EndWrite, PushResult, ExpireResult, SlotGoes,
                  SlotsOK, SlotStages
    <2>3. CASE RefusedByRunLock(s) \/ StepThrows(s) \/ \E st \in PipelineStatuses : Generate(s, st)
      BY <2>3 DEF RefusedByRunLock, StepThrows, Generate, SlotGoes, SlotSets, SlotsOK,
                  SlotStages, WorkerStatuses
    <2> QED BY <2>1, <2>2, <2>3 DEF SlotStep
  <1>9. (\A t \in Slots : slotPc[t] \notin {"idle", "severed"} => Issued(slotJob[t]))'
    <2>1. CASE Pop(s)
      BY <2>1, <1>2, <1>5 DEF Pop, SlotGoes, SlotsOK, IssuedOK, Issued
    <2>2. CASE slotJob' = slotJob /\ slotPc[s] \notin {"idle", "severed"}
               /\ \E stage \in SlotStages : SlotGoes(s, stage)
      BY <2>2, <1>2 DEF SlotGoes, SlotsOK, IssuedOK, Issued
    <2> QED BY <2>1, <2>2 DEF SlotStep, TakeRunLock, RefusedByRunLock, Generate, BeginWrite,
              EndWrite, PushResult, ExpireResult, StepThrows, SlotStages
  <1>10. IssuedOK'
    <2>1. (\A h \in Hosts : hostPc[h] # "idle" => Issued(hostJob[h]))'
      BY <1>1 DEF hostVars, IssuedOK, Issued
    <2> QED BY <1>6, <1>9, <2>1 DEF IssuedOK
  <1> QED BY <1>2, <1>4, <1>6, <1>7, <1>8, <1>10

LEMMA FaultKeepsType ==
  ASSUME TypeOK, HandlerCrash \/ WorkerCrash \/ PollThrows \/ RedisRestart
  PROVE  TypeOK'
  <1> USE DEF TypeOK
  <1>1. faults' \in 0..MaxFaults
    BY QueueAssumption DEF HandlerCrash, WorkerCrash, PollThrows, RedisRestart, ProcessRestarts,
       Fault, QueueAssumption
  <1>2. FilesOK'
    BY DEF HandlerCrash, WorkerCrash, PollThrows, RedisRestart, ProcessRestarts, FilesOK, fileVars
  <1>3. CASE HandlerCrash
    BY <1>1, <1>2, <1>3 DEF HandlerCrash, RedisOK, HostsOK, HostStages, SlotsOK, IssuedOK, Issued,
       redisVars, slotVars
  <1>4. CASE WorkerCrash \/ PollThrows
    <2>1. ProcessRestarts
      BY <1>4 DEF WorkerCrash, PollThrows
    <2> QED BY <1>1, <1>2, <2>1 DEF ProcessRestarts, RedisOK, HostsOK, SlotsOK, SlotStages,
              IssuedOK, Issued, redisVars, hostVars
  <1>5. CASE RedisRestart
    <2>1. RedisOK' /\ (\A i \in 1..Len(queue) : Issued(queue[i]))'
      BY <1>5, EmptySeq DEF RedisRestart, RedisOK
    <2>2. HostsOK' /\ SlotsOK'
      BY <1>5 DEF RedisRestart, HostsOK, HostStages, SlotsOK, SlotStages
    <2>3. /\ (\A h \in Hosts : hostPc[h] # "idle" => Issued(hostJob[h]))'
          /\ (\A s \in Slots : slotPc[s] \notin {"idle", "severed"} => Issued(slotJob[s]))'
      BY <1>5 DEF RedisRestart, HostsOK, SlotsOK, IssuedOK, Issued
    <2> QED BY <1>1, <1>2, <2>1, <2>2, <2>3 DEF IssuedOK
  <1> QED BY <1>3, <1>4, <1>5

LEMMA StutterKeepsType ==
  ASSUME TypeOK, UNCHANGED vars
  PROVE  TypeOK'
  BY DEF TypeOK, RedisOK, HostsOK, FilesOK, SlotsOK, IssuedOK, Issued, vars, redisVars, hostVars,
         fileVars, slotVars

LEMMA NextKeepsType == TypeOK /\ [Next]_vars => TypeOK'
  BY DispatchKeepsType, HostStepKeepsType, SlotStepKeepsType, FaultKeepsType, StutterKeepsType
     DEF Next

\* Whatever the interleaving and the faults, the lists, files and stages keep
\* their types, and only issued jobs are queued, awaited or worked on.
THEOREM QueueTypeOK == Spec => []TypeOK
  BY InitTypeOK, NextKeepsType, PTL DEF Spec

-----------------------------------------------------------------------------
(* The queue bound. *)

Pushers == {h \in Hosts : hostPc[h] = "push"}

\* Jobs about to be pushed already count against the bound.
DepthInv == Len(queue) + Cardinality(Pushers) <= MaxDepth - 1 + Cardinality(Hosts)

LEMMA PushersFinite ==
  ASSUME NEW S \in SUBSET Hosts
  PROVE  /\ IsFiniteSet(S) /\ Cardinality(S) \in Nat
         /\ Cardinality(S) <= Cardinality(Hosts) /\ Cardinality(Hosts) \in Nat
  BY QueueAssumption, FS_Subset, FS_CardinalityType DEF QueueAssumption

\* A step that pushes nothing and adds no pusher keeps the bound.
LEMMA NoPushKeepsDepth ==
  ASSUME TypeOK, DepthInv, TypeOK', Len(queue') <= Len(queue), Pushers' \subseteq Pushers
  PROVE  DepthInv'
  <1>1. Pushers \in SUBSET Hosts /\ Pushers' \in SUBSET Hosts
    BY DEF Pushers
  <1>2. Cardinality(Pushers') <= Cardinality(Pushers)
    BY <1>1, PushersFinite, FS_Subset
  <1>3. Cardinality(Pushers') \in Nat /\ Cardinality(Pushers) \in Nat /\ Cardinality(Hosts) \in Nat
    BY <1>1, PushersFinite
  <1>4. Len(queue) \in Nat /\ Len(queue') \in Nat /\ MaxDepth \in Nat
    BY LenProperties, QueueAssumption DEF TypeOK, RedisOK, QueueAssumption
  <1> QED BY <1>2, <1>3, <1>4 DEF DepthInv

LEMMA PushKeepsDepth ==
  ASSUME TypeOK, DepthInv, NEW h \in Hosts, hostPc[h] = "push",
         queue' = Append(queue, hostJob[h]), Pushers' = Pushers \ {h}
  PROVE  DepthInv'
  <1>1. Pushers \in SUBSET Hosts /\ h \in Pushers
    BY DEF Pushers
  <1>2. Cardinality(Pushers') = Cardinality(Pushers) - 1
    BY <1>1, PushersFinite, FS_RemoveElement
  <1>3. Len(queue') = Len(queue) + 1 /\ Len(queue) \in Nat
    <2>1. hostJob[h] \in Jobs
      BY DEF TypeOK, IssuedOK, Issued
    <2> QED BY <2>1, AppendProperties, LenProperties DEF TypeOK, RedisOK
  <1>4. Cardinality(Pushers) \in Nat /\ Cardinality(Hosts) \in Nat /\ MaxDepth \in Nat
    BY <1>1, PushersFinite, QueueAssumption DEF QueueAssumption
  <1> QED BY <1>2, <1>3, <1>4 DEF DepthInv

LEMMA CheckKeepsDepth ==
  ASSUME TypeOK, NEW h \in Hosts, CheckDepth(h)
  PROVE  DepthInv'
  <1>1. Pushers' \in SUBSET Hosts
    BY DEF Pushers
  <1>2. Cardinality(Pushers') \in Nat /\ Cardinality(Pushers') <= Cardinality(Hosts)
        /\ Cardinality(Hosts) \in Nat
    BY <1>1, PushersFinite
  <1>3. queue' = queue /\ Len(queue) < MaxDepth /\ Len(queue) \in Nat /\ MaxDepth \in Nat
    BY LenProperties, QueueAssumption DEF CheckDepth, redisVars, TypeOK, RedisOK, QueueAssumption
  <1> QED BY <1>2, <1>3 DEF DepthInv

LEMMA NextKeepsDepth == TypeOK /\ DepthInv /\ [Next]_vars => DepthInv'
  <1> SUFFICES ASSUME TypeOK, DepthInv, [Next]_vars PROVE DepthInv'
    OBVIOUS
  <1>1. TypeOK'
    BY NextKeepsType
  <1>2. Len(queue) \in Nat
    BY LenProperties DEF TypeOK, RedisOK
  <1>3. ASSUME NEW h \in Hosts, CheckDepth(h) PROVE DepthInv'
    BY <1>3, CheckKeepsDepth
  <1>4. ASSUME NEW h \in Hosts, hostPc[h] = "push", queue' = Append(queue, hostJob[h]),
               \E stage \in {"idle", "wait"} : hostPc' = [hostPc EXCEPT ![h] = stage]
        PROVE DepthInv'
    <2>1. Pushers' = Pushers \ {h}
      BY <1>4 DEF Pushers, TypeOK, HostsOK
    <2> QED BY <1>4, <2>1, PushKeepsDepth
  <1>5. ASSUME queue' = queue, NEW h \in Hosts,
               \E stage \in HostStages \ {"push"} : hostPc' = [hostPc EXCEPT ![h] = stage]
        PROVE DepthInv'
    <2>1. Pushers' \subseteq Pushers
      BY <1>5 DEF Pushers, TypeOK, HostsOK
    <2> QED BY <1>1, <1>2, <1>5, <2>1, NoPushKeepsDepth
  <1>6. ASSUME hostPc' = hostPc, Len(queue') <= Len(queue) PROVE DepthInv'
    <2>1. Pushers' \subseteq Pushers
      BY <1>6 DEF Pushers
    <2> QED BY <1>1, <1>6, <2>1, NoPushKeepsDepth
  <1>7. CASE \E h \in Hosts : \E j \in Jobs, d \in Dirs : Dispatch(h, j, d)
    BY <1>5, <1>7 DEF Dispatch, redisVars, HostStages
  <1>8. CASE \E h \in Hosts : HostStep(h)
    <2>1. PICK h \in Hosts : HostStep(h)
      BY <1>8
    <2>2. CASE Enqueue(h)
      BY <1>4, <2>2 DEF Enqueue
    <2>3. CASE HostCommandFails(h)
      BY <1>4, <1>5, <2>3 DEF HostCommandFails, Blocked, HostStages
    <2>4. CASE Overloaded(h) \/ WaitTimeout(h) \/ SeveredWait(h) \/ ReadUnusableOutput(h)
      BY <1>5, <2>4 DEF Overloaded, WaitTimeout, SeveredWait, ReadUnusableOutput, Blocked,
                        redisVars, HostStages
    <2>5. CASE Receive(h) \/ ReadOutput(h)
      BY <1>5, <2>5 DEF Receive, ReadOutput, redisVars, HostStages
    <2> QED BY <1>3, <2>1, <2>2, <2>3, <2>4, <2>5 DEF HostStep
  <1>9. CASE \E s \in Slots : SlotStep(s)
    <2>1. PICK s \in Slots : SlotStep(s)
      BY <1>9
    <2>2. CASE Pop(s)
      <3>1. Len(queue') <= Len(queue)
        BY <1>2, <2>2, HeadTailProperties DEF Pop, TypeOK, RedisOK
      <3> QED BY <1>6, <2>2, <3>1 DEF Pop, hostVars
    <2>3. CASE ~Pop(s)
      BY <1>2, <1>6, <2>1, <2>3 DEF SlotStep, TakeRunLock, RefusedByRunLock, Generate, BeginWrite,
         EndWrite, PushResult, ExpireResult, StepThrows, redisVars, hostVars
    <2> QED BY <2>2, <2>3
  <1>10. CASE WorkerCrash \/ PollThrows
    BY <1>2, <1>6, <1>10 DEF WorkerCrash, PollThrows, ProcessRestarts, redisVars, hostVars
  <1>11. CASE HandlerCrash
    <2>1. Pushers' \subseteq Pushers /\ queue' = queue
      BY <1>11 DEF HandlerCrash, Pushers, redisVars
    <2> QED BY <1>1, <1>2, <2>1, NoPushKeepsDepth
  <1>12. CASE RedisRestart
    <2>1. Pushers' \subseteq Pushers
      BY <1>12 DEF RedisRestart, Pushers
    <2>2. Len(queue') <= Len(queue)
      BY <1>2, <1>12, EmptySeq DEF RedisRestart
    <2> QED BY <1>1, <2>1, <2>2, NoPushKeepsDepth
  <1>13. CASE UNCHANGED vars
    BY <1>2, <1>6, <1>13 DEF vars, redisVars, hostVars
  <1> QED BY <1>7, <1>8, <1>9, <1>10, <1>11, <1>12, <1>13 DEF Next

LEMMA InitDepth == Init => DepthInv
  <1> SUFFICES ASSUME Init PROVE DepthInv
    OBVIOUS
  <1>1. Pushers = {}
    BY DEF Pushers, Init
  <1>2. Cardinality(Pushers) = 0
    BY <1>1, FS_EmptySet
  <1>3. Len(queue) = 0
    BY EmptySeq DEF Init
  <1>4. Cardinality(Hosts) \in Nat /\ MaxDepth - 1 \in Nat
    BY QueueAssumption, FS_CardinalityType DEF QueueAssumption
  <1> QED BY <1>2, <1>3, <1>4 DEF DepthInv

LEMMA DepthBound == TypeOK /\ DepthInv => QueueWithinBound
  <1> SUFFICES ASSUME TypeOK, DepthInv PROVE QueueWithinBound
    OBVIOUS
  <1>1. Pushers \in SUBSET Hosts
    BY DEF Pushers
  <1>2. Cardinality(Pushers) \in Nat /\ Cardinality(Hosts) \in Nat /\ MaxDepth \in Nat
    BY <1>1, PushersFinite, QueueAssumption DEF QueueAssumption
  <1>3. Len(queue) \in Nat
    BY LenProperties DEF TypeOK, RedisOK
  <1> QED BY <1>2, <1>3 DEF DepthInv, QueueWithinBound

\* The queue exceeds queueMaxDepth by less than the number of concurrent calls.
THEOREM QueueBound == Spec => []QueueWithinBound
  BY InitTypeOK, NextKeepsType, InitDepth, NextKeepsDepth, DepthBound, PTL DEF Spec

-----------------------------------------------------------------------------
(* A job is in one place at a time; one slot generates per run directory. *)

Busy(s) == slotPc[s] \notin {"idle", "severed"}
InQueue(j) == \E i \in 1..Len(queue) : queue[i] = j

HostJobsDistinct ==
    \A g, h \in Hosts : g # h /\ hostPc[g] # "idle" /\ hostPc[h] # "idle"
                            => hostJob[g] # hostJob[h]

UnpushedNowhere ==
    \A h \in Hosts : hostPc[h] \in {"check", "push"} =>
        /\ ~InQueue(hostJob[h])
        /\ \A s \in Slots : Busy(s) => slotJob[s] # hostJob[h]

QueueDistinct == \A i, k \in 1..Len(queue) : i # k => queue[i] # queue[k]
TakenNotQueued == \A s \in Slots : Busy(s) => ~InQueue(slotJob[s])
TakenOnce == \A s, t \in Slots : s # t /\ Busy(s) /\ Busy(t) => slotJob[s] # slotJob[t]
LockHeld == \A s \in Slots : slotPc[s] = "generating" => lock[SlotDir(s)] = slotJob[s]

JobOnce ==
    /\ HostJobsDistinct
    /\ UnpushedNowhere
    /\ QueueDistinct
    /\ TakenNotQueued
    /\ TakenOnce
    /\ LockHeld

LEMMA InitJobOnce == Init => JobOnce
  BY EmptySeq DEF Init, JobOnce, HostJobsDistinct, UnpushedNowhere, QueueDistinct, TakenNotQueued,
     TakenOnce, LockHeld, Busy, InQueue

\* No slot takes up a job or starts to generate; no call starts or goes back.
SlotsStay ==
    \A s \in Slots :
        \/ slotPc'[s] \in {"idle", "severed"}
        \/ /\ Busy(s) /\ slotJob'[s] = slotJob[s]
           /\ slotPc'[s] = "generating" => slotPc[s] = "generating"

HostsStay ==
    \A h \in Hosts : /\ hostPc'[h] # "idle" => hostPc[h] # "idle"
                     /\ hostPc'[h] \in {"check", "push"} => hostPc[h] \in {"check", "push"}

\* A step that moves no job and no lock keeps every job where it was.
LEMMA NoMoveKeepsJobOnce ==
  ASSUME JobOnce, queue' = queue \/ queue' = <<>>, hostJob' = hostJob, dirOf' = dirOf, lock' = lock,
         SlotsStay, HostsStay
  PROVE  JobOnce'
  <1> USE DEF JobOnce
  <1>1. \A j : InQueue(j)' => InQueue(j)
    BY EmptySeq DEF InQueue
  <1>2. \A s \in Slots : Busy(s)' => Busy(s) /\ slotJob'[s] = slotJob[s]
    BY DEF Busy, SlotsStay
  <1>3. HostJobsDistinct'
    BY DEF HostJobsDistinct, HostsStay
  <1>4. UnpushedNowhere'
    BY <1>1, <1>2 DEF UnpushedNowhere, HostsStay
  <1>5. QueueDistinct'
    BY EmptySeq DEF QueueDistinct
  <1>6. TakenNotQueued' /\ TakenOnce'
    BY <1>1, <1>2 DEF TakenNotQueued, TakenOnce
  <1>7. LockHeld'
    BY <1>2 DEF LockHeld, SlotDir, Busy, SlotsStay
  <1> QED BY <1>3, <1>4, <1>5, <1>6, <1>7

LEMMA DispatchKeepsJobOnce ==
  ASSUME TypeOK, JobOnce, NEW h \in Hosts, NEW j \in Jobs, NEW d \in Dirs, Dispatch(h, j, d)
  PROVE  JobOnce'
  <1> USE DEF JobOnce
  <1>1. /\ queue' = queue /\ slotPc' = slotPc /\ slotJob' = slotJob /\ lock' = lock
        /\ hostPc' = [hostPc EXCEPT ![h] = "check"] /\ hostJob' = [hostJob EXCEPT ![h] = j]
        /\ hostPc[h] = "idle" /\ dirOf[j] = NoDir /\ dirOf' = [dirOf EXCEPT ![j] = d]
    BY DEF Dispatch, redisVars, slotVars
  <1>2. ~Issued(j)
    BY <1>1 DEF Issued
  <1>3. /\ ~InQueue(j)
        /\ \A g \in Hosts : hostPc[g] # "idle" => hostJob[g] # j
        /\ \A s \in Slots : Busy(s) => slotJob[s] # j
    BY <1>2 DEF TypeOK, IssuedOK, InQueue, Busy
  <1>4. HostJobsDistinct'
    BY <1>1, <1>3 DEF HostJobsDistinct, TypeOK, HostsOK
  <1>5. UnpushedNowhere'
    BY <1>1, <1>3 DEF UnpushedNowhere, TypeOK, HostsOK, InQueue, Busy
  <1>6. QueueDistinct' /\ TakenNotQueued' /\ TakenOnce'
    BY <1>1 DEF QueueDistinct, TakenNotQueued, TakenOnce, InQueue, Busy
  <1>7. LockHeld'
    BY <1>1, <1>3 DEF LockHeld, SlotDir, Busy, TypeOK, HostsOK
  <1> QED BY <1>4, <1>5, <1>6, <1>7

\* A push moves the job of the call from nowhere to the end of the queue.
LEMMA PushKeepsJobOnce ==
  ASSUME TypeOK, JobOnce, NEW h \in Hosts, hostPc[h] = "push",
         NEW stage \in {"idle", "wait"}, hostPc' = [hostPc EXCEPT ![h] = stage],
         queue' = Append(queue, hostJob[h]), hostJob' = hostJob, dirOf' = dirOf,
         lock' = lock, slotVars' = slotVars
  PROVE  JobOnce'
  <1> USE DEF JobOnce
  <1> DEFINE j == hostJob[h]
  <1>1. j \in Jobs
    BY DEF TypeOK, IssuedOK, Issued
  <1>2. /\ Len(queue') = Len(queue) + 1 /\ Len(queue) \in Nat
        /\ \A i \in 1..Len(queue) : queue'[i] = queue[i]
        /\ queue'[Len(queue) + 1] = j
    BY <1>1, AppendProperties, LenProperties DEF TypeOK, RedisOK
  <1>3. ~InQueue(j) /\ \A s \in Slots : Busy(s) => slotJob[s] # j
    BY DEF UnpushedNowhere
  <1>4. \A k : InQueue(k)' => InQueue(k) \/ k = j
    BY <1>2 DEF InQueue
  <1>5. slotPc' = slotPc /\ slotJob' = slotJob
    BY DEF slotVars
  <1>6. \A g \in Hosts : /\ hostPc'[g] # "idle" => hostPc[g] # "idle"
                         /\ hostPc'[g] \in {"check", "push"} => hostPc[g] \in {"check", "push"} /\ g # h
    BY DEF TypeOK, HostsOK
  <1>7. HostJobsDistinct'
    BY <1>6 DEF HostJobsDistinct
  <1>8. UnpushedNowhere'
    BY <1>4, <1>5, <1>6 DEF UnpushedNowhere, HostJobsDistinct, Busy
  <1>9. QueueDistinct'
    BY <1>2, <1>3 DEF QueueDistinct, InQueue
  <1>10. TakenNotQueued' /\ TakenOnce'
    BY <1>3, <1>4, <1>5 DEF TakenNotQueued, TakenOnce, Busy
  <1>11. LockHeld'
    BY <1>5 DEF LockHeld, SlotDir
  <1> QED BY <1>7, <1>8, <1>9, <1>10, <1>11

LEMMA PopKeepsJobOnce ==
  ASSUME TypeOK, JobOnce, NEW s \in Slots, Pop(s)
  PROVE  JobOnce'
  <1> USE DEF JobOnce
  <1>0. PICK j : j = Head(queue)
    OBVIOUS
  <1>1. /\ queue' = Tail(queue) /\ slotPc' = [slotPc EXCEPT ![s] = "taken"]
        /\ slotJob' = [slotJob EXCEPT ![s] = j] /\ ~Busy(s)
        /\ hostPc' = hostPc /\ hostJob' = hostJob /\ dirOf' = dirOf /\ lock' = lock
    BY <1>0 DEF Pop, SlotGoes, hostVars, Busy
  <1>2. /\ Len(queue') = Len(queue) - 1 /\ Len(queue) \in Nat \ {0}
        /\ \A i \in 1..Len(queue') : queue'[i] = queue[i + 1]
        /\ j = queue[1]
    BY <1>0, HeadTailProperties, EmptySeq, LenProperties DEF Pop, TypeOK, RedisOK
  <1>3. InQueue(j) /\ ~InQueue(j)' /\ \A k : InQueue(k)' => InQueue(k)
    <2>1. 1 \in 1..Len(queue) /\ \A i \in 1..Len(queue') : i + 1 \in 1..Len(queue) /\ i + 1 # 1
      BY <1>2
    <2> QED BY <1>2, <2>1 DEF InQueue, QueueDistinct
  <1>4. \A t \in Slots : Busy(t)' => IF t = s THEN slotJob'[t] = j
                                     ELSE Busy(t) /\ slotJob'[t] = slotJob[t]
    BY <1>1 DEF Busy, TypeOK, SlotsOK
  <1>5. HostJobsDistinct'
    BY <1>1 DEF HostJobsDistinct
  <1>6. UnpushedNowhere'
    BY <1>1, <1>3, <1>4 DEF UnpushedNowhere
  <1>7. QueueDistinct'
    <2>1. \A i \in 1..Len(queue') : i + 1 \in 1..Len(queue)
      BY <1>2
    <2>2. \A i, k \in 1..Len(queue') : i # k => i + 1 # k + 1
      BY <1>2
    <2> QED BY <1>2, <2>1, <2>2 DEF QueueDistinct
  <1>8. TakenNotQueued'
    BY <1>3, <1>4 DEF TakenNotQueued
  <1>9. TakenOnce'
    BY <1>3, <1>4 DEF TakenOnce, TakenNotQueued
  <1>10. LockHeld'
    BY <1>1 DEF LockHeld, SlotDir, TypeOK, SlotsOK
  <1> QED BY <1>5, <1>6, <1>7, <1>8, <1>9, <1>10

\* Taking the lock needs that nobody generates under it; releasing spares others.
LEMMA LockStepKeepsJobOnce ==
  ASSUME TypeOK, JobOnce, NEW s \in Slots,
         TakeRunLock(s) \/ \E st \in PipelineStatuses : Generate(s, st)
  PROVE  JobOnce'
  <1> USE DEF JobOnce
  <1>1. /\ queue' = queue /\ hostPc' = hostPc /\ hostJob' = hostJob /\ dirOf' = dirOf
        /\ slotJob' = slotJob /\ Busy(s)
        /\ slotPc' = [slotPc EXCEPT ![s] = IF slotPc[s] = "taken" THEN "generating" ELSE "generated"]
    BY DEF TakeRunLock, Generate, SlotGoes, redisVars, hostVars, Busy
  <1>2. \A t \in Slots : Busy(t)' => Busy(t)
    BY <1>1 DEF Busy, TypeOK, SlotsOK
  <1>3. HostJobsDistinct' /\ UnpushedNowhere' /\ QueueDistinct'
    BY <1>1, <1>2 DEF HostJobsDistinct, UnpushedNowhere, QueueDistinct, InQueue
  <1>4. TakenNotQueued' /\ TakenOnce'
    BY <1>1, <1>2 DEF TakenNotQueued, TakenOnce, InQueue
  <1>5. SlotDir(s) \in Dirs
    BY <1>1, QueueAssumption DEF Busy, TypeOK, IssuedOK, Issued, HostsOK, SlotDir, QueueAssumption
  <1>6. LockHeld'
    <2>1. CASE TakeRunLock(s)
      <3>1. \A t \in Slots : t # s /\ slotPc[t] = "generating" => SlotDir(t) # SlotDir(s)
        BY <2>1 DEF TakeRunLock, Generating, LockHeld
      <3>2. lock' = [lock EXCEPT ![SlotDir(s)] = slotJob[s]] /\ slotPc[s] = "taken"
        BY <2>1 DEF TakeRunLock
      <3> QED BY <1>1, <1>5, <3>1, <3>2 DEF LockHeld, SlotDir, TypeOK, SlotsOK, FilesOK
    <2>2. CASE \E st \in PipelineStatuses : Generate(s, st)
      <3>1. lock' = [lock EXCEPT ![SlotDir(s)] = IF @ = slotJob[s] THEN NoJob ELSE @]
            /\ slotPc[s] = "generating"
        BY <2>2 DEF Generate
      <3>2. \A t \in Slots : slotPc'[t] = "generating" => t # s /\ slotPc[t] = "generating"
        BY <1>1, <3>1 DEF TypeOK, SlotsOK
      <3>3. ASSUME NEW t \in Slots, t # s, slotPc[t] = "generating"
            PROVE  lock'[SlotDir(t)] = slotJob[t]
        <4>1. lock[SlotDir(t)] = slotJob[t] /\ slotJob[t] # slotJob[s]
          BY <1>1, <3>3 DEF LockHeld, TakenOnce, Busy
        <4>2. SlotDir(t) \in Dirs
          BY <3>3, QueueAssumption DEF TypeOK, IssuedOK, Issued, HostsOK, SlotDir, QueueAssumption
        <4> QED BY <1>5, <3>1, <4>1, <4>2 DEF TypeOK, FilesOK
      <3> QED BY <1>1, <3>2, <3>3 DEF LockHeld, SlotDir
    <2> QED BY <2>1, <2>2
  <1> QED BY <1>3, <1>4, <1>6

LEMMA NextKeepsJobOnce == TypeOK /\ JobOnce /\ [Next]_vars => JobOnce'
  <1> SUFFICES ASSUME TypeOK, JobOnce, [Next]_vars PROVE JobOnce'
    OBVIOUS
  <1>1. ASSUME NEW h \in Hosts, HostStep(h) PROVE JobOnce'
    <2>1. hostJob' = hostJob /\ dirOf' = dirOf /\ lock' = lock /\ slotVars' = slotVars
      BY <1>1 DEF HostStep, CheckDepth, Overloaded, Enqueue, HostCommandFails, Receive, WaitTimeout,
         SeveredWait, ReadOutput, ReadUnusableOutput, Blocked
    <2>2. CASE hostPc[h] = "push" /\ queue' = Append(queue, hostJob[h])
               /\ \E stage \in {"idle", "wait"} : hostPc' = [hostPc EXCEPT ![h] = stage]
      BY <2>1, <2>2, PushKeepsJobOnce
    <2>3. CASE queue' = queue /\ hostPc[h] # "idle"
               /\ \/ hostPc[h] = "check" /\ hostPc' = [hostPc EXCEPT ![h] = "push"]
                  \/ \E stage \in {"idle", "got"} : hostPc' = [hostPc EXCEPT ![h] = stage]
      <3>1. HostsStay
        BY <2>3 DEF HostsStay, TypeOK, HostsOK
      <3>2. SlotsStay
        BY <2>1 DEF SlotsStay, slotVars, Busy
      <3>3. queue' = queue
        BY <2>3
      <3> QED BY <2>1, <3>1, <3>2, <3>3, NoMoveKeepsJobOnce
    <2>4. CASE CheckDepth(h) \/ Receive(h) \/ ReadOutput(h)
      BY <2>3, <2>4 DEF CheckDepth, Receive, ReadOutput, redisVars
    <2>5. CASE Enqueue(h)
      BY <2>2, <2>5 DEF Enqueue
    <2>6. CASE HostCommandFails(h)
      BY <2>2, <2>3, <2>6 DEF HostCommandFails, Blocked
    <2>7. CASE Overloaded(h) \/ WaitTimeout(h) \/ SeveredWait(h) \/ ReadUnusableOutput(h)
      BY <2>3, <2>7 DEF Overloaded, WaitTimeout, SeveredWait, ReadUnusableOutput, Blocked, redisVars
    <2> QED BY <1>1, <2>4, <2>5, <2>6, <2>7 DEF HostStep
  <1>2. ASSUME NEW s \in Slots, SlotStep(s) PROVE JobOnce'
    <2>1. CASE Pop(s)
      BY <2>1, PopKeepsJobOnce
    <2>2. CASE TakeRunLock(s) \/ \E st \in PipelineStatuses : Generate(s, st)
      BY <2>2, LockStepKeepsJobOnce
    <2>3. CASE /\ queue' = queue /\ hostVars' = hostVars /\ lock' = lock /\ slotJob' = slotJob
               /\ Busy(s)
               /\ \E stage \in SlotStages \ {"generating"} : SlotGoes(s, stage)
      <3>1. SlotsStay
        BY <2>3 DEF SlotsStay, SlotGoes, Busy, TypeOK, SlotsOK
      <3> QED BY <2>3, <3>1, NoMoveKeepsJobOnce DEF hostVars, HostsStay
    <2> QED BY <1>2, <2>1, <2>2, <2>3 DEF SlotStep, RefusedByRunLock, BeginWrite, EndWrite,
          PushResult, ExpireResult, StepThrows, redisVars, Busy, SlotStages
  <1>3. ASSUME NEW h \in Hosts, NEW j \in Jobs, NEW d \in Dirs, Dispatch(h, j, d) PROVE JobOnce'
    BY <1>3, DispatchKeepsJobOnce
  <1>4. CASE HandlerCrash
    BY <1>4, NoMoveKeepsJobOnce DEF HandlerCrash, redisVars, slotVars, Busy, SlotsStay, HostsStay
  <1>5. CASE WorkerCrash \/ PollThrows
    BY <1>5, NoMoveKeepsJobOnce DEF WorkerCrash, PollThrows, ProcessRestarts, redisVars, hostVars,
       SlotsStay, HostsStay
  <1>6. CASE RedisRestart
    <2>1. SlotsStay
      BY <1>6 DEF SlotsStay, RedisRestart, Busy
    <2>2. HostsStay
      BY <1>6 DEF HostsStay, RedisRestart
    <2> QED BY <1>6, <2>1, <2>2, NoMoveKeepsJobOnce DEF RedisRestart
  <1>7. CASE UNCHANGED vars
    BY <1>7, NoMoveKeepsJobOnce DEF vars, redisVars, hostVars, slotVars, Busy, SlotsStay, HostsStay
  <1> QED BY <1>1, <1>2, <1>3, <1>4, <1>5, <1>6, <1>7 DEF Next

LEMMA OneLockOneGenerator == JobOnce => OneGeneratorPerDir
  BY DEF JobOnce, TakenOnce, LockHeld, Busy, OneGeneratorPerDir

\* Reruns and jobs left behind by timeouts never generate side by side in one
\* run directory.
THEOREM OneGenerator == Spec => []OneGeneratorPerDir
  BY InitTypeOK, NextKeepsType, InitJobOnce, NextKeepsJobOnce, OneLockOneGenerator, PTL DEF Spec

-----------------------------------------------------------------------------
(* The file a call reads is never older than the call. *)

\* A result exists, or is about to, only after its file was written ...
Reported(j) ==
    \/ results[j] # <<>>
    \/ \E s \in Slots : slotPc[s] \in {"writing", "reply", "expire"} /\ slotJob[s] = j

\* ... and as long as the call of that job is pending no older file takes its place.
WrittenForPending ==
    \A h \in Hosts :
        hostPc[h] = "got" \/ (hostPc[h] # "idle" /\ Reported(hostJob[h])) => ~old[HostDir(h)]

ResultsIssued == \A j \in Jobs : results[j] # <<>> => Issued(j)

FreshInv == WrittenForPending /\ ResultsIssued

LEMMA InitFreshInv == Init => FreshInv
  BY DEF Init, FreshInv, WrittenForPending, ResultsIssued

\* A step that reports nothing new, starts no call and ages no file.
LEMMA NoReportKeepsFresh ==
  ASSUME TypeOK, FreshInv, dirOf' = dirOf, hostJob' = hostJob,
         \A j \in Jobs : Reported(j)' => Reported(j),
         \A j \in Jobs : results'[j] # <<>> => Issued(j),
         \A h \in Hosts : hostPc'[h] # "idle" =>
             /\ hostPc[h] # "idle" /\ (old'[HostDir(h)] => old[HostDir(h)])
             /\ hostPc'[h] = "got" => hostPc[h] = "got" \/ Reported(hostJob[h])
  PROVE  FreshInv'
  <1>1. \A h \in Hosts : hostPc[h] # "idle" => hostJob[h] \in Jobs
    BY DEF TypeOK, IssuedOK, Issued
  <1>2. WrittenForPending'
    BY <1>1 DEF FreshInv, WrittenForPending, HostDir
  <1>3. ResultsIssued'
    BY DEF ResultsIssued, Issued
  <1> QED BY <1>2, <1>3 DEF FreshInv

\* Writing the file makes it new; a result pushed afterwards tells the truth.
LEMMA SlotStepKeepsFresh ==
  ASSUME TypeOK, FreshInv, NEW s \in Slots, SlotStep(s)
  PROVE  FreshInv'
  <1>1. hostVars' = hostVars /\ dirOf' = dirOf /\ hostJob' = hostJob /\ hostPc' = hostPc
    BY DEF SlotStep, Pop, TakeRunLock, RefusedByRunLock, Generate, BeginWrite, EndWrite,
           PushResult, ExpireResult, StepThrows, hostVars
  <1>2. \A h \in Hosts : hostPc[h] # "idle" => hostJob[h] \in Jobs /\ HostDir(h) \in Dirs
    BY QueueAssumption DEF TypeOK, IssuedOK, Issued, HostsOK, HostDir, QueueAssumption
  <1>3. CASE BeginWrite(s)
    <2>1. /\ old' = [old EXCEPT ![SlotDir(s)] = FALSE] /\ results' = results
          /\ slotJob' = slotJob /\ slotPc' = [slotPc EXCEPT ![s] = "writing"]
      BY <1>3 DEF BeginWrite, redisVars, SlotGoes
    <2>2. \A j \in Jobs : Reported(j)' => Reported(j) \/ j = slotJob[s]
      BY <2>1 DEF Reported, TypeOK, SlotsOK
    <2>3. ASSUME NEW h \in Hosts, hostPc[h] # "idle", hostPc[h] = "got" \/ Reported(hostJob[h])'
          PROVE  ~old'[HostDir(h)]
      <3>0. Reported(hostJob[h])' => Reported(hostJob[h]) \/ hostJob[h] = slotJob[s]
        <4>1. PICK j \in Jobs : j = hostJob[h]
          BY <1>2, <2>3
        <4>2. Reported(hostJob[h])' => Reported(j)'
          BY <1>1, <4>1 DEF Reported
        <4> QED BY <2>2, <4>1, <4>2
      <3>1. CASE hostJob[h] = slotJob[s]
        BY <1>2, <2>1, <2>3, <3>1 DEF HostDir, SlotDir, TypeOK, FilesOK
      <3>2. CASE hostJob[h] # slotJob[s]
        BY <1>2, <2>1, <2>3, <3>0, <3>2 DEF FreshInv, WrittenForPending, TypeOK, FilesOK
      <3> QED BY <3>1, <3>2
    <2>4. WrittenForPending'
      BY <1>1, <2>3 DEF WrittenForPending, HostDir, Reported
    <2>5. ResultsIssued'
      BY <1>1, <2>1 DEF FreshInv, ResultsIssued, Issued
    <2> QED BY <2>4, <2>5 DEF FreshInv
  <1>4. CASE ~BeginWrite(s)
    <2>1. \A h \in Hosts : hostPc[h] # "idle" => (old'[HostDir(h)] => old[HostDir(h)])
      <3>1. old' = old \/ old' = [old EXCEPT ![SlotDir(s)] = FALSE]
        BY <1>4 DEF SlotStep, Pop, TakeRunLock, RefusedByRunLock, Generate, EndWrite,
               PushResult, ExpireResult, StepThrows, fileVars
      <3> QED BY <1>2, <3>1 DEF TypeOK, FilesOK
    <2>2. \/ results' = results
          \/ /\ slotPc[s] = "reply"
             /\ results' = [results EXCEPT ![slotJob[s]] = Append(@, slotStatus[s])]
      BY <1>4 DEF SlotStep, Pop, TakeRunLock, RefusedByRunLock, Generate, EndWrite,
             PushResult, ExpireResult, StepThrows, redisVars
    <2>3. \A j \in Jobs : results'[j] # <<>> => results[j] # <<>> \/ (slotPc[s] = "reply" /\ slotJob[s] = j)
      BY <2>2 DEF TypeOK, RedisOK
    <2>4. \A t \in Slots : slotPc'[t] \in {"writing", "reply", "expire"} =>
            slotPc[t] \in {"writing", "reply", "expire"} /\ slotJob'[t] = slotJob[t]
      BY <1>4 DEF SlotStep, Pop, TakeRunLock, RefusedByRunLock, Generate, EndWrite,
             PushResult, ExpireResult, StepThrows, SlotGoes, TypeOK, SlotsOK
    <2>5. \A j \in Jobs : Reported(j)' => Reported(j)
      BY <2>3, <2>4 DEF Reported
    <2>6. \A j \in Jobs : results'[j] # <<>> => Issued(j)
      BY <2>3 DEF FreshInv, ResultsIssued, TypeOK, IssuedOK
    <2> QED BY <1>1, <2>1, <2>5, <2>6, NoReportKeepsFresh
  <1> QED BY <1>3, <1>4

LEMMA HostStepKeepsFresh ==
  ASSUME TypeOK, FreshInv, NEW h \in Hosts, HostStep(h)
  PROVE  FreshInv'
  <1>1. /\ dirOf' = dirOf /\ hostJob' = hostJob /\ slotVars' = slotVars
        /\ old' = old \/ old' = [old EXCEPT ![HostDir(h)] = FALSE]
        /\ hostPc[h] # "idle"
    BY DEF HostStep, CheckDepth, Overloaded, Enqueue, HostCommandFails, Receive, WaitTimeout,
           SeveredWait, ReadOutput, ReadUnusableOutput, Blocked, fileVars
  <1>2. \A g \in Hosts : hostPc[g] # "idle" => hostJob[g] \in Jobs /\ HostDir(g) \in Dirs
    BY QueueAssumption DEF TypeOK, IssuedOK, Issued, HostsOK, HostDir, QueueAssumption
  <1>3. \A j \in Jobs : results'[j] # <<>> => results[j] # <<>>
    <2>1. CASE results' = results
      BY <2>1
    <2>2. CASE Receive(h)
      BY <2>2, <1>1, <1>2 DEF Receive, TypeOK, RedisOK
    <2> QED BY <2>1, <2>2 DEF HostStep, CheckDepth, Overloaded, Enqueue, HostCommandFails,
              WaitTimeout, SeveredWait, ReadOutput, ReadUnusableOutput, redisVars
  <1>4. \A j \in Jobs : Reported(j)' => Reported(j)
    BY <1>1, <1>3 DEF Reported, slotVars
  <1>5. \A j \in Jobs : results'[j] # <<>> => Issued(j)
    BY <1>3 DEF FreshInv, ResultsIssued
  <1>6. /\ \E stage \in HostStages : hostPc' = [hostPc EXCEPT ![h] = stage]
        /\ hostPc'[h] = "got" => results[hostJob[h]] # <<>>
    BY <1>1 DEF HostStep, CheckDepth, Overloaded, Enqueue, HostCommandFails, Receive, WaitTimeout,
           SeveredWait, ReadOutput, ReadUnusableOutput, Blocked, HostStages, TypeOK, HostsOK
  <1>7. \A g \in Hosts : hostPc'[g] # "idle" =>
             /\ hostPc[g] # "idle" /\ (old'[HostDir(g)] => old[HostDir(g)])
             /\ hostPc'[g] = "got" => hostPc[g] = "got" \/ Reported(hostJob[g])
    BY <1>1, <1>2, <1>6 DEF Reported, TypeOK, HostsOK, FilesOK
  <1> QED BY <1>1, <1>4, <1>5, <1>7, NoReportKeepsFresh

LEMMA DispatchKeepsFresh ==
  ASSUME TypeOK, FreshInv, NEW h \in Hosts, NEW j \in Jobs, NEW d \in Dirs, Dispatch(h, j, d)
  PROVE  FreshInv'
  <1>1. /\ results' = results /\ slotPc' = slotPc /\ slotJob' = slotJob
        /\ hostPc' = [hostPc EXCEPT ![h] = "check"] /\ hostJob' = [hostJob EXCEPT ![h] = j]
        /\ hostPc[h] = "idle" /\ dirOf[j] = NoDir /\ dirOf' = [dirOf EXCEPT ![j] = d]
        /\ old' = [old EXCEPT ![d] = TRUE]
        /\ \A g \in Hosts : hostPc[g] # "idle" => HostDir(g) # d
    BY DEF Dispatch, redisVars, slotVars
  <1>2. ~Issued(j) /\ \A k : Issued(k) => Issued(k)'
    BY <1>1, QueueAssumption DEF QueueAssumption, Issued, TypeOK, HostsOK
  <1>3. \A k \in Jobs : Reported(k)' <=> Reported(k)
    BY <1>1 DEF Reported
  <1>4. ~Reported(j)
    BY <1>2 DEF Reported, FreshInv, ResultsIssued, TypeOK, IssuedOK
  <1>5. ASSUME NEW g \in Hosts, hostPc'[g] = "got" \/ (hostPc'[g] # "idle" /\ Reported(hostJob[g])')
        PROVE  ~old'[HostDir(g)']
    <2>1. CASE g = h
      BY <1>1, <1>4, <1>5, <2>1 DEF Reported, TypeOK, HostsOK
    <2>2. CASE g # h
      <3>1. hostPc'[g] = hostPc[g] /\ hostJob'[g] = hostJob[g] /\ hostPc[g] # "idle"
        BY <1>1, <1>5, <2>2 DEF TypeOK, HostsOK
      <3>2. hostJob[g] \in Jobs /\ hostJob[g] # j
        BY <1>2, <3>1 DEF TypeOK, IssuedOK, Issued
      <3>3. HostDir(g)' = HostDir(g) /\ HostDir(g) # d /\ HostDir(g) \in Dirs
        BY <1>1, <3>1, <3>2, QueueAssumption
           DEF HostDir, TypeOK, HostsOK, IssuedOK, Issued, QueueAssumption
      <3>4. hostPc[g] = "got" \/ Reported(hostJob[g])
        BY <1>1, <1>5, <3>1 DEF Reported
      <3> QED BY <1>1, <3>1, <3>3, <3>4 DEF FreshInv, WrittenForPending, TypeOK, FilesOK
    <2> QED BY <2>1, <2>2
  <1>6. WrittenForPending'
    BY <1>5 DEF WrittenForPending
  <1>7. ResultsIssued'
    BY <1>1, <1>2 DEF FreshInv, ResultsIssued
  <1> QED BY <1>6, <1>7 DEF FreshInv

LEMMA NextKeepsFresh == TypeOK /\ FreshInv /\ [Next]_vars => FreshInv'
  <1> SUFFICES ASSUME TypeOK, FreshInv, [Next]_vars PROVE FreshInv'
    OBVIOUS
  <1>1. CASE HandlerCrash \/ WorkerCrash \/ PollThrows \/ RedisRestart
    <2>1. dirOf' = dirOf /\ hostJob' = hostJob /\ old' = old
      BY <1>1 DEF HandlerCrash, WorkerCrash, PollThrows, RedisRestart, ProcessRestarts, hostVars,
                  fileVars
    <2>2. \A j \in Jobs : results'[j] # <<>> => results[j] # <<>>
      BY <1>1 DEF HandlerCrash, WorkerCrash, PollThrows, RedisRestart, ProcessRestarts, redisVars
    <2>3. \A t \in Slots : slotPc'[t] \in {"writing", "reply", "expire"} =>
            slotPc[t] \in {"writing", "reply", "expire"} /\ slotJob'[t] = slotJob[t]
      BY <1>1 DEF HandlerCrash, WorkerCrash, PollThrows, RedisRestart, ProcessRestarts, slotVars
    <2>4. \A j \in Jobs : Reported(j)' => Reported(j)
      BY <2>2, <2>3 DEF Reported
    <2>5. \A j \in Jobs : results'[j] # <<>> => Issued(j)
      BY <2>2 DEF FreshInv, ResultsIssued
    <2>6. \A h \in Hosts : hostPc'[h] # "idle" =>
             hostPc[h] # "idle" /\ (hostPc'[h] = "got" => hostPc[h] = "got")
      BY <1>1 DEF HandlerCrash, WorkerCrash, PollThrows, RedisRestart, ProcessRestarts, hostVars
    <2> QED BY <2>1, <2>4, <2>5, <2>6, NoReportKeepsFresh
  <1>2. CASE UNCHANGED vars
    BY <1>2 DEF vars, redisVars, hostVars, fileVars, slotVars, FreshInv, WrittenForPending,
                ResultsIssued, Reported, Issued, HostDir
  <1> QED BY <1>1, <1>2, DispatchKeepsFresh, HostStepKeepsFresh, SlotStepKeepsFresh DEF Next

LEMMA FreshInvFresh == FreshInv => FreshOutput
  BY DEF FreshInv, WrittenForPending, FreshOutput

\* A call that hears from the worker reads a file written since it began, also
\* in a run directory that holds the file of an earlier attempt.
THEOREM OutputIsFresh == Spec => []FreshOutput
  BY InitTypeOK, NextKeepsType, InitFreshInv, NextKeepsFresh, FreshInvFresh, PTL DEF Spec

-----------------------------------------------------------------------------
(* The queue implements the delivery promise. *)

\* A call has no answer before it is issued or while it is pending.
AnswerInv ==
    /\ \A j \in Jobs : ~Issued(j) => answer[j] = NoFile
    /\ \A h \in Hosts : hostPc[h] # "idle" => answer[hostJob[h]] = NoFile

LEMMA InitAnswerInv == Init => AnswerInv
  BY DEF Init, AnswerInv

LEMMA NextKeepsAnswerInv == TypeOK /\ HostJobsDistinct /\ AnswerInv /\ [Next]_vars => AnswerInv'
  <1> SUFFICES ASSUME TypeOK, HostJobsDistinct, AnswerInv, [Next]_vars PROVE AnswerInv'
    OBVIOUS
  <1>1. ASSUME answer' = answer, dirOf' = dirOf, hostJob' = hostJob,
               \A h \in Hosts : hostPc'[h] # "idle" => hostPc[h] # "idle"
        PROVE  AnswerInv'
    BY <1>1 DEF AnswerInv, Issued
  <1>2. ASSUME NEW h \in Hosts, NEW j \in Jobs, NEW d \in Dirs, Dispatch(h, j, d) PROVE AnswerInv'
    <2>1. answer' = answer /\ dirOf' = [dirOf EXCEPT ![j] = d] /\ dirOf[j] = NoDir
          /\ hostPc' = [hostPc EXCEPT ![h] = "check"] /\ hostJob' = [hostJob EXCEPT ![h] = j]
      BY <1>2 DEF Dispatch
    <2>2. answer[j] = NoFile
      BY <2>1 DEF AnswerInv, Issued
    <2>3. \A k \in Jobs : ~(Issued(k)') => ~Issued(k)
      BY <2>1 DEF Issued, TypeOK, HostsOK
    <2> QED BY <2>1, <2>2, <2>3 DEF AnswerInv, TypeOK, HostsOK
  <1>3. ASSUME NEW h \in Hosts, HostStep(h) PROVE AnswerInv'
    <2>1. Issued(hostJob[h]) /\ hostPc[h] # "idle" /\ dirOf' = dirOf /\ hostJob' = hostJob
      BY <1>3 DEF TypeOK, IssuedOK, HostStep, CheckDepth, Overloaded, Enqueue, HostCommandFails,
         Receive, WaitTimeout, SeveredWait, ReadOutput, ReadUnusableOutput, Blocked
    <2>2. CASE answer' = answer
      <3>1. \A g \in Hosts : hostPc'[g] # "idle" => hostPc[g] # "idle"
        BY <1>3 DEF TypeOK, HostsOK, HostStep, CheckDepth, Overloaded, Enqueue, HostCommandFails,
           Receive, WaitTimeout, SeveredWait, ReadOutput, ReadUnusableOutput, Blocked
      <3> QED BY <1>1, <2>1, <2>2, <3>1
    <2>3. CASE hostPc' = [hostPc EXCEPT ![h] = "idle"]
               /\ \E file \in File : answer' = [answer EXCEPT ![hostJob[h]] = file]
      BY <2>1, <2>3 DEF AnswerInv, Issued, HostJobsDistinct, TypeOK, HostsOK, IssuedOK
    <2>4. ASSUME NEW reason \in HostStatuses, Blocked(h, reason) PROVE AnswerInv'
      <3>1. [job |-> hostJob[h], status |-> reason] \in File
        BY <2>1 DEF File, FileStatuses, Issued
      <3> QED BY <2>3, <2>4, <3>1 DEF Blocked
    <2>5. CASE ReadOutput(h)
      <3>1. output[HostDir(h)] \in File
        BY <2>1, QueueAssumption DEF TypeOK, FilesOK, HostsOK, HostDir, Issued, QueueAssumption
      <3> QED BY <2>3, <2>5, <3>1 DEF ReadOutput
    <2> QED BY <1>3, <2>2, <2>4, <2>5 DEF HostStep, CheckDepth, Overloaded, Enqueue,
          HostCommandFails, Receive, WaitTimeout, SeveredWait, ReadUnusableOutput, HostStatuses
  <1>4. ASSUME NEW s \in Slots, SlotStep(s) PROVE AnswerInv'
    BY <1>1, <1>4 DEF SlotStep, Pop, TakeRunLock, RefusedByRunLock, Generate, BeginWrite, EndWrite,
       PushResult, ExpireResult, StepThrows, hostVars
  <1>5. CASE HandlerCrash \/ WorkerCrash \/ PollThrows \/ RedisRestart \/ UNCHANGED vars
    BY <1>1, <1>5 DEF HandlerCrash, WorkerCrash, PollThrows, RedisRestart, ProcessRestarts, vars,
       hostVars
  <1> QED BY <1>2, <1>3, <1>4, <1>5 DEF Next

LEMMA StatusFacts ==
  ASSUME NEW j \in Jobs
  PROVE  /\ ~Issued(j) => StatusOf(j) = "new"
         /\ Issued(j) /\ answer[j] = NoFile /\ Pending(j) => StatusOf(j) = "pending"
         /\ Issued(j) /\ answer[j] = NoFile /\ ~Pending(j) => StatusOf(j) = "lost"
         /\ Issued(j) /\ answer[j] # NoFile /\ answer[j].status = "completed"
               => StatusOf(j) = "completed"
         /\ Issued(j) /\ answer[j] # NoFile /\ answer[j].status # "completed"
               => StatusOf(j) = "blocked"
  BY DEF StatusOf

LEMMA InitMaps == Init => Delivery!Init
  <1> SUFFICES ASSUME Init PROVE Delivery!Init
    OBVIOUS
  <1>1. CallStatus = [j \in Jobs |-> "new"]
    BY StatusFacts DEF CallStatus, Init, Issued
  <1>2. Produced = {}
    BY DEF Produced, Init, NoFile
  <1> QED BY <1>1, <1>2 DEF Delivery!Init, Init

\* A step that changes neither answers, nor files, nor who is pending.
LEMMA StutterMaps ==
  ASSUME answer' = answer, dirOf' = dirOf, Produced' = Produced,
         \A j \in Jobs : Pending(j)' <=> Pending(j)
  PROVE  UNCHANGED Delivery!dvars
  <1>1. \A j \in Jobs : StatusOf(j)' = StatusOf(j)
    BY DEF StatusOf, Issued
  <1>2. CallStatus' = CallStatus
    BY <1>1 DEF CallStatus
  <1> QED BY <1>2 DEF Delivery!dvars

\* The answer of one call, and of that call only.
LEMMA AnswerMaps ==
  ASSUME TypeOK, HostJobsDistinct, AnswerInv, NEW h \in Hosts, hostPc[h] # "idle",
         NEW file \in File, file # NoFile,
         answer' = [answer EXCEPT ![hostJob[h]] = file],
         hostPc' = [hostPc EXCEPT ![h] = "idle"], hostJob' = hostJob, dirOf' = dirOf
  PROVE  /\ hostJob[h] \in Jobs /\ CallStatus[hostJob[h]] = "pending"
         /\ CallStatus' = [CallStatus EXCEPT ![hostJob[h]] =
                IF file.status = "completed" THEN "completed" ELSE "blocked"]
  <1>1. PICK j \in Jobs : j = hostJob[h] /\ Issued(j)
    BY DEF TypeOK, IssuedOK, Issued
  <1>2. answer[j] = NoFile /\ Pending(j)
    BY <1>1 DEF AnswerInv, Pending
  <1>3. StatusOf(j) = "pending"
    BY <1>1, <1>2, StatusFacts
  <1>4. answer'[j] = file /\ Issued(j)'
    BY <1>1 DEF TypeOK, HostsOK, Issued
  <1>5. StatusOf(j)' = IF file.status = "completed" THEN "completed" ELSE "blocked"
    BY <1>4 DEF StatusOf
  <1>6. ASSUME NEW k \in Jobs, k # j PROVE StatusOf(k)' = StatusOf(k)
    <2>1. answer'[k] = answer[k] /\ (Issued(k)' <=> Issued(k))
      BY <1>1, <1>6 DEF TypeOK, HostsOK, Issued
    <2>2. Pending(k)' <=> Pending(k)
      BY <1>1, <1>6 DEF Pending, TypeOK, HostsOK
    <2> QED BY <2>1, <2>2 DEF StatusOf
  <1> QED BY <1>1, <1>3, <1>5, <1>6 DEF CallStatus

LEMMA HostStepMaps ==
  ASSUME TypeOK, HostJobsDistinct, AnswerInv, NEW h \in Hosts, HostStep(h)
  PROVE  Delivery!Next \/ UNCHANGED Delivery!dvars
  <1>1. Issued(hostJob[h]) /\ hostJob[h] \in Jobs /\ hostPc[h] # "idle"
        /\ dirOf' = dirOf /\ hostJob' = hostJob
    BY DEF TypeOK, IssuedOK, Issued, HostStep, CheckDepth, Overloaded, Enqueue, HostCommandFails,
       Receive, WaitTimeout, SeveredWait, ReadOutput, ReadUnusableOutput, Blocked
  <1>2. HostDir(h) = dirOf[hostJob[h]] /\ HostDir(h) \in Dirs
    BY <1>1, QueueAssumption DEF HostDir, Issued, TypeOK, HostsOK, QueueAssumption
  <1>3. ASSUME NEW reason \in HostStatuses, Blocked(h, reason)
        PROVE  Delivery!AnswerBlocked(hostJob[h])
    <2> DEFINE file == [job |-> hostJob[h], status |-> reason]
    <2>1. file \in File /\ file # NoFile /\ file.status # "completed"
      <3>1. file \in File /\ file.status # "completed"
        BY <1>1 DEF File, FileStatuses, HostStatuses
      <3>2. file.job # NoFile.job
        BY <1>1, QueueAssumption DEF NoFile, QueueAssumption
      <3> QED BY <3>1, <3>2
    <2>2. /\ answer' = [answer EXCEPT ![hostJob[h]] = file]
          /\ output' = [output EXCEPT ![HostDir(h)] = file]
          /\ hostPc' = [hostPc EXCEPT ![h] = "idle"]
      BY <1>3 DEF Blocked
    <2> HIDE DEF file
    <2>3. /\ CallStatus[hostJob[h]] = "pending"
          /\ CallStatus' = [CallStatus EXCEPT ![hostJob[h]] = "blocked"]
      BY <1>1, <2>1, <2>2, AnswerMaps
    <2>4. Produced' = Produced \ {dirOf[hostJob[h]]}
      BY <1>2, <2>1, <2>2 DEF Produced, TypeOK, FilesOK
    <2> QED BY <1>1, <2>3, <2>4 DEF Delivery!AnswerBlocked
  <1>4. CASE ReadOutput(h)
    <2>1. PICK file \in File : file = output[HostDir(h)]
      BY <1>2 DEF TypeOK, FilesOK
    <2>2. file # NoFile /\ answer' = [answer EXCEPT ![hostJob[h]] = file]
          /\ hostPc' = [hostPc EXCEPT ![h] = "idle"] /\ output' = output
      BY <1>4, <2>1 DEF ReadOutput, NoFile, fileVars
    <2>3. /\ CallStatus[hostJob[h]] = "pending"
          /\ CallStatus' = [CallStatus EXCEPT ![hostJob[h]] =
                 IF file.status = "completed" THEN "completed" ELSE "blocked"]
      BY <1>1, <2>1, <2>2, AnswerMaps
    <2>4. Produced' = Produced
      BY <2>2 DEF Produced
    <2>5. CASE file.status = "completed"
      <3>1. dirOf[hostJob[h]] \in Produced
        BY <1>2, <2>1, <2>5 DEF Produced
      <3>2. Delivery!AnswerCompleted(hostJob[h])
        BY <1>1, <2>3, <2>4, <2>5, <3>1 DEF Delivery!AnswerCompleted
      <3> QED BY <1>1, <3>2 DEF Delivery!Next
    <2>6. CASE file.status # "completed"
      <3>1. Produced \ {dirOf[hostJob[h]]} = Produced
        BY <1>2, <2>1, <2>6 DEF Produced
      <3>2. Delivery!AnswerBlocked(hostJob[h])
        BY <1>1, <2>3, <2>4, <2>6, <3>1 DEF Delivery!AnswerBlocked
      <3> QED BY <1>1, <3>2 DEF Delivery!Next
    <2> QED BY <2>5, <2>6
  <1>5. CASE CheckDepth(h) \/ Enqueue(h) \/ Receive(h)
    <2>1. answer' = answer /\ output' = output
          /\ \E stage \in {"push", "wait", "got"} : hostPc' = [hostPc EXCEPT ![h] = stage]
      BY <1>5 DEF CheckDepth, Enqueue, Receive, fileVars
    <2>2. \A j \in Jobs : Pending(j)' <=> Pending(j)
      BY <1>1, <2>1 DEF Pending, TypeOK, HostsOK
    <2>3. Produced' = Produced
      BY <2>1 DEF Produced
    <2> QED BY <1>1, <2>1, <2>2, <2>3, StutterMaps
  <1>6. CASE Overloaded(h) \/ HostCommandFails(h) \/ WaitTimeout(h) \/ SeveredWait(h)
             \/ ReadUnusableOutput(h)
    <2>1. \E reason \in HostStatuses : Blocked(h, reason)
      BY <1>6 DEF Overloaded, HostCommandFails, WaitTimeout, SeveredWait, ReadUnusableOutput,
                  HostStatuses
    <2> QED BY <1>1, <1>3, <2>1 DEF Delivery!Next
  <1> QED BY <1>4, <1>5, <1>6 DEF HostStep

LEMMA DispatchMaps ==
  ASSUME TypeOK, AnswerInv, NEW h \in Hosts, NEW j \in Jobs, NEW d \in Dirs, Dispatch(h, j, d)
  PROVE  Delivery!Request(j, d)
  <1>1. /\ answer' = answer /\ output' = output /\ dirOf[j] = NoDir /\ hostPc[h] = "idle"
        /\ dirOf' = [dirOf EXCEPT ![j] = d]
        /\ hostPc' = [hostPc EXCEPT ![h] = "check"] /\ hostJob' = [hostJob EXCEPT ![h] = j]
    BY DEF Dispatch, fileVars
  <1>2. ~Issued(j) /\ answer[j] = NoFile
    BY <1>1 DEF Issued, AnswerInv
  <1>3. Issued(j)' /\ Pending(j)'
    BY <1>1, QueueAssumption DEF Issued, Pending, TypeOK, HostsOK, QueueAssumption
  <1>4. StatusOf(j) = "new" /\ StatusOf(j)' = "pending"
    <2>1. StatusOf(j) = "new"
      BY <1>2, StatusFacts
    <2>2. answer'[j] = NoFile
      BY <1>1, <1>2
    <2> QED BY <1>3, <2>1, <2>2 DEF StatusOf, NoFile
  <1>5. ASSUME NEW k \in Jobs, k # j PROVE StatusOf(k)' = StatusOf(k)
    <2>1. answer'[k] = answer[k] /\ (Issued(k)' <=> Issued(k))
      BY <1>1, <1>5 DEF TypeOK, HostsOK, Issued
    <2>2. Pending(k)' <=> Pending(k)
      BY <1>1, <1>5 DEF Pending, TypeOK, HostsOK
    <2> QED BY <2>1, <2>2 DEF StatusOf, NoFile
  <1>6. CallStatus[j] = "new" /\ CallStatus' = [CallStatus EXCEPT ![j] = "pending"]
    BY <1>4, <1>5 DEF CallStatus
  <1>7. Produced' = Produced
    BY <1>1 DEF Produced
  <1> QED BY <1>1, <1>6, <1>7 DEF Delivery!Request

LEMMA SlotStepMaps ==
  ASSUME TypeOK, NEW s \in Slots, SlotStep(s)
  PROVE  Delivery!Next \/ UNCHANGED Delivery!dvars
  <1>1. answer' = answer /\ dirOf' = dirOf /\ hostPc' = hostPc /\ hostJob' = hostJob
    BY DEF SlotStep, Pop, TakeRunLock, RefusedByRunLock, Generate, BeginWrite, EndWrite,
           PushResult, ExpireResult, StepThrows, hostVars
  <1>2. \A j \in Jobs : Pending(j)' <=> Pending(j)
    BY <1>1 DEF Pending
  <1>3. CASE output' = output
    <2>1. Produced' = Produced
      BY <1>3 DEF Produced
    <2> QED BY <1>1, <1>2, <2>1, StutterMaps
  <1>4. CASE BeginWrite(s) \/ EndWrite(s)
    <2>1. PICK j \in Jobs : j = slotJob[s] /\ Issued(j)
      BY <1>4 DEF BeginWrite, EndWrite, TypeOK, IssuedOK, Issued
    <2>2. SlotDir(s) = dirOf[j] /\ dirOf[j] \in Dirs
      BY <2>1, QueueAssumption DEF SlotDir, Issued, TypeOK, HostsOK, QueueAssumption
    <2>3. CallStatus[j] # "new" /\ CallStatus' = CallStatus
      <3>1. \A k \in Jobs : StatusOf(k)' = StatusOf(k)
        BY <1>1, <1>2 DEF StatusOf, Issued
      <3>2. StatusOf(j) # "new"
        BY <2>1, StatusFacts
      <3> QED BY <3>1, <3>2 DEF CallStatus
    <2>4. \/ Produced' = Produced \cup {dirOf[j]}
          \/ Produced' = Produced \ {dirOf[j]}
      <3>1. PICK file : output' = [output EXCEPT ![dirOf[j]] = file]
        BY <1>4, <2>2 DEF BeginWrite, EndWrite
      <3> QED BY <2>2, <3>1 DEF Produced, TypeOK, FilesOK
    <2>5. Delivery!Produce(j) \/ Delivery!Supersede(j)
      BY <1>1, <2>3, <2>4 DEF Delivery!Produce, Delivery!Supersede
    <2> QED BY <2>1, <2>5 DEF Delivery!Next
  <1> QED BY <1>3, <1>4 DEF SlotStep, Pop, TakeRunLock, RefusedByRunLock, Generate,
           PushResult, ExpireResult, StepThrows, fileVars

LEMMA FaultMaps ==
  ASSUME TypeOK, AnswerInv,
         HandlerCrash \/ WorkerCrash \/ PollThrows \/ RedisRestart \/ UNCHANGED vars
  PROVE  Delivery!Next \/ UNCHANGED Delivery!dvars
  <1>1. answer' = answer /\ dirOf' = dirOf /\ hostJob' = hostJob /\ output' = output
    BY DEF HandlerCrash, WorkerCrash, PollThrows, RedisRestart, ProcessRestarts, vars, hostVars,
           fileVars
  <1>2. Produced' = Produced
    BY <1>1 DEF Produced
  <1>3. CASE HandlerCrash
    <2>1. \A j \in Jobs : ~Pending(j)'
      BY <1>3 DEF HandlerCrash, Pending
    <2>2. \A j \in Jobs : StatusOf(j)' = IF StatusOf(j) = "pending" THEN "lost" ELSE StatusOf(j)
      BY <1>1, <2>1 DEF StatusOf, Issued
    <2>3. CallStatus' = [j \in Jobs |-> IF CallStatus[j] = "pending" THEN "lost" ELSE CallStatus[j]]
      BY <2>2 DEF CallStatus
    <2> QED BY <1>1, <1>2, <2>3 DEF Delivery!CallersDie, Delivery!Next
  <1>4. CASE ~HandlerCrash
    <2>1. \A j \in Jobs : Pending(j)' <=> Pending(j)
      BY <1>1, <1>4 DEF WorkerCrash, PollThrows, RedisRestart, ProcessRestarts, vars, hostVars,
                        Pending, TypeOK, HostsOK
    <2> QED BY <1>1, <1>2, <2>1, StutterMaps
  <1> QED BY <1>3, <1>4

LEMMA NextMaps ==
  TypeOK /\ JobOnce /\ AnswerInv /\ [Next]_vars => [Delivery!Next]_(Delivery!dvars)
  <1> SUFFICES ASSUME TypeOK, HostJobsDistinct, AnswerInv, [Next]_vars
               PROVE  Delivery!Next \/ UNCHANGED Delivery!dvars
    BY DEF JobOnce
  <1>1. ASSUME NEW h \in Hosts, NEW j \in Jobs, NEW d \in Dirs, Dispatch(h, j, d)
        PROVE  Delivery!Next
    BY <1>1, DispatchMaps DEF Delivery!Next
  <1> QED BY <1>1, HostStepMaps, SlotStepMaps, FaultMaps DEF Next

LEMMA JobOnceHosts == JobOnce => HostJobsDistinct
  BY DEF JobOnce

\* The queue implements the delivery promise: one answer per call at most, and
\* "completed" only on complete documents.
THEOREM QueueDelivers == Spec => Delivers
  <1>1. Spec => [](TypeOK /\ JobOnce /\ AnswerInv)
    BY InitTypeOK, NextKeepsType, InitJobOnce, NextKeepsJobOnce, JobOnceHosts, InitAnswerInv,
       NextKeepsAnswerInv, PTL DEF Spec
  <1> QED BY <1>1, InitMaps, NextMaps, PTL DEF Spec, Delivers, Delivery!Spec
-----------------------------------------------------------------------------
(* The answer of a call is the worker's own report of that call. *)

\* A job that no slot has finished with: it is not issued, not pushed, queued,
\* or with a slot that has yet to report how it went.
Unpushed(j) == \E h \in Hosts : hostPc[h] \in {"check", "push"} /\ hostJob[h] = j
InWork(j) ==
    \E s \in Slots :
        /\ slotJob[s] = j
        /\ \/ slotPc[s] \in {"taken", "generating"}
           \/ slotPc[s] \in {"generated", "writing", "reply"} /\ slotStatus[s] # "worker_failed"
Early(j) == ~Issued(j) \/ InQueue(j) \/ Unpushed(j) \/ InWork(j)

\* Nothing has been reported of such a job, neither to Redis nor to its call.
Untold(j) == results[j] = <<>> /\ heard[j] = "none"
ToldLate == \A j \in Jobs : Early(j) => Untold(j)

\* While a file says "completed", so does all that was, or will be, reported of
\* the job that wrote it.
AllCompleted(j) ==
    /\ \A i \in 1..Len(results[j]) : results[j][i] = "completed"
    /\ heard[j] \in {"none", "completed"}
    /\ \A s \in Slots : slotPc[s] = "reply" /\ slotJob[s] = j => slotStatus[s] = "completed"

WrittenByUser ==
    \A d \in Dirs : output[d].status # "missing" =>
        output[d].job \in Jobs /\ dirOf[output[d].job] = d
ReportedAsWritten ==
    \A d \in Dirs : output[d].status = "completed" => AllCompleted(output[d].job)

\* A call that got a result has heard something; its answer names a user of its
\* directory, and is "completed" in its own name only if that is what it heard.
HeardSomething == \A h \in Hosts : hostPc[h] = "got" => heard[hostJob[h]] # "none"
AnswersAsHeard ==
    \A j \in Jobs : answer[j] # NoFile =>
        /\ answer[j].job \in Jobs /\ dirOf[answer[j].job] = dirOf[j]
        /\ answer[j].status = "completed" /\ answer[j].job = j => heard[j] = "completed"

OwnInv == ToldLate /\ WrittenByUser /\ ReportedAsWritten /\ HeardSomething /\ AnswersAsHeard

LEMMA InitOwnInv == Init => OwnInv
  BY EmptySeq DEF Init, OwnInv, ToldLate, Untold, WrittenByUser, ReportedAsWritten, HeardSomething,
     AnswersAsHeard, NoFile

\* What a step of a slot leaves alone.
LEMMA SlotStepIs ==
  ASSUME TypeOK, NEW s \in Slots, SlotStep(s)
  PROVE  /\ hostPc' = hostPc /\ hostJob' = hostJob /\ dirOf' = dirOf /\ answer' = answer
         /\ heard' = heard
         /\ \A t \in Slots \ {s} : slotPc'[t] = slotPc[t] /\ slotJob'[t] = slotJob[t]
                                     /\ slotStatus'[t] = slotStatus[t]
  BY DEF SlotStep, Pop, TakeRunLock, RefusedByRunLock, Generate, BeginWrite, EndWrite, PushResult,
     ExpireResult, StepThrows, hostVars, SlotGoes, SlotSets, TypeOK, SlotsOK

\* No job gets back to where it is not finished with.
LEMMA EarlyShrinks ==
  ASSUME TypeOK, [Next]_vars, NEW j \in Jobs, Early(j)'
  PROVE  Early(j)
  <1>1. ASSUME NEW s \in Slots, SlotStep(s) PROVE Early(j)
    <2>1. Issued(j)' = Issued(j) /\ Unpushed(j)' = Unpushed(j)
      BY <1>1, SlotStepIs DEF Issued, Unpushed
    <2>2. InQueue(j)' => InQueue(j)
      <3>1. CASE queue' = queue
        BY <3>1 DEF InQueue
      <3>2. CASE Pop(s)
        <4>1. /\ Len(queue') = Len(queue) - 1 /\ Len(queue) \in Nat \ {0}
              /\ \A i \in 1..Len(queue') : queue'[i] = queue[i + 1]
          BY <3>2, HeadTailProperties, EmptySeq, LenProperties DEF Pop, TypeOK, RedisOK
        <4>2. \A i \in 1..Len(queue') : i + 1 \in 1..Len(queue)
          BY <4>1
        <4> QED BY <4>1, <4>2 DEF InQueue
      <3> QED BY <1>1, <3>1, <3>2 DEF SlotStep, TakeRunLock, RefusedByRunLock, Generate,
                 BeginWrite, EndWrite, PushResult, ExpireResult, StepThrows, redisVars
    <2>3. InWork(j)' => InWork(j) \/ InQueue(j)
      <3>1. CASE Pop(s)
        <4>1. queue # <<>> /\ Len(queue) \in Nat /\ Head(queue) = queue[1] /\ 1 \in 1..Len(queue)
          BY <3>1, HeadTailProperties, EmptySeq, LenProperties DEF Pop, TypeOK, RedisOK
        <4>2. InQueue(Head(queue))
          BY <4>1 DEF InQueue
        <4>3. slotJob'[s] = Head(queue)
          BY <3>1 DEF Pop, TypeOK, SlotsOK
        <4> QED BY <1>1, <4>2, <4>3, SlotStepIs DEF InWork
      <3>2. CASE ~Pop(s)
        <4>1. /\ slotJob' = slotJob
              /\ \/ slotPc'[s] \in {"idle", "expire"}
                 \/ slotPc'[s] = "generated" /\ slotStatus'[s] = "worker_failed"
                 \/ slotPc[s] \in {"taken", "generating"}
                 \/ /\ slotPc[s] \in {"generated", "writing"} /\ slotStatus' = slotStatus
                    /\ slotPc'[s] \in {"writing", "reply"}
          BY <1>1, <3>2 DEF SlotStep, TakeRunLock, RefusedByRunLock, Generate,
                 BeginWrite, EndWrite, PushResult, ExpireResult, StepThrows, SlotGoes, SlotSets,
                 TypeOK, SlotsOK
        <4> QED BY <1>1, <4>1, SlotStepIs DEF InWork
      <3> QED BY <3>1, <3>2
    <2> QED BY <2>1, <2>2, <2>3 DEF Early
  <1>2. ASSUME NEW h \in Hosts, HostStep(h) PROVE Early(j)
    <2>1. /\ dirOf' = dirOf /\ hostJob' = hostJob /\ slotVars' = slotVars
          /\ \E stage : hostPc' = [hostPc EXCEPT ![h] = stage]
                        /\ (stage \in {"check", "push"} => hostPc[h] \in {"check", "push"})
          /\ queue' = queue \/ (hostPc[h] = "push" /\ queue' = Append(queue, hostJob[h]))
      BY <1>2 DEF HostStep, CheckDepth, Overloaded, Enqueue, HostCommandFails, Receive, WaitTimeout,
         SeveredWait, ReadOutput, ReadUnusableOutput, Blocked, redisVars
    <2>2. Issued(j)' = Issued(j) /\ InWork(j)' = InWork(j)
      BY <2>1 DEF Issued, InWork, slotVars
    <2>3. Unpushed(j)' => Unpushed(j)
      BY <2>1 DEF Unpushed, TypeOK, HostsOK
    <2>4. InQueue(j)' => InQueue(j) \/ Unpushed(j)
      <3>1. CASE queue' = queue
        BY <3>1 DEF InQueue
      <3>2. CASE hostPc[h] = "push" /\ queue' = Append(queue, hostJob[h])
        <4>1. hostJob[h] \in Jobs
          BY <3>2 DEF TypeOK, IssuedOK, Issued
        <4>2. /\ Len(queue') = Len(queue) + 1 /\ Len(queue) \in Nat
              /\ \A i \in 1..Len(queue) : queue'[i] = queue[i]
              /\ queue'[Len(queue) + 1] = hostJob[h]
          BY <3>2, <4>1, AppendProperties, LenProperties DEF TypeOK, RedisOK
        <4> QED BY <3>2, <4>2 DEF InQueue, Unpushed
      <3> QED BY <2>1, <3>1, <3>2
    <2> QED BY <2>2, <2>3, <2>4 DEF Early
  <1>3. ASSUME NEW h \in Hosts, NEW k \in Jobs, NEW d \in Dirs, Dispatch(h, k, d) PROVE Early(j)
    BY <1>3 DEF Dispatch, Early, Issued, InQueue, Unpushed, InWork, redisVars, slotVars, TypeOK, HostsOK
  <1>4. CASE HandlerCrash \/ WorkerCrash \/ PollThrows \/ RedisRestart \/ UNCHANGED vars
    BY <1>4, EmptySeq DEF HandlerCrash, WorkerCrash, PollThrows, ProcessRestarts, RedisRestart, vars,
       redisVars, hostVars, slotVars, Early, Issued, InQueue, Unpushed, InWork
  <1> QED BY <1>1, <1>2, <1>3, <1>4 DEF Next

\* A slot reports a job only when nothing is left to do for it.
LEMMA NextKeepsToldLate ==
  ASSUME TypeOK, JobOnce, ToldLate, [Next]_vars
  PROVE  ToldLate'
  <1> SUFFICES ASSUME NEW j \in Jobs, Early(j)' PROVE Untold(j)'
    BY DEF ToldLate
  <1>1. Untold(j)
    BY EarlyShrinks DEF ToldLate
  <1>2. ASSUME NEW s \in Slots, SlotStep(s) PROVE Untold(j)'
    <2>1. CASE results' = results
      BY <1>1, <1>2, <2>1, SlotStepIs DEF Untold
    <2>2. CASE /\ slotPc[s] = "reply" /\ slotJob' = slotJob
               /\ \/ slotPc'[s] = "expire"
                  \/ slotPc'[s] = "generated" /\ slotStatus'[s] = "worker_failed"
               /\ results' = [results EXCEPT ![slotJob[s]] = Append(@, slotStatus[s])]
               /\ queue' = queue
      <3>1. slotJob[s] # j
        <4> SUFFICES ASSUME slotJob[s] = j PROVE FALSE
          OBVIOUS
        <4>1. Busy(s)
          BY <2>2 DEF Busy
        <4>2. Issued(j)'
          BY <1>2, <4>1, SlotStepIs DEF TypeOK, IssuedOK, Issued, Busy
        <4>3. ~InQueue(j)'
          BY <2>2, <4>1 DEF JobOnce, TakenNotQueued, InQueue
        <4>4. ~Unpushed(j)'
          BY <1>2, <4>1, SlotStepIs DEF JobOnce, UnpushedNowhere, Unpushed
        <4>5. ~InWork(j)'
          BY <1>2, <2>2, <4>1, SlotStepIs DEF JobOnce, TakenOnce, InWork, Busy
        <4> QED BY <4>2, <4>3, <4>4, <4>5 DEF Early
      <3> QED BY <1>1, <1>2, <2>2, <3>1, SlotStepIs DEF Untold, TypeOK, RedisOK
    <2>3. CASE PushResult(s)
      BY <2>2, <2>3 DEF PushResult, SlotGoes, TypeOK, SlotsOK
    <2>4. CASE StepThrows(s)
      BY <2>1, <2>2, <2>4 DEF StepThrows, SlotGoes, SlotSets, TypeOK, SlotsOK
    <2> QED BY <1>2, <2>1, <2>3, <2>4 DEF SlotStep, Pop, TakeRunLock, RefusedByRunLock, Generate,
               BeginWrite, EndWrite, ExpireResult, redisVars
  <1>3. ASSUME NEW h \in Hosts, HostStep(h) PROVE Untold(j)'
    <2>1. CASE Receive(h)
      <3>1. hostJob[h] # j
        BY <1>1, <2>1 DEF Receive, Untold
      <3> QED BY <1>1, <2>1, <3>1 DEF Receive, Untold, TypeOK, RedisOK, HostsOK
    <2>2. CASE ~Receive(h)
      BY <1>1, <1>3, <2>2 DEF HostStep, CheckDepth, Overloaded, Enqueue, HostCommandFails,
         WaitTimeout, SeveredWait, ReadOutput, ReadUnusableOutput, Blocked, redisVars, Untold
    <2> QED BY <2>1, <2>2
  <1>4. ASSUME NEW h \in Hosts, NEW k \in Jobs, NEW d \in Dirs, Dispatch(h, k, d) PROVE Untold(j)'
    BY <1>1, <1>4 DEF Dispatch, Untold, redisVars
  <1>5. CASE HandlerCrash \/ WorkerCrash \/ PollThrows \/ RedisRestart \/ UNCHANGED vars
    BY <1>1, <1>5 DEF HandlerCrash, WorkerCrash, PollThrows, ProcessRestarts, RedisRestart, vars,
       redisVars, hostVars, Untold
  <1> QED BY <1>2, <1>3, <1>4, <1>5 DEF Next

\* Every file is written by a job of its directory.
LEMMA NextKeepsWrittenByUser ==
  ASSUME TypeOK, WrittenByUser, [Next]_vars
  PROVE  WrittenByUser'
  <1>1. CASE output' = output /\ dirOf' = dirOf
    BY <1>1 DEF WrittenByUser
  <1>2. ASSUME NEW j \in Jobs, Issued(j), dirOf' = dirOf,
               NEW st, output' = [output EXCEPT ![dirOf[j]] = [job |-> j, status |-> st]]
        PROVE  WrittenByUser'
    BY <1>2 DEF WrittenByUser, TypeOK, FilesOK
  <1>3. ASSUME NEW s \in Slots, SlotStep(s) PROVE WrittenByUser'
    <2>1. dirOf' = dirOf
      BY <1>3, SlotStepIs
    <2>2. CASE BeginWrite(s) \/ EndWrite(s)
      <3>1. Issued(slotJob[s]) /\ slotJob[s] \in Jobs
        BY <2>2 DEF BeginWrite, EndWrite, TypeOK, IssuedOK, Issued
      <3> QED BY <1>2, <2>1, <2>2, <3>1 DEF BeginWrite, EndWrite, SlotDir
    <2> QED BY <1>1, <1>3, <2>1, <2>2 DEF SlotStep, Pop, TakeRunLock, RefusedByRunLock, Generate,
               PushResult, ExpireResult, StepThrows, fileVars
  <1>4. ASSUME NEW h \in Hosts, HostStep(h) PROVE WrittenByUser'
    <2>1. ASSUME NEW reason, Blocked(h, reason), hostPc[h] # "idle" PROVE WrittenByUser'
      <3>1. Issued(hostJob[h]) /\ hostJob[h] \in Jobs
        BY <2>1 DEF TypeOK, IssuedOK, Issued
      <3> QED BY <1>2, <2>1, <3>1 DEF Blocked, HostDir
    <2> QED BY <1>1, <1>4, <2>1 DEF HostStep, CheckDepth, Overloaded, Enqueue, HostCommandFails,
               Receive, WaitTimeout, SeveredWait, ReadOutput, ReadUnusableOutput, fileVars
  <1>5. ASSUME NEW h \in Hosts, NEW k \in Jobs, NEW d \in Dirs, Dispatch(h, k, d) PROVE WrittenByUser'
    <2>1. /\ output' = output /\ dirOf' = [dirOf EXCEPT ![k] = d] /\ dirOf[k] = NoDir
      BY <1>5 DEF Dispatch
    <2> QED BY <2>1, QueueAssumption DEF WrittenByUser, TypeOK, HostsOK, QueueAssumption
  <1>6. CASE HandlerCrash \/ WorkerCrash \/ PollThrows \/ RedisRestart \/ UNCHANGED vars
    BY <1>1, <1>6 DEF HandlerCrash, WorkerCrash, PollThrows, ProcessRestarts, RedisRestart, vars,
       hostVars, fileVars
  <1> QED BY <1>3, <1>4, <1>5, <1>6 DEF Next

\* What was completed stays so, unless its slot is only now about to report.
LEMMA SlotKeepsCompleted ==
  ASSUME TypeOK, NEW s \in Slots, SlotStep(s), NEW j \in Jobs, AllCompleted(j),
         ~(EndWrite(s) /\ slotJob[s] = j)
  PROVE  AllCompleted(j)'
  <1>1. ASSUME NEW t \in Slots, slotPc'[t] = "reply", slotJob'[t] = j
        PROVE  slotStatus'[t] = "completed"
    <2>1. CASE t # s
      BY <1>1, <2>1, SlotStepIs DEF AllCompleted
    <2>2. CASE t = s
      BY <1>1, <2>2 DEF SlotStep, Pop, TakeRunLock, RefusedByRunLock, Generate,
         BeginWrite, EndWrite, PushResult, ExpireResult, StepThrows, SlotGoes, SlotSets, TypeOK, SlotsOK
    <2> QED BY <2>1, <2>2
  <1>2. \A i \in 1..Len(results'[j]) : results'[j][i] = "completed"
    <2>1. CASE results'[j] = results[j]
      BY <2>1 DEF AllCompleted
    <2>2. CASE /\ slotPc[s] = "reply" /\ slotJob[s] = j
               /\ results' = [results EXCEPT ![slotJob[s]] = Append(@, slotStatus[s])]
      <3>1. results[j] \in Seq(WorkerStatuses) /\ results'[j] = Append(results[j], slotStatus[s])
        BY <2>2 DEF TypeOK, RedisOK
      <3>2. slotStatus[s] = "completed" /\ slotStatus[s] \in WorkerStatuses
        BY <2>2 DEF AllCompleted, TypeOK, SlotsOK
      <3>3. /\ Len(results'[j]) = Len(results[j]) + 1 /\ Len(results[j]) \in Nat
            /\ \A i \in 1..Len(results[j]) : results'[j][i] = results[j][i]
            /\ results'[j][Len(results[j]) + 1] = slotStatus[s]
        BY <3>1, <3>2, AppendProperties, LenProperties
      <3> QED BY <3>2, <3>3 DEF AllCompleted
    <2>3. CASE PushResult(s) \/ StepThrows(s)
      BY <2>1, <2>2, <2>3 DEF PushResult, StepThrows, TypeOK, RedisOK
    <2> QED BY <2>1, <2>3 DEF SlotStep, Pop, TakeRunLock, RefusedByRunLock, Generate,
         BeginWrite, EndWrite, ExpireResult, redisVars
  <1> QED BY <1>1, <1>2, SlotStepIs DEF AllCompleted

LEMMA HostKeepsCompleted ==
  ASSUME TypeOK, NEW h \in Hosts, HostStep(h), NEW j \in Jobs, AllCompleted(j)
  PROVE  AllCompleted(j)'
  <1>1. slotPc' = slotPc /\ slotJob' = slotJob /\ slotStatus' = slotStatus
    BY DEF HostStep, CheckDepth, Overloaded, Enqueue, HostCommandFails, Receive, WaitTimeout,
       SeveredWait, ReadOutput, ReadUnusableOutput, slotVars
  <1>2. CASE results' = results /\ heard' = heard
    BY <1>1, <1>2 DEF AllCompleted
  <1>3. CASE Receive(h)
    <2>1. hostJob[h] \in Jobs /\ results[hostJob[h]] \in Seq(WorkerStatuses)
      BY <1>3 DEF Receive, TypeOK, IssuedOK, Issued, RedisOK
    <2>2. /\ results' = [results EXCEPT ![hostJob[h]] = Tail(@)]
          /\ heard' = [heard EXCEPT ![hostJob[h]] = Head(results[hostJob[h]])]
          /\ results[hostJob[h]] # <<>>
      BY <1>3 DEF Receive
    <2>3. CASE hostJob[h] # j
      <3>1. results'[j] = results[j] /\ heard'[j] = heard[j]
        BY <2>2, <2>3 DEF TypeOK, RedisOK, HostsOK
      <3> QED BY <1>1, <3>1 DEF AllCompleted
    <2>4. CASE hostJob[h] = j
      <3>1. results'[j] = Tail(results[j]) /\ heard'[j] = Head(results[j])
        BY <2>2, <2>4 DEF TypeOK, RedisOK, HostsOK
      <3>2. /\ Len(Tail(results[j])) = Len(results[j]) - 1 /\ Len(results[j]) \in Nat \ {0}
            /\ \A i \in 1..Len(Tail(results[j])) : Tail(results[j])[i] = results[j][i + 1]
            /\ Head(results[j]) = results[j][1]
        BY <2>1, <2>2, <2>4, HeadTailProperties, EmptySeq, LenProperties
      <3>3. /\ 1 \in 1..Len(results[j])
            /\ \A i \in 1..Len(Tail(results[j])) : i + 1 \in 1..Len(results[j])
        BY <3>2
      <3> QED BY <1>1, <3>1, <3>2, <3>3 DEF AllCompleted
    <2> QED BY <2>3, <2>4
  <1> QED BY <1>2, <1>3 DEF HostStep, CheckDepth, Overloaded, Enqueue, HostCommandFails,
             WaitTimeout, SeveredWait, ReadOutput, ReadUnusableOutput, Blocked, redisVars

\* A file says "completed" only as its slot is about to report it.
LEMMA NextKeepsReported ==
  ASSUME TypeOK, JobOnce, ToldLate, WrittenByUser, ReportedAsWritten, [Next]_vars
  PROVE  ReportedAsWritten'
  <1> SUFFICES ASSUME NEW d \in Dirs, output'[d].status = "completed",
                      NEW j, j = output'[d].job
               PROVE  AllCompleted(j)'
    BY DEF ReportedAsWritten, AllCompleted
  <1>1. output'[d] = output[d] => j \in Jobs /\ dirOf[j] = d /\ AllCompleted(j)
    BY DEF WrittenByUser, ReportedAsWritten
  <1>2. ASSUME NEW s \in Slots, SlotStep(s) PROVE AllCompleted(j)'
    <2>1. slotPc[s] \in {"generated", "writing"} => Issued(slotJob[s]) /\ slotJob[s] \in Jobs
                                                  /\ SlotDir(s) \in Dirs
      BY QueueAssumption DEF TypeOK, IssuedOK, Issued, HostsOK, SlotDir, QueueAssumption
    <2>2. CASE EndWrite(s) /\ d = SlotDir(s)
      <3>1. /\ j = slotJob[s] /\ slotStatus[s] = "completed" /\ slotPc[s] = "writing"
            /\ results' = results /\ slotJob' = slotJob /\ slotStatus' = slotStatus
        BY <2>1, <2>2 DEF EndWrite, TypeOK, FilesOK, redisVars
      <3>2. Untold(j)
        BY <2>1, <3>1 DEF ToldLate, Early, InWork
      <3>3. \A t \in Slots : t # s /\ slotPc[t] = "reply" => slotJob[t] # j
        BY <3>1 DEF JobOnce, TakenOnce, Busy
      <3>4. \A t \in Slots : slotPc'[t] = "reply" => t = s \/ slotPc[t] = "reply"
        BY <1>2, SlotStepIs
      <3> QED BY <1>2, <3>1, <3>2, <3>3, <3>4, EmptySeq, SlotStepIs DEF AllCompleted, Untold
    <2>3. CASE ~(EndWrite(s) /\ d = SlotDir(s))
      <3>1. output'[d] = output[d]
        BY <1>2, <2>1, <2>3 DEF SlotStep, Pop, TakeRunLock, RefusedByRunLock, Generate, BeginWrite,
           EndWrite, PushResult, ExpireResult, StepThrows, fileVars, TypeOK, FilesOK
      <3>2. ~(EndWrite(s) /\ slotJob[s] = j)
        BY <1>1, <2>3, <3>1 DEF SlotDir
      <3> QED BY <1>1, <1>2, <3>1, <3>2, SlotKeepsCompleted
    <2> QED BY <2>2, <2>3
  <1>3. ASSUME NEW h \in Hosts, HostStep(h) PROVE AllCompleted(j)'
    <2>1. hostPc[h] # "idle" => Issued(hostJob[h]) /\ hostJob[h] \in Jobs /\ HostDir(h) \in Dirs
      BY QueueAssumption DEF TypeOK, IssuedOK, Issued, HostsOK, HostDir, QueueAssumption
    <2>2. \/ output' = output
          \/ /\ hostPc[h] # "idle"
             /\ \E st \in HostStatuses :
                   output' = [output EXCEPT ![HostDir(h)] = [job |-> hostJob[h], status |-> st]]
      BY <1>3 DEF HostStep, CheckDepth, Overloaded, Enqueue, HostCommandFails,
         Receive, WaitTimeout, SeveredWait, ReadOutput, ReadUnusableOutput, fileVars, Blocked, HostStatuses
    <2>3. output'[d] = output[d]
      BY <2>1, <2>2 DEF HostStatuses, TypeOK, FilesOK
    <2> QED BY <1>1, <1>3, <2>3, HostKeepsCompleted
  <1>4. CASE output' = output /\ slotVars' = slotVars /\ results' = results /\ heard' = heard
    BY <1>1, <1>4 DEF AllCompleted, slotVars
  <1>5. ASSUME NEW h \in Hosts, NEW k \in Jobs, NEW e \in Dirs, Dispatch(h, k, e) PROVE AllCompleted(j)'
    BY <1>4, <1>5 DEF Dispatch, redisVars
  <1>6. CASE WorkerCrash \/ PollThrows \/ RedisRestart
    <2>1. output' = output /\ heard' = heard /\ \A s \in Slots : slotPc'[s] # "reply"
                 \/ (slotPc'[s] = slotPc[s] /\ slotJob'[s] = slotJob[s] /\ slotStatus'[s] = slotStatus[s])
      BY <1>6 DEF WorkerCrash, PollThrows, ProcessRestarts, RedisRestart, hostVars, fileVars
    <2>2. results' = results \/ results' = [k \in Jobs |-> <<>>]
      BY <1>6 DEF WorkerCrash, PollThrows, ProcessRestarts, RedisRestart, redisVars
    <2> QED BY <1>1, <2>1, <2>2, EmptySeq DEF AllCompleted
  <1>7. CASE HandlerCrash \/ UNCHANGED vars
    BY <1>4, <1>7 DEF HandlerCrash, vars, redisVars, hostVars, fileVars
  <1> QED BY <1>2, <1>3, <1>5, <1>6, <1>7 DEF Next

LEMMA NextKeepsHeard ==
  ASSUME TypeOK, JobOnce, HeardSomething, [Next]_vars
  PROVE  HeardSomething'
  <1>1. ASSUME NEW h \in Hosts, HostStep(h) PROVE HeardSomething'
    <2>1. CASE Receive(h)
      <3>1. hostJob[h] \in Jobs /\ Head(results[hostJob[h]]) \in WorkerStatuses
        BY <2>1, HeadTailProperties DEF Receive, TypeOK, IssuedOK, Issued, RedisOK
      <3>2. Head(results[hostJob[h]]) # "none"
        BY <3>1, QueueAssumption DEF WorkerStatuses, QueueAssumption
      <3>3. /\ hostJob' = hostJob /\ hostPc' = [hostPc EXCEPT ![h] = "got"]
            /\ heard' = [heard EXCEPT ![hostJob[h]] = Head(results[hostJob[h]])]
        BY <2>1 DEF Receive
      <3> QED BY <3>1, <3>2, <3>3 DEF HeardSomething, TypeOK, HostsOK
    <2>2. CASE ~Receive(h)
      <3>1. heard' = heard /\ hostJob' = hostJob
            /\ \E stage : stage # "got" /\ hostPc' = [hostPc EXCEPT ![h] = stage]
        BY <1>1, <2>2 DEF HostStep, CheckDepth, Overloaded, Enqueue, HostCommandFails,
           WaitTimeout, SeveredWait, ReadOutput, ReadUnusableOutput, Blocked
      <3> QED BY <3>1 DEF HeardSomething, TypeOK, HostsOK
    <2> QED BY <2>1, <2>2
  <1>2. ASSUME NEW h \in Hosts, NEW k \in Jobs, NEW d \in Dirs, Dispatch(h, k, d) PROVE HeardSomething'
    BY <1>2 DEF Dispatch, HeardSomething, TypeOK, HostsOK
  <1>3. ASSUME NEW s \in Slots, SlotStep(s) PROVE HeardSomething'
    BY <1>3, SlotStepIs DEF HeardSomething
  <1>4. CASE HandlerCrash \/ WorkerCrash \/ PollThrows \/ RedisRestart \/ UNCHANGED vars
    BY <1>4 DEF HandlerCrash, WorkerCrash, PollThrows, ProcessRestarts, RedisRestart, vars,
       hostVars, HeardSomething
  <1> QED BY <1>1, <1>2, <1>3, <1>4 DEF Next

\* The file a call answers with was written by a job of its directory, and if that
\* job is its own, the call heard the same.
LEMMA NextKeepsAnswers ==
  ASSUME TypeOK, JobOnce, AnswerInv, OwnInv, [Next]_vars
  PROVE  AnswersAsHeard'
  <1>0. \A j \in Jobs : answer[j] # NoFile => Issued(j)
    BY DEF AnswerInv
  <1>1. CASE answer' = answer /\ dirOf' = dirOf /\ heard' = heard
    BY <1>1 DEF OwnInv, AnswersAsHeard
  <1>2. ASSUME NEW h \in Hosts, HostStep(h) PROVE AnswersAsHeard'
    <2> DEFINE j == hostJob[h]
    <2>1. /\ hostPc[h] # "idle" /\ Issued(j) /\ j \in Jobs /\ HostDir(h) \in Dirs /\ dirOf' = dirOf
          /\ answer[j] = NoFile
      BY <1>2, QueueAssumption DEF HostStep, CheckDepth, Overloaded, Enqueue, HostCommandFails, Receive,
         WaitTimeout, SeveredWait, ReadOutput, ReadUnusableOutput, Blocked, TypeOK, IssuedOK, Issued,
         HostsOK, HostDir, QueueAssumption, AnswerInv
    <2>2. CASE Receive(h)
      <3>1. answer' = answer /\ \A k \in Jobs : k # j => heard'[k] = heard[k]
        BY <2>1, <2>2 DEF Receive, TypeOK, HostsOK
      <3> QED BY <2>1, <3>1 DEF OwnInv, AnswersAsHeard
    <2>3. ASSUME NEW file, heard' = heard, answer' = [answer EXCEPT ![j] = file],
                 file.job \in Jobs /\ dirOf[file.job] = HostDir(h),
                 file.status = "completed" /\ file.job = j => heard[j] = "completed"
          PROVE  AnswersAsHeard'
      BY <2>1, <2>3 DEF OwnInv, AnswersAsHeard, HostDir, TypeOK, HostsOK
    <2>4. ASSUME NEW st \in HostStatuses, Blocked(h, st) PROVE AnswersAsHeard'
      <3> DEFINE file == [job |-> j, status |-> st]
      <3>1. answer' = [answer EXCEPT ![j] = file] /\ heard' = heard
        BY <2>4 DEF Blocked
      <3>2. file.job = j /\ file.status # "completed" /\ dirOf[j] = HostDir(h)
        BY DEF HostStatuses, HostDir
      <3> HIDE DEF file
      <3> QED BY <2>1, <2>3, <3>1, <3>2
    <2>5. CASE ReadOutput(h)
      <3> DEFINE file == output[HostDir(h)]
      <3>1. /\ hostPc[h] = "got" /\ file.status # "missing" /\ heard' = heard
            /\ answer' = [answer EXCEPT ![j] = file]
        BY <2>5 DEF ReadOutput
      <3>2. file.job \in Jobs /\ dirOf[file.job] = HostDir(h)
        BY <2>1, <3>1 DEF OwnInv, WrittenByUser
      <3>3. file.status = "completed" /\ file.job = j => heard[j] \in {"none", "completed"}
        BY <2>1 DEF OwnInv, ReportedAsWritten, AllCompleted
      <3>4. heard[j] # "none"
        BY <3>1 DEF OwnInv, HeardSomething
      <3> HIDE DEF file
      <3> QED BY <2>3, <3>1, <3>2, <3>3, <3>4
    <2>6. CASE answer' = answer /\ heard' = heard
      BY <1>1, <2>1, <2>6
    <2> QED BY <1>2, <2>2, <2>4, <2>5, <2>6 DEF HostStep, CheckDepth, Overloaded, Enqueue,
          HostCommandFails, WaitTimeout, SeveredWait, ReadUnusableOutput, HostStatuses
  <1>3. ASSUME NEW h \in Hosts, NEW k \in Jobs, NEW d \in Dirs, Dispatch(h, k, d) PROVE AnswersAsHeard'
    <2>1. /\ answer' = answer /\ heard' = heard /\ dirOf' = [dirOf EXCEPT ![k] = d] /\ dirOf[k] = NoDir
      BY <1>3 DEF Dispatch
    <2> QED BY <1>0, <2>1 DEF OwnInv, AnswersAsHeard, Issued, TypeOK, HostsOK
  <1>4. ASSUME NEW s \in Slots, SlotStep(s) PROVE AnswersAsHeard'
    BY <1>1, <1>4, SlotStepIs
  <1>5. CASE HandlerCrash \/ WorkerCrash \/ PollThrows \/ RedisRestart \/ UNCHANGED vars
    BY <1>1, <1>5 DEF HandlerCrash, WorkerCrash, PollThrows, ProcessRestarts, RedisRestart, vars,
       hostVars
  <1> QED BY <1>2, <1>3, <1>4, <1>5 DEF Next

LEMMA NextKeepsOwnInv ==
  TypeOK /\ JobOnce /\ AnswerInv /\ OwnInv /\ [Next]_vars => OwnInv'
  BY NextKeepsToldLate, NextKeepsWrittenByUser, NextKeepsReported, NextKeepsHeard, NextKeepsAnswers
     DEF OwnInv

LEMMA OwnInvOwn == TypeOK /\ OwnInv => AnswerIsOwn
  BY DEF OwnInv, AnswersAsHeard, AnswerIsOwn, OnlyCallIn

\* In a directory used once, whatever fails or restarts, the answer of a call is
\* its own: no other job's file, and "completed" only if its worker said so.
THEOREM AnswersOwn == Spec => []AnswerIsOwn
  BY InitTypeOK, NextKeepsType, InitJobOnce, NextKeepsJobOnce, JobOnceHosts, InitAnswerInv,
     NextKeepsAnswerInv, InitOwnInv, NextKeepsOwnInv, OwnInvOwn, PTL DEF Spec
=============================================================================
