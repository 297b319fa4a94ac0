----------------------- MODULE DocumentWorkflow_proofs -----------------------
(***************************************************************************)
(* Safety of the checkpointed workflow for any number of documents,        *)
(* sections, workers, models and executions, any damage and any crashes.   *)
(***************************************************************************)
EXTENDS DocumentWorkflow, TLAPS

-----------------------------------------------------------------------------
(* The inductive invariant.                                                *)

RequestOK ==
    /\ sc.docs \in Nat \ {0} /\ sc.sections \in Nat \ {0}
    /\ Deps \in [Docs -> SUBSET Docs]

\* generateOne: what each document is at.
WorkOK ==
    /\ result \in [Docs -> {"none", "completed", "needs_fix", "blocked"}]
    /\ pc \in [Docs -> {"waiting", "draft", "repair", "returned"}]
    /\ call \in [Docs -> {"none", "attempt", "model"}]
    /\ unit \in [Docs -> Nat]
    /\ \A d \in Docs : pc[d] = "draft" => unit[d] \in DraftUnits

\* Every text in memory, and every text the checkpoint knows the hash of, is
\* made of sections.
VerifiedText == SUBSET Sections
VerifiedUnit == [state : {"none", "failed", "completed"}, covers : VerifiedText, intact : BOOLEAN]
VerifiedAssembly == [parts : Seq(VerifiedText), intact : BOOLEAN]
TextOK ==
    /\ parts \in [Docs -> Seq(VerifiedText)]
    /\ assembly \in [Docs -> VerifiedAssembly]
    /\ sectionUnits \in [Docs -> [DraftUnits -> VerifiedUnit]]

\* A document has a result once it has returned, and is worked on only when
\* those it depends on are completed.
Stage(d) ==
    /\ pc[d] # "returned" => result[d] = "none"
    /\ result[d] = "completed" => parts[d] # <<>> /\ Missing(parts[d]) = {}
    /\ call[d] # "none" => Working(d)
    /\ pc[d] = "repair" /\ call[d] # "none" => unit[d] \in Sections
StagesOK ==
    \A d \in Docs : Stage(d) /\ (Working(d) => \A u \in Deps[d] : result[u] = "completed")

\* The part of CheckpointConsistent about one document.
Recorded(d) ==
    /\ docStatus[d] = "completed" => assembly[d].parts # <<>> /\ Missing(assembly[d].parts) = {}
    /\ docStatus[d] = "needs_fix" => docMissing[d] = Missing(assembly[d].parts) /\ docMissing[d] # {}
    /\ result[d] \in {"completed", "needs_fix"} =>
         docStatus[d] = result[d] /\ assembly[d] = [parts |-> parts[d], intact |-> TRUE]

RecordsOK ==
    /\ docStatus \in [Docs -> {"none", "running", "completed", "needs_fix", "blocked"}]
    /\ docMissing \in [Docs -> SUBSET Sections]
    /\ \A d \in Docs : Recorded(d)

\* The model is only asked for a unit that cannot be reused.
AskedForMissing ==
    \A d \in Docs : pc[d] = "draft" /\ call[d] # "none" => ~Reusable(d, unit[d])

IInv == RequestOK /\ WorkOK /\ TextOK /\ StagesOK /\ RecordsOK /\ AskedForMissing

observed == <<sc, result, pc, call, unit, parts, docVars, sectionUnits>>

-----------------------------------------------------------------------------
(* The request and what is derived from it.                                *)

LEMMA RequestStays ==
  ASSUME sc' = sc
  PROVE  /\ Docs' = Docs /\ Sections' = Sections /\ Deps' = Deps /\ DraftUnits' = DraftUnits
         /\ VerifiedText' = VerifiedText /\ VerifiedUnit' = VerifiedUnit
         /\ VerifiedAssembly' = VerifiedAssembly
         /\ RequestOK => RequestOK'
  BY DEF Docs, Sections, Deps, DraftUnits, NBatches, FullUnit, VerifiedText, VerifiedUnit,
         VerifiedAssembly, RequestOK

LEMMA RequestFits == ASSUME sc \in Scenarios PROVE RequestOK
  BY WorkflowAssumption DEF WorkflowAssumption, Scenario, RequestOK, Deps, Docs

\* There is at least one batch, and unit 0 is the full document.
LEMMA CeilingIsPositive ==
  ASSUME NEW n \in Nat \ {0}, NEW p \in Nat \ {0}
  PROVE  (n + p - 1) \div p \in Nat \ {0}
  OBVIOUS

LEMMA UnitsExist == ASSUME RequestOK
  PROVE  /\ NBatches \in Nat \ {0}
         /\ 0 \in DraftUnits /\ 1 \in DraftUnits
         /\ \A u \in 1..(NBatches - 1) : u + 1 \in DraftUnits
  <1>1. PerBatch \in Nat \ {0}
    BY WorkflowAssumption DEF WorkflowAssumption
  <1>2. NBatches \in Nat \ {0}
    BY <1>1, CeilingIsPositive DEF RequestOK, NBatches
  <1> QED BY <1>2 DEF DraftUnits, FullUnit

LEMMA NotASection == Unverified \notin Sections
  BY DEF Unverified, Sections

LEMMA MissingAreSections == ASSUME NEW ps PROVE Missing(ps) \subseteq Sections
  BY DEF Missing, MissingFrom

LEMMA UnitSections == ASSUME NEW u PROVE SectionsOf(u) \subseteq Sections
  BY DEF SectionsOf, BatchSections

\* A section unit, or an assembly, is replaced by another one.
LEMMA UnitReplaced ==
  ASSUME TextOK, NEW d \in Docs, NEW u \in DraftUnits, NEW x \in VerifiedUnit
  PROVE  /\ [sectionUnits EXCEPT ![d][u] = x] \in [Docs -> [DraftUnits -> VerifiedUnit]]
         /\ \A e \in Docs, v \in DraftUnits :
               [sectionUnits EXCEPT ![d][u] = x][e][v] =
                  IF e = d /\ v = u THEN x ELSE sectionUnits[e][v]
  BY DEF TextOK

LEMMA DamagedUnit ==
  ASSUME TextOK, NEW d \in Docs, NEW u \in DraftUnits
  PROVE  [sectionUnits[d][u] EXCEPT !.intact = FALSE] \in VerifiedUnit
  <1>1. sectionUnits[d][u] \in VerifiedUnit
    BY DEF TextOK
  <1> QED BY <1>1 DEF VerifiedUnit

LEMMA DamagedAssembly ==
  ASSUME TextOK, NEW d \in Docs
  PROVE  /\ [assembly[d] EXCEPT !.intact = FALSE] \in VerifiedAssembly
         /\ [assembly[d] EXCEPT !.intact = FALSE].parts = assembly[d].parts
  <1>1. assembly[d] \in VerifiedAssembly
    BY DEF TextOK
  <1> QED BY <1>1 DEF VerifiedAssembly

LEMMA PartAppended ==
  ASSUME TextOK, NEW d \in Docs, NEW text \in VerifiedText
  PROVE  [parts EXCEPT ![d] = Append(@, text)] \in [Docs -> Seq(VerifiedText)]
  <1>1. parts[d] \in Seq(VerifiedText)
    BY DEF TextOK
  <1>2. Append(parts[d], text) \in Seq(VerifiedText)
    BY <1>1
  <1> QED BY <1>2 DEF TextOK

\* A step of one document leaves the others where they are, and one that
\* returned "completed" stays so.
LEMMA OthersStay ==
  ASSUME IInv, sc' = sc, NEW d \in Docs,
         \A e \in Docs \ {d} :
            /\ result'[e] = result[e] /\ pc'[e] = pc[e] /\ call'[e] = call[e]
            /\ unit'[e] = unit[e] /\ parts'[e] = parts[e],
         result[d] # "completed" \/ result'[d] = result[d],
         Stage(d)',
         Working(d)' => Working(d) \/ \A u \in Deps[d] : result[u] = "completed"
  PROVE  StagesOK'
  <1>1. Docs' = Docs /\ Deps' = Deps /\ Sections' = Sections
    BY RequestStays
  <1>2. \A u \in Docs : result[u] = "completed" => result'[u] = "completed"
    OBVIOUS
  <1>3. ASSUME NEW e \in Docs PROVE Stage(e)'
    <2>1. CASE e = d
      BY <2>1
    <2>2. CASE e # d
      BY <1>1, <2>2 DEF IInv, StagesOK, Stage, Working, Missing
    <2> QED BY <2>1, <2>2
  <1>4. ASSUME NEW e \in Docs, Working(e)', NEW u \in Deps[e] PROVE result'[u] = "completed"
    <2>1. Working(e) \/ \A v \in Deps[e] : result[v] = "completed"
      BY <1>4 DEF Working
    <2>2. u \in Docs
      BY DEF IInv, RequestOK
    <2> QED BY <1>2, <2>1, <2>2 DEF IInv, StagesOK
  <1> QED BY <1>1, <1>3, <1>4 DEF StagesOK

LEMMA OthersStayRecorded ==
  ASSUME IInv, sc' = sc, NEW d \in Docs,
         \A e \in Docs \ {d} :
            /\ result'[e] = result[e] /\ parts'[e] = parts[e] /\ assembly'[e] = assembly[e]
            /\ docStatus'[e] = docStatus[e] /\ docMissing'[e] = docMissing[e],
         docStatus' \in [Docs -> {"none", "running", "completed", "needs_fix", "blocked"}],
         docMissing' \in [Docs -> SUBSET Sections],
         Recorded(d)'
  PROVE  RecordsOK'
  <1>1. Docs' = Docs /\ Sections' = Sections
    BY RequestStays
  <1>2. ASSUME NEW e \in Docs PROVE Recorded(e)'
    <2>1. CASE e = d
      BY <2>1
    <2>2. CASE e # d
      BY <1>1, <2>2 DEF IInv, RecordsOK, Recorded, Missing
    <2> QED BY <2>1, <2>2
  <1> QED BY <1>1, <1>2 DEF RecordsOK

-----------------------------------------------------------------------------
(* Preservation.                                                           *)

LEMMA InitIInv == Init => IInv
  <1> SUFFICES ASSUME Init PROVE IInv
    OBVIOUS
  <1>1. RequestOK
    BY RequestFits DEF Init
  <1>2. WorkOK
    BY DEF Init, WorkOK
  <1>3. TextOK
    BY DEF Init, TextOK, VerifiedAssembly, VerifiedUnit, VerifiedText, NoAssembly, NoUnit
  <1>4. StagesOK
    BY DEF Init, StagesOK, Stage, Working
  <1>5. RecordsOK
    BY DEF Init, RecordsOK, Recorded
  <1>6. AskedForMissing
    BY DEF Init, AskedForMissing
  <1> QED BY <1>1, <1>2, <1>3, <1>4, <1>5, <1>6 DEF IInv

LEMMA Unobserved == ASSUME IInv, UNCHANGED observed PROVE IInv'
  <1> USE DEF observed, docVars
  <1>1. RequestOK'
    BY RequestStays DEF IInv
  <1>2. WorkOK'
    BY RequestStays DEF IInv, WorkOK
  <1>3. TextOK'
    BY RequestStays DEF IInv, TextOK
  <1>4. StagesOK'
    BY RequestStays DEF IInv, StagesOK, Stage, Working, Missing
  <1>5. RecordsOK'
    BY RequestStays DEF IInv, RecordsOK, Recorded, Missing
  <1>6. AskedForMissing'
    BY RequestStays DEF IInv, AskedForMissing, Reusable
  <1> QED BY <1>1, <1>2, <1>3, <1>4, <1>5, <1>6 DEF IInv

\* A unit or an assembly loses its hash, the rest stays.
LEMMA DamageKeeps ==
  ASSUME IInv, UNCHANGED <<sc, result, pc, call, unit, parts, docVars>>,
         NEW d \in Docs, NEW u \in DraftUnits,
         sectionUnits' = [sectionUnits EXCEPT ![d][u].intact = FALSE]
  PROVE  IInv'
  <1> USE DEF docVars
  <1>1. PICK x \in VerifiedUnit :
          x = [sectionUnits[d][u] EXCEPT !.intact = FALSE]
    BY DamagedUnit DEF IInv
  <1>2. sectionUnits' = [sectionUnits EXCEPT ![d][u] = x]
    BY <1>1
  <1>3. x.intact = FALSE
    BY <1>1, DamagedUnit DEF IInv, TextOK, VerifiedUnit
  <1>4. RequestOK'
    BY RequestStays DEF IInv
  <1>5. WorkOK'
    BY RequestStays DEF IInv, WorkOK
  <1>6. TextOK'
    <2>1. sectionUnits' \in [Docs -> [DraftUnits -> VerifiedUnit]]
      <3>1. TextOK
        BY DEF IInv
      <3>2. [sectionUnits EXCEPT ![d][u] = x] \in [Docs -> [DraftUnits -> VerifiedUnit]]
        BY <3>1, UnitReplaced
      <3> QED BY <3>2, <1>2, Zenon
    <2> QED BY <2>1, RequestStays DEF IInv, TextOK
  <1>7. StagesOK'
    BY RequestStays DEF IInv, StagesOK, Stage, Working, Missing
  <1>8. RecordsOK'
    BY RequestStays DEF IInv, RecordsOK, Recorded, Missing
  <1>9. AskedForMissing'
    BY <1>2, <1>3, UnitReplaced, RequestStays DEF IInv, AskedForMissing, Reusable, WorkOK
  <1> QED BY <1>4, <1>5, <1>6, <1>7, <1>8, <1>9 DEF IInv

\* Everything in memory is gone; files may have lost their hash.
LEMMA FreshWorkKeeps ==
  ASSUME IInv, FreshWork, UNCHANGED <<sc, docStatus, docMissing>>,
         TextOK', \A d \in Docs : assembly'[d].parts = assembly[d].parts
  PROVE  IInv'
  <1>1. RequestOK'
    BY RequestStays DEF IInv
  <1>2. WorkOK'
    BY RequestStays DEF IInv, WorkOK, FreshWork
  <1>4. StagesOK'
    BY RequestStays DEF IInv, StagesOK, Stage, Working, FreshWork
  <1>5. RecordsOK'
    BY RequestStays DEF IInv, RecordsOK, Recorded, Missing, FreshWork
  <1>6. AskedForMissing'
    BY RequestStays DEF IInv, AskedForMissing, FreshWork
  <1> QED BY <1>1, <1>2, <1>4, <1>5, <1>6 DEF IInv

\* A document returns without having been written (to the end).
LEMMA ReturnsBlockedKeeps ==
  ASSUME IInv, NEW d \in Docs, pc[d] # "returned", call[d] = "none", Returns(d, "blocked"),
         UNCHANGED <<sc, call, parts, docMissing, assembly, sectionUnits>>,
         \/ docStatus' = docStatus
         \/ docStatus' = [docStatus EXCEPT ![d] = "running"]
  PROVE  IInv'
  <1>1. RequestOK'
    BY RequestStays DEF IInv
  <1>2. WorkOK'
    BY RequestStays DEF IInv, WorkOK, Returns
  <1>3. TextOK'
    BY RequestStays DEF IInv, TextOK
  <1>4. StagesOK'
    <2>1. \A e \in Docs \ {d} :
            /\ result'[e] = result[e] /\ pc'[e] = pc[e] /\ call'[e] = call[e]
            /\ unit'[e] = unit[e] /\ parts'[e] = parts[e]
      BY DEF IInv, WorkOK, TextOK, Returns
    <2>2. Stage(d)'
      BY RequestStays DEF IInv, WorkOK, TextOK, StagesOK, Stage, Working, Missing, Returns
    <2>3. result[d] # "completed" \/ result'[d] = result[d]
      BY DEF IInv, StagesOK, Stage, Working
    <2>4. Working(d)' => Working(d) \/ \A v \in Deps[d] : result[v] = "completed"
      BY DEF IInv, WorkOK, Working, Returns
    <2> QED BY <2>1, <2>2, <2>3, <2>4, OthersStay
  <1>5. RecordsOK'
    <2>1. \A e \in Docs \ {d} :
            /\ result'[e] = result[e] /\ parts'[e] = parts[e] /\ assembly'[e] = assembly[e]
            /\ docStatus'[e] = docStatus[e] /\ docMissing'[e] = docMissing[e]
      BY DEF IInv, WorkOK, TextOK, RecordsOK, Returns
    <2>2. Recorded(d)'
      <3>1. result'[d] = "blocked"
        BY DEF IInv, WorkOK, Returns
      <3>2. docStatus'[d] \in {docStatus[d], "running"}
        BY DEF IInv, RecordsOK
      <3>3. Recorded(d)
        BY DEF IInv, RecordsOK
      <3> QED BY <3>1, <3>2, <3>3, RequestStays DEF Recorded, Missing
    <2>3. docStatus' \in [Docs -> {"none", "running", "completed", "needs_fix", "blocked"}]
          /\ docMissing' \in [Docs -> SUBSET Sections]
      BY DEF IInv, RecordsOK, Returns
    <2> QED BY <2>1, <2>2, <2>3, OthersStayRecorded
  <1>6. AskedForMissing'
    BY RequestStays DEF IInv, AskedForMissing, WorkOK, Reusable, Returns
  <1> QED BY <1>1, <1>2, <1>3, <1>4, <1>5, <1>6 DEF IInv

LEMMA BlockOnUpstreamKeeps == ASSUME IInv, NEW d \in Docs, BlockOnUpstream(d) PROVE IInv'
  <1>1. pc[d] # "returned" /\ call[d] = "none"
    BY DEF BlockOnUpstream, Turn, IInv, StagesOK, Stage, Working, WorkOK
  <1> QED BY <1>1, ReturnsBlockedKeeps DEF BlockOnUpstream, checkpointVars, docVars

LEMMA StartDocumentKeeps == ASSUME IInv, NEW d \in Docs, StartDocument(d) PROVE IInv'
  <1>1. pc[d] = "waiting" /\ call[d] = "none" /\ result[d] = "none" /\ sc' = sc
    BY DEF StartDocument, Turn, IInv, StagesOK, Stage, Working, WorkOK
  <1>2. CASE deadline = "exhausted"
    BY <1>1, <1>2, ReturnsBlockedKeeps DEF StartDocument
  <1>3. CASE deadline # "exhausted"
    <2>1. /\ docStatus' = [docStatus EXCEPT ![d] = "running"]
          /\ pc' = [pc EXCEPT ![d] = "draft"]
          /\ \A u \in Deps[d] : result[u] = "completed"
          /\ UNCHANGED <<sc, result, call, docMissing, assembly, sectionUnits>>
      BY <1>3 DEF StartDocument
    <2>2. \E ps, u : /\ parts' = [parts EXCEPT ![d] = ps]
                     /\ ps \in {assembly[d].parts, parts[d]}
                     /\ unit' = [unit EXCEPT ![d] = u] /\ u \in {0, 1}
      <3>1. CASE ResumableAssembly(d)
        BY <1>3, <3>1 DEF StartDocument, FullUnit
      <3>2. CASE ~ResumableAssembly(d)
        <4>1. parts' = parts /\ \E u \in {0, 1} : unit' = [unit EXCEPT ![d] = u]
          BY <1>3, <3>2 DEF StartDocument, FullUnit
        <4>2. parts' = [parts EXCEPT ![d] = parts[d]]
          BY <4>1 DEF IInv, TextOK
        <4> QED BY <4>1, <4>2
      <3> QED BY <3>1, <3>2
    <2>3. PICK ps, u : /\ parts' = [parts EXCEPT ![d] = ps]
                       /\ ps \in {assembly[d].parts, parts[d]}
                       /\ unit' = [unit EXCEPT ![d] = u] /\ u \in {0, 1}
      BY <2>2
    <2>4. RequestOK'
      BY <1>1, RequestStays DEF IInv
    <2>5. WorkOK'
      <3>1. u \in DraftUnits /\ u \in Nat
        BY <2>3, UnitsExist DEF IInv
      <3> QED BY <1>1, <2>1, <2>3, <3>1, RequestStays DEF IInv, WorkOK
    <2>6. TextOK'
      BY <1>1, <2>1, <2>3, RequestStays DEF IInv, TextOK, VerifiedAssembly
    <2>7. StagesOK'
      <3>1. \A e \in Docs \ {d} :
              /\ result'[e] = result[e] /\ pc'[e] = pc[e] /\ call'[e] = call[e]
              /\ unit'[e] = unit[e] /\ parts'[e] = parts[e]
        BY <1>1, <2>1, <2>3 DEF IInv, WorkOK, TextOK
      <3>2. Stage(d)'
        BY <1>1, <2>1, <2>3, RequestStays DEF IInv, WorkOK, TextOK, StagesOK, Stage, Working, Missing
      <3>3. result[d] # "completed" \/ result'[d] = result[d]
        BY <1>1, <2>1, <2>3 DEF IInv, StagesOK, Stage, Working
      <3>4. Working(d)' => Working(d) \/ \A v \in Deps[d] : result[v] = "completed"
        BY <1>1, <2>1, <2>3 DEF IInv, WorkOK, Working
      <3> QED BY <1>1, <2>1, <2>3, <3>1, <3>2, <3>3, <3>4, OthersStay
    <2>8. RecordsOK'
      <3>1. \A e \in Docs \ {d} :
              /\ result'[e] = result[e] /\ parts'[e] = parts[e] /\ assembly'[e] = assembly[e]
              /\ docStatus'[e] = docStatus[e] /\ docMissing'[e] = docMissing[e]
        BY <1>1, <2>1, <2>3 DEF IInv, WorkOK, TextOK, RecordsOK
      <3>2. Recorded(d)'
        BY <1>1, <2>1, <2>3, RequestStays DEF IInv, WorkOK, TextOK, RecordsOK, StagesOK, Stage, Recorded, Missing
      <3>3. docStatus' \in [Docs -> {"none", "running", "completed", "needs_fix", "blocked"}]
            /\ docMissing' \in [Docs -> SUBSET Sections]
        BY <1>1, <2>1, <2>3 DEF IInv, RecordsOK
      <3> QED BY <1>1, <2>1, <2>3, <3>1, <3>2, <3>3, OthersStayRecorded
    <2>9. AskedForMissing'
      BY <1>1, <2>1, <2>3, RequestStays DEF IInv, AskedForMissing, WorkOK, Reusable
    <2> QED BY <2>4, <2>5, <2>6, <2>7, <2>8, <2>9 DEF IInv
  <1> QED BY <1>2, <1>3

\* After a unit the document is still being worked on, at a unit that exists.
LEMMA AfterUnitKeepsWorking ==
  ASSUME IInv, NEW d \in Docs, pc[d] = "draft", AfterUnit(d)
  PROVE  \E p \in {"draft", "repair"}, u \in Nat :
            /\ pc' = [pc EXCEPT ![d] = p] /\ unit' = [unit EXCEPT ![d] = u]
            /\ p = "draft" => u \in DraftUnits
  <1>1. CASE unit[d] \in 1..(NBatches - 1)
    <2>1. pc' = [pc EXCEPT ![d] = "draft"]
      BY <1>1 DEF AfterUnit, IInv, WorkOK
    <2>2. unit' = [unit EXCEPT ![d] = unit[d] + 1]
      BY <1>1 DEF AfterUnit, IInv, WorkOK
    <2>3. unit[d] + 1 \in DraftUnits /\ unit[d] + 1 \in Nat
      BY <1>1, UnitsExist DEF IInv, WorkOK
    <2> QED BY <2>1, <2>2, <2>3
  <1>2. CASE unit[d] \notin 1..(NBatches - 1)
    BY <1>2 DEF AfterUnit
  <1> QED BY <1>1, <1>2

LEMMA ReuseUnitKeeps == ASSUME IInv, NEW d \in Docs, ReuseUnit(d) PROVE IInv'
  <1>1. /\ pc[d] = "draft" /\ call[d] = "none" /\ AfterUnit(d) /\ Reusable(d, unit[d])
        /\ parts' = [parts EXCEPT ![d] = Append(@, ReadUnit(d, unit[d]))]
        /\ UNCHANGED <<sc, result, call, docVars, sectionUnits>>
    BY DEF ReuseUnit, Append1, Idle, checkpointVars
  <1>2. PICK p \in {"draft", "repair"}, u \in Nat :
            /\ pc' = [pc EXCEPT ![d] = p] /\ unit' = [unit EXCEPT ![d] = u]
            /\ p = "draft" => u \in DraftUnits
    BY <1>1, AfterUnitKeepsWorking
  <1>3. ReadUnit(d, unit[d]) \in VerifiedText
    BY <1>1 DEF ReadUnit, Reusable, IInv, TextOK, WorkOK, VerifiedUnit
  <1>4. RequestOK'
    BY <1>1, RequestStays DEF IInv
  <1>5. WorkOK'
    BY <1>1, <1>2, RequestStays DEF IInv, WorkOK
  <1>6. TextOK'
    BY <1>1, <1>3, PartAppended, RequestStays DEF IInv, TextOK, docVars
  <1>7. StagesOK'
    <2>1. \A e \in Docs \ {d} :
            /\ result'[e] = result[e] /\ pc'[e] = pc[e] /\ call'[e] = call[e]
            /\ unit'[e] = unit[e] /\ parts'[e] = parts[e]
      BY <1>1, <1>2 DEF IInv, WorkOK, TextOK, docVars
    <2>2. Stage(d)'
      BY <1>1, <1>2, RequestStays DEF IInv, WorkOK, TextOK, StagesOK, Stage, Working, Missing, docVars
    <2>3. result[d] # "completed" \/ result'[d] = result[d]
      BY <1>1, <1>2 DEF IInv, StagesOK, Stage, Working
    <2>4. Working(d)' => Working(d) \/ \A v \in Deps[d] : result[v] = "completed"
      BY <1>1, <1>2 DEF IInv, WorkOK, Working, docVars
    <2> QED BY <1>1, <1>2, <2>1, <2>2, <2>3, <2>4, OthersStay
  <1>8. RecordsOK'
    <2>1. \A e \in Docs \ {d} :
            /\ result'[e] = result[e] /\ parts'[e] = parts[e] /\ assembly'[e] = assembly[e]
            /\ docStatus'[e] = docStatus[e] /\ docMissing'[e] = docMissing[e]
      BY <1>1, <1>2 DEF IInv, WorkOK, TextOK, RecordsOK, docVars
    <2>2. Recorded(d)'
      <3>1. result'[d] = "none"
        BY <1>1 DEF IInv, StagesOK, Stage, Working
      <3>2. Recorded(d)
        BY DEF IInv, RecordsOK
      <3> QED BY <1>1, <3>1, <3>2, RequestStays DEF Recorded, Missing, docVars
    <2>3. docStatus' \in [Docs -> {"none", "running", "completed", "needs_fix", "blocked"}]
          /\ docMissing' \in [Docs -> SUBSET Sections]
      BY <1>1, <1>2 DEF IInv, RecordsOK, docVars
    <2> QED BY <1>1, <1>2, <2>1, <2>2, <2>3, OthersStayRecorded
  <1>9. AskedForMissing'
    BY <1>1, <1>2, RequestStays DEF IInv, AskedForMissing, WorkOK, Reusable
  <1> QED BY <1>4, <1>5, <1>6, <1>7, <1>8, <1>9 DEF IInv

LEMMA BatchPastDeadlineKeeps == ASSUME IInv, NEW d \in Docs, BatchPastDeadline(d) PROVE IInv'
  BY ReturnsBlockedKeeps DEF BatchPastDeadline, Idle, checkpointVars, docVars

LEMMA RepairPastDeadlineKeeps == ASSUME IInv, NEW d \in Docs, RepairPastDeadline(d) PROVE IInv'
  BY ReturnsBlockedKeeps DEF RepairPastDeadline, Idle, checkpointVars, docVars

\* Asking, and asking again, changes nothing but the call.
LEMMA AskingKeeps ==
  ASSUME IInv, NEW d \in Docs, Working(d), NEW c \in {"attempt", "model"},
         call' = [call EXCEPT ![d] = c],
         pc[d] = "draft" => ~Reusable(d, unit[d]),
         pc[d] = "repair" => unit[d] \in Sections,
         UNCHANGED <<sc, result, pc, unit, parts, docVars, sectionUnits>>
  PROVE  IInv'
  <1> USE DEF docVars
  <1>1. RequestOK'
    BY RequestStays DEF IInv
  <1>2. WorkOK'
    BY RequestStays DEF IInv, WorkOK
  <1>3. TextOK'
    BY RequestStays DEF IInv, TextOK
  <1>4. StagesOK'
    <2>1. \A e \in Docs \ {d} :
            /\ result'[e] = result[e] /\ pc'[e] = pc[e] /\ call'[e] = call[e]
            /\ unit'[e] = unit[e] /\ parts'[e] = parts[e]
      BY DEF IInv, WorkOK, TextOK
    <2>2. Stage(d)'
      BY RequestStays DEF IInv, WorkOK, TextOK, StagesOK, Stage, Working, Missing
    <2>3. result[d] # "completed" \/ result'[d] = result[d]
      BY DEF IInv, StagesOK, Stage, Working
    <2>4. Working(d)' => Working(d) \/ \A v \in Deps[d] : result[v] = "completed"
      BY DEF IInv, WorkOK, Working
    <2> QED BY <2>1, <2>2, <2>3, <2>4, OthersStay
  <1>5. RecordsOK'
    <2>1. \A e \in Docs \ {d} :
            /\ result'[e] = result[e] /\ parts'[e] = parts[e] /\ assembly'[e] = assembly[e]
            /\ docStatus'[e] = docStatus[e] /\ docMissing'[e] = docMissing[e]
      BY DEF IInv, WorkOK, TextOK, RecordsOK
    <2>2. Recorded(d)'
      BY RequestStays DEF IInv, WorkOK, TextOK, RecordsOK, StagesOK, Stage, Recorded, Missing
    <2>3. docStatus' \in [Docs -> {"none", "running", "completed", "needs_fix", "blocked"}]
          /\ docMissing' \in [Docs -> SUBSET Sections]
      BY DEF IInv, RecordsOK, Recorded, CheckpointConsistent
    <2> QED BY <2>1, <2>2, <2>3, OthersStayRecorded
  <1>6. AskedForMissing'
    BY RequestStays DEF IInv, AskedForMissing, WorkOK, Reusable
  <1> QED BY <1>1, <1>2, <1>3, <1>4, <1>5, <1>6 DEF IInv

LEMMA RequestUnitKeeps == ASSUME IInv, NEW d \in Docs, RequestUnit(d) PROVE IInv'
  BY AskingKeeps DEF RequestUnit, BeginAttempts, Working, checkpointVars

\* The section under repair becomes the unit.
LEMMA RequestRepairKeeps == ASSUME IInv, NEW d \in Docs, RequestRepair(d) PROVE IInv'
  <1>1. PICK s \in StillMissing(d) :
        /\ pc[d] = "repair"
        /\ call' = [call EXCEPT ![d] = "attempt"]
        /\ unit' = [unit EXCEPT ![d] = s]
        /\ UNCHANGED <<sc, result, pc, parts, docVars, sectionUnits>>
    BY DEF RequestRepair, BeginAttempts, checkpointVars
  <1>2. s \in Sections
    BY MissingAreSections DEF StillMissing
  <1>3. s \in Nat
    BY <1>2 DEF Sections
  <1>4. RequestOK'
    BY <1>1, RequestStays DEF IInv
  <1>5. WorkOK'
    BY <1>1, <1>3, RequestStays DEF IInv, WorkOK
  <1>6. TextOK'
    BY <1>1, RequestStays DEF IInv, TextOK, docVars
  <1>7. StagesOK'
    <2>1. \A e \in Docs \ {d} :
            /\ result'[e] = result[e] /\ pc'[e] = pc[e] /\ call'[e] = call[e]
            /\ unit'[e] = unit[e] /\ parts'[e] = parts[e]
      BY <1>1, <1>2 DEF IInv, WorkOK, TextOK, docVars
    <2>2. Stage(d)'
      BY <1>1, <1>2, RequestStays DEF IInv, WorkOK, TextOK, StagesOK, Stage, Working, Missing, docVars
    <2>3. result[d] # "completed" \/ result'[d] = result[d]
      BY <1>1, <1>2 DEF IInv, StagesOK, Stage, Working
    <2>4. Working(d)' => Working(d) \/ \A v \in Deps[d] : result[v] = "completed"
      BY <1>1, <1>2 DEF IInv, WorkOK, Working, docVars
    <2> QED BY <1>1, <1>2, <2>1, <2>2, <2>3, <2>4, OthersStay
  <1>8. RecordsOK'
    <2>1. \A e \in Docs \ {d} :
            /\ result'[e] = result[e] /\ parts'[e] = parts[e] /\ assembly'[e] = assembly[e]
            /\ docStatus'[e] = docStatus[e] /\ docMissing'[e] = docMissing[e]
      BY <1>1, <1>2 DEF IInv, WorkOK, TextOK, RecordsOK, docVars
    <2>2. Recorded(d)'
      BY <1>1, <1>2, RequestStays DEF IInv, WorkOK, TextOK, RecordsOK, StagesOK, Stage, Recorded, Missing, docVars
    <2>3. docStatus' \in [Docs -> {"none", "running", "completed", "needs_fix", "blocked"}]
          /\ docMissing' \in [Docs -> SUBSET Sections]
      BY <1>1, <1>2 DEF IInv, RecordsOK, docVars
    <2> QED BY <1>1, <1>2, <2>1, <2>2, <2>3, OthersStayRecorded
  <1>9. AskedForMissing'
    BY <1>1, RequestStays DEF IInv, AskedForMissing, WorkOK, Reusable
  <1> QED BY <1>4, <1>5, <1>6, <1>7, <1>8, <1>9 DEF IInv

\* The unit has failed: another one follows, and what is reusable stays so.
LEMMA RecordFailureKeeps ==
  ASSUME IInv, NEW d \in Docs, call[d] # "none", RecordFailure(d),
         UNCHANGED <<sc, result, parts, docVars>>
  PROVE  IInv'
  <1>1. Working(d) /\ result[d] = "none"
    BY DEF IInv, StagesOK, Stage, Working
  <1>2. call' = [call EXCEPT ![d] = "none"]
    BY DEF RecordFailure, EndAttempts
  <1>3. \E p \in {"draft", "repair"}, u \in Nat :
            /\ pc' = [pc EXCEPT ![d] = p] /\ unit' = [unit EXCEPT ![d] = u]
            /\ p = "draft" => u \in DraftUnits
    <2>1. CASE pc[d] = "draft"
      BY <2>1, AfterUnitKeepsWorking DEF RecordFailure
    <2>2. CASE pc[d] # "draft"
      <3>1. pc[d] = "repair" /\ pc' = pc /\ unit' = [unit EXCEPT ![d] = 0]
        BY <1>1, <2>2 DEF RecordFailure, Working
      <3>2. pc' = [pc EXCEPT ![d] = "repair"]
        BY <3>1 DEF IInv, WorkOK
      <3> QED BY <3>1, <3>2
    <2> QED BY <2>1, <2>2
  <1>4. PICK p \in {"draft", "repair"}, u \in Nat :
            /\ pc' = [pc EXCEPT ![d] = p] /\ unit' = [unit EXCEPT ![d] = u]
            /\ p = "draft" => u \in DraftUnits
    BY <1>3
  <1>5. TextOK'
    <2>1. CASE pc[d] = "draft"
      <3>1. [NoUnit EXCEPT !.state = "failed"] \in VerifiedUnit
        BY DEF NoUnit, VerifiedUnit, VerifiedText
      <3>2. sectionUnits' \in [Docs -> [DraftUnits -> VerifiedUnit]]
        <4>1. unit[d] \in DraftUnits
          BY <2>1 DEF IInv, WorkOK
        <4>2. sectionUnits' = [sectionUnits EXCEPT ![d][unit[d]] = [NoUnit EXCEPT !.state = "failed"]]
          BY <2>1 DEF RecordFailure
        <4> QED BY <3>1, <4>1, <4>2, UnitReplaced DEF IInv
      <3> QED BY <3>2, RequestStays DEF IInv, TextOK, docVars
    <2>2. CASE pc[d] # "draft"
      BY <2>2, RequestStays DEF RecordFailure, IInv, TextOK, docVars
    <2> QED BY <2>1, <2>2
  <1>6. \A e \in Docs, v \in DraftUnits : Reusable(e, v)' => Reusable(e, v)
    <2>1. CASE pc[d] = "draft"
      <3>1. [NoUnit EXCEPT !.state = "failed"] \in VerifiedUnit
        BY DEF NoUnit, VerifiedUnit, VerifiedText
      <3>2. [NoUnit EXCEPT !.state = "failed"].state # "completed"
        BY DEF NoUnit
      <3>3. sectionUnits' = [sectionUnits EXCEPT ![d][unit[d]] = [NoUnit EXCEPT !.state = "failed"]]
        BY <2>1 DEF RecordFailure
      <3> QED BY <2>1, <3>1, <3>2, <3>3, UnitReplaced DEF IInv, WorkOK, Reusable
    <2>2. CASE pc[d] # "draft"
      BY <2>2 DEF RecordFailure, Reusable
    <2> QED BY <2>1, <2>2
  <1>7. RequestOK'
    BY RequestStays DEF IInv
  <1>8. WorkOK'
    BY <1>2, <1>4, RequestStays DEF IInv, WorkOK
  <1>9. StagesOK'
    <2>1. \A e \in Docs \ {d} :
            /\ result'[e] = result[e] /\ pc'[e] = pc[e] /\ call'[e] = call[e]
            /\ unit'[e] = unit[e] /\ parts'[e] = parts[e]
      BY <1>1, <1>2, <1>4 DEF IInv, WorkOK, TextOK, docVars
    <2>2. Stage(d)'
      BY <1>1, <1>2, <1>4, RequestStays DEF IInv, WorkOK, TextOK, StagesOK, Stage, Working, Missing, docVars
    <2>3. result[d] # "completed" \/ result'[d] = result[d]
      BY <1>1, <1>2, <1>4 DEF IInv, StagesOK, Stage, Working
    <2>4. Working(d)' => Working(d) \/ \A v \in Deps[d] : result[v] = "completed"
      BY <1>1, <1>2, <1>4 DEF IInv, WorkOK, Working, docVars
    <2> QED BY <1>1, <1>2, <1>4, <2>1, <2>2, <2>3, <2>4, OthersStay
  <1>10. RecordsOK'
    BY RequestStays DEF IInv, RecordsOK, Recorded, Missing, docVars
  <1>11. AskedForMissing'
    <2> SUFFICES ASSUME NEW e \in Docs, pc'[e] = "draft", call'[e] # "none"
                 PROVE  ~Reusable(e, unit[e])'
      BY RequestStays DEF AskedForMissing
    <2>1. e # d /\ pc[e] = "draft" /\ call[e] # "none" /\ unit'[e] = unit[e]
      BY <1>2, <1>4 DEF IInv, WorkOK
    <2>2. ~Reusable(e, unit[e]) /\ unit[e] \in DraftUnits
      BY <2>1 DEF IInv, AskedForMissing, WorkOK
    <2> QED BY <1>6, <2>1, <2>2 DEF Reusable
  <1> QED BY <1>5, <1>7, <1>8, <1>9, <1>10, <1>11 DEF IInv

LEMMA FailedAttemptKeeps ==
  ASSUME IInv, NEW d \in Docs, call[d] # "none", NEW b, FailedAttempt(d, b),
         UNCHANGED <<sc, result, parts, docVars>>
  PROVE  IInv'
  <1>1. CASE CanTryAgain(d, b)
    <2>1. /\ Working(d)
          /\ (pc[d] = "draft" => ~Reusable(d, unit[d]))
          /\ (pc[d] = "repair" => unit[d] \in Sections)
      BY DEF IInv, StagesOK, Stage, AskedForMissing
    <2> QED BY <1>1, <2>1, AskingKeeps DEF FailedAttempt
  <1>2. CASE ~CanTryAgain(d, b)
    BY <1>2, RecordFailureKeeps DEF FailedAttempt
  <1> QED BY <1>1, <1>2

LEMMA CallModelKeeps == ASSUME IInv, NEW d \in Docs, CallModel(d) PROVE IInv'
  <1>1. /\ Working(d)
        /\ (pc[d] = "draft" => ~Reusable(d, unit[d]))
        /\ (pc[d] = "repair" => unit[d] \in Sections)
    BY DEF CallModel, IInv, StagesOK, Stage, AskedForMissing
  <1> QED BY <1>1, AskingKeeps DEF CallModel, checkpointVars

LEMMA SkipAttemptKeeps == ASSUME IInv, NEW d \in Docs, SkipAttempt(d) PROVE IInv'
  BY FailedAttemptKeeps DEF SkipAttempt

LEMMA AttemptPastDeadlineKeeps == ASSUME IInv, NEW d \in Docs, AttemptPastDeadline(d) PROVE IInv'
  BY RecordFailureKeeps DEF AttemptPastDeadline

LEMMA ModelFailsKeeps == ASSUME IInv, NEW d \in Docs, ModelFails(d) PROVE IInv'
  <1>1. call[d] # "none" /\ UNCHANGED <<sc, result, parts, docVars>>
    BY DEF ModelFails
  <1>2. PICK kind \in Failures :
          IF FallsBack(d, kind)
          THEN call' = [call EXCEPT ![d] = "attempt"] /\ UNCHANGED <<pc, unit, sectionUnits>>
          ELSE FailedAttempt(d, Retryable(d, kind))
    BY DEF ModelFails
  <1>3. CASE FallsBack(d, kind)
    <2>1. /\ Working(d)
          /\ (pc[d] = "draft" => ~Reusable(d, unit[d]))
          /\ (pc[d] = "repair" => unit[d] \in Sections)
      BY <1>1 DEF IInv, StagesOK, Stage, AskedForMissing
    <2> QED BY <1>1, <1>2, <1>3, <2>1, AskingKeeps
  <1>4. CASE ~FallsBack(d, kind)
    BY <1>1, <1>2, <1>4, FailedAttemptKeeps
  <1> QED BY <1>3, <1>4

LEMMA ModelDraftsKeeps == ASSUME IInv, NEW d \in Docs, ModelDrafts(d) PROVE IInv'
  <1>1. /\ pc[d] = "draft" /\ call[d] = "model" /\ AfterUnit(d)
        /\ call' = [call EXCEPT ![d] = "none"]
        /\ UNCHANGED <<sc, result, docVars>>
    BY DEF ModelDrafts, EndAttempts
  <1>2. PICK covers \in SUBSET Sections :
          /\ parts' = [parts EXCEPT ![d] = Append(@, covers)]
          /\ sectionUnits' = [sectionUnits EXCEPT ![d][unit[d]] =
                                [state |-> "completed", covers |-> covers, intact |-> TRUE]]
    BY UnitSections DEF ModelDrafts, Answers, Append1
  <1>3. PICK p \in {"draft", "repair"}, u \in Nat :
            /\ pc' = [pc EXCEPT ![d] = p] /\ unit' = [unit EXCEPT ![d] = u]
            /\ p = "draft" => u \in DraftUnits
    BY <1>1, AfterUnitKeepsWorking
  <1>4. RequestOK'
    BY <1>1, RequestStays DEF IInv
  <1>5. WorkOK'
    BY <1>1, <1>3, RequestStays DEF IInv, WorkOK
  <1>6. TextOK'
    <2>1. [state |-> "completed", covers |-> covers, intact |-> TRUE] \in VerifiedUnit
      BY DEF VerifiedUnit, VerifiedText
    <2>2. sectionUnits' \in [Docs -> [DraftUnits -> VerifiedUnit]]
      BY <1>1, <1>2, <2>1, UnitReplaced DEF IInv, WorkOK
    <2>3. parts' \in [Docs -> Seq(VerifiedText)]
      BY <1>2, PartAppended DEF IInv, VerifiedText
    <2> QED BY <1>1, <2>2, <2>3, RequestStays DEF IInv, TextOK, docVars
  <1>7. StagesOK'
    <2>1. \A e \in Docs \ {d} :
            /\ result'[e] = result[e] /\ pc'[e] = pc[e] /\ call'[e] = call[e]
            /\ unit'[e] = unit[e] /\ parts'[e] = parts[e]
      BY <1>1, <1>2, <1>3 DEF IInv, WorkOK, TextOK, docVars
    <2>2. Stage(d)'
      BY <1>1, <1>2, <1>3, RequestStays DEF IInv, WorkOK, TextOK, StagesOK, Stage, Working, Missing, docVars
    <2>3. result[d] # "completed" \/ result'[d] = result[d]
      BY <1>1, <1>2, <1>3 DEF IInv, StagesOK, Stage, Working
    <2>4. Working(d)' => Working(d) \/ \A v \in Deps[d] : result[v] = "completed"
      BY <1>1, <1>2, <1>3 DEF IInv, WorkOK, Working, docVars
    <2> QED BY <1>1, <1>2, <1>3, <2>1, <2>2, <2>3, <2>4, OthersStay
  <1>8. RecordsOK'
    <2>1. \A e \in Docs \ {d} :
            /\ result'[e] = result[e] /\ parts'[e] = parts[e] /\ assembly'[e] = assembly[e]
            /\ docStatus'[e] = docStatus[e] /\ docMissing'[e] = docMissing[e]
      BY <1>1, <1>2, <1>3 DEF IInv, WorkOK, TextOK, RecordsOK, docVars
    <2>2. Recorded(d)'
      <3>1. result'[d] = "none"
        BY <1>1 DEF IInv, StagesOK, Stage, Working
      <3>2. Recorded(d)
        BY DEF IInv, RecordsOK
      <3> QED BY <1>1, <3>1, <3>2, RequestStays DEF Recorded, Missing, docVars
    <2>3. docStatus' \in [Docs -> {"none", "running", "completed", "needs_fix", "blocked"}]
          /\ docMissing' \in [Docs -> SUBSET Sections]
      BY <1>1, <1>2, <1>3 DEF IInv, RecordsOK, docVars
    <2> QED BY <1>1, <1>2, <1>3, <2>1, <2>2, <2>3, OthersStayRecorded
  <1>9. AskedForMissing'
    BY <1>1, <1>2, <1>3, RequestStays DEF IInv, AskedForMissing, WorkOK, TextOK, Reusable
  <1> QED BY <1>4, <1>5, <1>6, <1>7, <1>8, <1>9 DEF IInv

LEMMA ModelRepairsKeeps == ASSUME IInv, NEW d \in Docs, ModelRepairs(d) PROVE IInv'
  <1>1. /\ pc[d] = "repair" /\ call[d] = "model"
        /\ call' = [call EXCEPT ![d] = "none"]
        /\ unit' = [unit EXCEPT ![d] = 0]
        /\ UNCHANGED <<sc, result, pc, docVars, sectionUnits>>
    BY DEF ModelRepairs, EndAttempts
  <1>2. PICK covers \in SUBSET {unit[d]} : parts' = [parts EXCEPT ![d] = Append(@, covers)]
    BY DEF ModelRepairs, Answers, Append1
  <1>3. covers \in VerifiedText
    BY <1>1, <1>2 DEF VerifiedText, IInv, StagesOK, Stage
  <1>4. RequestOK'
    BY <1>1, RequestStays DEF IInv
  <1>5. WorkOK'
    BY <1>1, RequestStays DEF IInv, WorkOK
  <1>6. TextOK'
    BY <1>1, <1>2, <1>3, PartAppended, RequestStays DEF IInv, TextOK, docVars
  <1>7. StagesOK'
    <2>1. \A e \in Docs \ {d} :
            /\ result'[e] = result[e] /\ pc'[e] = pc[e] /\ call'[e] = call[e]
            /\ unit'[e] = unit[e] /\ parts'[e] = parts[e]
      BY <1>1, <1>2 DEF IInv, WorkOK, TextOK, docVars
    <2>2. Stage(d)'
      BY <1>1, <1>2, RequestStays DEF IInv, WorkOK, TextOK, StagesOK, Stage, Working, Missing, docVars
    <2>3. result[d] # "completed" \/ result'[d] = result[d]
      BY <1>1, <1>2 DEF IInv, StagesOK, Stage, Working
    <2>4. Working(d)' => Working(d) \/ \A v \in Deps[d] : result[v] = "completed"
      BY <1>1, <1>2 DEF IInv, WorkOK, Working, docVars
    <2> QED BY <1>1, <1>2, <2>1, <2>2, <2>3, <2>4, OthersStay
  <1>8. RecordsOK'
    <2>1. \A e \in Docs \ {d} :
            /\ result'[e] = result[e] /\ parts'[e] = parts[e] /\ assembly'[e] = assembly[e]
            /\ docStatus'[e] = docStatus[e] /\ docMissing'[e] = docMissing[e]
      BY <1>1, <1>2 DEF IInv, WorkOK, TextOK, RecordsOK, docVars
    <2>2. Recorded(d)'
      <3>1. result'[d] = "none"
        BY <1>1 DEF IInv, StagesOK, Stage, Working
      <3>2. Recorded(d)
        BY DEF IInv, RecordsOK
      <3> QED BY <1>1, <3>1, <3>2, RequestStays DEF Recorded, Missing, docVars
    <2>3. docStatus' \in [Docs -> {"none", "running", "completed", "needs_fix", "blocked"}]
          /\ docMissing' \in [Docs -> SUBSET Sections]
      BY <1>1, <1>2 DEF IInv, RecordsOK, docVars
    <2> QED BY <1>1, <1>2, <2>1, <2>2, <2>3, OthersStayRecorded
  <1>9. AskedForMissing'
    BY <1>1, RequestStays DEF IInv, AskedForMissing, WorkOK, Reusable
  <1> QED BY <1>4, <1>5, <1>6, <1>7, <1>8, <1>9 DEF IInv

LEMMA FinishKeeps == ASSUME IInv, NEW d \in Docs, Finish(d) PROVE IInv'
  <1>1. /\ pc[d] = "repair" /\ call[d] = "none" /\ result[d] = "none"
        /\ pc' = [pc EXCEPT ![d] = "returned"]
        /\ result' = [result EXCEPT ![d] = FinalStatus(d)]
        /\ unit' = [unit EXCEPT ![d] = 0]
        /\ docStatus' = [docStatus EXCEPT ![d] = FinalStatus(d)]
        /\ docMissing' = [docMissing EXCEPT ![d] = Missing(parts[d])]
        /\ UNCHANGED <<sc, call, parts, sectionUnits>>
    BY DEF Finish, Finished, Idle, Returns, IInv, StagesOK, Stage
  <1>2. /\ FinalStatus(d) = "blocked" => assembly' = assembly
        /\ FinalStatus(d) # "blocked" =>
              /\ parts[d] # <<>>
              /\ assembly' = [assembly EXCEPT ![d] = [parts |-> parts[d], intact |-> TRUE]]
        /\ FinalStatus(d) = "completed" => parts[d] # <<>> /\ Missing(parts[d]) = {}
        /\ FinalStatus(d) = "needs_fix" => Missing(parts[d]) # {}
        /\ FinalStatus(d) \in {"blocked", "needs_fix", "completed"}
    BY DEF Finish, FinalStatus
  <1>3. Missing(parts[d]) \subseteq Sections
    BY MissingAreSections
  <1>4. RequestOK'
    BY <1>1, RequestStays DEF IInv
  <1>5. WorkOK'
    BY <1>1, <1>2, RequestStays DEF IInv, WorkOK
  <1>6. TextOK'
    <2>1. CASE FinalStatus(d) = "blocked"
      BY <1>1, <1>2, <2>1, RequestStays DEF IInv, TextOK
    <2>2. CASE FinalStatus(d) # "blocked"
      BY <1>1, <1>2, <2>2, RequestStays DEF IInv, TextOK, VerifiedAssembly
    <2> QED BY <2>1, <2>2
  <1>7. StagesOK'
    <2>1. \A e \in Docs \ {d} :
            /\ result'[e] = result[e] /\ pc'[e] = pc[e] /\ call'[e] = call[e]
            /\ unit'[e] = unit[e] /\ parts'[e] = parts[e]
      BY <1>1, <1>2 DEF IInv, WorkOK, TextOK
    <2>2. Stage(d)'
      BY <1>1, <1>2, RequestStays DEF IInv, WorkOK, TextOK, StagesOK, Stage, Working, Missing
    <2>3. result[d] # "completed" \/ result'[d] = result[d]
      BY <1>1, <1>2 DEF IInv, StagesOK, Stage, Working
    <2>4. Working(d)' => Working(d) \/ \A v \in Deps[d] : result[v] = "completed"
      BY <1>1, <1>2 DEF IInv, WorkOK, Working
    <2> QED BY <1>1, <1>2, <2>1, <2>2, <2>3, <2>4, OthersStay
  <1>8. RecordsOK'
    <2>1. \A e \in Docs \ {d} :
            /\ result'[e] = result[e] /\ parts'[e] = parts[e] /\ assembly'[e] = assembly[e]
            /\ docStatus'[e] = docStatus[e] /\ docMissing'[e] = docMissing[e]
      BY <1>1, <1>2 DEF IInv, WorkOK, TextOK, RecordsOK
    <2>2. /\ docStatus'[d] = FinalStatus(d) /\ result'[d] = FinalStatus(d)
          /\ docMissing'[d] = Missing(parts[d])
      BY <1>1 DEF IInv, RecordsOK, WorkOK
    <2>3. FinalStatus(d) # "blocked" => assembly'[d] = [parts |-> parts[d], intact |-> TRUE]
      BY <1>2 DEF IInv, TextOK
    <2>4. Recorded(d)'
      BY <1>1, <1>2, <2>2, <2>3, RequestStays DEF Recorded, Missing
    <2>5. /\ docStatus' \in [Docs -> {"none", "running", "completed", "needs_fix", "blocked"}]
          /\ docMissing' \in [Docs -> SUBSET Sections]
      BY <1>1, <1>2, <1>3 DEF IInv, RecordsOK
    <2> QED BY <1>1, <2>1, <2>4, <2>5, OthersStayRecorded
  <1>9. AskedForMissing'
    BY <1>1, RequestStays DEF IInv, AskedForMissing, WorkOK, Reusable
  <1> QED BY <1>4, <1>5, <1>6, <1>7, <1>8, <1>9 DEF IInv

LEMMA StartExecutionKeeps == ASSUME IInv, StartExecution PROVE IInv'
  <1>1. FreshWork /\ UNCHANGED <<sc, docStatus, docMissing, assembly, sectionUnits>>
    BY DEF StartExecution, checkpointVars, docVars
  <1>2. TextOK'
    BY <1>1, RequestStays DEF IInv, TextOK, FreshWork
  <1> QED BY <1>1, <1>2, FreshWorkKeeps

LEMMA CrashKeeps == ASSUME IInv, Crash PROVE IInv'
  <1>1. FreshWork /\ UNCHANGED <<sc, docStatus, docMissing>>
    BY DEF Crash
  <1>2. /\ \/ sectionUnits' = sectionUnits
           \/ \E d \in Docs : /\ unit[d] \in DraftUnits
                              /\ sectionUnits' = [sectionUnits EXCEPT ![d][unit[d]].intact = FALSE]
        /\ \/ assembly' = assembly
           \/ \E d \in Docs : assembly' = [assembly EXCEPT ![d].intact = FALSE]
    BY DEF Crash, IInv, WorkOK
  <1>3. /\ assembly' \in [Docs -> VerifiedAssembly]
        /\ \A d \in Docs : assembly'[d].parts = assembly[d].parts
    BY <1>2, DamagedAssembly DEF IInv, TextOK
  <1>4. sectionUnits' \in [Docs -> [DraftUnits -> VerifiedUnit]]
    <2>1. CASE sectionUnits' = sectionUnits
      BY <2>1 DEF IInv, TextOK
    <2>2. ASSUME NEW d \in Docs, unit[d] \in DraftUnits,
                 sectionUnits' = [sectionUnits EXCEPT ![d][unit[d]].intact = FALSE]
          PROVE  sectionUnits' \in [Docs -> [DraftUnits -> VerifiedUnit]]
      BY <2>2, DamagedUnit, UnitReplaced DEF IInv
    <2> QED BY <1>2, <2>1, <2>2
  <1>5. TextOK'
    BY <1>1, <1>3, <1>4, RequestStays DEF TextOK, FreshWork
  <1> QED BY <1>1, <1>3, <1>5, FreshWorkKeeps

LEMMA CorruptArtifactKeeps == ASSUME IInv, CorruptArtifact PROVE IInv'
  BY DamageKeeps DEF CorruptArtifact, workVars, unitVars

LEMMA NextIInv == IInv /\ [Next]_vars => IInv'
  <1> SUFFICES ASSUME IInv, [Next]_vars PROVE IInv'
    OBVIOUS
  <1>1. ASSUME StartExecution PROVE IInv'
    BY <1>1, StartExecutionKeeps
  <1>2. ASSUME NextWave \/ EndExecution \/ TimePasses PROVE IInv'
    BY <1>2, Unobserved
       DEF NextWave, EndExecution, TimePasses, observed, checkpointVars, workVars, unitVars
  <1>3. ASSUME Crash PROVE IInv'
    BY <1>3, CrashKeeps
  <1>4. ASSUME CorruptArtifact PROVE IInv'
    BY <1>4, CorruptArtifactKeeps
  <1>5. ASSUME NEW d \in 1..MaxDocs, DocumentStep(d) PROVE IInv'
    <2>1. d \in Docs
      BY <1>5 DEF DocumentStep
    <2>2. ASSUME BeginRepairRound(d) PROVE IInv'
      BY <2>2, Unobserved DEF BeginRepairRound, observed, checkpointVars, unitVars
    <2> QED
      BY <1>5, <2>1, <2>2, BlockOnUpstreamKeeps, StartDocumentKeeps, ReuseUnitKeeps,
         BatchPastDeadlineKeeps, RequestUnitKeeps, CallModelKeeps, SkipAttemptKeeps,
         AttemptPastDeadlineKeeps, ModelFailsKeeps, ModelDraftsKeeps, ModelRepairsKeeps,
         RequestRepairKeeps, RepairPastDeadlineKeeps, FinishKeeps
         DEF DocumentStep
  <1>6. ASSUME UNCHANGED vars PROVE IInv'
    BY <1>6, Unobserved DEF vars, observed, checkpointVars, workVars, unitVars
  <1> QED BY <1>1, <1>2, <1>3, <1>4, <1>5, <1>6 DEF Next

\* The invariant holds in every reachable state.
THEOREM WorkflowInvariant == Spec => []IInv
  BY InitIInv, NextIInv, PTL DEF Spec

-----------------------------------------------------------------------------
(* What follows from it.                                                   *)

\* A document is only written when every document it depends on is complete
\* (injectUpstreamDocuments), whatever failed, timed out or crashed before.
THEOREM WorkflowUpstreamFirst == Spec => []UpstreamFirst
  <1>1. IInv => UpstreamFirst
    BY DEF IInv, StagesOK, Stage, RequestOK, UpstreamFirst
  <1> QED BY <1>1, WorkflowInvariant, PTL

\* Text whose file does not have its recorded hash never gets into a document
\* (reusableCheckpointUnit).
THEOREM WorkflowOnlyVerified == Spec => []OnlyVerifiedContent
  <1>1. IInv => OnlyVerifiedContent
    <2> SUFFICES ASSUME IInv, NEW d \in Docs, NEW i \in DOMAIN parts[d]
                 PROVE  Unverified \notin parts[d][i]
      BY DEF OnlyVerifiedContent
    <2>1. parts[d] \in Seq(VerifiedText)
      BY DEF IInv, TextOK
    <2>2. parts[d][i] \in VerifiedText
      BY <2>1
    <2> QED BY <2>2, NotASection DEF VerifiedText
  <1> QED BY <1>1, WorkflowInvariant, PTL

\* What the checkpoint and the answer say of a finished document is true of
\* the assembly (generateOne's last save).
THEOREM WorkflowCheckpointConsistent == Spec => []CheckpointConsistent
  <1>1. IInv => CheckpointConsistent
    BY DEF IInv, RecordsOK, Recorded, CheckpointConsistent
  <1> QED BY <1>1, WorkflowInvariant, PTL

-----------------------------------------------------------------------------
(* What a step may do to the section units.                                *)

\* A document's step replaces at most the record of the unit it had asked for.
LEMMA DocumentStepUnits ==
  ASSUME IInv, NEW d \in Docs, DocumentStep(d)
  PROVE  \/ sectionUnits' = sectionUnits
         \/ \E x : /\ ~Reusable(d, unit[d]) /\ unit[d] \in DraftUnits
                   /\ sectionUnits' = [sectionUnits EXCEPT ![d][unit[d]] = x]
  <1>1. ASSUME pc[d] = "draft", call[d] # "none"
        PROVE  ~Reusable(d, unit[d]) /\ unit[d] \in DraftUnits
    BY <1>1 DEF IInv, AskedForMissing, WorkOK
  <1>2. ASSUME call[d] # "none", RecordFailure(d)
        PROVE  \/ sectionUnits' = sectionUnits
               \/ \E x : /\ ~Reusable(d, unit[d]) /\ unit[d] \in DraftUnits
                         /\ sectionUnits' = [sectionUnits EXCEPT ![d][unit[d]] = x]
    BY <1>1, <1>2 DEF RecordFailure
  <1>3. CASE ModelDrafts(d)
    BY <1>1, <1>3 DEF ModelDrafts
  <1>4. CASE SkipAttempt(d) \/ AttemptPastDeadline(d) \/ ModelFails(d)
    BY <1>2, <1>4 DEF SkipAttempt, AttemptPastDeadline, ModelFails, FailedAttempt
  <1>5. CASE \/ BlockOnUpstream(d) \/ StartDocument(d) \/ ReuseUnit(d) \/ BatchPastDeadline(d)
             \/ RequestUnit(d) \/ CallModel(d) \/ ModelRepairs(d) \/ BeginRepairRound(d)
             \/ RequestRepair(d) \/ RepairPastDeadline(d) \/ Finish(d)
    BY <1>5 DEF BlockOnUpstream, StartDocument, ReuseUnit, BatchPastDeadline, RequestUnit, CallModel,
                ModelRepairs, BeginRepairRound, RequestRepair, RepairPastDeadline, Finish, checkpointVars
  <1> QED BY <1>3, <1>4, <1>5 DEF DocumentStep

LEMMA StepUnits ==
  ASSUME IInv, corruptions \in Nat, [Next]_vars, corruptions' = corruptions
  PROVE  \/ sectionUnits' = sectionUnits
         \/ \E d \in Docs : \E x :
               /\ ~Reusable(d, unit[d]) /\ unit[d] \in DraftUnits
               /\ sectionUnits' = [sectionUnits EXCEPT ![d][unit[d]] = x]
  <1>1. CASE Crash
    <2>1. ASSUME NEW d \in Docs, pc[d] = "draft", call[d] = "model",
                 sectionUnits' = [sectionUnits EXCEPT ![d][unit[d]].intact = FALSE]
          PROVE  \E x : /\ ~Reusable(d, unit[d]) /\ unit[d] \in DraftUnits
                        /\ sectionUnits' = [sectionUnits EXCEPT ![d][unit[d]] = x]
      BY <2>1 DEF IInv, AskedForMissing, WorkOK
    <2> QED BY <1>1, <2>1 DEF Crash
  <1>2. CASE CorruptArtifact
    BY <1>2 DEF CorruptArtifact
  <1>3. CASE StartExecution \/ NextWave \/ EndExecution \/ TimePasses \/ UNCHANGED vars
    BY <1>3 DEF StartExecution, NextWave, EndExecution, TimePasses, checkpointVars, vars
  <1>4. ASSUME NEW d \in 1..MaxDocs, DocumentStep(d)
        PROVE  \/ sectionUnits' = sectionUnits
               \/ \E x : /\ ~Reusable(d, unit[d]) /\ unit[d] \in DraftUnits
                         /\ sectionUnits' = [sectionUnits EXCEPT ![d][unit[d]] = x]
    BY <1>4, DocumentStepUnits DEF DocumentStep
  <1>5. \A d : DocumentStep(d) => d \in Docs
    BY DEF DocumentStep
  <1> QED BY <1>1, <1>2, <1>3, <1>4, <1>5 DEF Next

Counted == corruptions \in Nat

LEMMA DamageIsCounted == Spec => []Counted
  <1>1. Init => Counted
    BY DEF Init, Counted
  <1>2. Counted /\ [Next]_vars => Counted'
    <2> SUFFICES ASSUME Counted, [Next]_vars PROVE corruptions' \in {corruptions, corruptions + 1}
      BY DEF Counted
    <2>1. ASSUME NEW d \in 1..MaxDocs, DocumentStep(d) PROVE corruptions' = corruptions
      <3>1. CASE \/ BlockOnUpstream(d) \/ StartDocument(d) \/ ReuseUnit(d) \/ BatchPastDeadline(d)
                 \/ RequestUnit(d) \/ CallModel(d) \/ SkipAttempt(d) \/ AttemptPastDeadline(d)
        BY <3>1 DEF BlockOnUpstream, StartDocument, ReuseUnit, BatchPastDeadline, RequestUnit,
                    CallModel, SkipAttempt, AttemptPastDeadline
      <3>2. CASE \/ ModelFails(d) \/ ModelDrafts(d) \/ ModelRepairs(d) \/ BeginRepairRound(d)
                 \/ RequestRepair(d) \/ RepairPastDeadline(d) \/ Finish(d)
        BY <3>2 DEF ModelFails, ModelDrafts, ModelRepairs, BeginRepairRound, RequestRepair,
                    RepairPastDeadline, Finish
      <3> QED BY <2>1, <3>1, <3>2 DEF DocumentStep
    <2>2. CASE StartExecution \/ NextWave \/ EndExecution \/ TimePasses \/ Crash
               \/ CorruptArtifact \/ UNCHANGED vars
      BY <2>2 DEF StartExecution, NextWave, EndExecution, TimePasses, Crash, CorruptArtifact, vars
    <2> QED BY <2>1, <2>2 DEF Next
  <1> QED BY <1>1, <1>2, PTL DEF Spec

\* A completed section unit whose file is undamaged is never lost or replaced:
\* not by retries, failures, repairs, later executions, or a crash at any point.
THEOREM WorkflowCompletedUnitsSurvive == Spec => CompletedUnitsSurvive
  <1>1. IInv /\ Counted /\ [Next]_vars =>
          \A d \in Docs, u \in DraftUnits :
             Reusable(d, u) /\ corruptions' = corruptions
               => Reusable(d, u)' /\ sectionUnits'[d][u].covers = sectionUnits[d][u].covers
    <2> SUFFICES ASSUME IInv, corruptions \in Nat, [Next]_vars, corruptions' = corruptions,
                        NEW d \in Docs, NEW u \in DraftUnits, Reusable(d, u)
                 PROVE  sectionUnits'[d][u] = sectionUnits[d][u]
      BY DEF Reusable, Counted
    <2>1. CASE sectionUnits' = sectionUnits
      BY <2>1
    <2>2. ASSUME NEW e \in Docs, NEW x, ~Reusable(e, unit[e]), unit[e] \in DraftUnits,
                 sectionUnits' = [sectionUnits EXCEPT ![e][unit[e]] = x]
          PROVE  sectionUnits'[d][u] = sectionUnits[d][u]
      <3>1. d # e \/ u # unit[e]
        BY <2>2
      <3> QED BY <2>2, <3>1 DEF IInv, TextOK
    <2> QED BY <2>1, <2>2, StepUnits
  <1> QED BY <1>1, WorkflowInvariant, DamageIsCounted, PTL DEF Spec, CompletedUnitsSurvive
=============================================================================
