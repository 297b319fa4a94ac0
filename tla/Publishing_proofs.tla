------------------------- MODULE Publishing_proofs -------------------------
(***************************************************************************)
(* Safety of publishing for any number of runs, projects and document      *)
(* types, any scenario and any number of faults: the two destinations with *)
(* their fallback, beside the reorganising command, refine                 *)
(* GatedPublishing, and what was reported published is where it belongs.   *)
(***************************************************************************)
EXTENDS Publishing, SequenceTheorems, FiniteSetTheorems, WellFoundedInduction, TLAPS

-----------------------------------------------------------------------------
(* The inductive invariant. *)

Entry == [i : Nat, status : {"published", "overwritten", "failed"}, token : Nat]
PubFile == [status : {"none", "published", "blocked", "skipped", "dry_run"},
            docs : Seq(Entry), fallback : BOOLEAN]
DocRecord == [run : Runs, i : Nat, place : {"user", "loose", "wiki", "drive"}, node : Nat,
              by : {"user", "handler", "organizer"}]
NodeRecord == [key : Keys, by : {"handler", "organizer"}, space : Nat]
WikiFile == [space : Nat, nodes : [Keys -> [token : Nat, space : Nat]],
             docs : SUBSET [run : Runs, type : Types, space : Nat]]
DriveFile == [Projects -> Nat]
Memory == [wiki : WikiFile, drive : DriveFile]
WorkItem == [kind : {"node"}, key : Keys] \cup [kind : {"folder"}, project : Projects]
            \cup [kind : {"map"}, run : Runs] \cup [kind : {"doc"}, run : Runs, n : Nat]

WikiStages == {"listSpaces", "createSpace", "checkSpace", "wikiNode", "wikiDoc", "wikiMove"}
RunStages == WikiStages \cup {"start", "done", "folder", "driveDoc"}
OrganizerStages ==
    {"start", "done", "listSpaces", "createSpace", "work", "recreateMove", "moveFile"}

ProcessTypes ==
    /\ pc \in [Procs -> RunStages \cup OrganizerStages]
    /\ mem \in [Procs -> Memory] /\ space \in [Procs -> Nat]
    /\ folder \in [Runs -> Nat] /\ at \in [Runs -> Nat] /\ doc \in [Procs -> Nat]
ResultTypes == wikiPub \in [Runs -> Seq(Entry)] /\ pub \in [Runs -> PubFile]
CommandTypes == org \in [local : BOOLEAN, work : Seq(WorkItem)] /\ applies \in Nat
RegistryTypes == wikiReg \in WikiFile /\ driveReg \in DriveFile
FeishuTypes ==
    /\ spaces \in Nat /\ nodes \in Seq(NodeRecord) /\ folders \in Seq(Projects)
    /\ docs \in Seq(DocRecord)

TypeOK ==
    /\ input \in [Runs -> Input] /\ options \in Option
    /\ ProcessTypes /\ ResultTypes /\ CommandTypes /\ RegistryTypes /\ FeishuTypes
    /\ faults \in Nat /\ overlap \in BOOLEAN

(* The tokens of a registry name nodes of the key they are noted for. *)
Genuine(wiki, ns) ==
    \A k \in Keys : LET t == wiki.nodes[k].token
                    IN t # 0 => t \in DOMAIN ns /\ ns[t].key = k

RegistriesGenuine ==
    /\ Genuine(wikiReg, nodes)
    /\ \A q \in Procs : Genuine(mem[q].wiki, nodes)

(* A document a run wrote is one of its output, never for an overwriting    *)
(* run, whose one file keeps its place; before the run began there is none. *)
DocumentOK(d) ==
    LET r == docs[d].run
    IN /\ docs[d].by = "handler" =>
             docs[d].i \in DOMAIN input[r].docs /\ ~Overwrites(input[r])
       /\ docs[d].by = "user" =>
             /\ input[r].token
             /\ docs[d].i # 0 => docs[d].i \in DOMAIN input[r].docs /\ Overwrites(input[r])
       /\ docs[d].by # "organizer" /\ pc[r] = "start" => docs[d].i = 0

(* A request names one file of the user at most. *)
FileNamed(r, d) == docs[d].run = r /\ docs[d].by = "user"
FilesOK ==
    \A r \in Runs :
        /\ input[r].token => \E d \in DOMAIN docs : FileNamed(r, d)
        /\ \A d, e \in DOMAIN docs : FileNamed(r, d) /\ FileNamed(r, e) => d = e

(* Document d is document n of run r's output, where a reader finds it.     *)
Placed(x, d, n, ns) ==
    IF Overwrites(x) THEN d.by = "user"
    ELSE /\ d.by = "handler" /\ d.i = n /\ d.place \in {"wiki", "drive"}
         /\ d.place = "wiki" => d.node \in DOMAIN ns /\
                                ns[d.node].key = CategoryKey(x.project, x.docs[n])

(* What entry n of a result says is true. *)
EntryOK(x, r, n, e, ds, ns) ==
    /\ e.i = n /\ n \in DOMAIN x.docs
    /\ e.token # 0 => /\ e.token \in DOMAIN ds
                      /\ ds[e.token].run = r /\ ds[e.token].by # "organizer"
                      /\ ds[e.token].by = "handler" => ds[e.token].i = n
    /\ e.status # "failed" => e.token # 0 /\ Placed(x, ds[e.token], n, ns)
ListOK(x, r, list, ds, ns) == \A n \in DOMAIN list : EntryOK(x, r, n, list[n], ds, ns)
AllWell(list) == \A n \in DOMAIN list : list[n].status # "failed"

(* The run is where its stage says. *)
StageOK(r) ==
    /\ pc[r] \in RunStages
    /\ pc[r] # "done" <=> pub[r].status = "none"
    /\ Busy(r) => /\ GateOpen(input[r]) /\ options.mode = "live"
                  /\ at[r] \in DOMAIN input[r].docs
    /\ pc[r] \in WikiStages => ToWiki(r)
    /\ pc[r] \in {"start", "folder"} \cup (WikiStages \ {"wikiDoc", "wikiMove"}) => at[r] = 1
    /\ pc[r] \in {"start"} \cup (WikiStages \ {"wikiDoc", "wikiMove"}) => wikiPub[r] = <<>>
    /\ pc[r] \notin {"driveDoc", "done"} => pub[r].docs = <<>>
    /\ pc[r] \in {"wikiDoc", "wikiMove"} =>
          /\ Missing(input[r], space[r], mem[r].wiki) = {}
          /\ Len(wikiPub[r]) = at[r] - 1 /\ AllWell(wikiPub[r])
    /\ pc[r] = "wikiNode" => Missing(input[r], space[r], mem[r].wiki) # {}
    /\ pc[r] = "driveDoc" => Len(pub[r].docs) = at[r] - 1

(* The document about to be moved is the one just created. *)
InHandOK(r) ==
    pc[r] = "wikiMove" =>
        /\ doc[r] \in DOMAIN docs
        /\ docs[doc[r]].run = r /\ docs[doc[r]].i = at[r] /\ docs[doc[r]].by = "handler"

(* Its results say what is true; an overwritten file holds the last.        *)
ResultOK(r) ==
    /\ ListOK(input[r], r, wikiPub[r], docs, nodes)
    /\ ListOK(input[r], r, pub[r].docs, docs, nodes)
    /\ pub[r].status = "published" =>
          AllWell(pub[r].docs) /\ Len(pub[r].docs) = Len(input[r].docs)
    /\ LET n == Len(pub[r].docs)
       IN Overwrites(input[r]) /\ n # 0 /\ pub[r].docs[n].status # "failed"
             => docs[pub[r].docs[n].token].i = n

(* The command works on results that are final. *)
WorkOK ==
    \A m \in DOMAIN org.work :
        org.work[m].kind = "doc" =>
            /\ pub[org.work[m].run].status # "none"
            /\ org.work[m].n \in DOMAIN pub[org.work[m].run].docs
CommandOK ==
    /\ pc[Organizer] \in OrganizerStages
    /\ pc[Organizer] \in {"recreateMove", "moveFile"} =>
          org.work # <<>> /\ Task.kind = "doc" /\ TaskParent # 0
    /\ pc[Organizer] = "moveFile" => TaskToken # 0
    /\ pc[Organizer] = "recreateMove" =>
          doc[Organizer] \in DOMAIN docs /\ docs[doc[Organizer]].by = "organizer"

IInv ==
    /\ TypeOK /\ RegistriesGenuine /\ FilesOK
    /\ \A d \in DOMAIN docs : DocumentOK(d)
    /\ \A r \in Runs : StageOK(r) /\ InHandOK(r) /\ ResultOK(r)
    /\ WorkOK /\ CommandOK

-----------------------------------------------------------------------------
(* Data. *)

\* SetToSeq lists a finite set, each element once.
LEMMA SetToSeqIs ==
  ASSUME NEW S, IsFiniteSet(S)
  PROVE  /\ SetToSeq(S) \in Seq(S)
         /\ \A i, j \in DOMAIN SetToSeq(S) : SetToSeq(S)[i] = SetToSeq(S)[j] => i = j
         /\ \A x \in S : \E i \in DOMAIN SetToSeq(S) : SetToSeq(S)[i] = x
  <1> DEFINE n == Cardinality(S)
  <1>1. n \in Nat /\ \E f : f \in Bijection(1..n, S)
    BY FS_CardinalityType DEF ExistsBijection
  <1>2. PICK f : f \in Bijection(1..n, S)
    BY <1>1
  <1>3. f \in [1..n -> S] /\ IsInjective(f)
    BY <1>2 DEF Bijection, Injection
  <1>4. SetToSeq(S) \in [1..n -> S] /\ IsInjective(SetToSeq(S))
    BY <1>3 DEF SetToSeq
  <1>5. SetToSeq(S) \in Seq(S)
    BY <1>1, <1>4
  <1>6. SetToSeq(S) \in Surjection(1..n, S)
    <2>1. IsFiniteSet(1..n) /\ Cardinality(1..n) = Cardinality(S)
      BY <1>1, FS_Interval
    <2>2. SetToSeq(S) \in Injection(1..n, S)
      BY <1>4 DEF Injection
    <2> QED BY <1>1, <2>1, <2>2, FS_Injection
  <1> QED BY <1>4, <1>5, <1>6 DEF IsInjective, Surjection

LEMMA SetToSeqDomain ==
  ASSUME NEW S, IsFiniteSet(S)
  PROVE  SetToSeq(S) \in [1..Cardinality(S) -> S]
  <1>1. PICK f : f \in Bijection(1..Cardinality(S), S)
    BY FS_CardinalityType DEF ExistsBijection
  <1>2. f \in [1..Cardinality(S) -> S] /\ IsInjective(f)
    BY <1>1 DEF Bijection, Injection
  <1> QED BY <1>2 DEF SetToSeq

LEMMA MemWiki ==
  ASSUME NEW f \in [Procs -> Memory], NEW q \in Procs, NEW w \in WikiFile
  PROVE  LET g == [f EXCEPT ![q].wiki = w]
         IN /\ g \in [Procs -> Memory]
            /\ g[q].wiki = w /\ g[q].drive = f[q].drive
            /\ \A p \in Procs : p # q => g[p] = f[p]
  BY DEF Memory

LEMMA MemDrive ==
  ASSUME NEW f \in [Procs -> Memory], NEW q \in Procs, NEW w \in DriveFile
  PROVE  LET g == [f EXCEPT ![q].drive = w]
         IN /\ g \in [Procs -> Memory]
            /\ \A p \in Procs : g[p].wiki = f[p].wiki
            /\ \A p \in Procs : p # q => g[p] = f[p]
  BY DEF Memory

LEMMA WikiNode ==
  ASSUME NEW w \in WikiFile, NEW k \in Keys, NEW t \in Nat, NEW s \in Nat, NEW v,
         v = [w EXCEPT !.nodes[k] = [token |-> t, space |-> s]]
  PROVE  /\ v \in WikiFile /\ v.nodes[k].token = t
         /\ \A l \in Keys : l # k => v.nodes[l] = w.nodes[l]
  BY DEF WikiFile

LEMMA WikiDocs ==
  ASSUME NEW w \in WikiFile, NEW r \in Runs, NEW t \in Types, NEW s \in Nat, NEW v,
         v = [w EXCEPT !.docs = @ \cup {[run |-> r, type |-> t, space |-> s]}]
  PROVE  v \in WikiFile /\ v.nodes = w.nodes
  BY DEF WikiFile

LEMMA WikiSpace ==
  ASSUME NEW w \in WikiFile, NEW s \in Nat
  PROVE  LET v == [w EXCEPT !.space = s] IN v \in WikiFile /\ v.nodes = w.nodes
  BY DEF WikiFile

LEMMA Empty ==
  /\ EmptyWiki \in WikiFile /\ EmptyDrive \in DriveFile /\ EmptyMem \in Memory
  /\ \A ns : Genuine(EmptyWiki, ns) /\ Genuine(EmptyMem.wiki, ns)
  /\ \A d \in DriveFile : [EmptyMem EXCEPT !.drive = d] \in Memory
                         /\ [EmptyMem EXCEPT !.drive = d].wiki = EmptyWiki
  BY DEF EmptyWiki, EmptyDrive, EmptyMem, WikiFile, DriveFile, Memory, Genuine, NoNode

\* Moving a document changes its place and nothing else.
LEMMA MoveToIs ==
  ASSUME docs \in Seq(DocRecord), NEW d, NEW node \in Nat
  PROVE  LET ds == MoveTo(d, node)
         IN /\ ds \in Seq(DocRecord) /\ DOMAIN ds = DOMAIN docs
            /\ \A k \in DOMAIN docs : k # d => ds[k] = docs[k]
            /\ d \in DOMAIN docs =>
                  ds[d] = [run |-> docs[d].run, i |-> docs[d].i, place |-> "wiki",
                           node |-> node, by |-> docs[d].by]
  <1> DEFINE ds == MoveTo(d, node)
             new == [run |-> docs[d].run, i |-> docs[d].i, place |-> "wiki",
                     node |-> node, by |-> docs[d].by]
  <1>1. DOMAIN ds = DOMAIN docs /\ \A k \in DOMAIN docs : k # d => ds[k] = docs[k]
    BY DEF MoveTo
  <1>2. ASSUME d \in DOMAIN docs
        PROVE  ds[d] = new /\ new \in DocRecord
    <2>1. docs[d] \in DocRecord
      BY <1>2
    <2>2. ds[d] = [[docs[d] EXCEPT !.place = "wiki"] EXCEPT !.node = node]
      BY <1>2 DEF MoveTo
    <2> HIDE DEF ds
    <2> QED BY <2>1, <2>2 DEF DocRecord
  <1>3. \A k \in DOMAIN docs : ds[k] \in DocRecord
    BY <1>1, <1>2
  <1>4. ds \in [1..Len(docs) -> DocRecord]
    <2>1. ds = [k \in DOMAIN docs |-> ds[k]]
      BY DEF MoveTo
    <2>2. DOMAIN docs = 1..Len(docs)
      OBVIOUS
    <2> HIDE DEF ds
    <2> QED BY <2>1, <2>2, <1>3
  <1>5. ds \in Seq(DocRecord)
    <2> HIDE DEF ds
    <2> QED BY <1>4
  <1> QED BY <1>1, <1>2, <1>5

LEMMA Constants == RootKey \in Keys
                   /\ (\A p \in Projects : ProjectKey(p) \in Keys)
                   /\ (\A p \in Projects, t \in Types : CategoryKey(p, t) \in Keys)
  BY DEF Keys

\* A non-empty set of naturals has a least element.
LEMMA Least ==
  ASSUME NEW T, T \subseteq Nat, T # {}
  PROVE  /\ \E m \in T : \A k \in T : m <= k
         /\ Min(T) \in T /\ \A k \in T : Min(T) <= k
  <1> DEFINE Smaller == {ss \in Nat \X Nat : ss[1] < ss[2]}
  <1>1. IsWellFoundedOn(Smaller, Nat)
    BY NatLessThanWellFounded DEF OpToRel
  <1> HIDE DEF Smaller
  <1>2. PICK m \in T : \A k \in T : <<k, m>> \notin Smaller
    BY <1>1, WFMin
  <1>3. \A k \in T : m <= k
    <2> TAKE k \in T
    <2>1. <<k, m>> \in Nat \X Nat /\ k \in Nat /\ m \in Nat
      OBVIOUS
    <2>2. ~(k < m)
      BY <1>2, <2>1 DEF Smaller
    <2> QED BY <2>1, <2>2
  <1> QED BY <1>3 DEF Min

IsFlattening(seqs, m, g) ==
    g = [i \in 1..m |-> IF i = 1 THEN seqs[i] ELSE g[i - 1] \o seqs[i]]

\* Flattening a sequence of sequences keeps the kind of the elements.  The
\* function FlattenSeq is defined by exists for every length and returns
\* sequences, else there were a least length where it does not.
LEMMA FlattenInSeq ==
  ASSUME NEW S, NEW seqs \in Seq(Seq(S))
  PROVE  FlattenSeq(seqs) \in Seq(S)
  <1> DEFINE n == Len(seqs)
             Flattens(m, g) == IsFlattening(seqs, m, g) /\ g \in [1..m -> Seq(S)]
             Bad == {m \in Nat : m <= n /\ ~ \E g : Flattens(m, g)}
  <1>1. n \in Nat /\ \A i \in 1..n : seqs[i] \in Seq(S)
    OBVIOUS
  <1>2. CASE n = 0
    <2>1. seqs = <<>>
      BY <1>2
    <2> QED BY <1>2, <2>1, EmptySeq DEF FlattenSeq
  <1>3. CASE n # 0
    <2>1. Bad = {}
      <3> SUFFICES ASSUME Bad # {} PROVE FALSE
        OBVIOUS
      <3>1. PICK m \in Bad : \A k \in Bad : m <= k
        BY Least
      <3>2. CASE m = 0
        <4> DEFINE g == [i \in 1..0 |-> <<>>]
        <4>1. Flattens(0, g)
          BY DEF IsFlattening
        <4> QED BY <3>2, <4>1
      <3>3. CASE m # 0
        <4>1. m \in Nat /\ m - 1 \in Nat /\ m - 1 <= n /\ m - 1 \notin Bad
          <5>1. m \in Nat /\ m <= n
            BY <3>1
          <5>2. m - 1 \in Bad => m <= m - 1
            BY <3>1
          <5> HIDE DEF Bad
          <5> QED BY <5>1, <5>2, <3>3, <1>1
        <4>2. PICK g : Flattens(m - 1, g)
          BY <4>1
        <4> DEFINE last == IF m = 1 THEN seqs[m] ELSE g[m - 1] \o seqs[m]
                   h == [i \in 1..m |-> IF i = m THEN last ELSE g[i]]
        <4>3. m \in 1..n
          BY <3>1, <3>3
        <4>4. last \in Seq(S)
          <5>1. CASE m = 1
            BY <5>1, <4>3, <1>1
          <5>2. CASE m # 1
            <6>1. g[m - 1] \in Seq(S) /\ seqs[m] \in Seq(S)
              BY <5>2, <4>1, <4>2, <4>3, <1>1
            <6> QED BY <5>2, <6>1, ConcatProperties
          <5> QED BY <5>1, <5>2
        <4> HIDE DEF last
        <4>5. h \in [1..m -> Seq(S)]
          BY <4>2, <4>3, <4>4, <1>1
        <4>6. \A i \in 1..m : h[i] = IF i = 1 THEN seqs[i] ELSE h[i - 1] \o seqs[i]
          <5> TAKE i \in 1..m
          <5>1. CASE i = m
            BY <5>1, <4>3 DEF last
          <5>2. CASE i # m
            <6>1. i \in 1..(m - 1)
              BY <5>2, <4>3
            <6>2. g[i] = IF i = 1 THEN seqs[i] ELSE g[i - 1] \o seqs[i]
              BY <6>1, <4>2 DEF IsFlattening
            <6> QED BY <6>1, <6>2, <5>2, <4>3
          <5> QED BY <5>1, <5>2
        <4>7. IsFlattening(seqs, m, h)
          <5>1. h = [i \in 1..m |-> h[i]]
            OBVIOUS
          <5> HIDE DEF h
          <5> QED BY <5>1, <4>6 DEF IsFlattening
        <4> HIDE DEF h
        <4> QED BY <4>5, <4>7
      <3> QED BY <3>2, <3>3
    <2>2. PICK g : Flattens(n, g)
      BY <2>1, <1>1
    <2> DEFINE f == CHOOSE x : IsFlattening(seqs, n, x)
    <2>3. IsFlattening(seqs, n, f)
      BY <2>2
    <2>4. FlattenSeq(seqs) = f[n]
      BY <1>3 DEF FlattenSeq, IsFlattening
    <2> HIDE DEF f
    <2> DEFINE Off == {m \in 1..n : f[m] \notin Seq(S)}
    <2>5. Off = {}
      <3> SUFFICES ASSUME Off # {} PROVE FALSE
        OBVIOUS
      <3>1. PICK m \in Off : \A k \in Off : m <= k
        <4>1. Off \subseteq Nat
          BY <1>1
        <4> QED BY <4>1, Least
      <3>2. f[m] = IF m = 1 THEN seqs[m] ELSE f[m - 1] \o seqs[m]
        BY <2>3 DEF IsFlattening
      <3>3. CASE m = 1
        BY <3>2, <3>3, <1>1
      <3>4. CASE m # 1
        <4>1. m - 1 \in 1..n /\ f[m - 1] \in Seq(S) /\ seqs[m] \in Seq(S)
          BY <3>1, <3>4, <1>1
        <4> QED BY <3>2, <3>4, <4>1, ConcatProperties
      <3> QED BY <3>3, <3>4
    <2> QED BY <2>4, <2>5, <1>1, <1>3
  <1> QED BY <1>2, <1>3

-----------------------------------------------------------------------------
(* The initial states. *)

LEMMA InitIInv == Init => IInv
  <1> SUFFICES ASSUME Init PROVE IInv
    OBVIOUS
  <1> USE PublishingAssumption DEF PublishingAssumption
  <1>1. input \in [Runs -> Input] /\ options \in Option /\ applies \in Nat
    BY DEF Init
  <1> DEFINE Files == {[run |-> r, i |-> 0, place |-> "user", node |-> 0, by |-> "user"] :
                          r \in {x \in Runs : input[x].token}}
             File(r) == [run |-> r, i |-> 0, place |-> "user", node |-> 0, by |-> "user"]
  <1>2. docs = SetToSeq(Files)
    BY DEF Init
  <1>3. IsFiniteSet(Files)
    <2> DEFINE named == {x \in Runs : input[x].token}
    <2>1. IsFiniteSet(named)
      BY FS_Subset
    <2>2. [r \in named |-> File(r)] \in Surjection(named, Files)
      BY DEF Surjection
    <2> QED BY <2>1, <2>2, FS_Surjection
  <1>4. Files \subseteq DocRecord
    BY DEF DocRecord
  <1>5. docs \in Seq(Files)
    BY <1>2, <1>3, SetToSeqIs
  <1>6. docs \in Seq(DocRecord)
    BY <1>4, <1>5, SeqMonotonic
  <1>7. \A d \in DOMAIN docs : \E r \in Runs : input[r].token /\ docs[d] = File(r)
    <2> TAKE d \in DOMAIN docs
    <2>1. docs[d] \in Files
      BY <1>5
    <2> QED BY <2>1
  <1>8. ProcessTypes /\ ResultTypes /\ CommandTypes /\ RegistryTypes
    <2>1. ProcessTypes
      BY Empty DEF Init, ProcessTypes, RunStages, Procs
    <2>2. NoPub \in PubFile
      BY EmptySeq DEF NoPub, PubFile
    <2>3. ResultTypes
      BY <2>2, EmptySeq DEF Init, ResultTypes
    <2> QED BY <1>1, <2>1, <2>3, Empty, EmptySeq DEF Init, CommandTypes, Idle, RegistryTypes
  <1>9. FeishuTypes
    BY <1>6, EmptySeq DEF Init, FeishuTypes
  <1>10. TypeOK
    BY <1>1, <1>8, <1>9 DEF TypeOK, Init
  <1>11. RegistriesGenuine
    BY Empty DEF Init, RegistriesGenuine
  <1>12. FilesOK
    <2> SUFFICES ASSUME NEW r \in Runs
                 PROVE  /\ input[r].token => \E d \in DOMAIN docs : FileNamed(r, d)
                        /\ \A d, e \in DOMAIN docs : FileNamed(r, d) /\ FileNamed(r, e) => d = e
      BY DEF FilesOK
    <2>1. ASSUME input[r].token PROVE \E d \in DOMAIN docs : FileNamed(r, d)
      <3>1. File(r) \in Files
        BY <2>1
      <3>2. PICK d \in DOMAIN docs : docs[d] = File(r)
        <4> HIDE DEF Files, File
        <4> QED BY <1>2, <1>3, <3>1, SetToSeqIs
      <3> QED BY <3>2 DEF FileNamed
    <2>2. ASSUME NEW d \in DOMAIN docs, NEW e \in DOMAIN docs, FileNamed(r, d), FileNamed(r, e)
          PROVE  d = e
      <3>1. docs[d] = File(r) /\ docs[e] = File(r)
        BY <1>7, <2>2 DEF FileNamed
      <3> QED BY <1>2, <1>3, <3>1, SetToSeqIs
    <2> QED BY <2>1, <2>2
  <1>13. \A d \in DOMAIN docs : DocumentOK(d)
    BY <1>7 DEF DocumentOK
  <1>14. \A r \in Runs : StageOK(r) /\ InHandOK(r) /\ ResultOK(r)
    <2> TAKE r \in Runs
    <2>1. pc[r] = "start" /\ at[r] = 1 /\ wikiPub[r] = <<>> /\ pub[r] = NoPub
      BY DEF Init, Procs
    <2>2. StageOK(r) /\ InHandOK(r)
      BY <2>1 DEF StageOK, InHandOK, RunStages, WikiStages, NoPub, Busy
    <2>3. ResultOK(r)
      BY <2>1 DEF ResultOK, NoPub, ListOK
    <2> QED BY <2>2, <2>3
  <1>15. WorkOK /\ CommandOK
    BY DEF Init, WorkOK, CommandOK, Idle, Procs, OrganizerStages
  <1> QED BY <1>10, <1>11, <1>12, <1>13, <1>14, <1>15 DEF IInv

-----------------------------------------------------------------------------
(* The plan of the reorganising command. *)

FinalWork == {w \in WorkItem : w.kind = "doc" => /\ pub[w.run].status # "none"
                                                /\ w.n \in DOMAIN pub[w.run].docs}

LEMMA EntryType ==
  ASSUME TypeOK, NEW r \in Runs, NEW n \in DOMAIN pub[r].docs
  PROVE  pub[r] \in PubFile /\ pub[r].docs \in Seq(Entry) /\ pub[r].docs[n] \in Entry /\ n \in Nat
  BY DEF TypeOK, ResultTypes, PubFile

LEMMA PlanIsFinal ==
  ASSUME IInv PROVE Plan \in Seq(FinalWork)
  <1> USE PublishingAssumption DEF PublishingAssumption
  <1>1. TypeOK /\ \A r \in Runs : ResultOK(r)
    BY DEF IInv
  <1>2. Inventory \subseteq Runs /\ IsFiniteSet(Inventory)
    <2>1. Inventory \subseteq Runs
      BY DEF Inventory
    <2> QED BY <2>1, FS_Subset
  <1>3. ASSUME NEW r \in Inventory PROVE WorkOfRun(r) \in Seq(FinalWork)
    <2>1. r \in Runs /\ pub[r].status # "none" /\ pub[r].docs \in Seq(Entry)
      BY <1>1, <1>3 DEF Inventory, TypeOK, ResultTypes, PubFile
    <2> DEFINE map == <<[kind |-> "map", run |-> r]>>
               each == [n \in DOMAIN pub[r].docs |-> [kind |-> "doc", run |-> r, n |-> n]]
    <2>2. map \in Seq(FinalWork)
      BY <2>1 DEF FinalWork, WorkItem
    <2>3. each \in Seq(FinalWork)
      <3>1. \A n \in DOMAIN pub[r].docs : each[n] \in FinalWork
        BY <2>1 DEF FinalWork, WorkItem
      <3>2. DOMAIN each = 1..Len(pub[r].docs) /\ Len(pub[r].docs) \in Nat
        BY <2>1
      <3> QED BY <3>1, <3>2
    <2> HIDE DEF map, each
    <2>4. map \o each \in Seq(FinalWork)
      BY <2>2, <2>3, ConcatProperties
    <2> QED BY <2>4 DEF WorkOfRun, map, each
  <1>4. ASSUME NEW p \in Projects PROVE TypesIn(p) \subseteq Types /\ IsFiniteSet(TypesIn(p))
    <2>1. ASSUME NEW r \in Runs, NEW n \in DOMAIN pub[r].docs PROVE TypeAt(r, n) \in Types
      <3>1. pub[r].docs[n].i \in DOMAIN input[r].docs
        BY <1>1, <2>1 DEF ResultOK, ListOK, EntryOK
      <3>2. input[r].docs \in Seq(Types)
        BY <1>1 DEF TypeOK, Input
      <3> QED BY <3>1, <3>2 DEF TypeAt
    <2>2. TypesIn(p) \subseteq Types
      BY <2>1, <1>2 DEF TypesIn
    <2> QED BY <2>2, FS_Subset
  <1>5. ASSUME NEW p \in Projects PROVE WorkOfProject(p) \in Seq(FinalWork)
    <2> DEFINE T == TypesIn(p)
               R == {r \in Inventory : input[r].project = p}
               project == <<[kind |-> "node", key |-> ProjectKey(p)]>>
               category == [n \in 1..Cardinality(T) |->
                              [kind |-> "node", key |-> CategoryKey(p, SetToSeq(T)[n])]]
               folderOf == <<[kind |-> "folder", project |-> p]>>
               runs == [n \in 1..Cardinality(R) |-> WorkOfRun(SetToSeq(R)[n])]
    <2>1. project \in Seq(FinalWork) /\ folderOf \in Seq(FinalWork)
      BY Constants DEF FinalWork, WorkItem
    <2>2. category \in Seq(FinalWork)
      <3>1. Cardinality(T) \in Nat /\ SetToSeq(T) \in [1..Cardinality(T) -> T]
        BY <1>4, FS_CardinalityType, SetToSeqDomain
      <3>2. \A n \in 1..Cardinality(T) : category[n] \in FinalWork
        BY <3>1, <1>4, Constants DEF FinalWork, WorkItem
      <3> QED BY <3>1, <3>2
    <2>3. runs \in Seq(Seq(FinalWork))
      <3>1. R \subseteq Inventory /\ IsFiniteSet(R)
        BY <1>2, FS_Subset
      <3>2. Cardinality(R) \in Nat /\ SetToSeq(R) \in [1..Cardinality(R) -> R]
        BY <3>1, FS_CardinalityType, SetToSeqDomain
      <3>3. \A n \in 1..Cardinality(R) : runs[n] \in Seq(FinalWork)
        BY <3>1, <3>2, <1>3
      <3> QED BY <3>2, <3>3
    <2>4. FlattenSeq(runs) \in Seq(FinalWork)
      BY <2>3, FlattenInSeq
    <2>5. WorkOfProject(p) = project \o category \o folderOf \o FlattenSeq(runs)
      BY DEF WorkOfProject
    <2> HIDE DEF project, category, folderOf, runs
    <2>6. project \o category \in Seq(FinalWork)
      BY <2>1, <2>2, ConcatProperties
    <2>7. (project \o category) \o folderOf \in Seq(FinalWork)
      BY <2>1, <2>6, ConcatProperties
    <2> QED BY <2>4, <2>5, <2>7, ConcatProperties
  <1>6. QED
    <2> DEFINE P == {input[r].project : r \in Inventory}
               ps == SetToSeq(P)
               works == [n \in DOMAIN ps |-> WorkOfProject(ps[n])]
    <2>1. P \subseteq Projects /\ IsFiniteSet(P)
      <3>1. P \subseteq Projects
        BY <1>1, <1>2 DEF TypeOK, Input
      <3> QED BY <3>1, FS_Subset
    <2>2. ps \in Seq(P)
      BY <2>1, SetToSeqIs
    <2>3. works \in Seq(Seq(FinalWork))
      <3>1. \A n \in DOMAIN ps : works[n] \in Seq(FinalWork)
        BY <2>1, <2>2, <1>5
      <3>2. DOMAIN ps = 1..Len(ps) /\ Len(ps) \in Nat
        BY <2>2
      <3> HIDE DEF ps
      <3> QED BY <3>1, <3>2
    <2>4. Plan = FlattenSeq(works)
      BY DEF Plan
    <2> QED BY <2>3, <2>4, FlattenInSeq

-----------------------------------------------------------------------------
(* What a step of one run leaves alone. *)

Grows(ns, new) == \A k \in DOMAIN ns : k \in DOMAIN new /\ new[k] = ns[k]

\* Documents stay with their run and their maker, those run r did not make
\* stay as they are, and it makes none but its own.
OwnDocuments(r, ds, new) ==
    /\ \A d \in DOMAIN ds :
          /\ d \in DOMAIN new /\ new[d].run = ds[d].run /\ new[d].by = ds[d].by
          /\ ds[d].run # r \/ ds[d].by = "organizer" => new[d] = ds[d]
    /\ \A d \in DOMAIN new : d \notin DOMAIN ds => new[d].run = r /\ new[d].by = "handler"

OthersAlone(r) ==
    /\ input' = input /\ options' = options /\ org' = org
    /\ \A q \in Procs : q # r =>
          pc'[q] = pc[q] /\ mem'[q] = mem[q] /\ space'[q] = space[q] /\ doc'[q] = doc[q]
    /\ \A s \in Runs : s # r => at'[s] = at[s] /\ pub'[s] = pub[s] /\ wikiPub'[s] = wikiPub[s]

OwnOK(r) ==
    /\ StageOK(r) /\ InHandOK(r) /\ ResultOK(r)
    /\ \A d \in DOMAIN docs : docs[d].run = r => DocumentOK(d)

\* What an entry says stays true while its run's documents and the nodes stay.
LEMMA EntryStays ==
  ASSUME NEW x, NEW r, NEW n, NEW e, NEW ds, NEW ns, NEW ds2, NEW ns2,
         EntryOK(x, r, n, e, ds, ns), Grows(ns, ns2),
         \A d \in DOMAIN ds : ds[d].run = r /\ ds[d].by # "organizer" =>
             d \in DOMAIN ds2 /\ ds2[d] = ds[d]
  PROVE  EntryOK(x, r, n, e, ds2, ns2)
  BY DEF EntryOK, Placed, Grows

LEMMA ListStays ==
  ASSUME NEW x, NEW r, NEW list, NEW ds, NEW ns, NEW ds2, NEW ns2,
         ListOK(x, r, list, ds, ns), Grows(ns, ns2),
         \A d \in DOMAIN ds : ds[d].run = r /\ ds[d].by # "organizer" =>
             d \in DOMAIN ds2 /\ ds2[d] = ds[d]
  PROVE  ListOK(x, r, list, ds2, ns2)
  BY EntryStays DEF ListOK

\* A run whose own state and documents a step leaves alone is as it was.
LEMMA RunStays ==
  ASSUME IInv, NEW s \in Runs, input' = input, options' = options,
         pc'[s] = pc[s], mem'[s] = mem[s], space'[s] = space[s], doc'[s] = doc[s],
         at'[s] = at[s], pub'[s] = pub[s], wikiPub'[s] = wikiPub[s],
         Grows(nodes, nodes'),
         \A d \in DOMAIN docs : docs[d].run = s /\ docs[d].by # "organizer" =>
             d \in DOMAIN docs' /\ docs'[d] = docs[d]
  PROVE  StageOK(s)' /\ InHandOK(s)' /\ ResultOK(s)'
  <1>1. StageOK(s) /\ InHandOK(s) /\ ResultOK(s)
    BY DEF IInv
  <1>2. ToWiki(s)' = ToWiki(s)
    BY DEF ToWiki
  <1>3. Busy(s)' = Busy(s)
    BY DEF Busy
  <1>4. StageOK(s)'
    BY <1>1, <1>2, <1>3 DEF StageOK
  <1>5. InHandOK(s)'
    BY <1>1 DEF InHandOK
  <1>6. ListOK(input[s], s, wikiPub[s], docs', nodes') /\ ListOK(input[s], s, pub[s].docs, docs', nodes')
    BY <1>1, ListStays DEF ResultOK
  <1>7. LET n == Len(pub[s].docs)
        IN Overwrites(input[s]) /\ n # 0 /\ pub[s].docs[n].status # "failed"
              => docs'[pub[s].docs[n].token] = docs[pub[s].docs[n].token]
    <2> DEFINE n == Len(pub[s].docs)
    <2> SUFFICES ASSUME n # 0, pub[s].docs[n].status # "failed"
                 PROVE  docs'[pub[s].docs[n].token] = docs[pub[s].docs[n].token]
      OBVIOUS
    <2>1. n \in DOMAIN pub[s].docs
      <3>1. pub[s].docs \in Seq(Entry)
        BY DEF IInv, TypeOK, ResultTypes, PubFile
      <3> QED BY <3>1
    <2>2. EntryOK(input[s], s, n, pub[s].docs[n], docs, nodes)
      BY <1>1, <2>1 DEF ResultOK, ListOK
    <2> QED BY <2>2 DEF EntryOK
  <1>8. ResultOK(s)'
    BY <1>1, <1>6, <1>7 DEF ResultOK
  <1> QED BY <1>4, <1>5, <1>8

LEMMA FilesStay ==
  ASSUME FilesOK, input' = input,
         \A d \in DOMAIN docs : d \in DOMAIN docs' /\ docs'[d].run = docs[d].run
                                                  /\ docs'[d].by = docs[d].by,
         \A d \in DOMAIN docs' : d \notin DOMAIN docs => docs'[d].by # "user"
  PROVE  FilesOK'
  BY DEF FilesOK, FileNamed

\* The command's work stays final, and what it has in hand stays.
LEMMA CommandStays ==
  ASSUME IInv, input' = input, org' = org,
         pc'[Organizer] = pc[Organizer], mem'[Organizer] = mem[Organizer],
         space'[Organizer] = space[Organizer], doc'[Organizer] = doc[Organizer],
         \A s \in Runs : pub[s].status # "none" => pub'[s] = pub[s],
         \A d \in DOMAIN docs : d \in DOMAIN docs' /\ docs'[d].by = docs[d].by
  PROVE  WorkOK' /\ CommandOK'
  <1>1. WorkOK /\ CommandOK /\ org.work \in Seq(WorkItem)
    BY DEF IInv, TypeOK, CommandTypes
  <1>2. \A m \in DOMAIN org.work : org.work[m].kind = "doc" =>
            org.work[m].run \in Runs /\ pub'[org.work[m].run] = pub[org.work[m].run]
    BY <1>1 DEF WorkOK, WorkItem
  <1>3. WorkOK'
    BY <1>1, <1>2 DEF WorkOK
  <1>4. ASSUME org.work # <<>>, Task.kind = "doc"
        PROVE  Task' = Task /\ TaskParent' = TaskParent /\ TaskToken' = TaskToken
    <2>1. Task' = Task
      BY DEF Task
    <2>2. Task = org.work[1] /\ 1 \in DOMAIN org.work
      BY <1>1, <1>4 DEF Task
    <2>3. pub'[Task.run] = pub[Task.run]
      BY <1>2, <1>4, <2>2
    <2>4. TaskToken' = TaskToken /\ TaskType' = TaskType
      BY <2>1, <2>3 DEF TaskToken, TaskType, TypeAt
    <2>5. TaskParent' = TaskParent
      BY <2>1, <2>4 DEF TaskParent, TokenHere, Memo
    <2> QED BY <2>1, <2>4, <2>5
  <1>5. CommandOK'
    BY <1>1, <1>4 DEF CommandOK
  <1> QED BY <1>3, <1>5

\* What is left to show for a step of run r is about r.
LEMMA FromOwn ==
  ASSUME IInv, NEW r \in Runs, pc[r] # "done",
         OthersAlone(r), OwnDocuments(r, docs, docs'), Grows(nodes, nodes'),
         TypeOK', RegistriesGenuine', OwnOK(r)'
  PROVE  IInv'
  <1> USE PublishingAssumption DEF PublishingAssumption
  <1>1. \A s \in Runs : pub[s].status # "none" => pub'[s] = pub[s]
    BY DEF OthersAlone, IInv, StageOK
  <1>2. WorkOK' /\ CommandOK'
    <2>1. Organizer \in Procs /\ Organizer # r
      BY DEF Procs
    <2> QED BY <1>1, <2>1, CommandStays DEF OthersAlone, OwnDocuments
  <1>3. ASSUME NEW s \in Runs, s # r
        PROVE  StageOK(s)' /\ InHandOK(s)' /\ ResultOK(s)'
    <2>1. s \in Procs
      BY DEF Procs
    <2>2. \A d \in DOMAIN docs : docs[d].run = s /\ docs[d].by # "organizer" =>
              d \in DOMAIN docs' /\ docs'[d] = docs[d]
      BY <1>3 DEF OwnDocuments
    <2> QED BY <1>3, <2>1, <2>2, RunStays DEF OthersAlone
  <1>4. FilesOK'
    BY FilesStay DEF IInv, OthersAlone, OwnDocuments
  <1>5. \A d \in DOMAIN docs' : DocumentOK(d)'
    <2> SUFFICES ASSUME NEW d \in DOMAIN docs', docs'[d].run # r
                 PROVE  DocumentOK(d)'
      BY DEF OwnOK
    <2>1. d \in DOMAIN docs /\ docs'[d] = docs[d]
      BY DEF OwnDocuments
    <2>2. docs[d].run \in Procs
      <3>1. docs \in Seq(DocRecord)
        BY DEF IInv, TypeOK, FeishuTypes
      <3>2. docs[d] \in DocRecord
        BY <2>1, <3>1
      <3> QED BY <3>2 DEF DocRecord, Procs
    <2>3. pc'[docs[d].run] = pc[docs[d].run]
      BY <2>1, <2>2 DEF OthersAlone
    <2> QED BY <2>1, <2>3 DEF IInv, DocumentOK, OthersAlone
  <1> QED BY <1>2, <1>3, <1>4, <1>5 DEF IInv, OwnOK

-----------------------------------------------------------------------------
(* Steps of a run: what the pieces they are made of do. *)

ProcessesAlone(r) ==
    /\ \A q \in Procs : q # r =>
          pc'[q] = pc[q] /\ mem'[q] = mem[q] /\ space'[q] = space[q] /\ doc'[q] = doc[q]
    /\ \A s \in Runs : s # r => at'[s] = at[s]
ResultsAlone(r) == \A s \in Runs : s # r => pub'[s] = pub[s] /\ wikiPub'[s] = wikiPub[s]

LEMMA ListAppend ==
  ASSUME NEW x, NEW r, NEW list \in Seq(Entry), NEW e \in Entry, NEW ds, NEW ns,
         ListOK(x, r, list, ds, ns), EntryOK(x, r, Len(list) + 1, e, ds, ns)
  PROVE  /\ Append(list, e) \in Seq(Entry) /\ Len(Append(list, e)) = Len(list) + 1
         /\ ListOK(x, r, Append(list, e), ds, ns)
         /\ Append(list, e)[Len(list) + 1] = e
         /\ AllWell(list) /\ e.status # "failed" => AllWell(Append(list, e))
  <1>1. /\ Append(list, e) \in Seq(Entry) /\ Len(Append(list, e)) = Len(list) + 1
        /\ \A n \in 1..Len(list) : Append(list, e)[n] = list[n]
        /\ Append(list, e)[Len(list) + 1] = e
    BY AppendProperties
  <1>2. DOMAIN Append(list, e) = 1..(Len(list) + 1) /\ DOMAIN list = 1..Len(list) /\ Len(list) \in Nat
    BY <1>1
  <1> DEFINE new == Append(list, e)
  <1> HIDE DEF new
  <1>3. \A n \in DOMAIN new : n \in DOMAIN list \/ n = Len(list) + 1
    BY <1>2 DEF new
  <1>4. ListOK(x, r, new, ds, ns)
    BY <1>1, <1>2, <1>3 DEF ListOK, new
  <1>5. AllWell(list) /\ e.status # "failed" => AllWell(new)
    BY <1>1, <1>2, <1>3 DEF AllWell, new
  <1> QED BY <1>1, <1>4, <1>5 DEF new

\* A document the handler makes is the last, and the others stay.
LEMMA MakeDocument ==
  ASSUME docs \in Seq(DocRecord), NEW r \in Runs, NEW i \in Nat,
         NEW place \in {"loose", "drive"}, NEW node \in Nat
  PROVE  LET ds == Append(docs, NewDoc(r, i, place, node, "handler"))
         IN /\ ds \in Seq(DocRecord) /\ OwnDocuments(r, docs, ds)
            /\ DOMAIN ds = DOMAIN docs \cup {Len(docs) + 1} /\ Len(docs) + 1 \in Nat \ {0}
            /\ Len(docs) + 1 \notin DOMAIN docs
            /\ \A d \in DOMAIN docs : ds[d] = docs[d]
            /\ ds[Len(docs) + 1] = NewDoc(r, i, place, node, "handler")
  <1> DEFINE e == NewDoc(r, i, place, node, "handler")
             ds == Append(docs, e)
  <1>1. e \in DocRecord /\ e.run = r /\ e.by = "handler"
    BY DEF NewDoc, DocRecord
  <1> HIDE DEF e
  <1>2. /\ ds \in Seq(DocRecord) /\ Len(ds) = Len(docs) + 1
        /\ \A d \in 1..Len(docs) : ds[d] = docs[d]
        /\ ds[Len(docs) + 1] = e
    BY <1>1, AppendProperties
  <1>3. DOMAIN ds = 1..(Len(docs) + 1) /\ DOMAIN docs = 1..Len(docs) /\ Len(docs) \in Nat
    BY <1>2
  <1> HIDE DEF ds
  <1>4. DOMAIN ds = DOMAIN docs \cup {Len(docs) + 1} /\ Len(docs) + 1 \notin DOMAIN docs
    BY <1>3
  <1>5. OwnDocuments(r, docs, ds)
    BY <1>1, <1>2, <1>3, <1>4 DEF OwnDocuments
  <1> QED BY <1>2, <1>3, <1>4, <1>5 DEF e, ds

LEMMA OwnDocumentsStay ==
  ASSUME IInv, NEW r \in Runs, input' = input, pc'[r] # "start",
         \A d \in DOMAIN docs : docs[d].run = r =>
             docs'[d].i = docs[d].i /\ docs'[d].by = docs[d].by /\ docs'[d].run = r,
         \A d \in DOMAIN docs' : docs'[d].run = r /\ d \in DOMAIN docs => docs[d].run = r,
         \A d \in DOMAIN docs' : docs'[d].run = r /\ d \notin DOMAIN docs =>
             docs'[d].by = "handler" /\ docs'[d].i \in DOMAIN input[r].docs /\ ~Overwrites(input[r])
  PROVE  \A d \in DOMAIN docs' : docs'[d].run = r => DocumentOK(d)'
  <1> SUFFICES ASSUME NEW d \in DOMAIN docs', docs'[d].run = r PROVE DocumentOK(d)'
    OBVIOUS
  <1>1. CASE d \in DOMAIN docs
    BY <1>1 DEF IInv, DocumentOK
  <1>2. CASE d \notin DOMAIN docs
    BY <1>2 DEF DocumentOK
  <1> QED BY <1>1, <1>2

LEMMA EnterDriveIs ==
  ASSUME TypeOK, NEW r \in Runs, EnterDrive(r)
  PROVE  /\ ProcessTypes' /\ ProcessesAlone(r)
         /\ pc'[r] \in {"folder", "driveDoc"} /\ at'[r] = 1 /\ mem'[r].wiki = EmptyWiki
  <1>1. r \in Procs /\ input[r].project \in Projects
    BY DEF Procs, TypeOK, Input
  <1>2. driveReg[input[r].project] \in Nat
    BY <1>1 DEF TypeOK, RegistryTypes, DriveFile
  <1>3. /\ [EmptyMem EXCEPT !.drive = driveReg] \in Memory
        /\ [EmptyMem EXCEPT !.drive = driveReg].wiki = EmptyWiki
    BY Empty DEF TypeOK, RegistryTypes
  <1>4. PICK m \in Memory : m.wiki = EmptyWiki /\ mem' = [mem EXCEPT ![r] = m]
    BY <1>3 DEF EnterDrive, Put
  <1>5. /\ folder' = [folder EXCEPT ![r] = driveReg[input[r].project]]
        /\ at' = [at EXCEPT ![r] = 1] /\ space' = [space EXCEPT ![r] = 0]
        /\ doc' = [doc EXCEPT ![r] = 0]
    BY DEF EnterDrive, Put
  <1>6. PICK stage \in {"folder", "driveDoc"} : pc' = [pc EXCEPT ![r] = stage]
    BY DEF EnterDrive, Put
  <1>7. ProcessTypes'
    BY <1>1, <1>2, <1>4, <1>5, <1>6 DEF TypeOK, ProcessTypes, RunStages
  <1> QED BY <1>1, <1>4, <1>5, <1>6, <1>7 DEF TypeOK, ProcessTypes, ProcessesAlone

LEMMA ForgetIs ==
  ASSUME TypeOK, NEW q \in Procs, Forget(q)
  PROVE  /\ pc' = [pc EXCEPT ![q] = "done"] /\ mem' = [mem EXCEPT ![q] = EmptyMem]
         /\ space' = [space EXCEPT ![q] = 0] /\ doc' = [doc EXCEPT ![q] = 0]
         /\ mem' \in [Procs -> Memory] /\ mem'[q].wiki = EmptyWiki /\ pc'[q] = "done"
         /\ pc' \in [Procs -> RunStages \cup OrganizerStages]
         /\ space' \in [Procs -> Nat] /\ doc' \in [Procs -> Nat]
  BY Empty DEF Forget, Put, TypeOK, ProcessTypes, RunStages, EmptyMem

LEMMA EndIs ==
  ASSUME TypeOK, NEW r \in Runs, Forget(r), Reset(r)
  PROVE  ProcessTypes' /\ ProcessesAlone(r) /\ pc'[r] = "done" /\ mem'[r].wiki = EmptyWiki
  <1>1. r \in Procs
    BY DEF Procs
  <1>2. folder' = [folder EXCEPT ![r] = 0] /\ at' = [at EXCEPT ![r] = 1]
    BY DEF Reset, Put
  <1> QED BY <1>1, <1>2, ForgetIs DEF TypeOK, ProcessTypes, ProcessesAlone

LEMMA RecordIs ==
  ASSUME ResultTypes, NEW r \in Runs, NEW list \in Seq(Entry),
         NEW status \in {"none", "published", "blocked", "skipped", "dry_run"},
         NEW fallback \in BOOLEAN, Record(r, status, list, fallback)
  PROVE  /\ pub' \in [Runs -> PubFile] /\ \A s \in Runs : s # r => pub'[s] = pub[s]
         /\ pub'[r].status = status /\ pub'[r].docs = list
  BY DEF ResultTypes, Record, Put, PubFile

\* A run whose last wiki step failed is blocked, or starts over in the Drive.
LEMMA WikiFailedIs ==
  ASSUME IInv, NEW r \in Runs, pc[r] \in WikiStages, NEW list \in Seq(Entry),
         WikiFailed(r, list), input' = input, options' = options,
         ListOK(input[r], r, list, docs', nodes')
  PROVE  /\ ProcessTypes' /\ ResultTypes' /\ ProcessesAlone(r) /\ ResultsAlone(r)
         /\ mem'[r].wiki = EmptyWiki /\ pc'[r] # "start"
         /\ StageOK(r)' /\ InHandOK(r)' /\ ResultOK(r)'
  <1>1. TypeOK /\ StageOK(r) /\ ResultOK(r) /\ ~Overwrites(input[r])
    BY DEF IInv, StageOK, ToWiki
  <1>2. /\ wikiPub' \in [Runs -> Seq(Entry)] /\ wikiPub'[r] = list
        /\ \A s \in Runs : s # r => wikiPub'[s] = wikiPub[s]
    BY <1>1 DEF WikiFailed, Put, TypeOK, ResultTypes
  <1>3. CASE options.target = "wiki"
    <2>1. Record(r, "blocked", list, FALSE) /\ Forget(r) /\ Reset(r)
      BY <1>3 DEF WikiFailed
    <2>2. ProcessTypes' /\ ProcessesAlone(r) /\ pc'[r] = "done" /\ mem'[r].wiki = EmptyWiki
      BY <1>1, <2>1, EndIs
    <2>3. /\ pub' \in [Runs -> PubFile] /\ \A s \in Runs : s # r => pub'[s] = pub[s]
          /\ pub'[r].status = "blocked" /\ pub'[r].docs = list
      BY <1>1, <2>1, RecordIs DEF TypeOK
    <2>4. StageOK(r)' /\ InHandOK(r)'
      BY <2>2, <2>3 DEF StageOK, InHandOK, Busy, RunStages, WikiStages
    <2>5. ResultOK(r)'
      BY <1>1, <1>2, <2>3 DEF ResultOK
    <2> QED BY <1>2, <2>2, <2>3, <2>4, <2>5 DEF ResultTypes, ResultsAlone
  <1>4. CASE options.target # "wiki"
    <2>1. EnterDrive(r) /\ pub' = pub
      BY <1>4 DEF WikiFailed
    <2>2. /\ ProcessTypes' /\ ProcessesAlone(r) /\ mem'[r].wiki = EmptyWiki
          /\ pc'[r] \in {"folder", "driveDoc"} /\ at'[r] = 1
      BY <1>1, <2>1, EnterDriveIs
    <2>3. pub[r].docs = <<>> /\ pub[r].status = "none"
      BY <1>1 DEF StageOK, WikiStages
    <2>4. GateOpen(input[r]) /\ options.mode = "live" /\ 1 \in DOMAIN input[r].docs
      <3>1. at[r] \in DOMAIN input[r].docs /\ GateOpen(input[r]) /\ options.mode = "live"
        BY <1>1 DEF StageOK, Busy, WikiStages
      <3>2. input[r].docs \in Seq(Types)
        BY <1>1 DEF TypeOK, Input
      <3> QED BY <3>1, <3>2
    <2>5. Len(pub[r].docs) = 0
      BY <2>3
    <2>6. StageOK(r)' /\ InHandOK(r)'
      BY <2>1, <2>2, <2>3, <2>4, <2>5 DEF StageOK, InHandOK, Busy, RunStages, WikiStages
    <2>7. ResultOK(r)'
      BY <1>1, <1>2, <2>1, <2>3 DEF ResultOK, ListOK
    <2> QED BY <1>1, <1>2, <2>1, <2>2, <2>6, <2>7 DEF TypeOK, ResultTypes, ResultsAlone, WikiStages
  <1> QED BY <1>3, <1>4

-----------------------------------------------------------------------------
(* Steps of a run. *)

\* Grows and OwnDocuments hold of a step that changes no node or document.
LEMMA NothingNew ==
  ASSUME NEW r, NEW ds, NEW ns
  PROVE  Grows(ns, ns) /\ OwnDocuments(r, ds, ds)
  BY DEF Grows, OwnDocuments

\* A step that leaves the documents and the results alone, and the run in a
\* stage before its first document, keeps what is said of them.
LEMMA OwnQuiet ==
  ASSUME IInv, NEW r \in Runs, input' = input, options' = options, docs' = docs,
         pub'[r] = pub[r], wikiPub'[r] = wikiPub[r], Grows(nodes, nodes'),
         pc'[r] # "start", pc'[r] # "wikiMove", StageOK(r)'
  PROVE  OwnOK(r)'
  <1>1. ResultOK(r) /\ Grows(nodes, nodes')
    BY DEF IInv
  <1>2. /\ ListOK(input[r], r, wikiPub[r], docs, nodes')
        /\ ListOK(input[r], r, pub[r].docs, docs, nodes')
    BY <1>1, ListStays DEF ResultOK
  <1>3. ResultOK(r)'
    BY <1>1, <1>2 DEF ResultOK
  <1>4. InHandOK(r)'
    BY DEF InHandOK
  <1>5. \A d \in DOMAIN docs' : docs'[d].run = r => DocumentOK(d)'
    BY OwnDocumentsStay
  <1> QED BY <1>3, <1>4, <1>5 DEF OwnOK

LEMMA BeginStep ==
  ASSUME IInv, NEW r \in Runs, Begin(r) PROVE IInv'
  <1>1. TypeOK /\ StageOK(r) /\ ResultOK(r) /\ RegistriesGenuine /\ pc[r] = "start"
    BY DEF IInv, Begin
  <1>2. /\ input' = input /\ options' = options /\ wikiPub' = wikiPub /\ org' = org
        /\ applies' = applies /\ wikiReg' = wikiReg /\ driveReg' = driveReg
        /\ spaces' = spaces /\ nodes' = nodes /\ folders' = folders /\ docs' = docs
        /\ faults' = faults
    BY DEF Begin, command, registries, feishu
  <1>3. /\ at[r] = 1 /\ wikiPub[r] = <<>> /\ pub[r].docs = <<>> /\ pub[r].status = "none"
        /\ r \in Procs
    BY <1>1 DEF StageOK, WikiStages, Procs
  <1>4. overlap' \in BOOLEAN
    BY <1>1 DEF Begin, NoteOverlap, TypeOK
  <1> DEFINE x == input[r]
             verdict == IF x.docs = <<>> /\ x.direct THEN "skipped"
                        ELSE IF ~x.qa \/ (~PolicyPass(x) /\ options.mode = "live") THEN "blocked"
                        ELSE IF x.docs = <<>> THEN "skipped"
                        ELSE IF options.mode # "live" THEN "dry_run" ELSE "none"
  <1>5. verdict \in {"none", "blocked", "skipped", "dry_run"}
    OBVIOUS
  <1>6. verdict = "none" => GateOpen(x) /\ options.mode = "live" /\ 1 \in DOMAIN x.docs
    <2>1. x.docs \in Seq(Types) /\ x.qa \in BOOLEAN
      BY <1>1 DEF TypeOK, Input
    <2> QED BY <2>1 DEF GateOpen
  <1>7. \/ verdict # "none" /\ Record(r, verdict, <<>>, FALSE) /\ Forget(r) /\ UNCHANGED <<folder, at>>
        \/ verdict = "none" /\ ToWiki(r) /\ pc' = Put(pc, r, "listSpaces") /\ UNCHANGED <<memory, pub>>
        \/ verdict = "none" /\ ~ToWiki(r) /\ EnterDrive(r) /\ UNCHANGED pub
    BY DEF Begin
  <1> HIDE DEF verdict
  <1> SUFFICES /\ ProcessTypes' /\ ResultTypes' /\ ProcessesAlone(r) /\ ResultsAlone(r)
               /\ Genuine(mem'[r].wiki, nodes)
               /\ OwnOK(r)'
    <2>1. TypeOK'
      BY <1>1, <1>2, <1>4 DEF TypeOK, CommandTypes, RegistryTypes, FeishuTypes
    <2>2. RegistriesGenuine'
      BY <1>1, <1>2 DEF RegistriesGenuine, ProcessesAlone
    <2>3. OthersAlone(r)
      BY <1>2 DEF OthersAlone, ProcessesAlone, ResultsAlone
    <2> QED BY <1>1, <1>2, <2>1, <2>2, <2>3, NothingNew, FromOwn
  <1>8. CASE /\ verdict # "none" /\ Record(r, verdict, <<>>, FALSE)
             /\ Forget(r) /\ UNCHANGED <<folder, at>>
    <2>1. /\ pub' \in [Runs -> PubFile] /\ \A s \in Runs : s # r => pub'[s] = pub[s]
          /\ pub'[r].status = verdict /\ pub'[r].docs = <<>>
      BY <1>1, <1>5, <1>8, RecordIs, EmptySeq DEF TypeOK
    <2>2. ProcessTypes' /\ ProcessesAlone(r) /\ pc'[r] = "done" /\ mem'[r].wiki = EmptyWiki
      BY <1>1, <1>3, <1>8, ForgetIs DEF TypeOK, ProcessTypes, ProcessesAlone
    <2>3. StageOK(r)' /\ InHandOK(r)'
      BY <1>2, <1>8, <2>1, <2>2 DEF StageOK, InHandOK, Busy, RunStages, WikiStages
    <2>4. ResultOK(r)'
      BY <1>1, <1>2, <1>5, <2>1 DEF ResultOK, ListOK
    <2>5. \A d \in DOMAIN docs' : docs'[d].run = r => DocumentOK(d)'
      BY <1>2, <2>2, OwnDocumentsStay
    <2> QED BY <1>1, <1>2, <2>1, <2>2, <2>3, <2>4, <2>5, Empty
            DEF OwnOK, ResultTypes, ResultsAlone, TypeOK
  <1>9. CASE verdict = "none" /\ ToWiki(r) /\ pc' = Put(pc, r, "listSpaces") /\ UNCHANGED <<memory, pub>>
    <2>1. /\ mem' = mem /\ space' = space /\ folder' = folder /\ at' = at /\ doc' = doc /\ pub' = pub
          /\ pc' = [pc EXCEPT ![r] = "listSpaces"]
      BY <1>9 DEF memory, Put
    <2>2. ProcessTypes' /\ ProcessesAlone(r) /\ pc'[r] = "listSpaces"
      BY <1>1, <1>3, <2>1 DEF TypeOK, ProcessTypes, ProcessesAlone, RunStages, WikiStages
    <2>3. ToWiki(r)'
      BY <1>2, <1>9 DEF ToWiki
    <2>4. StageOK(r)'
      BY <1>2, <1>3, <1>6, <1>9, <2>1, <2>2, <2>3 DEF StageOK, Busy, RunStages, WikiStages
    <2>5. OwnOK(r)'
      BY <1>2, <2>1, <2>2, <2>4, NothingNew, OwnQuiet
    <2> QED BY <1>1, <1>2, <1>3, <2>1, <2>2, <2>5
            DEF ResultTypes, ResultsAlone, TypeOK, RegistriesGenuine
  <1>10. CASE verdict = "none" /\ ~ToWiki(r) /\ EnterDrive(r) /\ UNCHANGED pub
    <2>1. /\ ProcessTypes' /\ ProcessesAlone(r) /\ mem'[r].wiki = EmptyWiki
          /\ pc'[r] \in {"folder", "driveDoc"} /\ at'[r] = 1
      BY <1>1, <1>10, EnterDriveIs
    <2>2. Len(pub[r].docs) = 0
      BY <1>3
    <2>3. StageOK(r)'
      BY <1>2, <1>3, <1>6, <1>10, <2>1, <2>2 DEF StageOK, Busy, RunStages, WikiStages
    <2>4. OwnOK(r)'
      BY <1>2, <1>10, <2>1, <2>3, NothingNew, OwnQuiet
    <2> QED BY <1>1, <1>2, <1>10, <2>1, <2>4, Empty DEF ResultTypes, ResultsAlone, TypeOK
  <1> QED BY <1>7, <1>8, <1>9, <1>10

LEMMA GenuineStays ==
  ASSUME NEW wiki, NEW ns, NEW ns2, Genuine(wiki, ns), Grows(ns, ns2)
  PROVE  Genuine(wiki, ns2)
  BY DEF Genuine, Grows

\* What every step of a run under way has left to show.
LEMMA RunStepDone ==
  ASSUME IInv, NEW r \in Runs, pc[r] # "done",
         input' = input, options' = options, org' = org, applies' = applies,
         ProcessTypes', ResultTypes', RegistryTypes', FeishuTypes', faults' \in Nat,
         overlap' = overlap, ProcessesAlone(r), ResultsAlone(r),
         Genuine(wikiReg', nodes'), Genuine(mem'[r].wiki, nodes'),
         Grows(nodes, nodes'), OwnDocuments(r, docs, docs'), OwnOK(r)'
  PROVE  IInv'
  <1>1. TypeOK'
    BY DEF IInv, TypeOK, CommandTypes
  <1>2. RegistriesGenuine'
    <2>1. ASSUME NEW q \in Procs PROVE Genuine(mem'[q].wiki, nodes')
      BY GenuineStays DEF ProcessesAlone, IInv, RegistriesGenuine
    <2> QED BY <2>1 DEF RegistriesGenuine
  <1>3. OthersAlone(r)
    BY DEF OthersAlone, ProcessesAlone, ResultsAlone
  <1> QED BY <1>1, <1>2, <1>3, FromOwn

LEMMA ChargeIs == ASSUME TypeOK, NEW o, Charge(o) PROVE faults' \in Nat
  BY DEF TypeOK, Charge

\* The stage after a node: documents once no planned node is missing.
LEMMA AfterNodesIs ==
  ASSUME NEW r \in Runs, NEW wiki
  PROVE  /\ AfterNodes(r, wiki) \in {"wikiDoc", "wikiNode"}
         /\ AfterNodes(r, wiki) = "wikiDoc" <=> Missing(input[r], space[r], wiki) = {}
  BY DEF AfterNodes

LEMMA ListSpacesStep ==
  ASSUME IInv, NEW r \in Runs, ListSpaces(r) PROVE IInv'
  <1>1. TypeOK /\ StageOK(r) /\ RegistriesGenuine /\ pc[r] = "listSpaces" /\ r \in Procs
    BY DEF IInv, ListSpaces, Procs
  <1>2. PICK o \in {"ok", "fail"} :
          /\ Charge(o)
          /\ \/ /\ o = "ok"
                /\ \E s \in 1..spaces : space' = Put(space, r, s)
                /\ pc' = Put(pc, r, "checkSpace")
                /\ mem' = [mem EXCEPT ![r].wiki = wikiReg]
             \/ /\ o = "ok" => spaces = 0
                /\ pc' = Put(pc, r, "createSpace")
                /\ UNCHANGED <<space, mem>>
    BY DEF ListSpaces
  <1>3. /\ input' = input /\ options' = options /\ wikiPub' = wikiPub /\ org' = org
        /\ applies' = applies /\ wikiReg' = wikiReg /\ driveReg' = driveReg
        /\ spaces' = spaces /\ nodes' = nodes /\ folders' = folders /\ docs' = docs
        /\ pub' = pub /\ overlap' = overlap /\ folder' = folder /\ at' = at /\ doc' = doc
    BY DEF ListSpaces, command, registries, feishu, records
  <1>4. ProcessTypes' /\ ProcessesAlone(r) /\ Genuine(mem'[r].wiki, nodes)
        /\ pc'[r] \in {"checkSpace", "createSpace"}
    <2>1. wikiReg \in WikiFile /\ spaces \in Nat
      BY <1>1 DEF TypeOK, RegistryTypes, FeishuTypes
    <2>2. /\ mem' \in [Procs -> Memory] /\ \A q \in Procs : q # r => mem'[q] = mem[q]
          /\ Genuine(mem'[r].wiki, nodes)
      <3>1. mem \in [Procs -> Memory] /\ Genuine(mem[r].wiki, nodes) /\ Genuine(wikiReg, nodes)
        BY <1>1 DEF TypeOK, ProcessTypes, RegistriesGenuine
      <3>2. mem' = mem \/ mem' = [mem EXCEPT ![r].wiki = wikiReg]
        BY <1>2
      <3>3. CASE mem' = mem
        BY <3>1, <3>3
      <3>4. CASE mem' = [mem EXCEPT ![r].wiki = wikiReg]
        BY <1>1, <2>1, <3>1, <3>4, MemWiki
      <3> QED BY <3>2, <3>3, <3>4
    <2>3. space' \in [Procs -> Nat] /\ \A q \in Procs : q # r => space'[q] = space[q]
      BY <1>1, <1>2, <2>1 DEF Put, TypeOK, ProcessTypes
    <2>4. PICK stage \in {"checkSpace", "createSpace"} : pc' = [pc EXCEPT ![r] = stage]
      BY <1>2 DEF Put
    <2> QED BY <1>1, <1>3, <2>2, <2>3, <2>4 DEF TypeOK, ProcessTypes, ProcessesAlone, RunStages, WikiStages
  <1>5. ToWiki(r)' = ToWiki(r)
    BY <1>3 DEF ToWiki
  <1>6. StageOK(r)'
    BY <1>1, <1>3, <1>4, <1>5 DEF StageOK, Busy, RunStages, WikiStages
  <1>7. OwnOK(r)'
    BY <1>3, <1>4, <1>6, NothingNew, OwnQuiet
  <1>8. ResultTypes' /\ RegistryTypes' /\ FeishuTypes' /\ ResultsAlone(r)
    BY <1>1, <1>3 DEF TypeOK, ResultTypes, RegistryTypes, FeishuTypes, ResultsAlone
  <1> QED BY <1>1, <1>2, <1>3, <1>4, <1>7, <1>8, ChargeIs, NothingNew, RunStepDone DEF RegistriesGenuine

LEMMA CreateSpaceStep ==
  ASSUME IInv, NEW r \in Runs, CreateSpace(r) PROVE IInv'
  <1>1. TypeOK /\ StageOK(r) /\ RegistriesGenuine /\ pc[r] = "createSpace" /\ r \in Procs
    BY DEF IInv, CreateSpace, Procs
  <1>2. PICK o \in Outcomes :
          /\ Charge(o)
          /\ spaces' = IF o = "fail" THEN spaces ELSE spaces + 1
          /\ space' = Put(space, r, IF o = "ok" THEN spaces + 1 ELSE 0)
    BY DEF CreateSpace
  <1>3. /\ input' = input /\ options' = options /\ wikiPub' = wikiPub /\ org' = org
        /\ applies' = applies /\ wikiReg' = wikiReg /\ driveReg' = driveReg
        /\ nodes' = nodes /\ folders' = folders /\ docs' = docs
        /\ pub' = pub /\ overlap' = overlap /\ folder' = folder /\ at' = at /\ doc' = doc
        /\ pc' = [pc EXCEPT ![r] = "checkSpace"] /\ mem' = [mem EXCEPT ![r].wiki = wikiReg]
    BY DEF CreateSpace, command, registries, records, Put
  <1>4. ProcessTypes' /\ ProcessesAlone(r) /\ Genuine(mem'[r].wiki, nodes) /\ pc'[r] = "checkSpace"
    <2>1. wikiReg \in WikiFile /\ spaces \in Nat
      BY <1>1 DEF TypeOK, RegistryTypes, FeishuTypes
    <2>2. /\ mem' \in [Procs -> Memory] /\ \A q \in Procs : q # r => mem'[q] = mem[q]
          /\ Genuine(mem'[r].wiki, nodes)
      BY <1>1, <1>3, <2>1, MemWiki DEF TypeOK, ProcessTypes, RegistriesGenuine
    <2>3. space' \in [Procs -> Nat] /\ \A q \in Procs : q # r => space'[q] = space[q]
      BY <1>1, <1>2, <2>1 DEF Put, TypeOK, ProcessTypes
    <2> QED BY <1>1, <1>3, <2>2, <2>3 DEF TypeOK, ProcessTypes, ProcessesAlone, RunStages, WikiStages
  <1>5. ToWiki(r)' = ToWiki(r)
    BY <1>3 DEF ToWiki
  <1>6. StageOK(r)'
    BY <1>1, <1>3, <1>4, <1>5 DEF StageOK, Busy, RunStages, WikiStages
  <1>7. OwnOK(r)'
    BY <1>3, <1>4, <1>6, NothingNew, OwnQuiet
  <1>8. ResultTypes' /\ RegistryTypes' /\ FeishuTypes' /\ ResultsAlone(r)
    BY <1>1, <1>2, <1>3 DEF TypeOK, ResultTypes, RegistryTypes, FeishuTypes, ResultsAlone
  <1> QED BY <1>1, <1>2, <1>3, <1>4, <1>7, <1>8, ChargeIs, NothingNew, RunStepDone DEF RegistriesGenuine

LEMMA CheckSpaceStep ==
  ASSUME IInv, NEW r \in Runs, CheckSpace(r) PROVE IInv'
  <1>1. TypeOK /\ StageOK(r) /\ ResultOK(r) /\ RegistriesGenuine /\ pc[r] = "checkSpace" /\ r \in Procs
    BY DEF IInv, CheckSpace, Procs
  <1>2. PICK o \in {"ok", "fail"} :
          /\ Charge(o)
          /\ \/ /\ UNCHANGED <<mem, space, folder, at, doc, records>>
                /\ pc' = Put(pc, r, AfterNodes(r, mem[r].wiki))
             \/ WikiFailed(r, wikiPub[r])
    BY DEF CheckSpace
  <1>3. /\ input' = input /\ options' = options /\ org' = org
        /\ applies' = applies /\ wikiReg' = wikiReg /\ driveReg' = driveReg
        /\ spaces' = spaces /\ nodes' = nodes /\ folders' = folders /\ docs' = docs /\ overlap' = overlap
    BY DEF CheckSpace, command, registries, feishu
  <1>4. wikiPub[r] = <<>> /\ at[r] = 1 /\ ToWiki(r) /\ wikiPub[r] \in Seq(Entry) /\ pub[r].docs = <<>>
    BY <1>1 DEF StageOK, WikiStages, TypeOK, ResultTypes
  <1>5. CASE /\ UNCHANGED <<mem, space, folder, at, doc, records>>
             /\ pc' = Put(pc, r, AfterNodes(r, mem[r].wiki))
    <2>1. /\ mem' = mem /\ space' = space /\ folder' = folder /\ at' = at /\ doc' = doc
          /\ pub' = pub /\ wikiPub' = wikiPub
      BY <1>5 DEF records
    <2>2. PICK stage \in {"wikiDoc", "wikiNode"} :
            /\ pc' = [pc EXCEPT ![r] = stage]
            /\ stage = "wikiDoc" <=> Missing(input[r], space[r], mem[r].wiki) = {}
      BY <1>5, AfterNodesIs DEF Put
    <2>3. ProcessTypes' /\ ProcessesAlone(r) /\ pc'[r] = stage
      BY <1>1, <2>1, <2>2 DEF TypeOK, ProcessTypes, ProcessesAlone, RunStages, WikiStages
    <2>4. ToWiki(r)'
      BY <1>3, <1>4 DEF ToWiki
    <2>5. Len(wikiPub[r]) = 0 /\ AllWell(wikiPub[r])
      BY <1>4 DEF AllWell
    <2>6. StageOK(r)'
      BY <1>1, <1>3, <1>4, <2>1, <2>2, <2>3, <2>4, <2>5 DEF StageOK, Busy, RunStages, WikiStages
    <2>7. OwnOK(r)'
      BY <1>3, <2>1, <2>3, <2>6, NothingNew, OwnQuiet
    <2>8. ResultTypes' /\ RegistryTypes' /\ FeishuTypes' /\ ResultsAlone(r)
      BY <1>1, <1>3, <2>1 DEF TypeOK, ResultTypes, RegistryTypes, FeishuTypes, ResultsAlone
    <2> QED BY <1>1, <1>2, <1>3, <2>1, <2>3, <2>7, <2>8, ChargeIs, NothingNew, RunStepDone
            DEF RegistriesGenuine
  <1>6. CASE WikiFailed(r, wikiPub[r])
    <2>1. ListOK(input[r], r, wikiPub[r], docs', nodes') /\ pc[r] \in WikiStages
      BY <1>1, <1>3 DEF ResultOK, WikiStages
    <2>2. /\ ProcessTypes' /\ ResultTypes' /\ ProcessesAlone(r) /\ ResultsAlone(r)
          /\ mem'[r].wiki = EmptyWiki /\ pc'[r] # "start"
          /\ StageOK(r)' /\ InHandOK(r)' /\ ResultOK(r)'
      BY <1>3, <1>4, <1>6, <2>1, WikiFailedIs
    <2>3. OwnOK(r)'
      BY <1>3, <2>2, OwnDocumentsStay DEF OwnOK
    <2>4. RegistryTypes' /\ FeishuTypes'
      BY <1>1, <1>3 DEF TypeOK, RegistryTypes, FeishuTypes
    <2> QED BY <1>1, <1>2, <1>3, <2>2, <2>3, <2>4, ChargeIs, NothingNew, Empty, RunStepDone
            DEF RegistriesGenuine
  <1> QED BY <1>2, <1>5, <1>6

\* The planned nodes are keys, the node of each document among them.
LEMMA PlannedIs ==
  ASSUME NEW x \in Input, NEW s \in Nat
  PROVE  /\ PlannedNodes(x, s) \in Seq(Keys)
         /\ \A i \in DOMAIN x.docs : \E n \in DOMAIN PlannedNodes(x, s) :
                PlannedNodes(x, s)[n] = CategoryKey(x.project, x.docs[i])
  <1> DEFINE head == IF s = 0 THEN <<RootKey>> ELSE <<>>
             project == <<ProjectKey(x.project)>>
             rest == [i \in DOMAIN x.docs |-> CategoryKey(x.project, x.docs[i])]
  <1>1. x.project \in Projects /\ x.docs \in Seq(Types)
    BY DEF Input
  <1>2. head \in Seq(Keys) /\ project \in Seq(Keys)
    BY <1>1, Constants
  <1>3. rest \in Seq(Keys) /\ DOMAIN rest = DOMAIN x.docs
    <2>1. DOMAIN x.docs = 1..Len(x.docs) /\ Len(x.docs) \in Nat
      BY <1>1
    <2>2. \A i \in DOMAIN x.docs : rest[i] \in Keys
      BY <1>1, Constants
    <2>3. rest \in [1..Len(x.docs) -> Keys] /\ DOMAIN rest = DOMAIN x.docs
      BY <2>1, <2>2
    <2> HIDE DEF rest
    <2> QED BY <2>1, <2>3
  <1>4. \A i \in DOMAIN x.docs : rest[i] = CategoryKey(x.project, x.docs[i])
    OBVIOUS
  <1>5. PlannedNodes(x, s) = head \o project \o rest
    BY DEF PlannedNodes
  <1> HIDE DEF head, project, rest
  <1>6. head \o project \in Seq(Keys)
    BY <1>2, ConcatProperties
  <1> DEFINE first == head \o project
  <1> HIDE DEF first
  <1>7. /\ first \o rest \in Seq(Keys)
        /\ Len(first \o rest) = Len(first) + Len(rest)
        /\ \A i \in 1..Len(first) + Len(rest) :
              (first \o rest)[i] = IF i <= Len(first) THEN first[i] ELSE rest[i - Len(first)]
    BY <1>3, <1>6, ConcatProperties DEF first
  <1>8. Len(first) \in Nat /\ Len(rest) \in Nat /\ DOMAIN rest = 1..Len(rest)
    BY <1>3, <1>6 DEF first
  <1>9. ASSUME NEW i \in DOMAIN x.docs
        PROVE  \E n \in DOMAIN (first \o rest) : (first \o rest)[n] = CategoryKey(x.project, x.docs[i])
    <2>1. i \in 1..Len(rest)
      BY <1>3, <1>8
    <2>2. Len(first) + i \in 1..Len(first) + Len(rest) /\ (Len(first) + i) - Len(first) = i
      BY <1>8, <2>1
    <2>3. (first \o rest)[Len(first) + i] = rest[i]
      BY <1>7, <1>8, <2>1, <2>2
    <2>4. Len(first) + i \in DOMAIN (first \o rest)
      BY <1>7, <2>2
    <2> QED BY <1>4, <2>3, <2>4
  <1> QED BY <1>5, <1>7, <1>9 DEF first

\* The next node is a planned one that has no token yet.
LEMMA NextNodeIs ==
  ASSUME NEW x \in Input, NEW s \in Nat, NEW wiki, Missing(x, s, wiki) # {}
  PROVE  NextNode(x, s, wiki) \in Keys
  <1>1. PlannedNodes(x, s) \in Seq(Keys)
    BY PlannedIs
  <1>2. Missing(x, s, wiki) \subseteq DOMAIN PlannedNodes(x, s)
    BY DEF Missing
  <1>3. Min(Missing(x, s, wiki)) \in DOMAIN PlannedNodes(x, s)
    BY <1>1, <1>2, Least
  <1> QED BY <1>1, <1>3 DEF NextNode

\* With nothing missing every document's node has its token.
LEMMA DestinationIs ==
  ASSUME NEW x \in Input, NEW s \in Nat, NEW wiki, Missing(x, s, wiki) = {},
         NEW i \in DOMAIN x.docs
  PROVE  wiki.nodes[CategoryKey(x.project, x.docs[i])].token # 0
  <1>1. PICK n \in DOMAIN PlannedNodes(x, s) :
           PlannedNodes(x, s)[n] = CategoryKey(x.project, x.docs[i])
    BY PlannedIs
  <1> QED BY <1>1 DEF Missing

\* A node made under a parent that a genuine registry names, or at the top.
LEMMA NewNodeIs ==
  ASSUME nodes \in Seq(NodeRecord), NEW k \in Keys, NEW s \in Nat, NEW parent \in Nat,
         parent # 0 => parent \in DOMAIN nodes, NEW by \in {"handler", "organizer"}
  PROVE  LET new == Append(nodes, NewNode(k, s, parent, by))
         IN /\ new \in Seq(NodeRecord) /\ Grows(nodes, new)
            /\ Len(nodes) + 1 \in Nat \ {0} /\ Len(nodes) + 1 \in DOMAIN new
            /\ new[Len(nodes) + 1].key = k
  <1> DEFINE node == NewNode(k, s, parent, by)
             new == Append(nodes, node)
  <1>1. node \in NodeRecord /\ node.key = k
    <2>1. ASSUME parent # 0 PROVE nodes[parent].space \in Nat
      <3>1. nodes[parent] \in NodeRecord
        BY <2>1
      <3> QED BY <3>1 DEF NodeRecord
    <2> QED BY <2>1 DEF NewNode, NodeRecord
  <1> HIDE DEF node
  <1>2. /\ new \in Seq(NodeRecord) /\ Len(new) = Len(nodes) + 1
        /\ \A n \in 1..Len(nodes) : new[n] = nodes[n]
        /\ new[Len(nodes) + 1] = node
    BY <1>1, AppendProperties
  <1>3. DOMAIN nodes = 1..Len(nodes) /\ Len(nodes) \in Nat /\ DOMAIN new = 1..(Len(nodes) + 1)
    BY <1>2
  <1> HIDE DEF new
  <1> QED BY <1>1, <1>2, <1>3 DEF Grows, node, new

LEMMA TokenIs ==
  ASSUME NEW wiki \in WikiFile, NEW k \in Keys
  PROVE  /\ wiki.nodes[k].token \in Nat /\ wiki.nodes[k].space \in Nat
         /\ Genuine(wiki, nodes) /\ wiki.nodes[k].token # 0 =>
               wiki.nodes[k].token \in DOMAIN nodes /\ nodes[wiki.nodes[k].token].key = k
  BY DEF WikiFile, Genuine

LEMMA KeyIs ==
  ASSUME NEW k \in Keys
  PROVE  k[1] = "category" => ProjectKey(k[2]) \in Keys
  BY DEF Keys, RootKey, ProjectKey, CategoryKey

LEMMA CreateNodeStep ==
  ASSUME IInv, NEW r \in Runs, CreateNode(r) PROVE IInv'
  <1>1. TypeOK /\ StageOK(r) /\ ResultOK(r) /\ RegistriesGenuine /\ pc[r] = "wikiNode" /\ r \in Procs
    BY DEF IInv, CreateNode, Procs
  <1> DEFINE wiki == mem[r].wiki
             k == NextNode(input[r], space[r], wiki)
             parent == ParentToken(k, space[r], wiki)
             new == Append(nodes, NewNode(k, space[r], parent, "handler"))
             noted == [wiki EXCEPT !.nodes[k] = [token |-> Len(nodes) + 1, space |-> 0]]
  <1>2. PICK o \in Outcomes :
          /\ Charge(o)
          /\ nodes' = IF o = "fail" THEN nodes ELSE new
          /\ \/ /\ o = "ok" /\ wikiReg' = noted /\ mem' = [mem EXCEPT ![r].wiki = wikiReg']
                /\ UNCHANGED <<space, folder, at, doc, records>>
                /\ pc' = Put(pc, r, AfterNodes(r, wikiReg'))
             \/ WikiFailed(r, wikiPub[r]) /\ UNCHANGED wikiReg
    BY DEF CreateNode
  <1>3. /\ input' = input /\ options' = options /\ org' = org
        /\ applies' = applies /\ driveReg' = driveReg
        /\ spaces' = spaces /\ folders' = folders /\ docs' = docs /\ overlap' = overlap
    BY DEF CreateNode, command
  <1>4. /\ wikiPub[r] = <<>> /\ at[r] = 1 /\ ToWiki(r) /\ wikiPub[r] \in Seq(Entry)
        /\ pub[r].docs = <<>> /\ Missing(input[r], space[r], wiki) # {}
        /\ wiki \in WikiFile /\ Genuine(wiki, nodes) /\ input[r] \in Input /\ space[r] \in Nat
    BY <1>1 DEF StageOK, WikiStages, TypeOK, ResultTypes, ProcessTypes, Memory, RegistriesGenuine
  <1>5. k \in Keys
    BY <1>4, NextNodeIs
  <1>6. parent \in Nat /\ (parent # 0 => parent \in DOMAIN nodes)
    BY <1>4, <1>5, KeyIs, Constants, TokenIs DEF ParentToken
  <1> HIDE DEF k, parent
  <1>7. /\ new \in Seq(NodeRecord) /\ Grows(nodes, new)
        /\ Len(nodes) + 1 \in Nat \ {0} /\ Len(nodes) + 1 \in DOMAIN new
        /\ new[Len(nodes) + 1].key = k
    BY <1>1, <1>4, <1>5, <1>6, NewNodeIs DEF TypeOK, FeishuTypes
  <1> HIDE DEF new
  <1>8. nodes' \in Seq(NodeRecord) /\ Grows(nodes, nodes')
    BY <1>1, <1>2, <1>7, NothingNew DEF TypeOK, FeishuTypes
  <1>9. FeishuTypes'
    BY <1>1, <1>3, <1>8 DEF TypeOK, FeishuTypes
  <1>10. CASE /\ o = "ok" /\ wikiReg' = noted /\ mem' = [mem EXCEPT ![r].wiki = wikiReg']
              /\ UNCHANGED <<space, folder, at, doc, records>>
              /\ pc' = Put(pc, r, AfterNodes(r, wikiReg'))
    <2>1. /\ space' = space /\ folder' = folder /\ at' = at /\ doc' = doc
          /\ pub' = pub /\ wikiPub' = wikiPub /\ nodes' = new
      BY <1>2, <1>10 DEF records
    <2>2. /\ noted \in WikiFile /\ noted.nodes[k].token = Len(nodes) + 1
          /\ \A l \in Keys : l # k => noted.nodes[l] = wiki.nodes[l]
      <3> HIDE DEF wiki
      <3> DEFINE t == Len(nodes) + 1
      <3>1. wiki \in WikiFile /\ t \in Nat /\ 0 \in Nat
        BY <1>4, <1>7
      <3>2. noted = [wiki EXCEPT !.nodes[k] = [token |-> t, space |-> 0]]
        OBVIOUS
      <3> HIDE DEF noted, t, wiki
      <3>3. /\ noted \in WikiFile /\ noted.nodes[k].token = t
            /\ \A l \in Keys : l # k => noted.nodes[l] = wiki.nodes[l]
        BY <1>5, <3>1, <3>2 DEF WikiFile
      <3> QED BY <3>3 DEF t
    <2> HIDE DEF noted
    <2>3. Genuine(noted, nodes')
      <3>1. Genuine(wiki, nodes')
        BY <1>4, <1>8, GenuineStays
      <3> QED BY <1>7, <2>1, <2>2, <3>1 DEF Genuine
    <2>4. mem' = [mem EXCEPT ![r].wiki = noted] /\ mem \in [Procs -> Memory]
      BY <1>1, <1>10 DEF TypeOK, ProcessTypes
    <2>5. /\ mem' \in [Procs -> Memory] /\ mem'[r].wiki = noted
          /\ \A q \in Procs : q # r => mem'[q] = mem[q]
      BY <1>1, <2>2, <2>4, MemWiki
    <2>6. PICK stage \in {"wikiDoc", "wikiNode"} :
            /\ pc' = [pc EXCEPT ![r] = stage]
            /\ stage = "wikiDoc" <=> Missing(input[r], space[r], noted) = {}
      BY <1>10, AfterNodesIs DEF Put
    <2>7. ProcessTypes' /\ ProcessesAlone(r) /\ pc'[r] = stage
      BY <1>1, <2>1, <2>5, <2>6 DEF TypeOK, ProcessTypes, ProcessesAlone, RunStages, WikiStages
    <2>8. ToWiki(r)'
      BY <1>3, <1>4 DEF ToWiki
    <2>9. Len(wikiPub[r]) = 0 /\ AllWell(wikiPub[r])
      BY <1>4 DEF AllWell
    <2>10. StageOK(r)'
      BY <1>1, <1>3, <1>4, <2>1, <2>5, <2>6, <2>7, <2>8, <2>9 DEF StageOK, Busy, RunStages, WikiStages
    <2>11. OwnOK(r)'
      BY <1>3, <1>8, <2>1, <2>7, <2>10, OwnQuiet
    <2>12. ResultTypes' /\ RegistryTypes' /\ ResultsAlone(r)
      BY <1>1, <1>3, <1>10, <2>1, <2>2 DEF TypeOK, ResultTypes, RegistryTypes, ResultsAlone
    <2> QED BY <1>1, <1>2, <1>3, <1>8, <1>9, <1>10, <2>3, <2>5, <2>7, <2>11, <2>12, ChargeIs,
               NothingNew, RunStepDone
  <1>11. CASE WikiFailed(r, wikiPub[r]) /\ UNCHANGED wikiReg
    <2>1. ListOK(input[r], r, wikiPub[r], docs', nodes') /\ pc[r] \in WikiStages
      BY <1>1, <1>3, <1>8, ListStays DEF ResultOK, WikiStages
    <2>2. /\ ProcessTypes' /\ ResultTypes' /\ ProcessesAlone(r) /\ ResultsAlone(r)
          /\ mem'[r].wiki = EmptyWiki /\ pc'[r] # "start"
          /\ StageOK(r)' /\ InHandOK(r)' /\ ResultOK(r)'
      BY <1>3, <1>4, <1>11, <2>1, WikiFailedIs
    <2>3. OwnOK(r)'
      BY <1>3, <2>2, OwnDocumentsStay DEF OwnOK
    <2>4. RegistryTypes' /\ Genuine(wikiReg', nodes')
      BY <1>1, <1>3, <1>8, <1>11, GenuineStays DEF TypeOK, RegistryTypes, RegistriesGenuine
    <2> QED BY <1>1, <1>2, <1>3, <1>8, <1>9, <2>2, <2>3, <2>4, ChargeIs, NothingNew, Empty, RunStepDone
  <1> QED BY <1>2, <1>10, <1>11

LEMMA CreateWikiDocStep ==
  ASSUME IInv, NEW r \in Runs, CreateWikiDoc(r) PROVE IInv'
  <1>1. TypeOK /\ StageOK(r) /\ ResultOK(r) /\ RegistriesGenuine /\ pc[r] = "wikiDoc" /\ r \in Procs
    BY DEF IInv, CreateWikiDoc, Procs
  <1> DEFINE made == Append(docs, NewDoc(r, at[r], "loose", 0, "handler"))
             failure == Listed(at[r], "failed", 0)
  <1>2. PICK o \in Outcomes :
          /\ Charge(o)
          /\ docs' = IF o = "fail" THEN docs ELSE made
          /\ \/ /\ o = "ok" /\ doc' = Put(doc, r, Len(docs) + 1) /\ pc' = Put(pc, r, "wikiMove")
                /\ UNCHANGED <<mem, space, folder, at, records>>
             \/ WikiFailed(r, Append(wikiPub[r], failure))
    BY DEF CreateWikiDoc
  <1>3. /\ input' = input /\ options' = options /\ org' = org
        /\ applies' = applies /\ wikiReg' = wikiReg /\ driveReg' = driveReg
        /\ spaces' = spaces /\ nodes' = nodes /\ folders' = folders /\ overlap' = overlap
    BY DEF CreateWikiDoc, command, registries
  <1>4. /\ ToWiki(r) /\ ~Overwrites(input[r]) /\ at[r] \in DOMAIN input[r].docs /\ at[r] \in Nat
        /\ wikiPub[r] \in Seq(Entry) /\ Len(wikiPub[r]) = at[r] - 1
    BY <1>1 DEF StageOK, WikiStages, Busy, TypeOK, ResultTypes, ProcessTypes, ToWiki
  <1>5. /\ made \in Seq(DocRecord) /\ OwnDocuments(r, docs, made)
        /\ DOMAIN made = DOMAIN docs \cup {Len(docs) + 1} /\ Len(docs) + 1 \in Nat \ {0}
        /\ Len(docs) + 1 \notin DOMAIN docs
        /\ \A d \in DOMAIN docs : made[d] = docs[d]
        /\ made[Len(docs) + 1] = NewDoc(r, at[r], "loose", 0, "handler")
    BY <1>1, <1>4, MakeDocument DEF TypeOK, FeishuTypes
  <1> HIDE DEF made
  <1>6. /\ docs' \in Seq(DocRecord) /\ OwnDocuments(r, docs, docs')
        /\ \A d \in DOMAIN docs : d \in DOMAIN docs' /\ docs'[d] = docs[d]
        /\ \A d \in DOMAIN docs' : d \notin DOMAIN docs =>
              docs'[d] = NewDoc(r, at[r], "loose", 0, "handler")
    BY <1>1, <1>2, <1>5, NothingNew DEF TypeOK, FeishuTypes
  <1>7. RegistryTypes' /\ FeishuTypes' /\ Genuine(wikiReg', nodes') /\ Grows(nodes, nodes')
    BY <1>1, <1>3, <1>6, NothingNew DEF TypeOK, RegistryTypes, FeishuTypes, RegistriesGenuine
  <1>8. ASSUME pc'[r] # "start" PROVE \A d \in DOMAIN docs' : docs'[d].run = r => DocumentOK(d)'
    BY <1>3, <1>4, <1>6, <1>8, OwnDocumentsStay DEF NewDoc
  <1>9. ListOK(input[r], r, wikiPub[r], docs', nodes) /\ ListOK(input[r], r, pub[r].docs, docs', nodes)
    BY <1>1, <1>6, NothingNew, ListStays DEF ResultOK
  <1>10. CASE /\ o = "ok" /\ doc' = Put(doc, r, Len(docs) + 1) /\ pc' = Put(pc, r, "wikiMove")
              /\ UNCHANGED <<mem, space, folder, at, records>>
    <2>1. /\ mem' = mem /\ space' = space /\ folder' = folder /\ at' = at
          /\ pub' = pub /\ wikiPub' = wikiPub /\ docs' = made
          /\ doc' = [doc EXCEPT ![r] = Len(docs) + 1] /\ pc' = [pc EXCEPT ![r] = "wikiMove"]
      BY <1>2, <1>10 DEF records, Put
    <2>2. ProcessTypes' /\ ProcessesAlone(r) /\ pc'[r] = "wikiMove" /\ doc'[r] = Len(docs) + 1
      BY <1>1, <1>5, <2>1 DEF TypeOK, ProcessTypes, ProcessesAlone, RunStages, WikiStages
    <2>3. ToWiki(r)'
      BY <1>3, <1>4 DEF ToWiki
    <2>4. StageOK(r)'
      BY <1>1, <1>3, <2>1, <2>2, <2>3 DEF StageOK, Busy, RunStages, WikiStages
    <2>5. InHandOK(r)'
      BY <1>5, <2>1, <2>2 DEF InHandOK, NewDoc
    <2>6. ResultOK(r)'
      BY <1>1, <1>3, <1>4, <1>9, <2>1 DEF ResultOK
    <2>7. OwnOK(r)'
      BY <1>8, <2>2, <2>4, <2>5, <2>6 DEF OwnOK
    <2>8. ResultTypes' /\ ResultsAlone(r) /\ Genuine(mem'[r].wiki, nodes')
      BY <1>1, <1>3, <2>1 DEF TypeOK, ResultTypes, ResultsAlone, RegistriesGenuine
    <2> QED BY <1>1, <1>2, <1>3, <1>6, <1>7, <2>2, <2>7, <2>8, ChargeIs, RunStepDone
  <1>11. CASE WikiFailed(r, Append(wikiPub[r], failure))
    <2>1. failure \in Entry /\ EntryOK(input[r], r, Len(wikiPub[r]) + 1, failure, docs', nodes)
      BY <1>4 DEF Listed, Entry, EntryOK
    <2> DEFINE list == Append(wikiPub[r], failure)
    <2>2. list \in Seq(Entry) /\ ListOK(input[r], r, list, docs', nodes')
      BY <1>3, <1>4, <1>9, <2>1, ListAppend
    <2> HIDE DEF list
    <2>3. WikiFailed(r, list) /\ pc[r] \in WikiStages
      BY <1>1, <1>11 DEF list, WikiStages
    <2>4. /\ ProcessTypes' /\ ResultTypes' /\ ProcessesAlone(r) /\ ResultsAlone(r)
          /\ mem'[r].wiki = EmptyWiki /\ pc'[r] # "start"
          /\ StageOK(r)' /\ InHandOK(r)' /\ ResultOK(r)'
      BY <1>3, <2>2, <2>3, WikiFailedIs
    <2>5. OwnOK(r)'
      BY <1>8, <2>4 DEF OwnOK
    <2> QED BY <1>1, <1>2, <1>3, <1>6, <1>7, <2>4, <2>5, ChargeIs, Empty, RunStepDone
  <1> QED BY <1>2, <1>10, <1>11

\* A finished entry about document d of a run that does not overwrite.
LEMMA WikiEntry ==
  ASSUME NEW x, NEW r, NEW n \in Nat, NEW d \in Nat, NEW ds, NEW ns, NEW status,
         n \in DOMAIN x.docs, d \in DOMAIN ds, d # 0,
         ds[d].run = r, ds[d].by = "handler", ds[d].i = n,
         status \in {"published", "failed"}, ~Overwrites(x),
         status = "published" => /\ ds[d].place = "wiki" /\ ds[d].node \in DOMAIN ns
                                 /\ ns[ds[d].node].key = CategoryKey(x.project, x.docs[n])
  PROVE  Listed(n, status, d) \in Entry /\ EntryOK(x, r, n, Listed(n, status, d), ds, ns)
  BY DEF Listed, Entry, EntryOK, Placed

LEMMA MoveWikiDocStep ==
  ASSUME IInv, NEW r \in Runs, MoveWikiDoc(r) PROVE IInv'
  <1>1. /\ TypeOK /\ StageOK(r) /\ InHandOK(r) /\ ResultOK(r) /\ RegistriesGenuine
        /\ pc[r] = "wikiMove" /\ r \in Procs
    BY DEF IInv, MoveWikiDoc, Procs
  <1> DEFINE x == input[r]
             n == at[r]
             wiki == mem[r].wiki
             noted == [wiki EXCEPT !.docs = @ \cup {[run |-> r, type |-> x.docs[n], space |-> 0]}]
             moved == MoveTo(doc[r], Destination(r))
             entry(o) == Listed(n, IF o = "ok" THEN "published" ELSE "failed", doc[r])
             list(o) == Append(wikiPub[r], entry(o))
  <1>2. PICK o \in Outcomes :
          /\ Charge(o)
          /\ docs' = IF o = "fail" THEN docs ELSE moved
          /\ wikiReg' = noted
          /\ \/ /\ o = "ok" /\ n < Len(x.docs)
                /\ mem' = [mem EXCEPT ![r].wiki = noted]
                /\ at' = Put(at, r, n + 1) /\ doc' = Put(doc, r, 0) /\ pc' = Put(pc, r, "wikiDoc")
                /\ wikiPub' = Put(wikiPub, r, list(o))
                /\ UNCHANGED <<space, folder, pub>>
             \/ /\ o = "ok" /\ n = Len(x.docs)
                /\ wikiPub' = Put(wikiPub, r, list(o))
                /\ Record(r, "published", list(o), FALSE)
                /\ Forget(r) /\ Reset(r)
             \/ o # "ok" /\ WikiFailed(r, list(o))
    BY DEF MoveWikiDoc
  <1>3. /\ input' = input /\ options' = options /\ org' = org
        /\ applies' = applies /\ driveReg' = driveReg
        /\ spaces' = spaces /\ nodes' = nodes /\ folders' = folders /\ overlap' = overlap
    BY DEF MoveWikiDoc, command
  <1>4. /\ ToWiki(r) /\ ~Overwrites(x) /\ n \in DOMAIN x.docs /\ n \in Nat /\ x.docs \in Seq(Types)
        /\ x \in Input
        /\ wikiPub[r] \in Seq(Entry) /\ Len(wikiPub[r]) = n - 1 /\ AllWell(wikiPub[r])
        /\ Missing(x, space[r], wiki) = {} /\ space[r] \in Nat
        /\ wiki \in WikiFile /\ Genuine(wiki, nodes) /\ doc[r] \in Nat
    BY <1>1 DEF StageOK, WikiStages, Busy, TypeOK, ResultTypes, ProcessTypes, ToWiki, Input, Memory,
                RegistriesGenuine
  <1>5. /\ doc[r] \in DOMAIN docs /\ docs[doc[r]].run = r /\ docs[doc[r]].i = n
        /\ docs[doc[r]].by = "handler" /\ docs \in Seq(DocRecord) /\ doc[r] # 0
    <2>1. docs \in Seq(DocRecord)
      BY <1>1 DEF TypeOK, FeishuTypes
    <2> QED BY <1>1, <2>1 DEF InHandOK
  <1>6. /\ Destination(r) \in DOMAIN nodes /\ Destination(r) \in Nat
        /\ nodes[Destination(r)].key = CategoryKey(x.project, x.docs[n])
    <2>1. CategoryKey(x.project, x.docs[n]) \in Keys
      BY <1>4, Constants DEF Input
    <2>2. wiki.nodes[CategoryKey(x.project, x.docs[n])].token # 0
      BY <1>4, DestinationIs
    <2>3. Destination(r) = wiki.nodes[CategoryKey(x.project, x.docs[n])].token
      BY DEF Destination
    <2> HIDE DEF x, n, wiki
    <2> QED BY <1>4, <2>1, <2>2, <2>3, TokenIs
  <1>7. /\ moved \in Seq(DocRecord) /\ DOMAIN moved = DOMAIN docs
        /\ \A d \in DOMAIN docs : d # doc[r] => moved[d] = docs[d]
        /\ moved[doc[r]] = [run |-> docs[doc[r]].run, i |-> docs[doc[r]].i, place |-> "wiki",
                            node |-> Destination(r), by |-> docs[doc[r]].by]
    BY <1>5, <1>6, MoveToIs
  <1> HIDE DEF moved
  <1>8. /\ docs' \in Seq(DocRecord) /\ DOMAIN docs' = DOMAIN docs
        /\ \A d \in DOMAIN docs : d # doc[r] => docs'[d] = docs[d]
        /\ docs'[doc[r]].run = r /\ docs'[doc[r]].i = n /\ docs'[doc[r]].by = "handler"
        /\ o # "fail" => docs'[doc[r]].place = "wiki" /\ docs'[doc[r]].node = Destination(r)
    BY <1>2, <1>5, <1>7
  <1>9. OwnDocuments(r, docs, docs')
    BY <1>5, <1>8 DEF OwnDocuments
  <1>10. ASSUME pc'[r] # "start" PROVE \A d \in DOMAIN docs' : docs'[d].run = r => DocumentOK(d)'
    BY <1>3, <1>5, <1>8, <1>10, OwnDocumentsStay
  <1>11. noted \in WikiFile /\ noted.nodes = wiki.nodes
    <2>1. x.docs[n] \in Types
      BY <1>4
    <2> DEFINE t == x.docs[n]
    <2>2. noted = [wiki EXCEPT !.docs = @ \cup {[run |-> r, type |-> t, space |-> 0]}]
      OBVIOUS
    <2> HIDE DEF noted, t, wiki
    <2>3. wiki \in WikiFile /\ t \in Types /\ 0 \in Nat
      BY <1>4, <2>1 DEF t
    <2> QED BY <2>2, <2>3 DEF WikiFile
  <1> HIDE DEF noted
  <1>12. Genuine(noted, nodes') /\ Grows(nodes, nodes')
    BY <1>3, <1>4, <1>11, NothingNew DEF Genuine
  <1>13. RegistryTypes' /\ FeishuTypes' /\ Genuine(wikiReg', nodes')
    BY <1>1, <1>2, <1>3, <1>8, <1>11, <1>12 DEF TypeOK, RegistryTypes, FeishuTypes
  <1>14. \A m \in DOMAIN wikiPub[r] : wikiPub[r][m].token # doc[r]
    <2> SUFFICES ASSUME NEW m \in DOMAIN wikiPub[r], wikiPub[r][m].token = doc[r] PROVE FALSE
      OBVIOUS
    <2>1. EntryOK(x, r, m, wikiPub[r][m], docs, nodes) /\ wikiPub[r][m].status # "failed"
      BY <1>1, <1>4 DEF ResultOK, ListOK, AllWell
    <2>2. docs[doc[r]].i = m
      BY <1>4, <2>1 DEF EntryOK, Placed
    <2>3. m <= n - 1
      BY <1>4
    <2> QED BY <1>4, <1>5, <2>2, <2>3
  <1>15. ListOK(x, r, wikiPub[r], docs', nodes')
    <2>1. ASSUME NEW m \in DOMAIN wikiPub[r] PROVE EntryOK(x, r, m, wikiPub[r][m], docs', nodes')
      <3>1. EntryOK(x, r, m, wikiPub[r][m], docs, nodes)
        BY <1>1 DEF ResultOK, ListOK
      <3> QED BY <1>3, <1>8, <1>14, <3>1 DEF EntryOK, Placed
    <2> QED BY <2>1 DEF ListOK
  <1>16. entry(o) \in Entry /\ EntryOK(x, r, n, entry(o), docs', nodes')
    <2> DEFINE status == IF o = "ok" THEN "published" ELSE "failed"
    <2>1. status = "published" => /\ docs'[doc[r]].place = "wiki" /\ docs'[doc[r]].node \in DOMAIN nodes'
                                  /\ nodes'[docs'[doc[r]].node].key = CategoryKey(x.project, x.docs[n])
      BY <1>3, <1>6, <1>8
    <2>2. status \in {"published", "failed"} /\ doc[r] \in DOMAIN docs'
      BY <1>5, <1>8
    <2> HIDE DEF x, n, status
    <2>3. /\ Listed(n, status, doc[r]) \in Entry
          /\ EntryOK(x, r, n, Listed(n, status, doc[r]), docs', nodes')
      BY <1>4, <1>5, <1>8, <2>1, <2>2, WikiEntry
    <2> QED BY <2>3 DEF status
  <1>17. /\ list(o) \in Seq(Entry) /\ Len(list(o)) = n /\ ListOK(x, r, list(o), docs', nodes')
         /\ o = "ok" => AllWell(list(o))
    <2>1. entry(o).status # "failed" \/ o # "ok"
      BY DEF Listed
    <2>2. EntryOK(x, r, Len(wikiPub[r]) + 1, entry(o), docs', nodes')
      BY <1>4, <1>16
    <2> DEFINE e == entry(o)
    <2> HIDE DEF x, n, entry, e
    <2>3. /\ Append(wikiPub[r], e) \in Seq(Entry) /\ Len(Append(wikiPub[r], e)) = Len(wikiPub[r]) + 1
          /\ ListOK(x, r, Append(wikiPub[r], e), docs', nodes')
          /\ AllWell(wikiPub[r]) /\ e.status # "failed" => AllWell(Append(wikiPub[r], e))
      BY <1>4, <1>15, <1>16, <2>2, ListAppend DEF e
    <2> QED BY <1>4, <2>1, <2>3 DEF e
  <1> DEFINE new == list(o)
  <1>18. new = list(o)
    OBVIOUS
  <1> HIDE DEF list, entry, new
  <1>19. CASE /\ o = "ok" /\ n < Len(x.docs)
              /\ mem' = [mem EXCEPT ![r].wiki = noted]
              /\ at' = Put(at, r, n + 1) /\ doc' = Put(doc, r, 0) /\ pc' = Put(pc, r, "wikiDoc")
              /\ wikiPub' = Put(wikiPub, r, list(o))
              /\ UNCHANGED <<space, folder, pub>>
    <2>1. /\ space' = space /\ folder' = folder /\ pub' = pub
          /\ at' = [at EXCEPT ![r] = n + 1] /\ doc' = [doc EXCEPT ![r] = 0]
          /\ pc' = [pc EXCEPT ![r] = "wikiDoc"] /\ wikiPub' = [wikiPub EXCEPT ![r] = new]
      BY <1>18, <1>19 DEF Put
    <2>2. mem \in [Procs -> Memory]
      BY <1>1 DEF TypeOK, ProcessTypes
    <2>3. /\ mem' \in [Procs -> Memory] /\ mem'[r].wiki = noted
          /\ \A q \in Procs : q # r => mem'[q] = mem[q]
      <3> HIDE DEF wiki
      <3> QED BY <1>1, <1>11, <1>19, <2>2, MemWiki
    <2>4. /\ ProcessTypes' /\ ProcessesAlone(r) /\ pc'[r] = "wikiDoc" /\ at'[r] = n + 1
      <3>1. n + 1 \in Nat
        BY <1>4
      <3> QED BY <1>1, <2>1, <2>3, <3>1 DEF TypeOK, ProcessTypes, ProcessesAlone, RunStages, WikiStages
    <2>5. ResultTypes' /\ ResultsAlone(r) /\ wikiPub'[r] = new
      BY <1>1, <1>17, <1>18, <2>1 DEF TypeOK, ResultTypes, ResultsAlone
    <2>6. ToWiki(r)'
      BY <1>3, <1>4 DEF ToWiki
    <2>7. n + 1 \in DOMAIN x.docs
      BY <1>4, <1>19
    <2>8. Missing(x, space[r], noted) = {}
      BY <1>4, <1>11 DEF Missing
    <2>9. StageOK(r)'
      BY <1>1, <1>3, <1>4, <1>17, <1>18, <1>19, <2>1, <2>3, <2>4, <2>5, <2>6, <2>7, <2>8
         DEF StageOK, Busy, RunStages, WikiStages
    <2>10. InHandOK(r)'
      BY <2>4 DEF InHandOK
    <2>11. ResultOK(r)'
      BY <1>1, <1>3, <1>4, <1>17, <1>18, <2>1, <2>5 DEF ResultOK, ListOK, StageOK, WikiStages
    <2>12. OwnOK(r)'
      BY <1>10, <2>4, <2>9, <2>10, <2>11 DEF OwnOK
    <2> QED BY <1>1, <1>2, <1>3, <1>9, <1>12, <1>13, <2>3, <2>4, <2>5, <2>12, ChargeIs, RunStepDone
  <1>20. CASE /\ o = "ok" /\ n = Len(x.docs)
              /\ wikiPub' = Put(wikiPub, r, list(o))
              /\ Record(r, "published", list(o), FALSE)
              /\ Forget(r) /\ Reset(r)
    <2>1. wikiPub' = [wikiPub EXCEPT ![r] = new] /\ Record(r, "published", new, FALSE)
      BY <1>18, <1>20 DEF Put
    <2>2. ProcessTypes' /\ ProcessesAlone(r) /\ pc'[r] = "done" /\ mem'[r].wiki = EmptyWiki
      BY <1>1, <1>20, EndIs
    <2>3. /\ pub' \in [Runs -> PubFile] /\ \A s \in Runs : s # r => pub'[s] = pub[s]
          /\ pub'[r].status = "published" /\ pub'[r].docs = new
      BY <1>1, <1>17, <1>18, <2>1, RecordIs DEF TypeOK
    <2>4. ResultTypes' /\ ResultsAlone(r) /\ wikiPub'[r] = new
      BY <1>1, <1>17, <1>18, <2>1, <2>3 DEF TypeOK, ResultTypes, ResultsAlone
    <2>5. StageOK(r)' /\ InHandOK(r)'
      BY <2>2, <2>3 DEF StageOK, InHandOK, Busy, RunStages, WikiStages
    <2>6. ResultOK(r)'
      BY <1>3, <1>4, <1>17, <1>18, <1>20, <2>3, <2>4 DEF ResultOK
    <2>7. OwnOK(r)'
      BY <1>10, <2>2, <2>5, <2>6 DEF OwnOK
    <2> QED BY <1>1, <1>2, <1>3, <1>9, <1>12, <1>13, <2>2, <2>4, <2>7, ChargeIs, Empty, RunStepDone
  <1>21. CASE o # "ok" /\ WikiFailed(r, list(o))
    <2>1. WikiFailed(r, new) /\ pc[r] \in WikiStages
      BY <1>1, <1>18, <1>21 DEF WikiStages
    <2>2. /\ ProcessTypes' /\ ResultTypes' /\ ProcessesAlone(r) /\ ResultsAlone(r)
          /\ mem'[r].wiki = EmptyWiki /\ pc'[r] # "start"
          /\ StageOK(r)' /\ InHandOK(r)' /\ ResultOK(r)'
      BY <1>3, <1>17, <1>18, <2>1, WikiFailedIs
    <2>3. OwnOK(r)'
      BY <1>10, <2>2 DEF OwnOK
    <2> QED BY <1>1, <1>2, <1>3, <1>9, <1>12, <1>13, <2>2, <2>3, ChargeIs, Empty, RunStepDone
  <1> QED BY <1>2, <1>19, <1>20, <1>21

LEMMA CreateFolderStep ==
  ASSUME IInv, NEW r \in Runs, CreateFolder(r) PROVE IInv'
  <1>1. TypeOK /\ StageOK(r) /\ ResultOK(r) /\ RegistriesGenuine /\ pc[r] = "folder" /\ r \in Procs
    BY DEF IInv, CreateFolder, Procs
  <1> DEFINE p == input[r].project
  <1>2. PICK o \in Outcomes :
          /\ Charge(o)
          /\ folders' = IF o = "fail" THEN folders ELSE Append(folders, p)
          /\ \/ /\ folder' = Put(folder, r, Len(folders) + 1)
                /\ driveReg' = [mem[r].drive EXCEPT ![p] = Len(folders) + 1]
             \/ folder' = Put(folder, r, 0) /\ UNCHANGED driveReg
    BY DEF CreateFolder
  <1>3. /\ input' = input /\ options' = options /\ org' = org /\ applies' = applies
        /\ mem' = mem /\ space' = space /\ at' = at /\ doc' = doc /\ wikiPub' = wikiPub /\ pub' = pub
        /\ wikiReg' = wikiReg /\ spaces' = spaces /\ nodes' = nodes /\ docs' = docs /\ overlap' = overlap
        /\ pc' = [pc EXCEPT ![r] = "driveDoc"]
    BY DEF CreateFolder, command, records, Put
  <1>4. p \in Projects /\ mem[r].drive \in DriveFile /\ folders \in Seq(Projects)
    BY <1>1 DEF TypeOK, Input, ProcessTypes, Memory, FeishuTypes
  <1>5. folders' \in Seq(Projects) /\ Len(folders) + 1 \in Nat
    BY <1>2, <1>4, AppendProperties
  <1>6. driveReg' \in DriveFile /\ folder' \in [Runs -> Nat]
    <2>1. driveReg \in DriveFile /\ folder \in [Runs -> Nat]
      BY <1>1 DEF TypeOK, RegistryTypes, ProcessTypes
    <2>2. CASE /\ folder' = Put(folder, r, Len(folders) + 1)
               /\ driveReg' = [mem[r].drive EXCEPT ![p] = Len(folders) + 1]
      BY <1>4, <1>5, <2>1, <2>2 DEF DriveFile, Put
    <2>3. CASE folder' = Put(folder, r, 0) /\ UNCHANGED driveReg
      BY <2>1, <2>3 DEF Put
    <2> QED BY <1>2, <2>2, <2>3
  <1>7. ProcessTypes' /\ ProcessesAlone(r) /\ pc'[r] = "driveDoc"
    BY <1>1, <1>3, <1>6 DEF TypeOK, ProcessTypes, ProcessesAlone, RunStages
  <1>8. ResultTypes' /\ RegistryTypes' /\ FeishuTypes' /\ ResultsAlone(r)
    BY <1>1, <1>3, <1>5, <1>6 DEF TypeOK, ResultTypes, RegistryTypes, FeishuTypes, ResultsAlone
  <1>9. at[r] = 1 /\ Len(pub[r].docs) = 0
    BY <1>1 DEF StageOK
  <1>10. StageOK(r)'
    BY <1>1, <1>3, <1>7, <1>9 DEF StageOK, Busy, RunStages, WikiStages
  <1>11. OwnOK(r)'
    BY <1>3, <1>7, <1>10, NothingNew, OwnQuiet
  <1> QED BY <1>1, <1>2, <1>3, <1>7, <1>8, <1>11, ChargeIs, NothingNew, RunStepDone DEF RegistriesGenuine

\* The file an overwriting run's request names exists and is its user's.
LEMMA UserFileIs ==
  ASSUME IInv, NEW r \in Runs, Overwrites(input[r])
  PROVE  UserFile(r) \in DOMAIN docs /\ docs[UserFile(r)].run = r /\ docs[UserFile(r)].by = "user"
  <1>1. \E d \in DOMAIN docs : docs[d].run = r /\ docs[d].by = "user"
    BY DEF IInv, FilesOK, FileNamed, Overwrites
  <1> QED BY <1>1 DEF UserFile

\* A write to the file a request names replaces what it held.
LEMMA OverwriteIs ==
  ASSUME docs \in Seq(DocRecord), NEW d \in DOMAIN docs, NEW i \in Nat, docs[d].by = "user"
  PROVE  LET ds == [docs EXCEPT ![d].i = i]
         IN /\ ds \in Seq(DocRecord) /\ DOMAIN ds = DOMAIN docs
            /\ \A k \in DOMAIN docs : k # d => ds[k] = docs[k]
            /\ ds[d].run = docs[d].run /\ ds[d].by = docs[d].by /\ ds[d].i = i
  <1> DEFINE ds == [docs EXCEPT ![d].i = i]
  <1>1. DOMAIN ds = DOMAIN docs /\ \A k \in DOMAIN docs : k # d => ds[k] = docs[k]
    OBVIOUS
  <1>2. docs[d] \in DocRecord /\ ds[d] = [docs[d] EXCEPT !.i = i]
    OBVIOUS
  <1>3. ds = [docs EXCEPT ![d] = ds[d]]
    OBVIOUS
  <1> HIDE DEF ds
  <1>4. ds[d] \in DocRecord /\ ds[d].run = docs[d].run /\ ds[d].by = docs[d].by /\ ds[d].i = i
    BY <1>2 DEF DocRecord
  <1>5. ds \in Seq(DocRecord)
    BY <1>3, <1>4
  <1> QED BY <1>1, <1>4, <1>5 DEF ds

LEMMA VerdictIs ==
  ASSUME NEW list
  PROVE  /\ Verdict(list) \in {"published", "blocked"}
         /\ Verdict(list) = "published" => AllWell(list)
  BY DEF Verdict, AllWell

LEMMA WriteDriveDocStep ==
  ASSUME IInv, NEW r \in Runs, WriteDriveDoc(r) PROVE IInv'
  <1>1. /\ TypeOK /\ StageOK(r) /\ ResultOK(r) /\ RegistriesGenuine
        /\ pc[r] = "driveDoc" /\ r \in Procs /\ docs \in Seq(DocRecord)
    BY DEF IInv, WriteDriveDoc, Procs, TypeOK, FeishuTypes
  <1> DEFINE x == input[r]
             n == at[r]
             made == Append(docs, NewDoc(r, n, "drive", folder[r], "handler"))
             written == [docs EXCEPT ![UserFile(r)].i = n]
             done == IF Overwrites(x) THEN "overwritten" ELSE "published"
             token == IF Overwrites(x) THEN UserFile(r) ELSE Len(docs) + 1
             entry(o) == IF o = "ok" THEN Listed(n, done, token) ELSE Listed(n, "failed", 0)
             list(o) == Append(pub[r].docs, entry(o))
  <1>2. PICK o \in Outcomes :
          /\ Charge(o)
          /\ docs' = IF o = "fail" THEN docs ELSE IF Overwrites(x) THEN written ELSE made
          /\ \/ /\ n < Len(x.docs)
                /\ Record(r, "none", list(o), ToWiki(r)) /\ at' = Put(at, r, n + 1)
                /\ UNCHANGED <<pc, mem, space, folder, doc>>
             \/ /\ n = Len(x.docs)
                /\ Record(r, Verdict(list(o)), list(o), ToWiki(r))
                /\ Forget(r) /\ Reset(r)
    BY DEF WriteDriveDoc
  <1>3. /\ input' = input /\ options' = options /\ wikiPub' = wikiPub /\ org' = org
        /\ applies' = applies /\ wikiReg' = wikiReg /\ driveReg' = driveReg
        /\ spaces' = spaces /\ nodes' = nodes /\ folders' = folders /\ overlap' = overlap
    BY DEF WriteDriveDoc, command, registries
  <1>4. /\ n \in DOMAIN x.docs /\ n \in Nat /\ x.docs \in Seq(Types) /\ ToWiki(r) \in BOOLEAN
        /\ pub[r].docs \in Seq(Entry) /\ Len(pub[r].docs) = n - 1 /\ folder[r] \in Nat
        /\ pub[r].status = "none" /\ GateOpen(x) /\ options.mode = "live"
    BY <1>1 DEF StageOK, WikiStages, Busy, TypeOK, ResultTypes, ProcessTypes, ToWiki, Input, PubFile
  <1>5. /\ docs' \in Seq(DocRecord) /\ OwnDocuments(r, docs, docs')
        /\ ListOK(x, r, wikiPub[r], docs', nodes') /\ ListOK(x, r, pub[r].docs, docs', nodes')
        /\ EntryOK(x, r, n, entry(o), docs', nodes') /\ entry(o) \in Entry
        /\ Overwrites(x) /\ entry(o).status # "failed" => docs'[entry(o).token].i = n
        /\ pc'[r] # "start" => \A d \in DOMAIN docs' : docs'[d].run = r => DocumentOK(d)'
    <2>1. ListOK(x, r, wikiPub[r], docs, nodes) /\ ListOK(x, r, pub[r].docs, docs, nodes)
      BY <1>1 DEF ResultOK
    <2>2. o # "ok" => entry(o) = Listed(n, "failed", 0)
      OBVIOUS
    <2>3. /\ Listed(n, "failed", 0) \in Entry
          /\ EntryOK(x, r, n, Listed(n, "failed", 0), docs', nodes')
      BY <1>4 DEF Listed, Entry, EntryOK
    <2>4. Listed(n, "failed", 0).status = "failed"
      BY DEF Listed
    <2>5. CASE o = "fail"
      <3>1. docs' = docs
        BY <1>2, <2>5
      <3>2. pc'[r] # "start" => \A d \in DOMAIN docs' : docs'[d].run = r => DocumentOK(d)'
        BY <1>3, <3>1, OwnDocumentsStay
      <3> HIDE DEF entry
      <3> QED BY <1>1, <1>3, <2>1, <2>2, <2>3, <2>4, <2>5, <3>1, <3>2, NothingNew
    <2>6. CASE o # "fail" /\ ~Overwrites(x)
      <3>1. /\ made \in Seq(DocRecord) /\ OwnDocuments(r, docs, made)
            /\ DOMAIN made = DOMAIN docs \cup {Len(docs) + 1} /\ Len(docs) + 1 \in Nat \ {0}
            /\ Len(docs) + 1 \notin DOMAIN docs
            /\ \A d \in DOMAIN docs : made[d] = docs[d]
            /\ made[Len(docs) + 1] = NewDoc(r, n, "drive", folder[r], "handler")
        BY <1>1, <1>4, MakeDocument
      <3>2. docs' = made
        BY <1>2, <2>6
      <3> HIDE DEF made
      <3>3. /\ ListOK(x, r, wikiPub[r], docs', nodes') /\ ListOK(x, r, pub[r].docs, docs', nodes')
        BY <1>3, <2>1, <3>1, <3>2, NothingNew, ListStays
      <3>4. ASSUME o = "ok" PROVE EntryOK(x, r, n, entry(o), docs', nodes') /\ entry(o) \in Entry
        <4>1. entry(o) = Listed(n, "published", Len(docs) + 1)
          BY <2>6, <3>4
        <4>2. Listed(n, "published", Len(docs) + 1) \in Entry
          BY <1>4, <3>1 DEF Listed, Entry
        <4>3. EntryOK(x, r, n, Listed(n, "published", Len(docs) + 1), docs', nodes')
          BY <1>4, <2>6, <3>1, <3>2 DEF Listed, EntryOK, Placed, NewDoc
        <4> QED BY <4>1, <4>2, <4>3
      <3>5. pc'[r] # "start" => \A d \in DOMAIN docs' : docs'[d].run = r => DocumentOK(d)'
        <4> SUFFICES ASSUME pc'[r] # "start"
                     PROVE  \A d \in DOMAIN docs' : docs'[d].run = r => DocumentOK(d)'
          OBVIOUS
        <4>1. \A d \in DOMAIN docs' : d \notin DOMAIN docs =>
                  docs'[d].by = "handler" /\ docs'[d].i = n
          BY <3>1, <3>2 DEF NewDoc
        <4> QED BY <1>3, <1>4, <2>6, <3>1, <3>2, <4>1, OwnDocumentsStay
      <3> HIDE DEF entry
      <3> QED BY <2>2, <2>3, <2>6, <3>1, <3>2, <3>3, <3>4, <3>5
    <2>7. CASE o # "fail" /\ Overwrites(x)
      <3> DEFINE u == UserFile(r)
      <3>1. u \in DOMAIN docs /\ docs[u].run = r /\ docs[u].by = "user"
        BY <2>7, UserFileIs
      <3>2. /\ written \in Seq(DocRecord) /\ DOMAIN written = DOMAIN docs
            /\ \A k \in DOMAIN docs : k # u => written[k] = docs[k]
            /\ written[u].run = docs[u].run /\ written[u].by = docs[u].by /\ written[u].i = n
        BY <1>1, <1>4, <3>1, OverwriteIs
      <3>3. docs' = written
        BY <1>2, <2>7
      <3>4. u \in Nat \ {0}
        BY <1>1, <3>1
      <3> HIDE DEF written, u
      <3>5. OwnDocuments(r, docs, docs')
        BY <3>1, <3>2, <3>3 DEF OwnDocuments
      <3>6. ASSUME NEW m, NEW e, EntryOK(x, r, m, e, docs, nodes)
            PROVE  EntryOK(x, r, m, e, docs', nodes')
        BY <1>3, <2>7, <3>1, <3>2, <3>3, <3>6 DEF EntryOK, Placed
      <3>7. /\ ListOK(x, r, wikiPub[r], docs', nodes') /\ ListOK(x, r, pub[r].docs, docs', nodes')
        BY <2>1, <3>6 DEF ListOK
      <3>8. ASSUME o = "ok"
            PROVE  /\ EntryOK(x, r, n, entry(o), docs', nodes') /\ entry(o) \in Entry
                   /\ docs'[entry(o).token].i = n
        <4>1. entry(o) = Listed(n, "overwritten", u)
          BY <2>7, <3>8 DEF u
        <4>2. Listed(n, "overwritten", u) \in Entry /\ Listed(n, "overwritten", u).token = u
          BY <1>4, <3>4 DEF Listed, Entry
        <4>3. EntryOK(x, r, n, Listed(n, "overwritten", u), docs', nodes')
          BY <1>4, <2>7, <3>1, <3>2, <3>3, <3>4 DEF Listed, EntryOK, Placed
        <4> QED BY <3>2, <3>3, <4>1, <4>2, <4>3
      <3>9. pc'[r] # "start" => \A d \in DOMAIN docs' : docs'[d].run = r => DocumentOK(d)'
        <4> SUFFICES ASSUME pc'[r] # "start", NEW d \in DOMAIN docs', docs'[d].run = r
                     PROVE  DocumentOK(d)'
          OBVIOUS
        <4>1. d \in DOMAIN docs /\ docs[d].run = r /\ DocumentOK(d)
          BY <3>1, <3>2, <3>3 DEF IInv
        <4>2. CASE d = u
          BY <1>3, <1>4, <2>7, <3>1, <3>2, <3>3, <4>1, <4>2 DEF DocumentOK
        <4>3. CASE d # u
          BY <1>3, <3>2, <3>3, <4>1, <4>3 DEF DocumentOK
        <4> QED BY <4>2, <4>3
      <3> HIDE DEF entry
      <3> QED BY <2>2, <2>3, <2>4, <2>7, <3>2, <3>3, <3>5, <3>7, <3>8, <3>9
    <2> QED BY <2>5, <2>6, <2>7
  <1> DEFINE new == list(o)
             e == entry(o)
  <1>6. new = Append(pub[r].docs, e)
    OBVIOUS
  <1>7. \/ /\ n < Len(x.docs)
           /\ Record(r, "none", new, ToWiki(r)) /\ at' = Put(at, r, n + 1)
           /\ UNCHANGED <<pc, mem, space, folder, doc>>
        \/ /\ n = Len(x.docs)
           /\ Record(r, Verdict(new), new, ToWiki(r))
           /\ Forget(r) /\ Reset(r)
    BY <1>2
  <1>8. /\ e \in Entry /\ EntryOK(x, r, Len(pub[r].docs) + 1, e, docs', nodes')
        /\ Overwrites(x) /\ e.status # "failed" => docs'[e.token].i = n
    BY <1>4, <1>5
  <1> HIDE DEF list, entry, new, e, made, written
  <1>9. /\ new \in Seq(Entry) /\ Len(new) = n /\ ListOK(x, r, new, docs', nodes') /\ new[n] = e
    <2> HIDE DEF x, n
    <2>1. /\ Append(pub[r].docs, e) \in Seq(Entry)
          /\ Len(Append(pub[r].docs, e)) = Len(pub[r].docs) + 1
          /\ ListOK(x, r, Append(pub[r].docs, e), docs', nodes')
          /\ Append(pub[r].docs, e)[Len(pub[r].docs) + 1] = e
      BY <1>4, <1>5, <1>8, ListAppend
    <2> QED BY <1>4, <1>6, <2>1
  <1>10. RegistryTypes' /\ FeishuTypes' /\ Genuine(wikiReg', nodes') /\ Grows(nodes, nodes')
    BY <1>1, <1>3, <1>5, NothingNew DEF TypeOK, RegistryTypes, FeishuTypes, RegistriesGenuine
  <1>11. CASE /\ n < Len(x.docs)
              /\ Record(r, "none", new, ToWiki(r)) /\ at' = Put(at, r, n + 1)
              /\ UNCHANGED <<pc, mem, space, folder, doc>>
    <2>1. /\ pub' \in [Runs -> PubFile] /\ \A s \in Runs : s # r => pub'[s] = pub[s]
          /\ pub'[r].status = "none" /\ pub'[r].docs = new
      BY <1>1, <1>4, <1>9, <1>11, RecordIs DEF TypeOK
    <2>2. /\ pc' = pc /\ mem' = mem /\ space' = space /\ folder' = folder /\ doc' = doc
          /\ at' = [at EXCEPT ![r] = n + 1]
      BY <1>11 DEF Put
    <2>3. ProcessTypes' /\ ProcessesAlone(r) /\ at'[r] = n + 1
      <3>1. n + 1 \in Nat
        BY <1>4
      <3> QED BY <1>1, <2>2, <3>1 DEF TypeOK, ProcessTypes, ProcessesAlone
    <2>4. n + 1 \in DOMAIN x.docs /\ (n + 1) - 1 = n
      BY <1>4, <1>11
    <2>5. StageOK(r)' /\ InHandOK(r)'
      BY <1>1, <1>3, <1>4, <1>9, <2>1, <2>2, <2>3, <2>4
         DEF StageOK, InHandOK, Busy, RunStages, WikiStages
    <2>6. ResultOK(r)'
      BY <1>3, <1>5, <1>8, <1>9, <2>1 DEF ResultOK
    <2>7. OwnOK(r)' /\ ResultTypes' /\ ResultsAlone(r) /\ Genuine(mem'[r].wiki, nodes')
      BY <1>1, <1>3, <1>5, <2>1, <2>2, <2>5, <2>6
         DEF OwnOK, ResultTypes, ResultsAlone, TypeOK, RegistriesGenuine
    <2> QED BY <1>1, <1>2, <1>3, <1>5, <1>10, <2>3, <2>7, ChargeIs, RunStepDone
  <1>12. CASE /\ n = Len(x.docs)
              /\ Record(r, Verdict(new), new, ToWiki(r))
              /\ Forget(r) /\ Reset(r)
    <2>1. ProcessTypes' /\ ProcessesAlone(r) /\ pc'[r] = "done" /\ mem'[r].wiki = EmptyWiki
      BY <1>1, <1>12, EndIs
    <2>2. Verdict(new) \in {"published", "blocked"} /\ (Verdict(new) = "published" => AllWell(new))
      BY VerdictIs
    <2>3. /\ pub' \in [Runs -> PubFile] /\ \A s \in Runs : s # r => pub'[s] = pub[s]
          /\ pub'[r].status = Verdict(new) /\ pub'[r].docs = new
      BY <1>1, <1>4, <1>9, <1>12, <2>2, RecordIs DEF TypeOK
    <2>4. StageOK(r)' /\ InHandOK(r)'
      BY <2>1, <2>2, <2>3 DEF StageOK, InHandOK, Busy, RunStages, WikiStages
    <2>5. ResultOK(r)'
      BY <1>3, <1>5, <1>8, <1>9, <1>12, <2>2, <2>3 DEF ResultOK
    <2>6. OwnOK(r)' /\ ResultTypes' /\ ResultsAlone(r)
      BY <1>1, <1>3, <1>5, <2>1, <2>3, <2>4, <2>5 DEF OwnOK, ResultTypes, ResultsAlone, TypeOK
    <2> QED BY <1>1, <1>2, <1>3, <1>5, <1>10, <2>1, <2>6, ChargeIs, Empty, RunStepDone
  <1> QED BY <1>7, <1>11, <1>12

-----------------------------------------------------------------------------
(* Steps of the reorganising command. *)

\* The command changes a document of a run by moving it to the node of its
\* own project and type, and makes none in a run's name.
DocumentsKept ==
    /\ \A d \in DOMAIN docs :
          /\ d \in DOMAIN docs'
          /\ docs'[d].run = docs[d].run /\ docs'[d].i = docs[d].i /\ docs'[d].by = docs[d].by
          /\ \/ docs'[d] = docs[d] \/ docs[d].by = "organizer"
             \/ /\ docs'[d].place = "wiki"
                /\ docs[d].by = "handler" =>
                      /\ docs'[d].node \in DOMAIN nodes'
                      /\ LET x == input[docs[d].run]
                         IN nodes'[docs'[d].node].key = CategoryKey(x.project, x.docs[docs[d].i])
    /\ \A d \in DOMAIN docs' : d \notin DOMAIN docs =>
          docs'[d].by = "organizer" /\ docs'[d].run \in Runs

\* What a run's result says stays true when its document is moved so.
LEMMA EntryKept ==
  ASSUME IInv, NEW r \in Runs, NEW n, NEW e, EntryOK(input[r], r, n, e, docs, nodes),
         Grows(nodes, nodes'), DocumentsKept
  PROVE  EntryOK(input[r], r, n, e, docs', nodes')
  <1> DEFINE d == e.token
  <1>1. CASE d = 0
    BY <1>1 DEF EntryOK
  <1>2. CASE d # 0
    <2>1. d \in DOMAIN docs /\ docs[d].run = r /\ docs[d].by # "organizer"
      BY <1>2 DEF EntryOK
    <2>2. d \in DOMAIN docs' /\ docs'[d].run = r /\ docs'[d].by = docs[d].by /\ docs'[d].i = docs[d].i
      BY <2>1 DEF DocumentsKept
    <2>3. ASSUME Placed(input[r], docs[d], n, nodes) PROVE Placed(input[r], docs'[d], n, nodes')
      <3>1. CASE Overwrites(input[r])
        BY <2>2, <2>3, <3>1 DEF Placed
      <3>2. CASE ~Overwrites(input[r])
        <4>1. docs[d].by = "handler" /\ docs[d].i = n
          BY <2>3, <3>2 DEF Placed
        <4>2. CASE docs'[d] = docs[d]
          BY <2>3, <3>2, <4>2 DEF Placed, Grows
        <4>3. CASE docs'[d] # docs[d]
          <5>1. /\ docs'[d].place = "wiki" /\ docs'[d].node \in DOMAIN nodes'
                /\ nodes'[docs'[d].node].key = CategoryKey(input[r].project, input[r].docs[n])
            BY <2>1, <4>1, <4>3 DEF DocumentsKept
          <5> QED BY <2>2, <3>2, <4>1, <5>1 DEF Placed
        <4> QED BY <4>2, <4>3
      <3> QED BY <3>1, <3>2
    <2> QED BY <2>1, <2>2, <2>3 DEF EntryOK
  <1> QED BY <1>1, <1>2

\* A step of the command leaves every run as it was.
LEMMA CommandStepDone ==
  ASSUME IInv, input' = input, options' = options, folder' = folder, at' = at,
         wikiPub' = wikiPub, pub' = pub, faults' \in Nat, overlap' \in BOOLEAN,
         \A r \in Runs : pc'[r] = pc[r] /\ mem'[r] = mem[r] /\ space'[r] = space[r] /\ doc'[r] = doc[r],
         ProcessTypes', CommandTypes', RegistryTypes', FeishuTypes',
         Genuine(wikiReg', nodes'), Genuine(mem'[Organizer].wiki, nodes'),
         Grows(nodes, nodes'), DocumentsKept, WorkOK', CommandOK'
  PROVE  IInv'
  <1>1. TypeOK'
    BY DEF IInv, TypeOK, ResultTypes
  <1>2. RegistriesGenuine'
    <2>1. ASSUME NEW q \in Procs PROVE Genuine(mem'[q].wiki, nodes')
      <3>1. CASE q \in Runs
        BY <3>1, GenuineStays DEF IInv, RegistriesGenuine, Procs
      <3>2. CASE q = Organizer
        BY <3>2
      <3> QED BY <3>1, <3>2 DEF Procs
    <2> QED BY <2>1 DEF RegistriesGenuine
  <1>3. FilesOK'
    BY FilesStay DEF IInv, DocumentsKept
  <1>4. \A d \in DOMAIN docs' : DocumentOK(d)'
    <2> TAKE d \in DOMAIN docs'
    <2>1. CASE d \in DOMAIN docs
      <3>1. docs[d].run \in Runs /\ DocumentOK(d)
        <4>1. docs \in Seq(DocRecord)
          BY DEF IInv, TypeOK, FeishuTypes
        <4>2. docs[d] \in DocRecord
          BY <2>1, <4>1
        <4> QED BY <2>1, <4>2 DEF IInv, DocRecord
      <3>2. docs'[d].run = docs[d].run /\ docs'[d].i = docs[d].i /\ docs'[d].by = docs[d].by
        BY <2>1 DEF DocumentsKept
      <3> QED BY <3>1, <3>2 DEF DocumentOK
    <2>2. CASE d \notin DOMAIN docs
      BY <2>2 DEF DocumentsKept, DocumentOK
    <2> QED BY <2>1, <2>2
  <1>5. ASSUME NEW r \in Runs PROVE StageOK(r)' /\ InHandOK(r)' /\ ResultOK(r)'
    <2>1. StageOK(r) /\ InHandOK(r) /\ ResultOK(r)
      BY DEF IInv
    <2>2. ToWiki(r)' = ToWiki(r) /\ Busy(r)' = Busy(r)
      BY DEF ToWiki, Busy
    <2>3. StageOK(r)'
      BY <2>1, <2>2 DEF StageOK
    <2>4. InHandOK(r)'
      BY <2>1 DEF InHandOK, DocumentsKept
    <2>5. /\ ListOK(input[r], r, wikiPub[r], docs', nodes')
          /\ ListOK(input[r], r, pub[r].docs, docs', nodes')
      BY <2>1, EntryKept DEF ResultOK, ListOK
    <2>6. LET n == Len(pub[r].docs)
          IN Overwrites(input[r]) /\ n # 0 /\ pub[r].docs[n].status # "failed"
                => docs'[pub[r].docs[n].token].i = n
      <3> DEFINE n == Len(pub[r].docs)
      <3> SUFFICES ASSUME Overwrites(input[r]), n # 0, pub[r].docs[n].status # "failed"
                   PROVE  docs'[pub[r].docs[n].token].i = n
        OBVIOUS
      <3>1. pub[r].docs \in Seq(Entry)
        BY DEF IInv, TypeOK, ResultTypes, PubFile
      <3>2. n \in DOMAIN pub[r].docs
        BY <3>1
      <3>3. EntryOK(input[r], r, n, pub[r].docs[n], docs, nodes)
        BY <2>1, <3>2 DEF ResultOK, ListOK
      <3>4. pub[r].docs[n].token \in DOMAIN docs /\ docs[pub[r].docs[n].token].i = n
        BY <2>1, <3>3 DEF ResultOK, EntryOK
      <3> QED BY <3>4 DEF DocumentsKept
    <2>7. ResultOK(r)'
      BY <2>1, <2>5, <2>6 DEF ResultOK
    <2> QED BY <2>3, <2>4, <2>7
  <1> QED BY <1>1, <1>2, <1>3, <1>4, <1>5 DEF IInv

LEMMA NothingKept ==
  ASSUME docs' = docs PROVE DocumentsKept
  BY DEF DocumentsKept

\* What the command has next is a node, a folder, a session or a document of
\* a run whose result is final.
LEMMA TaskIs ==
  ASSUME IInv, org.work # <<>>
  PROVE  /\ Task \in WorkItem
         /\ Task.kind = "doc" =>
               /\ Task.run \in Runs /\ pub[Task.run].status # "none"
               /\ Task.n \in DOMAIN pub[Task.run].docs
               /\ pub[Task.run].docs[Task.n] \in Entry
               /\ EntryOK(input[Task.run], Task.run, Task.n, pub[Task.run].docs[Task.n], docs, nodes)
               /\ TaskType \in Types /\ TaskType = input[Task.run].docs[Task.n]
               /\ CategoryKey(input[Task.run].project, TaskType) \in Keys
  <1>1. org.work \in Seq(WorkItem) /\ TypeOK
    BY DEF IInv, TypeOK, CommandTypes
  <1>2. Task = org.work[1] /\ 1 \in DOMAIN org.work /\ Task \in WorkItem
    BY <1>1 DEF Task
  <1> SUFFICES ASSUME Task.kind = "doc"
               PROVE  /\ Task.run \in Runs /\ pub[Task.run].status # "none"
                      /\ Task.n \in DOMAIN pub[Task.run].docs
                      /\ pub[Task.run].docs[Task.n] \in Entry
                      /\ EntryOK(input[Task.run], Task.run, Task.n, pub[Task.run].docs[Task.n],
                                 docs, nodes)
                      /\ TaskType \in Types /\ TaskType = input[Task.run].docs[Task.n]
                      /\ CategoryKey(input[Task.run].project, TaskType) \in Keys
    BY <1>2
  <1> DEFINE r == Task.run
             n == Task.n
  <1>3. r \in Runs /\ pub[r].status # "none" /\ n \in DOMAIN pub[r].docs
    BY <1>2 DEF IInv, WorkOK, WorkItem
  <1>4. pub[r].docs \in Seq(Entry) /\ input[r].docs \in Seq(Types) /\ input[r].project \in Projects
    BY <1>1, <1>3 DEF TypeOK, ResultTypes, PubFile, Input
  <1>5. pub[r].docs[n] \in Entry
    BY <1>3, <1>4
  <1>6. EntryOK(input[r], r, n, pub[r].docs[n], docs, nodes)
    BY <1>3 DEF IInv, ResultOK, ListOK
  <1>7. TaskType = input[r].docs[n] /\ n \in DOMAIN input[r].docs
    BY <1>6 DEF TaskType, TypeAt, EntryOK
  <1>8. TaskType \in Types
    BY <1>4, <1>7
  <1> QED BY <1>3, <1>4, <1>5, <1>6, <1>7, <1>8, Constants

\* A task taken off the list leaves final work.
LEMMA NextTaskIs ==
  ASSUME IInv, org.work # <<>>, NextTask, applies' = applies, pub' = pub
  PROVE  CommandTypes' /\ WorkOK'
  <1>1. org \in [local : BOOLEAN, work : Seq(WorkItem)] /\ WorkOK /\ applies \in Nat
    BY DEF IInv, TypeOK, CommandTypes
  <1>2. org' = [local |-> org.local, work |-> Tail(org.work)]
    BY <1>1 DEF NextTask
  <1>3. /\ Tail(org.work) \in Seq(WorkItem) /\ Len(Tail(org.work)) = Len(org.work) - 1
        /\ \A m \in 1..Len(Tail(org.work)) : Tail(org.work)[m] = org.work[m + 1]
    BY <1>1, HeadTailProperties
  <1>4. CommandTypes'
    BY <1>1, <1>2, <1>3 DEF CommandTypes
  <1>5. WorkOK'
    <2> DEFINE rest == Tail(org.work)
    <2>1. DOMAIN rest = 1..Len(rest) /\ DOMAIN org.work = 1..Len(org.work)
          /\ Len(org.work) \in Nat
      BY <1>1, <1>3
    <2>2. \A m \in DOMAIN rest : m + 1 \in DOMAIN org.work /\ rest[m] = org.work[m + 1]
      BY <1>3, <2>1
    <2> HIDE DEF rest
    <2>3. org'.work = rest
      BY <1>2 DEF rest
    <2> QED BY <1>1, <2>2, <2>3 DEF WorkOK
  <1> QED BY <1>4, <1>5

LEMMA TokenHereIs ==
  ASSUME IInv, NEW k \in Keys
  PROVE  /\ TokenHere(k) \in Nat
         /\ TokenHere(k) # 0 => TokenHere(k) \in DOMAIN nodes /\ nodes[TokenHere(k)].key = k
  <1>1. Organizer \in Procs /\ mem[Organizer].wiki \in WikiFile /\ Genuine(mem[Organizer].wiki, nodes)
    BY DEF IInv, RegistriesGenuine, TypeOK, ProcessTypes, Memory, Procs
  <1> QED BY <1>1, TokenIs DEF TokenHere, Memo

\* Saving the wiki registry keeps the other memories and the types.
LEMMA SaveWikiIs ==
  ASSUME TypeOK, NEW w \in WikiFile, SaveWiki(w), driveReg' = driveReg
  PROVE  /\ RegistryTypes' /\ wikiReg' = w
         /\ mem' \in [Procs -> Memory] /\ mem'[Organizer].wiki = w
         /\ \A r \in Runs : mem'[r] = mem[r]
  <1>1. Organizer \in Procs /\ mem \in [Procs -> Memory] /\ \A r \in Runs : r \in Procs /\ r # Organizer
    BY PublishingAssumption DEF PublishingAssumption, Procs, TypeOK, ProcessTypes
  <1>2. mem' = [mem EXCEPT ![Organizer].wiki = w] /\ wikiReg' = w
    BY DEF SaveWiki
  <1>3. mem' \in [Procs -> Memory] /\ mem'[Organizer].wiki = w /\ \A r \in Runs : mem'[r] = mem[r]
    BY <1>1, <1>2, MemWiki
  <1> QED BY <1>2, <1>3 DEF TypeOK, RegistryTypes

LEMMA OrgStartStep == ASSUME IInv, OrgStart PROVE IInv'
  <1>1. /\ TypeOK /\ RegistriesGenuine /\ Organizer \in Procs
        /\ \A r \in Runs : r \in Procs /\ r # Organizer
    BY PublishingAssumption DEF PublishingAssumption, IInv, Procs
  <1>2. PICK stage \in {"work", "listSpaces"} : pc' = [pc EXCEPT ![Organizer] = stage]
    BY DEF OrgStart, Put
  <1>3. /\ input' = input /\ options' = options /\ folder' = folder /\ at' = at /\ doc' = doc
        /\ wikiPub' = wikiPub /\ pub' = pub /\ wikiReg' = wikiReg /\ driveReg' = driveReg
        /\ spaces' = spaces /\ nodes' = nodes /\ folders' = folders /\ docs' = docs
        /\ faults' = faults /\ overlap' \in BOOLEAN
        /\ mem' = [mem EXCEPT ![Organizer] = [wiki |-> wikiReg, drive |-> driveReg]]
        /\ space' = [space EXCEPT ![Organizer] = wikiReg.space]
        /\ applies > 0 /\ applies' = applies - 1
    BY <1>1 DEF OrgStart, Put, records, registries, feishu, NoteOverlap, TypeOK
  <1>4. PICK local \in BOOLEAN : org' = [local |-> local, work |-> Plan]
    BY DEF OrgStart
  <1>5. wikiReg \in WikiFile /\ driveReg \in DriveFile /\ wikiReg.space \in Nat
    BY <1>1 DEF TypeOK, RegistryTypes, WikiFile
  <1>6. ProcessTypes'
    BY <1>1, <1>2, <1>3, <1>5 DEF TypeOK, ProcessTypes, Memory, OrganizerStages
  <1>7. \A r \in Runs : pc'[r] = pc[r] /\ mem'[r] = mem[r] /\ space'[r] = space[r] /\ doc'[r] = doc[r]
    BY <1>1, <1>2, <1>3 DEF TypeOK, ProcessTypes
  <1>8. Plan \in Seq(FinalWork) /\ FinalWork \subseteq WorkItem
    BY PlanIsFinal DEF FinalWork
  <1>9. CommandTypes'
    <2>1. Plan \in Seq(WorkItem)
      BY <1>8, SeqMonotonic
    <2> QED BY <1>1, <1>3, <1>4, <2>1 DEF TypeOK, CommandTypes
  <1>10. WorkOK'
    <2>1. ASSUME NEW m \in DOMAIN Plan, Plan[m].kind = "doc"
          PROVE  pub[Plan[m].run].status # "none" /\ Plan[m].n \in DOMAIN pub[Plan[m].run].docs
      <3>1. Plan[m] \in FinalWork
        BY <1>8
      <3> QED BY <2>1, <3>1 DEF FinalWork
    <2>2. org'.work = Plan /\ pub' = pub
      BY <1>3, <1>4
    <2> HIDE DEF Plan
    <2> QED BY <2>1, <2>2 DEF WorkOK
  <1>11. CommandOK'
    BY <1>1, <1>2 DEF CommandOK, OrganizerStages, TypeOK, ProcessTypes
  <1>12. Genuine(wikiReg', nodes') /\ Genuine(mem'[Organizer].wiki, nodes')
    BY <1>1, <1>3 DEF RegistriesGenuine, TypeOK, ProcessTypes
  <1>13. RegistryTypes' /\ FeishuTypes'
    BY <1>1, <1>3 DEF TypeOK, RegistryTypes, FeishuTypes
  <1> QED BY <1>1, <1>3, <1>6, <1>7, <1>9, <1>10, <1>11, <1>12, <1>13, NothingNew, NothingKept,
             CommandStepDone DEF TypeOK

\* The command's stage, and the space and the document it works with.
LEMMA StageIs ==
  ASSUME TypeOK, mem' \in [Procs -> Memory], \A r \in Runs : mem'[r] = mem[r],
         NEW stage \in OrganizerStages, pc' = [pc EXCEPT ![Organizer] = stage],
         NEW s \in Nat, space' = [space EXCEPT ![Organizer] = s],
         NEW d \in Nat, doc' = [doc EXCEPT ![Organizer] = d],
         folder' = folder, at' = at
  PROVE  /\ ProcessTypes' /\ pc'[Organizer] = stage /\ space'[Organizer] = s /\ doc'[Organizer] = d
         /\ \A r \in Runs : pc'[r] = pc[r] /\ mem'[r] = mem[r] /\ space'[r] = space[r] /\ doc'[r] = doc[r]
  <1>1. Organizer \in Procs /\ \A r \in Runs : r \in Procs /\ r # Organizer
    BY PublishingAssumption DEF PublishingAssumption, Procs
  <1>2. ProcessTypes'
    BY <1>1 DEF TypeOK, ProcessTypes
  <1> QED BY <1>1, <1>2 DEF TypeOK, ProcessTypes

\* A process that keeps its stage, its space or its document.
LEMMA SameIs ==
  ASSUME TypeOK
  PROVE  /\ pc = [pc EXCEPT ![Organizer] = pc[Organizer]]
         /\ space = [space EXCEPT ![Organizer] = space[Organizer]]
         /\ doc = [doc EXCEPT ![Organizer] = doc[Organizer]]
         /\ space[Organizer] \in Nat /\ doc[Organizer] \in Nat
         /\ mem[Organizer] \in Memory /\ mem[Organizer].wiki \in WikiFile
         /\ mem[Organizer].drive \in DriveFile /\ mem \in [Procs -> Memory]
  <1>1. Organizer \in Procs /\ pc \in [Procs -> RunStages \cup OrganizerStages]
        /\ space \in [Procs -> Nat] /\ doc \in [Procs -> Nat] /\ mem \in [Procs -> Memory]
    BY DEF Procs, TypeOK, ProcessTypes
  <1> QED BY <1>1 DEF Memory

LEMMA OrgListSpacesStep == ASSUME IInv, OrgListSpaces PROVE IInv'
  <1>1. /\ TypeOK /\ RegistriesGenuine /\ pc[Organizer] = "listSpaces" /\ Organizer \in Procs
        /\ WorkOK
    BY DEF IInv, OrgListSpaces, Procs
  <1>2. PICK o \in {"ok", "fail"} :
          /\ Charge(o)
          /\ \/ /\ \E s \in 1..spaces :
                      space' = Put(space, Organizer, s) /\ SaveWiki([Memo.wiki EXCEPT !.space = s])
                /\ pc' = Put(pc, Organizer, "work")
             \/ /\ pc' = Put(pc, Organizer, "createSpace")
                /\ UNCHANGED <<space, mem, wikiReg>>
    BY DEF OrgListSpaces
  <1>3. /\ input' = input /\ options' = options /\ folder' = folder /\ at' = at /\ doc' = doc
        /\ wikiPub' = wikiPub /\ pub' = pub /\ org' = org /\ applies' = applies
        /\ driveReg' = driveReg /\ overlap' = overlap
        /\ spaces' = spaces /\ nodes' = nodes /\ folders' = folders /\ docs' = docs
    BY DEF OrgListSpaces, records, command, feishu
  <1>4. CommandTypes' /\ FeishuTypes' /\ WorkOK' /\ spaces \in Nat
    BY <1>1, <1>3 DEF TypeOK, CommandTypes, FeishuTypes, WorkOK
  <1>5. CASE /\ \E s \in 1..spaces :
                   space' = Put(space, Organizer, s) /\ SaveWiki([Memo.wiki EXCEPT !.space = s])
             /\ pc' = Put(pc, Organizer, "work")
    <2>1. PICK s \in 1..spaces : /\ space' = Put(space, Organizer, s)
                                 /\ SaveWiki([Memo.wiki EXCEPT !.space = s])
      BY <1>5
    <2> DEFINE w == [Memo.wiki EXCEPT !.space = s]
    <2>2. s \in Nat /\ w \in WikiFile /\ w.nodes = Memo.wiki.nodes
      BY <1>1, <1>4, SameIs, WikiSpace DEF Memo
    <2>3. Genuine(w, nodes)
      BY <1>1, <2>2 DEF RegistriesGenuine, Genuine, Memo
    <2> HIDE DEF w
    <2>4. SaveWiki(w)
      BY <2>1 DEF w
    <2>5. /\ RegistryTypes' /\ wikiReg' = w /\ mem' \in [Procs -> Memory] /\ mem'[Organizer].wiki = w
          /\ \A r \in Runs : mem'[r] = mem[r]
      BY <1>1, <1>3, <2>2, <2>4, SaveWikiIs
    <2>6. /\ ProcessTypes' /\ pc'[Organizer] = "work"
          /\ \A r \in Runs : pc'[r] = pc[r] /\ mem'[r] = mem[r] /\ space'[r] = space[r] /\ doc'[r] = doc[r]
      BY <1>1, <1>3, <1>5, <2>1, <2>2, <2>5, SameIs, StageIs DEF Put, OrganizerStages
    <2>7. CommandOK'
      BY <2>6 DEF CommandOK, OrganizerStages
    <2> QED BY <1>1, <1>2, <1>3, <1>4, <2>3, <2>5, <2>6, <2>7, ChargeIs, NothingNew, NothingKept,
               CommandStepDone DEF TypeOK
  <1>6. CASE pc' = Put(pc, Organizer, "createSpace") /\ UNCHANGED <<space, mem, wikiReg>>
    <2>1. /\ ProcessTypes' /\ pc'[Organizer] = "createSpace"
          /\ \A r \in Runs : pc'[r] = pc[r] /\ mem'[r] = mem[r] /\ space'[r] = space[r] /\ doc'[r] = doc[r]
      BY <1>1, <1>3, <1>6, SameIs, StageIs DEF Put, OrganizerStages
    <2>2. CommandOK'
      BY <2>1 DEF CommandOK, OrganizerStages
    <2>3. RegistryTypes' /\ Genuine(wikiReg', nodes') /\ Genuine(mem'[Organizer].wiki, nodes')
      BY <1>1, <1>3, <1>6 DEF TypeOK, RegistryTypes, RegistriesGenuine
    <2> QED BY <1>1, <1>2, <1>3, <1>4, <2>1, <2>2, <2>3, ChargeIs, NothingNew, NothingKept,
               CommandStepDone DEF TypeOK
  <1> QED BY <1>2, <1>5, <1>6

\* The command ends: nothing is remembered, and no work is left.
LEMMA OrgForgetIs ==
  ASSUME TypeOK, Forget(Organizer), org' = Idle, folder' = folder, at' = at, applies' = applies
  PROVE  /\ ProcessTypes' /\ CommandTypes' /\ WorkOK' /\ CommandOK'
         /\ \A ns : Genuine(mem'[Organizer].wiki, ns)
         /\ \A r \in Runs : pc'[r] = pc[r] /\ mem'[r] = mem[r] /\ space'[r] = space[r] /\ doc'[r] = doc[r]
  <1>1. Organizer \in Procs /\ \A r \in Runs : r \in Procs /\ r # Organizer
    BY PublishingAssumption DEF PublishingAssumption, Procs
  <1>2. ProcessTypes'
    BY <1>1, ForgetIs DEF TypeOK, ProcessTypes
  <1>3. CommandTypes' /\ WorkOK'
    BY EmptySeq DEF TypeOK, CommandTypes, WorkOK, Idle
  <1>4. CommandOK'
    BY <1>1, ForgetIs DEF CommandOK, OrganizerStages
  <1>5. \A ns : Genuine(mem'[Organizer].wiki, ns)
    BY <1>1, ForgetIs, Empty
  <1> QED BY <1>1, <1>2, <1>3, <1>4, <1>5, ForgetIs DEF TypeOK, ProcessTypes

LEMMA OrgCreateSpaceStep == ASSUME IInv, OrgCreateSpace PROVE IInv'
  <1>1. /\ TypeOK /\ RegistriesGenuine /\ pc[Organizer] = "createSpace" /\ Organizer \in Procs
        /\ WorkOK
    BY DEF IInv, OrgCreateSpace, Procs
  <1>2. PICK o \in Outcomes :
          /\ Charge(o)
          /\ spaces' = IF o = "fail" THEN spaces ELSE spaces + 1
          /\ \/ /\ space' = Put(space, Organizer, spaces + 1)
                /\ SaveWiki([Memo.wiki EXCEPT !.space = spaces + 1])
                /\ pc' = Put(pc, Organizer, "work")
                /\ UNCHANGED <<doc, org>>
             \/ /\ Forget(Organizer) /\ org' = Idle
                /\ UNCHANGED wikiReg
    BY DEF OrgCreateSpace
  <1>3. /\ input' = input /\ options' = options /\ folder' = folder /\ at' = at
        /\ wikiPub' = wikiPub /\ pub' = pub /\ applies' = applies
        /\ driveReg' = driveReg /\ overlap' = overlap
        /\ nodes' = nodes /\ folders' = folders /\ docs' = docs
    BY DEF OrgCreateSpace, records
  <1>4. FeishuTypes' /\ spaces + 1 \in Nat
    BY <1>1, <1>2, <1>3 DEF TypeOK, FeishuTypes
  <1>5. CASE /\ space' = Put(space, Organizer, spaces + 1)
             /\ SaveWiki([Memo.wiki EXCEPT !.space = spaces + 1])
             /\ pc' = Put(pc, Organizer, "work")
             /\ UNCHANGED <<doc, org>>
    <2> DEFINE w == [Memo.wiki EXCEPT !.space = spaces + 1]
    <2>1. w \in WikiFile /\ w.nodes = Memo.wiki.nodes
      BY <1>1, <1>4, SameIs, WikiSpace DEF Memo
    <2>2. Genuine(w, nodes)
      BY <1>1, <2>1 DEF RegistriesGenuine, Genuine, Memo
    <2> HIDE DEF w
    <2>3. SaveWiki(w)
      BY <1>5 DEF w
    <2>4. /\ RegistryTypes' /\ wikiReg' = w /\ mem' \in [Procs -> Memory] /\ mem'[Organizer].wiki = w
          /\ \A r \in Runs : mem'[r] = mem[r]
      BY <1>1, <1>3, <2>1, <2>3, SaveWikiIs
    <2>5. /\ ProcessTypes' /\ pc'[Organizer] = "work"
          /\ \A r \in Runs : pc'[r] = pc[r] /\ mem'[r] = mem[r] /\ space'[r] = space[r] /\ doc'[r] = doc[r]
      BY <1>1, <1>3, <1>4, <1>5, <2>4, SameIs, StageIs DEF Put, OrganizerStages
    <2>6. CommandOK' /\ CommandTypes' /\ WorkOK'
      BY <1>1, <1>3, <1>5, <2>5 DEF CommandOK, OrganizerStages, TypeOK, CommandTypes, WorkOK
    <2> QED BY <1>1, <1>2, <1>3, <1>4, <2>2, <2>4, <2>5, <2>6, ChargeIs, NothingNew, NothingKept,
               CommandStepDone DEF TypeOK
  <1>6. CASE Forget(Organizer) /\ org' = Idle /\ UNCHANGED wikiReg
    <2>1. RegistryTypes' /\ Genuine(wikiReg', nodes')
      BY <1>1, <1>3, <1>6 DEF TypeOK, RegistryTypes, RegistriesGenuine
    <2> QED BY <1>1, <1>2, <1>3, <1>4, <1>6, <2>1, OrgForgetIs, ChargeIs, NothingNew, NothingKept,
               CommandStepDone DEF TypeOK
  <1> QED BY <1>2, <1>5, <1>6

LEMMA OrgEndStep == ASSUME IInv, OrgEnd PROVE IInv'
  <1>1. /\ input' = input /\ options' = options /\ folder' = folder /\ at' = at
        /\ wikiPub' = wikiPub /\ pub' = pub /\ applies' = applies /\ faults' = faults
        /\ wikiReg' = wikiReg /\ driveReg' = driveReg /\ overlap' = overlap
        /\ spaces' = spaces /\ nodes' = nodes /\ folders' = folders /\ docs' = docs
        /\ Forget(Organizer) /\ org' = Idle
    BY DEF OrgEnd, records, registries, feishu
  <1>2. TypeOK /\ RegistryTypes' /\ FeishuTypes' /\ Genuine(wikiReg', nodes')
    BY <1>1 DEF IInv, TypeOK, RegistryTypes, FeishuTypes, RegistriesGenuine
  <1> QED BY <1>1, <1>2, OrgForgetIs, NothingNew, NothingKept, CommandStepDone DEF TypeOK

LEMMA OrgNodeStep == ASSUME IInv, OrgNode PROVE IInv'
  <1>1. /\ TypeOK /\ RegistriesGenuine /\ pc[Organizer] = "work" /\ Organizer \in Procs
        /\ org.work # <<>> /\ Task.kind = "node" /\ NextTask
    BY DEF IInv, OrgNode, Doing, Procs
  <1> DEFINE k == Task.key
             parent == IF k[1] = "category" THEN TokenHere(ProjectKey(k[2])) ELSE 0
             new == Append(nodes, NewNode(k, space[Organizer], parent, "organizer"))
             w == [Memo.wiki EXCEPT !.nodes[k] = [token |-> Len(nodes) + 1, space |-> space[Organizer]]]
  <1>2. /\ input' = input /\ options' = options /\ folder' = folder /\ at' = at /\ doc' = doc
        /\ pc' = pc /\ space' = space /\ wikiPub' = wikiPub /\ pub' = pub /\ applies' = applies
        /\ driveReg' = driveReg /\ overlap' = overlap
        /\ spaces' = spaces /\ folders' = folders /\ docs' = docs
    BY DEF OrgNode, records
  <1>3. /\ faults' \in Nat
        /\ \/ nodes' = nodes /\ mem' = mem /\ wikiReg' = wikiReg
           \/ nodes' = new /\ mem' = mem /\ wikiReg' = wikiReg
           \/ nodes' = new /\ SaveWiki(w)
    <2>1. CASE UNCHANGED <<nodes, mem, wikiReg, faults>>
      BY <1>1, <2>1 DEF TypeOK
    <2>2. CASE \E o \in Outcomes :
                 /\ Charge(o)
                 /\ nodes' = IF o = "fail" THEN nodes ELSE new
                 /\ IF o = "ok" THEN SaveWiki(w) ELSE UNCHANGED <<mem, wikiReg>>
      <3>1. PICK o \in Outcomes :
                 /\ Charge(o)
                 /\ nodes' = IF o = "fail" THEN nodes ELSE new
                 /\ IF o = "ok" THEN SaveWiki(w) ELSE UNCHANGED <<mem, wikiReg>>
        BY <2>2
      <3> HIDE DEF new, w
      <3> QED BY <1>1, <3>1, ChargeIs
    <2> QED BY <2>1, <2>2 DEF OrgNode
  <1>4. k \in Keys
    <2>1. Task \in WorkItem
      BY <1>1, TaskIs
    <2> QED BY <1>1, <2>1 DEF WorkItem
  <1>5. parent \in Nat /\ (parent # 0 => parent \in DOMAIN nodes)
    BY <1>4, KeyIs, TokenHereIs
  <1>6. nodes \in Seq(NodeRecord) /\ space[Organizer] \in Nat /\ Memo.wiki \in WikiFile
    BY <1>1, SameIs DEF TypeOK, FeishuTypes, Memo
  <1>7. /\ new \in Seq(NodeRecord) /\ Grows(nodes, new)
        /\ Len(nodes) + 1 \in Nat \ {0} /\ Len(nodes) + 1 \in DOMAIN new
        /\ new[Len(nodes) + 1].key = k
    <2> HIDE DEF parent, k
    <2> QED BY <1>4, <1>5, <1>6, NewNodeIs
  <1> HIDE DEF new, parent
  <1>8. w \in WikiFile /\ Genuine(w, new)
    <2>1. Genuine(Memo.wiki, new)
      BY <1>1, <1>7, GenuineStays DEF RegistriesGenuine, Memo
    <2>2. /\ w \in WikiFile /\ w.nodes[k].token = Len(nodes) + 1
          /\ \A l \in Keys : l # k => w.nodes[l] = Memo.wiki.nodes[l]
      <3> HIDE DEF k
      <3> QED BY <1>4, <1>6, <1>7 DEF WikiFile
    <2> HIDE DEF w, k
    <2> QED BY <1>7, <2>1, <2>2 DEF Genuine
  <1> HIDE DEF w, k
  <1>9. /\ RegistryTypes' /\ mem' \in [Procs -> Memory] /\ \A r \in Runs : mem'[r] = mem[r]
        /\ Genuine(wikiReg', nodes') /\ Genuine(mem'[Organizer].wiki, nodes')
        /\ Grows(nodes, nodes') /\ nodes' \in Seq(NodeRecord)
    <2>1. CASE (nodes' = nodes \/ nodes' = new) /\ mem' = mem /\ wikiReg' = wikiReg
      <3>1. Grows(nodes, nodes') /\ nodes' \in Seq(NodeRecord)
        BY <1>6, <1>7, <2>1, NothingNew
      <3> QED BY <1>1, <1>2, <2>1, <3>1, GenuineStays, SameIs DEF TypeOK, RegistryTypes, RegistriesGenuine
    <2>2. CASE nodes' = new /\ SaveWiki(w)
      BY <1>1, <1>2, <1>7, <1>8, <2>2, SaveWikiIs
    <2> QED BY <1>3, <2>1, <2>2
  <1>10. /\ ProcessTypes' /\ pc'[Organizer] = "work"
         /\ \A r \in Runs : pc'[r] = pc[r] /\ mem'[r] = mem[r] /\ space'[r] = space[r] /\ doc'[r] = doc[r]
    BY <1>1, <1>2, <1>9 DEF TypeOK, ProcessTypes
  <1>11. CommandTypes' /\ WorkOK' /\ CommandOK'
    BY <1>1, <1>2, <1>10, NextTaskIs DEF CommandOK, OrganizerStages
  <1>12. FeishuTypes'
    BY <1>1, <1>2, <1>9 DEF TypeOK, FeishuTypes
  <1> QED BY <1>1, <1>2, <1>3, <1>9, <1>10, <1>11, <1>12, NothingKept, CommandStepDone DEF TypeOK

\* A step that changes the Drive's side at most.
LEMMA DriveStepDone ==
  ASSUME IInv, input' = input, options' = options, folder' = folder, at' = at, doc' = doc,
         pc' = pc, pc[Organizer] = "work", space' = space, wikiPub' = wikiPub, pub' = pub,
         applies' = applies, wikiReg' = wikiReg, overlap' = overlap, faults' \in Nat,
         spaces' = spaces, nodes' = nodes, docs' = docs, folders' \in Seq(Projects),
         org.work # <<>>, NextTask, NEW drive \in DriveFile,
         \/ mem' = mem /\ driveReg' = driveReg
         \/ SaveDrive(drive)
  PROVE  IInv'
  <1>1. /\ TypeOK /\ RegistriesGenuine /\ Organizer \in Procs
        /\ \A r \in Runs : r \in Procs /\ r # Organizer
    BY PublishingAssumption DEF PublishingAssumption, IInv, Procs
  <1>2. /\ mem' \in [Procs -> Memory] /\ \A r \in Runs : mem'[r] = mem[r]
        /\ mem'[Organizer].wiki = mem[Organizer].wiki /\ driveReg' \in DriveFile
    <2>1. CASE mem' = mem /\ driveReg' = driveReg
      BY <1>1, <2>1 DEF TypeOK, ProcessTypes, RegistryTypes
    <2>2. CASE SaveDrive(drive)
      <3>1. mem' = [mem EXCEPT ![Organizer].drive = drive] /\ driveReg' = drive
        BY <2>2 DEF SaveDrive
      <3>2. mem \in [Procs -> Memory]
        BY <1>1, SameIs
      <3>3. /\ mem' \in [Procs -> Memory] /\ \A q \in Procs : mem'[q].wiki = mem[q].wiki
            /\ \A q \in Procs : q # Organizer => mem'[q] = mem[q]
        BY <1>1, <3>1, <3>2, MemDrive
      <3> QED BY <1>1, <3>1, <3>3
    <2> QED BY <2>1, <2>2
  <1>3. /\ ProcessTypes' /\ pc'[Organizer] = "work"
        /\ \A r \in Runs : pc'[r] = pc[r] /\ mem'[r] = mem[r] /\ space'[r] = space[r] /\ doc'[r] = doc[r]
    BY <1>1, <1>2 DEF TypeOK, ProcessTypes
  <1>4. RegistryTypes' /\ FeishuTypes'
    BY <1>1, <1>2 DEF TypeOK, RegistryTypes, FeishuTypes
  <1>5. Genuine(wikiReg', nodes') /\ Genuine(mem'[Organizer].wiki, nodes')
    BY <1>1, <1>2 DEF RegistriesGenuine
  <1>6. CommandTypes' /\ WorkOK' /\ CommandOK'
    BY <1>3, NextTaskIs DEF CommandOK, OrganizerStages
  <1> QED BY <1>1, <1>3, <1>4, <1>5, <1>6, NothingNew, NothingKept, CommandStepDone DEF TypeOK

LEMMA OrgFolderStep == ASSUME IInv, OrgFolder PROVE IInv'
  <1>1. /\ TypeOK /\ pc[Organizer] = "work" /\ org.work # <<>> /\ Task.kind = "folder" /\ NextTask
    BY DEF IInv, OrgFolder, Doing
  <1>2. /\ input' = input /\ options' = options /\ folder' = folder /\ at' = at /\ doc' = doc
        /\ pc' = pc /\ space' = space /\ wikiPub' = wikiPub /\ pub' = pub /\ applies' = applies
        /\ wikiReg' = wikiReg /\ overlap' = overlap
        /\ spaces' = spaces /\ nodes' = nodes /\ docs' = docs
    BY DEF OrgFolder, records
  <1> DEFINE drive == [Memo.drive EXCEPT ![Task.project] = Len(folders) + 1]
  <1>3. /\ faults' \in Nat
        /\ folders' = folders \/ folders' = Append(folders, Task.project)
        /\ SaveDrive(drive) \/ (mem' = mem /\ driveReg' = driveReg)
    <2>1. CASE UNCHANGED <<folders, mem, driveReg, faults>>
      BY <1>1, <2>1 DEF TypeOK
    <2>2. CASE \E o \in Outcomes :
                 /\ Charge(o)
                 /\ folders' = IF o = "fail" THEN folders ELSE Append(folders, Task.project)
                 /\ IF o = "ok" THEN SaveDrive(drive) ELSE UNCHANGED <<mem, driveReg>>
      <3>1. PICK o \in Outcomes :
                 /\ Charge(o)
                 /\ folders' = IF o = "fail" THEN folders ELSE Append(folders, Task.project)
                 /\ IF o = "ok" THEN SaveDrive(drive) ELSE UNCHANGED <<mem, driveReg>>
        BY <2>2
      <3> HIDE DEF drive
      <3> QED BY <1>1, <3>1, ChargeIs
    <2> QED BY <2>1, <2>2 DEF OrgFolder
  <1>4. folders \in Seq(Projects) /\ Memo.drive \in DriveFile /\ Task.project \in Projects
    <2>1. Task \in WorkItem
      BY <1>1, TaskIs
    <2> QED BY <1>1, <2>1, SameIs DEF TypeOK, FeishuTypes, WorkItem, Memo
  <1>5. folders' \in Seq(Projects)
    BY <1>3, <1>4, AppendProperties
  <1>6. drive \in DriveFile
    BY <1>4 DEF DriveFile
  <1> HIDE DEF drive
  <1> QED BY <1>1, <1>2, <1>3, <1>5, <1>6, DriveStepDone

LEMMA OrgMapStep == ASSUME IInv, OrgMap PROVE IInv'
  <1>1. TypeOK /\ pc[Organizer] = "work" /\ org.work # <<>> /\ NextTask
    BY DEF IInv, OrgMap, Doing
  <1>2. /\ input' = input /\ options' = options /\ folder' = folder /\ at' = at /\ doc' = doc
        /\ pc' = pc /\ space' = space /\ wikiPub' = wikiPub /\ pub' = pub /\ applies' = applies
        /\ wikiReg' = wikiReg /\ overlap' = overlap /\ faults' = faults
        /\ spaces' = spaces /\ nodes' = nodes /\ folders' = folders /\ docs' = docs
    BY DEF OrgMap, records, feishu
  <1>3. SaveDrive(Memo.drive) \/ (mem' = mem /\ driveReg' = driveReg)
    BY DEF OrgMap
  <1>4. Memo.drive \in DriveFile /\ faults' \in Nat /\ folders' \in Seq(Projects)
    BY <1>1, <1>2, SameIs DEF Memo, TypeOK, FeishuTypes
  <1> QED BY <1>1, <1>2, <1>3, <1>4, DriveStepDone

LEMMA OrgSkipDocStep == ASSUME IInv, OrgSkipDoc PROVE IInv'
  <1>1. TypeOK /\ pc[Organizer] = "work" /\ org.work # <<>> /\ NextTask
    BY DEF IInv, OrgSkipDoc, Doing
  <1>2. /\ input' = input /\ options' = options /\ folder' = folder /\ at' = at /\ doc' = doc
        /\ pc' = pc /\ space' = space /\ mem' = mem /\ wikiPub' = wikiPub /\ pub' = pub
        /\ applies' = applies /\ wikiReg' = wikiReg /\ driveReg' = driveReg
        /\ overlap' = overlap /\ faults' = faults
        /\ spaces' = spaces /\ nodes' = nodes /\ folders' = folders /\ docs' = docs
    BY DEF OrgSkipDoc, memory, records, registries, feishu
  <1>3. Memo.drive \in DriveFile /\ faults' \in Nat /\ folders' \in Seq(Projects)
    BY <1>1, <1>2, SameIs DEF Memo, TypeOK, FeishuTypes
  <1> QED BY <1>1, <1>2, <1>3, DriveStepDone

\* A task of the command that is a document: its document, and the node of
\* its project and type.
LEMMA DocTaskIs ==
  ASSUME IInv, org.work # <<>>, Task.kind = "doc"
  PROVE  LET r == Task.run
             k == CategoryKey(input[r].project, input[r].docs[Task.n])
         IN /\ r \in Runs /\ TaskType \in Types /\ pub[r].docs[Task.n].i \in Nat
            /\ TaskParent \in Nat /\ TaskToken \in Nat
            /\ TaskParent # 0 => TaskParent \in DOMAIN nodes /\ nodes[TaskParent].key = k
            /\ TaskToken # 0 => TaskToken \in DOMAIN docs /\ docs[TaskToken].run = r
            /\ TaskToken # 0 /\ docs[TaskToken].by = "handler" => docs[TaskToken].i = Task.n
  <1> DEFINE r == Task.run
             n == Task.n
             k == CategoryKey(input[r].project, input[r].docs[n])
  <1>1. /\ r \in Runs /\ pub[r].docs[n] \in Entry /\ TaskType \in Types
        /\ EntryOK(input[r], r, n, pub[r].docs[n], docs, nodes)
        /\ TaskType = input[r].docs[n] /\ k \in Keys
    BY TaskIs
  <1>2. TaskParent = TokenHere(k)
    BY <1>1 DEF TaskParent
  <1>3. TaskParent \in Nat /\ (TaskParent # 0 => TaskParent \in DOMAIN nodes /\ nodes[TaskParent].key = k)
    <2> HIDE DEF k
    <2> QED BY <1>1, <1>2, TokenHereIs
  <1> QED BY <1>1, <1>3 DEF TaskToken, EntryOK, Entry, Placed

LEMMA OrgRecreateStep == ASSUME IInv, OrgRecreate PROVE IInv'
  <1>1. /\ TypeOK /\ RegistriesGenuine /\ WorkOK /\ pc[Organizer] = "work" /\ Organizer \in Procs
        /\ org.work # <<>> /\ Task.kind = "doc" /\ TaskParent # 0
    BY DEF IInv, OrgRecreate, Doing, Procs
  <1> DEFINE new == NewDoc(Task.run, pub[Task.run].docs[Task.n].i, "loose", 0, "organizer")
             more == Append(docs, new)
  <1>2. PICK o \in Outcomes :
          /\ Charge(o)
          /\ docs' = IF o = "fail" THEN docs ELSE more
          /\ \/ /\ o = "ok"
                /\ doc' = Put(doc, Organizer, Len(docs) + 1)
                /\ pc' = Put(pc, Organizer, "recreateMove")
                /\ UNCHANGED org
             \/ /\ NextTask
                /\ UNCHANGED <<doc, pc>>
    BY DEF OrgRecreate
  <1>3. /\ input' = input /\ options' = options /\ folder' = folder /\ at' = at
        /\ space' = space /\ mem' = mem /\ wikiPub' = wikiPub /\ pub' = pub
        /\ applies' = applies /\ wikiReg' = wikiReg /\ driveReg' = driveReg /\ overlap' = overlap
        /\ spaces' = spaces /\ nodes' = nodes /\ folders' = folders
    BY DEF OrgRecreate, records, registries
  <1>4. docs \in Seq(DocRecord)
    BY <1>1 DEF TypeOK, FeishuTypes
  <1>5. new \in DocRecord /\ new.by = "organizer" /\ new.run \in Runs
    BY <1>1, DocTaskIs DEF NewDoc, DocRecord
  <1> HIDE DEF new
  <1>6. /\ more \in Seq(DocRecord) /\ Len(more) = Len(docs) + 1
        /\ \A d \in 1..Len(docs) : more[d] = docs[d]
        /\ more[Len(docs) + 1] = new
    BY <1>4, <1>5, AppendProperties
  <1>7. /\ DOMAIN docs = 1..Len(docs) /\ Len(docs) \in Nat /\ DOMAIN more = 1..(Len(docs) + 1)
        /\ Len(docs) + 1 \in DOMAIN more
    BY <1>4, <1>6
  <1> HIDE DEF more
  <1>8. DocumentsKept /\ docs' \in Seq(DocRecord)
    <2>1. CASE docs' = docs
      BY <1>4, <2>1, NothingKept
    <2>2. CASE docs' = more
      <3>1. \A d \in DOMAIN docs : d \in DOMAIN more /\ more[d] = docs[d]
        BY <1>6, <1>7
      <3>2. \A d \in DOMAIN more : d \in DOMAIN docs \/ d = Len(docs) + 1
        BY <1>7
      <3>3. \A d \in DOMAIN more : d \notin DOMAIN docs => more[d] = new
        BY <1>6, <3>2
      <3> QED BY <1>5, <1>6, <2>2, <3>1, <3>3 DEF DocumentsKept
    <2> QED BY <1>2, <2>1, <2>2
  <1>9. FeishuTypes' /\ RegistryTypes' /\ Genuine(wikiReg', nodes') /\ Genuine(mem'[Organizer].wiki, nodes')
    BY <1>1, <1>3, <1>8 DEF TypeOK, FeishuTypes, RegistryTypes, RegistriesGenuine
  <1>10. mem' \in [Procs -> Memory] /\ \A r \in Runs : mem'[r] = mem[r]
    BY <1>1, <1>3, SameIs
  <1>11. CASE /\ o = "ok"
              /\ doc' = Put(doc, Organizer, Len(docs) + 1)
              /\ pc' = Put(pc, Organizer, "recreateMove")
              /\ UNCHANGED org
    <2>1. /\ ProcessTypes' /\ pc'[Organizer] = "recreateMove" /\ doc'[Organizer] = Len(docs) + 1
          /\ space'[Organizer] = space[Organizer]
          /\ \A r \in Runs : pc'[r] = pc[r] /\ mem'[r] = mem[r] /\ space'[r] = space[r] /\ doc'[r] = doc[r]
      <3>1. /\ doc' = [doc EXCEPT ![Organizer] = Len(docs) + 1]
            /\ pc' = [pc EXCEPT ![Organizer] = "recreateMove"]
            /\ space' = [space EXCEPT ![Organizer] = space[Organizer]]
            /\ Len(docs) + 1 \in Nat /\ space[Organizer] \in Nat
            /\ "recreateMove" \in OrganizerStages
        BY <1>1, <1>3, <1>7, <1>11, SameIs DEF Put, OrganizerStages
      <3> QED BY <1>1, <1>3, <1>10, <3>1, StageIs
    <2>2. CommandTypes' /\ WorkOK'
      BY <1>1, <1>3, <1>11 DEF TypeOK, CommandTypes, WorkOK
    <2>3. docs' = more
      BY <1>2, <1>11
    <2>4. Task' = Task /\ TaskParent' = TaskParent
      BY <1>3, <1>11 DEF Task, TaskParent, TaskType, TypeAt, TokenHere, Memo
    <2>5. CommandOK'
      BY <1>1, <1>5, <1>6, <1>7, <1>11, <2>1, <2>3, <2>4 DEF CommandOK, OrganizerStages
    <2> QED BY <1>1, <1>2, <1>3, <1>8, <1>9, <2>1, <2>2, <2>5, ChargeIs, NothingNew, CommandStepDone
            DEF TypeOK
  <1>12. CASE NextTask /\ UNCHANGED <<doc, pc>>
    <2>1. /\ ProcessTypes' /\ pc'[Organizer] = "work"
          /\ \A r \in Runs : pc'[r] = pc[r] /\ mem'[r] = mem[r] /\ space'[r] = space[r] /\ doc'[r] = doc[r]
      BY <1>1, <1>3, <1>12 DEF TypeOK, ProcessTypes
    <2>2. CommandTypes' /\ WorkOK' /\ CommandOK'
      BY <1>1, <1>3, <1>12, <2>1, NextTaskIs DEF CommandOK, OrganizerStages
    <2> QED BY <1>1, <1>2, <1>3, <1>8, <1>9, <2>1, <2>2, ChargeIs, NothingNew, CommandStepDone
            DEF TypeOK
  <1> QED BY <1>2, <1>11, <1>12

\* A note of the task's document in the registry.
LEMMA NoteDocIs ==
  ASSUME IInv, org.work # <<>>, Task.kind = "doc", NEW s \in Nat, NoteDoc(s), driveReg' = driveReg
  PROVE  /\ RegistryTypes' /\ mem' \in [Procs -> Memory] /\ \A r \in Runs : mem'[r] = mem[r]
         /\ Genuine(wikiReg', nodes) /\ Genuine(mem'[Organizer].wiki, nodes)
  <1> DEFINE w == [Memo.wiki EXCEPT !.docs = @ \cup {[run |-> Task.run, type |-> TaskType, space |-> s]}]
  <1>1. TypeOK /\ Organizer \in Procs /\ Task.run \in Runs /\ TaskType \in Types
    BY DocTaskIs DEF IInv, Procs
  <1>2. Memo.wiki \in WikiFile /\ Genuine(Memo.wiki, nodes)
    BY <1>1, SameIs DEF Memo, IInv, RegistriesGenuine
  <1>3. w \in WikiFile /\ w.nodes = Memo.wiki.nodes
    BY <1>1, <1>2 DEF WikiFile
  <1>4. SaveWiki(w)
    BY DEF NoteDoc
  <1> HIDE DEF w
  <1>5. Genuine(w, nodes)
    BY <1>2, <1>3 DEF Genuine
  <1> QED BY <1>1, <1>3, <1>4, <1>5, SaveWikiIs

\* What every move of the command has left to show.
LEMMA MoveStepDone ==
  ASSUME IInv, input' = input, options' = options, folder' = folder, at' = at, space' = space,
         wikiPub' = wikiPub, pub' = pub, applies' = applies, driveReg' = driveReg,
         overlap' = overlap, spaces' = spaces, nodes' = nodes, folders' = folders,
         faults' \in Nat, org.work # <<>>, Task.kind = "doc",
         docs' \in Seq(DocRecord), DocumentsKept,
         NEW s \in Nat, NoteDoc(s) \/ UNCHANGED <<mem, wikiReg>>,
         NEW stage \in {"work", "moveFile"}, pc' = Put(pc, Organizer, stage),
         NEW d \in Nat, doc' = Put(doc, Organizer, d),
         \/ stage = "work" /\ NextTask
         \/ /\ UNCHANGED <<org, mem, wikiReg>> /\ TaskParent # 0 /\ TaskToken # 0
  PROVE  IInv'
  <1>1. TypeOK /\ RegistriesGenuine /\ WorkOK /\ Organizer \in Procs
    BY DEF IInv, Procs
  <1>2. /\ RegistryTypes' /\ mem' \in [Procs -> Memory] /\ \A r \in Runs : mem'[r] = mem[r]
        /\ Genuine(wikiReg', nodes') /\ Genuine(mem'[Organizer].wiki, nodes')
    <2>1. CASE NoteDoc(s)
      BY <2>1, NoteDocIs
    <2>2. CASE UNCHANGED <<mem, wikiReg>>
      BY <1>1, <2>2, SameIs DEF TypeOK, RegistryTypes, RegistriesGenuine
    <2> QED BY <2>1, <2>2
  <1>3. /\ ProcessTypes' /\ pc'[Organizer] = stage /\ space'[Organizer] = space[Organizer]
        /\ \A r \in Runs : pc'[r] = pc[r] /\ mem'[r] = mem[r] /\ space'[r] = space[r] /\ doc'[r] = doc[r]
    BY <1>1, <1>2, SameIs, StageIs DEF Put, OrganizerStages
  <1>4. CommandTypes' /\ WorkOK' /\ CommandOK'
    <2>1. CASE stage = "work" /\ NextTask
      BY <1>3, <2>1, NextTaskIs DEF CommandOK, OrganizerStages
    <2>2. CASE UNCHANGED <<org, mem, wikiReg>> /\ TaskParent # 0 /\ TaskToken # 0
      <3>1. CommandTypes' /\ WorkOK'
        BY <1>1, <2>2 DEF TypeOK, CommandTypes, WorkOK
      <3>2. Task' = Task /\ TaskParent' = TaskParent /\ TaskToken' = TaskToken
        BY <2>2 DEF Task, TaskParent, TaskType, TypeAt, TokenHere, Memo, TaskToken
      <3> QED BY <1>3, <2>2, <3>1, <3>2 DEF CommandOK, OrganizerStages
    <2> QED BY <2>1, <2>2
  <1>5. FeishuTypes'
    BY <1>1 DEF TypeOK, FeishuTypes
  <1> QED BY <1>1, <1>2, <1>3, <1>4, <1>5, NothingNew, CommandStepDone DEF TypeOK

LEMMA OrgRecreateMoveStep == ASSUME IInv, OrgRecreateMove PROVE IInv'
  <1>1. /\ TypeOK /\ org.work # <<>> /\ Task.kind = "doc" /\ NextTask /\ Organizer \in Procs
        /\ doc[Organizer] \in DOMAIN docs /\ docs[doc[Organizer]].by = "organizer"
    BY DEF IInv, CommandOK, OrgRecreateMove, Procs
  <1>2. PICK o \in Outcomes :
          /\ Charge(o)
          /\ docs' = IF o = "fail" THEN docs ELSE MoveTo(doc[Organizer], TaskParent)
          /\ NoteDoc(space[Organizer]) \/ UNCHANGED <<mem, wikiReg>>
    BY DEF OrgRecreateMove
  <1>3. /\ input' = input /\ options' = options /\ folder' = folder /\ at' = at
        /\ space' = space /\ wikiPub' = wikiPub /\ pub' = pub
        /\ applies' = applies /\ driveReg' = driveReg /\ overlap' = overlap
        /\ spaces' = spaces /\ nodes' = nodes /\ folders' = folders
        /\ pc' = Put(pc, Organizer, "work") /\ doc' = Put(doc, Organizer, 0)
    BY DEF OrgRecreateMove, records
  <1>4. docs \in Seq(DocRecord) /\ TaskParent \in Nat /\ space[Organizer] \in Nat
    BY <1>1, DocTaskIs, SameIs DEF TypeOK, FeishuTypes
  <1>5. DocumentsKept /\ docs' \in Seq(DocRecord)
    <2>1. CASE docs' = docs
      BY <1>4, <2>1, NothingKept
    <2>2. CASE docs' = MoveTo(doc[Organizer], TaskParent)
      <3>1. /\ docs' \in Seq(DocRecord) /\ DOMAIN docs' = DOMAIN docs
            /\ \A k \in DOMAIN docs : k # doc[Organizer] => docs'[k] = docs[k]
            /\ docs'[doc[Organizer]].run = docs[doc[Organizer]].run
            /\ docs'[doc[Organizer]].i = docs[doc[Organizer]].i
            /\ docs'[doc[Organizer]].by = docs[doc[Organizer]].by
        <4> DEFINE d == doc[Organizer]
                   ds == MoveTo(d, TaskParent)
        <4>1. /\ ds \in Seq(DocRecord) /\ DOMAIN ds = DOMAIN docs
              /\ \A k \in DOMAIN docs : k # d => ds[k] = docs[k]
              /\ ds[d] = [run |-> docs[d].run, i |-> docs[d].i, place |-> "wiki",
                          node |-> TaskParent, by |-> docs[d].by]
          BY <1>1, <1>4, MoveToIs
        <4> HIDE DEF ds
        <4>2. docs' = ds
          BY <2>2 DEF ds
        <4> QED BY <4>1, <4>2
      <3> QED BY <1>1, <3>1 DEF DocumentsKept
    <2> QED BY <1>2, <2>1, <2>2
  <1> QED BY <1>1, <1>2, <1>3, <1>4, <1>5, ChargeIs, MoveStepDone

LEMMA OrgMoveStep == ASSUME IInv, OrgMove PROVE IInv'
  <1>1. /\ TypeOK /\ org.work # <<>> /\ Task.kind = "doc" /\ TaskParent # 0 /\ TaskToken # 0
        /\ Organizer \in Procs
    <2>1. CASE Doing("doc") /\ TaskParent # 0 /\ TaskToken # 0
      BY <2>1 DEF IInv, Doing, Procs
    <2>2. CASE pc[Organizer] = "moveFile"
      BY <2>2 DEF IInv, CommandOK, Procs
    <2> QED BY <2>1, <2>2 DEF OrgMove
  <1>2. PICK o \in Outcomes :
          /\ Charge(o)
          /\ docs' = IF o = "fail" THEN docs ELSE MoveTo(TaskToken, TaskParent)
          /\ \/ NoteDoc(0) /\ NextTask /\ pc' = Put(pc, Organizer, "work")
             \/ pc' = Put(pc, Organizer, "moveFile") /\ UNCHANGED <<org, mem, wikiReg>>
             \/ NextTask /\ pc' = Put(pc, Organizer, "work") /\ UNCHANGED <<mem, wikiReg>>
    BY DEF OrgMove
  <1>3. /\ input' = input /\ options' = options /\ folder' = folder /\ at' = at /\ doc' = doc
        /\ space' = space /\ wikiPub' = wikiPub /\ pub' = pub
        /\ applies' = applies /\ driveReg' = driveReg /\ overlap' = overlap
        /\ spaces' = spaces /\ nodes' = nodes /\ folders' = folders
    BY DEF OrgMove, records
  <1>4. docs \in Seq(DocRecord) /\ TaskParent \in Nat /\ doc[Organizer] \in Nat
        /\ doc' = Put(doc, Organizer, doc[Organizer])
    BY <1>1, <1>3, DocTaskIs, SameIs DEF TypeOK, FeishuTypes, Put
  <1>5. DocumentsKept /\ docs' \in Seq(DocRecord)
    <2>1. CASE docs' = docs
      BY <1>4, <2>1, NothingKept
    <2>2. CASE docs' = MoveTo(TaskToken, TaskParent)
      <3> DEFINE d == TaskToken
                 x == input[Task.run]
      <3>1. /\ d \in DOMAIN docs /\ docs[d].run = Task.run
            /\ TaskParent \in DOMAIN nodes
            /\ nodes[TaskParent].key = CategoryKey(x.project, x.docs[Task.n])
            /\ docs[d].by = "handler" => docs[d].i = Task.n
        BY <1>1, DocTaskIs
      <3>2. /\ docs' \in Seq(DocRecord) /\ DOMAIN docs' = DOMAIN docs
            /\ \A k \in DOMAIN docs : k # d => docs'[k] = docs[k]
            /\ docs'[d].run = docs[d].run /\ docs'[d].i = docs[d].i /\ docs'[d].by = docs[d].by
            /\ docs'[d].place = "wiki" /\ docs'[d].node = TaskParent
        <4> DEFINE ds == MoveTo(d, TaskParent)
        <4>1. /\ ds \in Seq(DocRecord) /\ DOMAIN ds = DOMAIN docs
              /\ \A k \in DOMAIN docs : k # d => ds[k] = docs[k]
              /\ ds[d] = [run |-> docs[d].run, i |-> docs[d].i, place |-> "wiki",
                          node |-> TaskParent, by |-> docs[d].by]
          BY <1>4, <3>1, MoveToIs
        <4> HIDE DEF ds
        <4>2. docs' = ds
          BY <2>2 DEF ds
        <4> QED BY <4>1, <4>2
      <3> HIDE DEF d
      <3> QED BY <1>3, <3>1, <3>2 DEF DocumentsKept
    <2> QED BY <1>2, <2>1, <2>2
  <1>6. CASE (NoteDoc(0) \/ UNCHANGED <<mem, wikiReg>>) /\ NextTask /\ pc' = Put(pc, Organizer, "work")
    BY <1>1, <1>2, <1>3, <1>4, <1>5, <1>6, ChargeIs, MoveStepDone
  <1>7. CASE pc' = Put(pc, Organizer, "moveFile") /\ UNCHANGED <<org, mem, wikiReg>>
    BY <1>1, <1>2, <1>3, <1>4, <1>5, <1>7, ChargeIs, MoveStepDone
  <1> QED BY <1>2, <1>6, <1>7

-----------------------------------------------------------------------------
(* The invariant. *)

LEMMA StutterStep == ASSUME IInv, UNCHANGED vars PROVE IInv'
  <1>1. /\ input' = input /\ options' = options /\ pc' = pc /\ mem' = mem /\ space' = space
        /\ folder' = folder /\ at' = at /\ doc' = doc /\ wikiPub' = wikiPub /\ pub' = pub
        /\ org' = org /\ applies' = applies /\ wikiReg' = wikiReg /\ driveReg' = driveReg
        /\ spaces' = spaces /\ nodes' = nodes /\ folders' = folders /\ docs' = docs
        /\ faults' = faults /\ overlap' = overlap
    BY DEF vars, memory, records, command, registries, feishu
  <1>2. TypeOK /\ RegistriesGenuine /\ WorkOK /\ CommandOK /\ Organizer \in Procs
    BY DEF IInv, Procs
  <1>3. ProcessTypes' /\ CommandTypes' /\ RegistryTypes' /\ FeishuTypes'
    BY <1>1, <1>2 DEF TypeOK, ProcessTypes, CommandTypes, RegistryTypes, FeishuTypes
  <1>4. \A s \in Runs : pub[s].status # "none" => pub'[s] = pub[s]
    BY <1>1
  <1>5. WorkOK' /\ CommandOK'
    BY <1>1, <1>4, CommandStays
  <1>6. Genuine(wikiReg', nodes') /\ Genuine(mem'[Organizer].wiki, nodes')
    BY <1>1, <1>2 DEF RegistriesGenuine
  <1> QED BY <1>1, <1>2, <1>3, <1>5, <1>6, NothingNew, NothingKept, CommandStepDone DEF TypeOK

\* Every step of every run, and of the command, preserves the invariant.
THEOREM InvariantStep == ASSUME IInv, [Next]_vars PROVE IInv'
  <1>1. ASSUME NEW r \in Runs, RunStep(r) PROVE IInv'
    BY <1>1, BeginStep, ListSpacesStep, CreateSpaceStep, CheckSpaceStep, CreateNodeStep,
       CreateWikiDocStep, MoveWikiDocStep, CreateFolderStep, WriteDriveDocStep DEF RunStep
  <1>2. CASE OrgStart
    BY <1>2, OrgStartStep
  <1>3. CASE OrgStep
    BY <1>3, OrgListSpacesStep, OrgCreateSpaceStep, OrgNodeStep, OrgFolderStep, OrgMapStep,
       OrgSkipDocStep, OrgRecreateStep, OrgRecreateMoveStep, OrgMoveStep, OrgEndStep DEF OrgStep
  <1>4. CASE UNCHANGED vars
    BY <1>4, StutterStep
  <1> QED BY <1>1, <1>2, <1>3, <1>4 DEF Next

THEOREM Invariant == Spec => []IInv
  <1>1. Init => IInv
    BY InitIInv
  <1>2. IInv /\ [Next]_vars => IInv'
    BY InvariantStep
  <1> QED BY <1>1, <1>2, PTL DEF Spec

\* State, results, registries and Feishu keep their types.
THEOREM TypeCorrect == Spec => []TypeOK
  <1>1. IInv => TypeOK
    BY DEF IInv
  <1> QED BY <1>1, Invariant, PTL

\* The invariant says of a published result what PublishedIsPlaced asks.
LEMMA InvPublished == ASSUME IInv PROVE PublishedIsPlaced
  <1> SUFFICES ASSUME NEW r \in Runs, pub[r].status = "published"
               PROVE  /\ Len(pub[r].docs) = Len(input[r].docs)
                      /\ \A n \in DOMAIN pub[r].docs :
                            LET d == docs[pub[r].docs[n].token]
                            IN /\ pub[r].docs[n].i = n /\ pub[r].docs[n].token # 0
                               /\ d.run = r
                               /\ IF Overwrites(input[r]) THEN d.i = Len(input[r].docs)
                                  ELSE /\ d.i = n /\ d.place # "loose"
                                       /\ d.place = "wiki" => nodes[d.node].key =
                                             CategoryKey(input[r].project, input[r].docs[n])
    BY DEF PublishedIsPlaced
  <1> DEFINE list == pub[r].docs
             Rec(n) == docs[list[n].token]
             last == Len(list)
  <1>1. ResultOK(r) /\ FilesOK /\ list \in Seq(Entry)
    BY DEF IInv, TypeOK, ResultTypes, PubFile
  <1>2. Len(list) = Len(input[r].docs) /\ AllWell(list)
    BY <1>1 DEF ResultOK
  <1>3. ASSUME NEW n \in DOMAIN list
        PROVE  /\ list[n].i = n /\ list[n].token # 0 /\ list[n].token \in DOMAIN docs
               /\ Rec(n).run = r /\ Placed(input[r], Rec(n), n, nodes)
    <2>1. EntryOK(input[r], r, n, list[n], docs, nodes) /\ list[n].status # "failed"
      BY <1>1, <1>2 DEF ResultOK, ListOK, AllWell
    <2> QED BY <2>1 DEF EntryOK
  <1>4. ASSUME NEW n \in DOMAIN list, Overwrites(input[r])
        PROVE  Rec(n).i = Len(input[r].docs)
    <2>1. last \in DOMAIN list /\ last # 0 /\ list[last].status # "failed"
      <3>1. last \in DOMAIN list /\ last # 0
        BY <1>1
      <3> QED BY <1>2, <3>1 DEF AllWell
    <2>2. FileNamed(r, list[n].token) /\ FileNamed(r, list[last].token)
      BY <1>3, <1>4, <2>1 DEF Placed, FileNamed
    <2>3. list[n].token = list[last].token
      BY <1>1, <1>3, <2>1, <2>2 DEF FilesOK
    <2>4. Rec(last).i = last
      BY <1>1, <1>4, <2>1 DEF ResultOK
    <2> QED BY <1>2, <2>3, <2>4
  <1>5. ASSUME NEW n \in DOMAIN list, ~Overwrites(input[r])
        PROVE  /\ Rec(n).i = n /\ Rec(n).place # "loose"
               /\ Rec(n).place = "wiki" => nodes[Rec(n).node].key =
                     CategoryKey(input[r].project, input[r].docs[n])
    BY <1>3, <1>5 DEF Placed
  <1> QED BY <1>2, <1>3, <1>4, <1>5

\* What publish.json calls published is where it says.
THEOREM PublishedPlaced == Spec => []PublishedIsPlaced
  <1>1. IInv => PublishedIsPlaced
    BY InvPublished
  <1> QED BY <1>1, Invariant, PTL

-----------------------------------------------------------------------------
(* Publishing implements GatedPublishing. *)

Wanted(r) == DOMAIN input[r].docs

\* Only documents of a run's own output become visible in its name.
LEMMA VisibleIsWanted ==
  ASSUME IInv, NEW r \in Runs
  PROVE  Visible(r) \subseteq Wanted(r)
  <1>1. ASSUME NEW d \in HandlerDocs(r), docs[d].i # 0
        PROVE  docs[d].i \in DOMAIN input[r].docs
    <2>1. docs \in Seq(DocRecord) /\ d \in DOMAIN docs /\ DocumentOK(d)
          /\ docs[d].run = r /\ docs[d].by # "organizer"
      BY DEF IInv, TypeOK, FeishuTypes, HandlerDocs
    <2>2. docs[d].by \in {"user", "handler", "organizer"}
      <3>1. docs[d] \in DocRecord
        BY <2>1
      <3> QED BY <3>1 DEF DocRecord
    <2> QED BY <1>1, <2>1, <2>2 DEF DocumentOK
  <1> QED BY <1>1 DEF Visible, Wanted

\* An overwriting run shows one document at a time.
LEMMA OneVisible ==
  ASSUME IInv, NEW r \in Runs, Overwrites(input[r]), NEW i \in Visible(r), NEW j \in Visible(r)
  PROVE  i = j
  <1>1. ASSUME NEW d \in HandlerDocs(r) PROVE FileNamed(r, d) /\ d \in DOMAIN docs
    <2>1. docs \in Seq(DocRecord) /\ d \in DOMAIN docs /\ DocumentOK(d)
          /\ docs[d].run = r /\ docs[d].by # "organizer"
      BY DEF IInv, TypeOK, FeishuTypes, HandlerDocs
    <2>2. docs[d].by \in {"user", "handler", "organizer"}
      <3>1. docs[d] \in DocRecord
        BY <2>1
      <3> QED BY <3>1 DEF DocRecord
    <2> QED BY <2>1, <2>2 DEF DocumentOK, FileNamed
  <1>2. \A d, e \in HandlerDocs(r) : d = e
    BY <1>1 DEF IInv, FilesOK
  <1> QED BY <1>2 DEF Visible

\* What is noted as written is in the output.
LEMMA ReportedIsWanted ==
  ASSUME IInv, NEW r \in Runs
  PROVE  Reported(r) \subseteq Wanted(r)
  <1>1. ResultOK(r)
    BY DEF IInv
  <1> QED BY <1>1 DEF Reported, Wanted, ResultOK, ListOK, EntryOK

\* What is noted as written is there, unless it lies under a later document.
LEMMA ReportedIsVisible ==
  ASSUME IInv, NEW r \in Runs, ~Overwrites(input[r])
  PROVE  Reported(r) \subseteq Visible(r)
  <1> DEFINE list == pub[r].docs
  <1>1. ResultOK(r) /\ list \in Seq(Entry)
    BY DEF IInv, TypeOK, ResultTypes, PubFile
  <1>2. ASSUME NEW n \in DOMAIN list, list[n].status # "failed" PROVE list[n].i \in Visible(r)
    <2>1. EntryOK(input[r], r, n, list[n], docs, nodes)
      BY <1>1 DEF ResultOK, ListOK
    <2>2. /\ list[n].i = n /\ list[n].token \in HandlerDocs(r)
          /\ Placed(input[r], docs[list[n].token], n, nodes)
      BY <1>2, <2>1 DEF EntryOK, HandlerDocs
    <2>3. docs[list[n].token].i = n /\ n # 0
      BY <1>1, <2>2 DEF Placed
    <2> QED BY <2>2, <2>3 DEF Visible
  <1> QED BY <1>2 DEF Reported

\* The file an overwriting run writes to holds what it noted last.
LEMMA LastIsVisible ==
  ASSUME IInv, NEW r \in Runs, Overwrites(input[r]), NEW n, n = Len(pub[r].docs), n # 0,
         pub[r].docs[n].status # "failed"
  PROVE  Visible(r) = {n}
  <1> DEFINE list == pub[r].docs
  <1>1. ResultOK(r) /\ list \in Seq(Entry)
    BY DEF IInv, TypeOK, ResultTypes, PubFile
  <1>2. n \in DOMAIN list
    BY <1>1
  <1>3. EntryOK(input[r], r, n, list[n], docs, nodes)
    BY <1>1, <1>2 DEF ResultOK, ListOK
  <1>4. list[n].token \in HandlerDocs(r) /\ docs[list[n].token].i = n
    BY <1>1, <1>3 DEF EntryOK, HandlerDocs, ResultOK
  <1>5. n \in Visible(r)
    BY <1>4 DEF Visible
  <1> QED BY <1>5, OneVisible

\* A run reported published has noted its whole output, which is visible up to
\* what it replaced itself.
LEMMA PublishedIsVisible ==
  ASSUME IInv, NEW r \in Runs, pub[r].status = "published", input[r].docs # <<>>
  PROVE  /\ Reported(r) = Wanted(r)
         /\ Visible(r) = IF Overwrites(input[r]) THEN {Len(input[r].docs)} ELSE Wanted(r)
  <1> DEFINE list == pub[r].docs
  <1>1. ResultOK(r) /\ list \in Seq(Entry) /\ input[r].docs \in Seq(Types)
    BY DEF IInv, TypeOK, ResultTypes, PubFile, Input
  <1>2. AllWell(list) /\ Len(list) = Len(input[r].docs)
    BY <1>1 DEF ResultOK
  <1>3. DOMAIN list = DOMAIN input[r].docs
    BY <1>1, <1>2
  <1>4. Reported(r) = Wanted(r)
    <2>1. \A n \in DOMAIN list : list[n].status # "failed" /\ list[n].i = n
      BY <1>1, <1>2 DEF AllWell, ResultOK, ListOK, EntryOK
    <2> QED BY <1>3, <2>1 DEF Reported, Wanted
  <1>5. CASE ~Overwrites(input[r])
    BY <1>4, <1>5, ReportedIsVisible, VisibleIsWanted
  <1>6. CASE Overwrites(input[r])
    <2> DEFINE n == Len(list)
    <2>1. n \in DOMAIN list /\ n # 0
      BY <1>1, <1>2
    <2>2. list[n].status # "failed"
      BY <1>2, <2>1 DEF AllWell
    <2> HIDE DEF n
    <2>3. n = Len(list)
      BY DEF n
    <2>4. Visible(r) = {n}
      BY <1>6, <2>1, <2>2, <2>3, LastIsVisible
    <2> QED BY <1>2, <1>4, <1>6, <2>3, <2>4
  <1> QED BY <1>5, <1>6

Shown ==
    \A r \in Runs :
        /\ Visible(r) \subseteq Wanted(r) /\ Reported(r) \subseteq Wanted(r)
        /\ ~Overwrites(input[r]) => Reported(r) \subseteq Visible(r)
        /\ Overwrites(input[r]) => \A i, j \in Visible(r) : i = j
        /\ Overwrites(input[r]) /\ pub[r].docs # <<>>
              /\ pub[r].docs[Len(pub[r].docs)].status # "failed"
           => Visible(r) = {Len(pub[r].docs)}
        /\ pub[r].status = "published" /\ input[r].docs # <<>> =>
              /\ Reported(r) = Wanted(r)
              /\ Visible(r) = IF Overwrites(input[r]) THEN {Len(input[r].docs)} ELSE Wanted(r)

LEMMA InvShown == IInv => Shown
  <1> SUFFICES ASSUME IInv PROVE Shown
    OBVIOUS
  <1>1. ASSUME NEW r \in Runs, Overwrites(input[r]), pub[r].docs # <<>>,
               pub[r].docs[Len(pub[r].docs)].status # "failed"
        PROVE  Visible(r) = {Len(pub[r].docs)}
    <2>1. pub[r].docs \in Seq(Entry)
      BY DEF IInv, TypeOK, ResultTypes, PubFile
    <2>2. Len(pub[r].docs) # 0
      BY <1>1, <2>1
    <2> QED BY <1>1, <2>2, LastIsVisible
  <1> QED BY <1>1, VisibleIsWanted, ReportedIsWanted, ReportedIsVisible, OneVisible, PublishedIsVisible
          DEF Shown

\* What a step may do to the documents made in run r's name.
WritesFor(r) ==
    /\ \A d \in DOMAIN docs :
          /\ d \in DOMAIN docs' /\ docs'[d].run = docs[d].run /\ docs'[d].by = docs[d].by
          /\ \/ docs'[d].i = docs[d].i
             \/ docs[d].run = r /\ Overwrites(input[r]) /\ docs'[d].i # 0
    /\ \A d \in DOMAIN docs' : d \notin DOMAIN docs =>
          docs'[d].run = r \/ docs'[d].by = "organizer"

\* The documents of other runs are as they were.
LEMMA WritesOthers ==
  ASSUME NEW r, WritesFor(r), NEW s, s # r
  PROVE  HandlerDocs(s)' = HandlerDocs(s) /\ \A d \in HandlerDocs(s) : docs'[d].i = docs[d].i
  BY DEF HandlerDocs, WritesFor

LEMMA SameVisible ==
  ASSUME NEW s, input' = input, HandlerDocs(s)' = HandlerDocs(s),
         \A d \in HandlerDocs(s) : docs'[d].i = docs[d].i
  PROVE  Visible(s)' = Visible(s)
  BY DEF Visible

\* What was visible stays, unless the run writes over it, and for other runs
\* nothing becomes visible.
LEMMA WritesShow ==
  ASSUME NEW r \in Runs, WritesFor(r), input' = input
  PROVE  /\ ~Overwrites(input[r]) => Visible(r) \subseteq Visible(r)'
         /\ Visible(r)' = {} => Visible(r) = {}
         /\ \A s \in Runs : s # r => Visible(s)' = Visible(s)
  <1>1. ASSUME NEW i \in Visible(r)
        PROVE  \/ i \in Visible(r)'
               \/ Overwrites(input[r]) /\ Visible(r)' # {}
    <2>1. PICK d \in HandlerDocs(r) : docs[d].i = i /\ i # 0
      BY DEF Visible
    <2>2. d \in HandlerDocs(r)'
      BY <2>1 DEF HandlerDocs, WritesFor
    <2>3. docs'[d].i = i \/ (Overwrites(input[r]) /\ docs'[d].i # 0)
      BY <2>1 DEF HandlerDocs, WritesFor
    <2> QED BY <2>1, <2>2, <2>3 DEF Visible
  <1>2. ASSUME NEW s \in Runs, s # r PROVE Visible(s)' = Visible(s)
    BY <1>2, WritesOthers, SameVisible
  <1> QED BY <1>1, <1>2

\* A step that changes no result and shows no document stutters.
LEMMA GatedStutter ==
  ASSUME input' = input, options' = options, \A s \in Runs : Visible(s)' = Visible(s),
         \A s \in Runs : pub'[s] = pub[s]
  PROVE  UNCHANGED Gated!gatedVars
  <1>1. [s \in Runs |-> Visible(s)]' = [s \in Runs |-> Visible(s)]
    OBVIOUS
  <1>2. [s \in Runs |-> Reported(s)]' = [s \in Runs |-> Reported(s)]
    BY DEF Reported
  <1>3. [s \in Runs |-> pub[s].status]' = [s \in Runs |-> pub[s].status]
    OBVIOUS
  <1> QED BY <1>1, <1>2, <1>3 DEF Gated!gatedVars

\* What a step may do to a run's list of results: leave it, hand over the list
\* of the wiki, or add the document just written.
ListGrows(r) ==
    \/ pub'[r].docs = pub[r].docs
    \/ pub[r].docs = <<>> /\ ~Overwrites(input[r])
    \/ \E e : pub'[r].docs = Append(pub[r].docs, e)

\* What is noted stays noted, and what is noted now is visible now.
LEMMA ReportsVisible ==
  ASSUME IInv, IInv', Shown', NEW r \in Runs, input' = input, ListGrows(r)
  PROVE  \E noted \in SUBSET (Visible(r)') : Reported(r)' = Reported(r) \cup noted
  <1> DEFINE list == pub[r].docs
             listp == pub'[r].docs
  <1>1. list \in Seq(Entry) /\ listp \in Seq(Entry) /\ ResultOK(r)'
    BY DEF IInv, TypeOK, ResultTypes, PubFile
  <1>2. CASE listp = list
    <2>1. Reported(r)' = Reported(r) \cup {}
      BY <1>2 DEF Reported
    <2>2. {} \in SUBSET (Visible(r)')
      OBVIOUS
    <2> HIDE DEF list, listp
    <2> QED BY <2>1, <2>2
  <1>3. CASE list = <<>> /\ ~Overwrites(input[r])
    <2>1. Reported(r) = {}
      BY <1>3 DEF Reported
    <2>2. Reported(r)' \subseteq Visible(r)'
      BY <1>3 DEF Shown
    <2> QED BY <2>1, <2>2
  <1>4. CASE \E e : listp = Append(list, e)
    <2> DEFINE n == Len(listp)
    <2>1. PICK e : listp = Append(list, e)
      BY <1>4
    <2>2. /\ n = Len(list) + 1 /\ n \in Nat /\ n # 0 /\ Len(list) \in Nat
          /\ DOMAIN listp = DOMAIN list \cup {n}
          /\ \A m \in DOMAIN list : listp[m] = list[m]
      <3> HIDE DEF list, listp
      <3>1. DOMAIN list = 1..Len(list) /\ Len(list) \in Nat /\ DOMAIN listp = 1..Len(listp)
        BY <1>1
      <3>2. Len(listp) = Len(list) + 1 /\ \A m \in 1..Len(list) : listp[m] = list[m]
        BY <2>1, <3>1
      <3> QED BY <3>1, <3>2
    <2>3. listp[n].i = n
      BY <1>1, <2>2 DEF ResultOK, ListOK, EntryOK
    <2> DEFINE noted == IF listp[n].status = "failed" THEN {} ELSE {n}
    <2> HIDE DEF n
    <2>4. Reported(r)' = Reported(r) \cup noted
      BY <2>2, <2>3 DEF Reported
    <2>5. noted \subseteq Visible(r)'
      <3> SUFFICES ASSUME listp[n].status # "failed" PROVE n \in Visible(r)'
        OBVIOUS
      <3>1. CASE Overwrites(input[r])
        <4>1. listp # <<>> /\ n = Len(listp)
          BY <2>2 DEF n
        <4>2. Visible(r)' = {Len(listp)}
          BY <3>1, <4>1 DEF Shown
        <4> QED BY <4>1, <4>2
      <3>2. CASE ~Overwrites(input[r])
        <4>1. n \in Reported(r)'
          BY <2>4
        <4> QED BY <3>2, <4>1 DEF Shown
      <3> QED BY <3>1, <3>2
    <2> QED BY <2>4, <2>5
  <1> QED BY <1>2, <1>3, <1>4 DEF ListGrows

\* What becomes visible of a run: more beside the rest, or one in its place.
LEMMA ShowsMore ==
  ASSUME Shown', NEW r \in Runs, input' = input, options' = options, WritesFor(r),
         Visible(r)' # Visible(r) => GateOpen(input[r]) /\ options.mode = "live"
  PROVE  \E more \in SUBSET Wanted(r) : Gated!Shows(r, more)
  <1> DEFINE V == [s \in Runs |-> Visible(s)]
             Vp == [s \in Runs |-> Visible(s)]'
             one == Overwrites(input[r])
             more == IF Visible(r)' = Visible(r) THEN {}
                     ELSE IF one THEN Visible(r)' ELSE Visible(r)' \ Visible(r)
  <1>1. /\ ~one => Visible(r) \subseteq Visible(r)'
        /\ Visible(r)' = {} => Visible(r) = {}
        /\ \A s \in Runs : s # r => Visible(s)' = Visible(s)
    BY WritesShow
  <1>2. Visible(r)' \subseteq Wanted(r)
    BY DEF Shown, Wanted
  <1>3. one => \A i, j \in Visible(r)' : i = j
    BY DEF Shown
  <1>4. more \subseteq Wanted(r)
    BY <1>2
  <1>5. more # {} => GateOpen(input[r]) /\ options.mode = "live"
    OBVIOUS
  <1>6. Visible(r)' = IF one /\ more # {} THEN more ELSE Visible(r) \cup more
    BY <1>1
  <1>7. one => \A d, e \in more : d = e
    BY <1>3
  <1> HIDE DEF more
  <1>8. Vp = [V EXCEPT ![r] = IF one /\ more # {} THEN more ELSE @ \cup more]
    BY <1>1, <1>6
  <1>9. Gated!Shows(r, more)
    BY <1>4, <1>5, <1>7, <1>8 DEF Gated!Shows, Wanted
  <1> QED BY <1>4, <1>9

\* A step that shows documents of a run, records its result, or both.
LEMMA GatedStep ==
  ASSUME IInv, IInv', Shown', NEW r \in Runs, input' = input, options' = options,
         pub[r].status = "none", WritesFor(r), \A s \in Runs : s # r => pub'[s] = pub[s],
         ListGrows(r),
         Visible(r)' # Visible(r) => GateOpen(input[r]) /\ options.mode = "live",
         pub'[r].status = "published" =>
             GateOpen(input[r]) /\ options.mode = "live" /\ input[r].docs # <<>>,
         pub'[r].status \in {"skipped", "dry_run"} => Visible(r)' = {}
  PROVE  Gated!Next \/ UNCHANGED Gated!gatedVars
  <1> DEFINE Vp == [s \in Runs |-> Visible(s)]'
             S == [s \in Runs |-> pub[s].status]
             R == [s \in Runs |-> Reported(s)]
             Rp == [s \in Runs |-> Reported(s)]'
             W == [s \in Runs |-> DOMAIN input[s].docs]
             F == [s \in Runs |-> Overwrites(input[s])]
             O == [s \in Runs |-> GateOpen(input[s]) /\ options.mode = "live"]
             v == pub'[r].status
  <1>1. W' = W /\ O' = O /\ F' = F
    OBVIOUS
  <1>2. \E more \in SUBSET W[r] : Gated!Shows(r, more)
    BY ShowsMore DEF Wanted
  <1>3. Gated!Reports(r)
    <2>1. PICK noted \in SUBSET (Visible(r)') : Reported(r)' = Reported(r) \cup noted
      BY ReportsVisible
    <2>2. \A s \in Runs : s # r => Reported(s)' = Reported(s)
      BY DEF Reported
    <2>3. Rp = [R EXCEPT ![r] = @ \cup noted]
      BY <2>1, <2>2
    <2>4. noted \in SUBSET Vp[r]
      OBVIOUS
    <2> QED BY <2>3, <2>4 DEF Gated!Reports
  <1>4. S' = [S EXCEPT ![r] = v] /\ S[r] = "none"
    OBVIOUS
  <1>5. v \in {"none", "published", "blocked", "skipped", "dry_run"}
    <2>1. pub' \in [Runs -> PubFile]
      BY DEF IInv, TypeOK, ResultTypes
    <2> QED BY <2>1 DEF PubFile
  <1>6. CASE v = "none"
    <2>1. S' = S
      BY <1>4, <1>6
    <2>2. Gated!Show(r)
      BY <1>1, <1>2, <1>3, <1>4, <2>1 DEF Gated!Show
    <2> QED BY <2>2 DEF Gated!Next
  <1>7. CASE v # "none"
    <2>1. v = "published" => /\ O[r] /\ Rp[r] = W[r]
                            /\ Vp[r] = IF F[r] THEN Gated!Last(r) ELSE W[r]
      <3> SUFFICES ASSUME v = "published"
                   PROVE  /\ O[r] /\ Rp[r] = W[r]
                          /\ Vp[r] = IF F[r] THEN Gated!Last(r) ELSE W[r]
        OBVIOUS
      <3>1. /\ Reported(r)' = DOMAIN input[r].docs
            /\ Visible(r)' = IF Overwrites(input[r]) THEN {Len(input[r].docs)} ELSE DOMAIN input[r].docs
        BY DEF Shown, Wanted
      <3>2. Gated!Last(r) = {d \in DOMAIN input[r].docs : \A e \in DOMAIN input[r].docs : e <= d}
        BY DEF Gated!Last
      <3>3. Gated!Last(r) = {Len(input[r].docs)}
        <4>1. input[r].docs \in Seq(Types) /\ input[r].docs # <<>>
          BY DEF IInv, TypeOK, Input
        <4>2. DOMAIN input[r].docs = 1..Len(input[r].docs) /\ Len(input[r].docs) \in Nat \ {0}
          BY <4>1
        <4> DEFINE n == Len(input[r].docs)
        <4>3. Gated!Last(r) = {d \in 1..n : \A e \in 1..n : e <= d} /\ n \in Nat \ {0}
          BY <3>2, <4>2
        <4> HIDE DEF n
        <4>4. {d \in 1..n : \A e \in 1..n : e <= d} = {n}
          BY <4>3
        <4> QED BY <4>3, <4>4 DEF n
      <3> QED BY <3>1, <3>3
    <2>2. v \in {"skipped", "dry_run"} => Vp[r] = {}
      OBVIOUS
    <2> HIDE DEF v
    <2>3. Gated!Close(r)
      BY <1>1, <1>2, <1>3, <1>4, <1>5, <1>7, <2>1, <2>2 DEF Gated!Close
    <2> QED BY <2>3 DEF Gated!Next
  <1> QED BY <1>6, <1>7

\* The four things a step does to documents.
LEMMA NothingWritten == ASSUME NEW r, docs' = docs PROVE WritesFor(r)
  BY DEF WritesFor

LEMMA MoveWrites ==
  ASSUME docs \in Seq(DocRecord), NEW r, NEW d, NEW node, docs' = MoveTo(d, node)
  PROVE  WritesFor(r)
  <1>1. docs' = [docs EXCEPT ![d] = [[docs[d] EXCEPT !.place = "wiki"] EXCEPT !.node = node]]
    BY DEF MoveTo
  <1>2. \A k \in DOMAIN docs : docs[k] \in DocRecord
    OBVIOUS
  <1>3. ASSUME NEW k \in DOMAIN docs
        PROVE  docs'[k].run = docs[k].run /\ docs'[k].by = docs[k].by /\ docs'[k].i = docs[k].i
    <2>1. CASE k # d
      BY <1>1, <1>3, <2>1
    <2>2. CASE k = d
      <3>1. docs'[k] = [[docs[k] EXCEPT !.place = "wiki"] EXCEPT !.node = node]
        BY <1>1, <1>3, <2>2
      <3> QED BY <1>2, <3>1 DEF DocRecord
    <2> QED BY <2>1, <2>2
  <1>4. DOMAIN docs' = DOMAIN docs
    BY <1>1
  <1> QED BY <1>3, <1>4 DEF WritesFor

LEMMA AppendWrites ==
  ASSUME docs \in Seq(DocRecord), NEW r, NEW e \in DocRecord, e.run = r \/ e.by = "organizer",
         docs' = Append(docs, e)
  PROVE  WritesFor(r)
  <1>1. /\ docs' \in Seq(DocRecord) /\ Len(docs') = Len(docs) + 1
        /\ \A d \in 1..Len(docs) : docs'[d] = docs[d]
        /\ docs'[Len(docs) + 1] = e
    BY AppendProperties
  <1>2. /\ DOMAIN docs = 1..Len(docs) /\ Len(docs) \in Nat
        /\ DOMAIN docs' = 1..(Len(docs) + 1)
    BY <1>1
  <1> QED BY <1>1, <1>2 DEF WritesFor

LEMMA OverwriteWrites ==
  ASSUME docs \in Seq(DocRecord), NEW r, NEW d \in DOMAIN docs, NEW i \in Nat \ {0},
         docs[d].run = r, docs[d].by = "user", Overwrites(input[r]),
         docs' = [docs EXCEPT ![d].i = i]
  PROVE  WritesFor(r)
  <1> DEFINE ds == [docs EXCEPT ![d].i = i]
  <1>1. /\ DOMAIN ds = DOMAIN docs
        /\ \A k \in DOMAIN docs : k # d => ds[k] = docs[k]
        /\ ds[d].run = docs[d].run /\ ds[d].by = docs[d].by /\ ds[d].i = i
    BY OverwriteIs
  <1> HIDE DEF ds
  <1>2. docs' = ds
    BY DEF ds
  <1> QED BY <1>1, <1>2 DEF WritesFor

\* A step of a run that is under way: what it writes, it may.
LEMMA RunMaps ==
  ASSUME IInv, IInv', Shown', NEW r \in Runs, pc[r] \notin {"start", "done"},
         input' = input, options' = options, WritesFor(r),
         \A s \in Runs : s # r => pub'[s] = pub[s], ListGrows(r),
         pub'[r].status \in {"none", "published", "blocked"}
  PROVE  Gated!Next \/ UNCHANGED Gated!gatedVars
  <1>1. StageOK(r) /\ Busy(r) /\ input[r].docs \in Seq(Types)
    BY DEF IInv, Busy, TypeOK, Input
  <1>2. /\ pub[r].status = "none" /\ GateOpen(input[r]) /\ options.mode = "live"
        /\ at[r] \in DOMAIN input[r].docs
    BY <1>1 DEF StageOK
  <1>3. input[r].docs # <<>>
    BY <1>1, <1>2
  <1> QED BY <1>2, <1>3, GatedStep

\* A result "none" yet, or blocked or done: Record and its neighbours.
LEMMA WikiFailedMaps ==
  ASSUME TypeOK, NEW r \in Runs, NEW list, WikiFailed(r, list)
  PROVE  /\ \A s \in Runs : s # r => pub'[s] = pub[s]
         /\ pub'[r].status \in {pub[r].status, "blocked"}
  BY DEF WikiFailed, Record, Put, TypeOK, ResultTypes

LEMMA BeginMaps ==
  ASSUME IInv, IInv', Shown', NEW r \in Runs, Begin(r)
  PROVE  Gated!Next \/ UNCHANGED Gated!gatedVars
  <1>1. TypeOK /\ StageOK(r) /\ pc[r] = "start" /\ pub[r].status = "none"
    BY DEF IInv, Begin, StageOK
  <1>2. input' = input /\ options' = options /\ docs' = docs
    BY DEF Begin, feishu
  <1>3. /\ \A s \in Runs : s # r => pub'[s] = pub[s]
        /\ pub'[r].status # "published"
        /\ pub'[r].docs = pub[r].docs
    BY <1>1 DEF Begin, Record, Put, StageOK, TypeOK, ResultTypes
  <1>4. Visible(r)' = Visible(r)
    BY <1>2 DEF Visible, HandlerDocs
  <1>5. Visible(r) = {}
    <2>1. ASSUME NEW d \in HandlerDocs(r) PROVE docs[d].i = 0
      BY <1>1, <2>1 DEF HandlerDocs, IInv, DocumentOK
    <2> QED BY <2>1 DEF Visible
  <1> QED BY <1>1, <1>2, <1>3, <1>4, <1>5, NothingWritten, GatedStep DEF ListGrows

\* In the wiki's stages nothing is noted yet, and nothing is overwritten.
LEMMA WikiListGrows ==
  ASSUME NEW r, StageOK(r), pc[r] \in WikiStages
  PROVE  ListGrows(r)
  BY DEF ListGrows, StageOK, ToWiki, WikiStages

LEMMA WikiStepMaps ==
  ASSUME IInv, IInv', Shown', NEW r \in Runs,
         ListSpaces(r) \/ CreateSpace(r) \/ CheckSpace(r) \/ CreateNode(r) \/ CreateFolder(r)
  PROVE  Gated!Next \/ UNCHANGED Gated!gatedVars
  <1>1. TypeOK /\ StageOK(r) /\ pc[r] \notin {"start", "done"} /\ pub[r].status = "none"
    BY DEF IInv, ListSpaces, CreateSpace, CheckSpace, CreateNode, CreateFolder, StageOK
  <1>2. input' = input /\ options' = options /\ docs' = docs
    BY DEF ListSpaces, CreateSpace, CheckSpace, CreateNode, CreateFolder, feishu
  <1>3. pub' = pub \/ WikiFailed(r, wikiPub[r])
    BY DEF ListSpaces, CreateSpace, CheckSpace, CreateNode, CreateFolder, records
  <1>4. /\ \A s \in Runs : s # r => pub'[s] = pub[s]
        /\ pub'[r].status \in {"none", "blocked"}
    BY <1>1, <1>3, WikiFailedMaps
  <1>5. ListGrows(r)
    <2>1. CASE pub' = pub
      BY <2>1 DEF ListGrows
    <2>2. CASE pub' # pub
      <3>1. pc[r] \in WikiStages
        BY <2>2 DEF ListSpaces, CreateSpace, CheckSpace, CreateNode, CreateFolder, records, WikiStages
      <3> QED BY <1>1, <3>1, WikiListGrows
    <2> QED BY <2>1, <2>2
  <1> QED BY <1>1, <1>2, <1>4, <1>5, NothingWritten, RunMaps

LEMMA CreateWikiDocMaps ==
  ASSUME IInv, IInv', Shown', NEW r \in Runs, CreateWikiDoc(r)
  PROVE  Gated!Next \/ UNCHANGED Gated!gatedVars
  <1>1. /\ TypeOK /\ StageOK(r) /\ pc[r] = "wikiDoc" /\ pub[r].status = "none"
        /\ docs \in Seq(DocRecord) /\ at[r] \in Nat
    BY DEF IInv, CreateWikiDoc, StageOK, TypeOK, FeishuTypes, ProcessTypes
  <1> DEFINE e == NewDoc(r, at[r], "loose", 0, "handler")
             list == Append(wikiPub[r], Listed(at[r], "failed", 0))
  <1>2. /\ input' = input /\ options' = options
        /\ docs' = docs \/ docs' = Append(docs, e)
        /\ pub' = pub \/ WikiFailed(r, list)
    BY DEF CreateWikiDoc, records
  <1>3. e \in DocRecord /\ e.run = r
    BY <1>1 DEF NewDoc, DocRecord
  <1> HIDE DEF e, list
  <1>4. /\ \A s \in Runs : s # r => pub'[s] = pub[s]
        /\ pub'[r].status \in {"none", "blocked"}
    BY <1>1, <1>2, WikiFailedMaps
  <1>5. WritesFor(r)
    BY <1>1, <1>2, <1>3, NothingWritten, AppendWrites
  <1>6. ListGrows(r)
    BY <1>1, WikiListGrows DEF WikiStages
  <1> QED BY <1>1, <1>2, <1>4, <1>5, <1>6, RunMaps

LEMMA MoveWikiDocMaps ==
  ASSUME IInv, IInv', Shown', NEW r \in Runs, MoveWikiDoc(r)
  PROVE  Gated!Next \/ UNCHANGED Gated!gatedVars
  <1>1. /\ TypeOK /\ StageOK(r) /\ pc[r] = "wikiMove" /\ pub[r].status = "none"
        /\ docs \in Seq(DocRecord)
    BY DEF IInv, MoveWikiDoc, StageOK, TypeOK, FeishuTypes
  <1> DEFINE list(o) == Append(wikiPub[r], Listed(at[r], IF o = "ok" THEN "published" ELSE "failed", doc[r]))
  <1>2. PICK o \in Outcomes :
          /\ docs' = docs \/ docs' = MoveTo(doc[r], Destination(r))
          /\ \/ pub' = pub
             \/ Record(r, "published", list(o), FALSE)
             \/ WikiFailed(r, list(o))
    BY DEF MoveWikiDoc
  <1>3. input' = input /\ options' = options
    BY DEF MoveWikiDoc
  <1> HIDE DEF list
  <1>4. /\ \A s \in Runs : s # r => pub'[s] = pub[s]
        /\ pub'[r].status \in {"none", "published", "blocked"}
    <2>1. CASE pub' = pub \/ WikiFailed(r, list(o))
      BY <1>1, <2>1, WikiFailedMaps
    <2>2. CASE Record(r, "published", list(o), FALSE)
      BY <1>1, <2>2 DEF Record, Put, TypeOK, ResultTypes
    <2> QED BY <1>2, <2>1, <2>2
  <1>5. WritesFor(r)
    BY <1>1, <1>2, NothingWritten, MoveWrites
  <1>6. ListGrows(r)
    BY <1>1, WikiListGrows DEF WikiStages
  <1> QED BY <1>1, <1>3, <1>4, <1>5, <1>6, RunMaps

LEMMA WriteDriveDocMaps ==
  ASSUME IInv, IInv', Shown', NEW r \in Runs, WriteDriveDoc(r)
  PROVE  Gated!Next \/ UNCHANGED Gated!gatedVars
  <1>1. /\ TypeOK /\ StageOK(r) /\ pc[r] = "driveDoc" /\ pub[r].status = "none"
        /\ docs \in Seq(DocRecord) /\ folder[r] \in Nat /\ input[r].docs \in Seq(Types)
    BY DEF IInv, WriteDriveDoc, StageOK, TypeOK, FeishuTypes, ProcessTypes, Input
  <1>2. at[r] \in Nat \ {0}
    <2>1. at[r] \in DOMAIN input[r].docs
      BY <1>1 DEF StageOK, Busy
    <2> QED BY <1>1, <2>1
  <1> DEFINE e == NewDoc(r, at[r], "drive", folder[r], "handler")
  <1>3. /\ input' = input /\ options' = options
        /\ \/ docs' = docs
           \/ Overwrites(input[r]) /\ docs' = [docs EXCEPT ![UserFile(r)].i = at[r]]
           \/ docs' = Append(docs, e)
        /\ \E list : /\ \E new : list = Append(pub[r].docs, new)
                     /\ Record(r, "none", list, ToWiki(r)) \/ Record(r, Verdict(list), list, ToWiki(r))
    BY DEF WriteDriveDoc
  <1>4. e \in DocRecord /\ e.run = r
    BY <1>1, <1>2 DEF NewDoc, DocRecord
  <1> HIDE DEF e
  <1>5. /\ \A s \in Runs : s # r => pub'[s] = pub[s]
        /\ pub'[r].status \in {"none", "published", "blocked"}
        /\ ListGrows(r)
    <2>1. PICK list : /\ \E new : list = Append(pub[r].docs, new)
                      /\ Record(r, "none", list, ToWiki(r)) \/ Record(r, Verdict(list), list, ToWiki(r))
      BY <1>3
    <2>2. Verdict(list) \in {"published", "blocked"}
      BY VerdictIs
    <2>3. pub'[r].docs = list
      BY <1>1, <2>1 DEF Record, Put, TypeOK, ResultTypes
    <2>4. ListGrows(r)
      BY <2>1, <2>3 DEF ListGrows
    <2> QED BY <1>1, <2>1, <2>2, <2>4 DEF Record, Put, TypeOK, ResultTypes
  <1>6. WritesFor(r)
    <2>1. CASE docs' = docs
      BY <2>1, NothingWritten
    <2>2. CASE Overwrites(input[r]) /\ docs' = [docs EXCEPT ![UserFile(r)].i = at[r]]
      <3> DEFINE u == UserFile(r)
      <3>1. u \in DOMAIN docs /\ docs[u].run = r /\ docs[u].by = "user"
        BY <2>2, UserFileIs
      <3>2. docs' = [docs EXCEPT ![u].i = at[r]]
        BY <2>2
      <3> HIDE DEF u
      <3> QED BY <1>1, <1>2, <2>2, <3>1, <3>2, OverwriteWrites
    <2>3. CASE docs' = Append(docs, e)
      BY <1>1, <1>4, <2>3, AppendWrites
    <2> QED BY <1>3, <2>1, <2>2, <2>3
  <1> QED BY <1>1, <1>3, <1>5, <1>6, RunMaps

\* The command records no result, and makes nothing in a run's name.
LEMMA CommandWrites ==
  ASSUME IInv, OrgStart \/ OrgStep
  PROVE  /\ input' = input /\ options' = options /\ pub' = pub /\ wikiPub' = wikiPub /\ at' = at
         /\ WritesFor(Organizer)
  <1>1. input' = input /\ options' = options /\ pub' = pub /\ wikiPub' = wikiPub /\ at' = at
    BY DEF OrgStart, OrgStep, OrgListSpaces, OrgCreateSpace, OrgNode, OrgFolder, OrgMap, OrgSkipDoc,
           OrgRecreate, OrgRecreateMove, OrgMove, OrgEnd, records, memory
  <1>2. docs \in Seq(DocRecord)
    BY DEF IInv, TypeOK, FeishuTypes
  <1>3. \/ docs' = docs
        \/ \E d, node : docs' = MoveTo(d, node)
        \/ OrgRecreate
    BY DEF OrgStart, OrgStep, OrgListSpaces, OrgCreateSpace, OrgNode, OrgFolder, OrgMap, OrgSkipDoc,
           OrgRecreateMove, OrgMove, OrgEnd, feishu
  <1>4. CASE docs' = docs
    BY <1>1, <1>4, NothingWritten
  <1>5. CASE \E d, node : docs' = MoveTo(d, node)
    BY <1>1, <1>2, <1>5, MoveWrites
  <1>6. CASE OrgRecreate
    <2> DEFINE e == NewDoc(Task.run, pub[Task.run].docs[Task.n].i, "loose", 0, "organizer")
    <2>1. org.work # <<>> /\ Task.kind = "doc" /\ (docs' = docs \/ docs' = Append(docs, e))
      BY <1>6 DEF OrgRecreate, Doing
    <2>2. e \in DocRecord /\ e.by = "organizer"
      BY <2>1, DocTaskIs DEF NewDoc, DocRecord
    <2> HIDE DEF e
    <2> QED BY <1>1, <1>2, <2>1, <2>2, NothingWritten, AppendWrites
  <1> QED BY <1>3, <1>4, <1>5, <1>6

LEMMA CommandMaps ==
  ASSUME IInv, OrgStart \/ OrgStep
  PROVE  UNCHANGED Gated!gatedVars
  <1>1. \A s \in Runs : s # Organizer
    BY PublishingAssumption DEF PublishingAssumption
  <1>2. \A s \in Runs : Visible(s)' = Visible(s)
    BY <1>1, CommandWrites, WritesOthers, SameVisible
  <1> QED BY <1>2, CommandWrites, GatedStutter

LEMMA InitMaps == Init => Gated!Init
  <1> SUFFICES ASSUME Init PROVE Gated!Init
    OBVIOUS
  <1>1. IInv
    BY InitIInv
  <1>2. ASSUME NEW r \in Runs PROVE Visible(r) = {} /\ Reported(r) = {} /\ pub[r].status = "none"
    <2>1. pc[r] = "start" /\ pub[r].status = "none" /\ pub[r].docs = <<>>
      BY DEF Init, Procs, NoPub
    <2>2. ASSUME NEW d \in HandlerDocs(r) PROVE docs[d].i = 0
      BY <1>1, <2>1, <2>2 DEF HandlerDocs, IInv, DocumentOK
    <2> QED BY <2>1, <2>2 DEF Visible, Reported
  <1> QED BY <1>2 DEF Gated!Init

LEMMA NextMaps ==
  IInv /\ IInv' /\ Shown' /\ [Next]_vars => [Gated!Next]_(Gated!gatedVars)
  <1> SUFFICES ASSUME IInv, IInv', Shown', [Next]_vars
               PROVE  Gated!Next \/ UNCHANGED Gated!gatedVars
    OBVIOUS
  <1>1. ASSUME NEW r \in Runs, RunStep(r) PROVE Gated!Next \/ UNCHANGED Gated!gatedVars
    BY <1>1, BeginMaps, WikiStepMaps, CreateWikiDocMaps, MoveWikiDocMaps, WriteDriveDocMaps
    DEF RunStep
  <1>2. CASE OrgStart \/ OrgStep
    BY <1>2, CommandMaps
  <1>3. CASE UNCHANGED vars
    <2>1. input' = input /\ options' = options /\ pub' = pub /\ docs' = docs
      BY <1>3 DEF vars, records, feishu
    <2>2. \A s \in Runs : Visible(s)' = Visible(s)
      BY <2>1 DEF Visible, HandlerDocs
    <2> QED BY <2>1, <2>2, GatedStutter
  <1> QED BY <1>1, <1>2, <1>3 DEF Next

\* Publishing implements GatedPublishing: whatever fails and falls back, no
\* document of a run appears behind closed gates or after its result, nothing is
\* noted as written that cannot be read at that moment, and "published" is
\* reported when the whole output was noted; a run that writes its documents
\* over one file then shows the last of them, every other run all.
THEOREM PublishesWhole == Spec => PublishesOnlyWhole
  <1>1. Spec => [](IInv /\ Shown)
    BY Invariant, InvShown, PTL
  <1> QED BY <1>1, InitMaps, NextMaps, PTL DEF Spec, PublishesOnlyWhole, Gated!Spec

-----------------------------------------------------------------------------
(* No more copies than entries. *)

Copies(r, i) == {d \in HandlerDocs(r) : docs[d].i = i}
InHand(r, i) == pc[r] = "wikiMove" /\ i = at[r]
One(b) == IF b THEN 1 ELSE 0
Noted(r, i) ==
    One(i \in DOMAIN wikiPub[r]) + One(DriveTarget(r) /\ i \in DOMAIN pub[r].docs) + One(InHand(r, i))

\* The copies of a document, the one in hand included, are all noted.
CopiesOK(r) == \A i \in DOMAIN input[r].docs : Cardinality(Copies(r, i)) <= Noted(r, i)
CopiesInv == \A r \in Runs : CopiesOK(r)

LEMMA NotedIs ==
  ASSUME NEW r, NEW i
  PROVE  /\ Noted(r, i) \in Nat
         /\ Noted(r, i) >= One(i \in DOMAIN wikiPub[r])
         /\ Noted(r, i) >= One(i \in DOMAIN wikiPub[r]) + One(InHand(r, i))
         /\ Noted(r, i) >= One(i \in DOMAIN wikiPub[r])
                           + One(DriveTarget(r) /\ i \in DOMAIN pub[r].docs)
  BY DEF Noted, One

LEMMA CopiesFinite ==
  ASSUME docs \in Seq(DocRecord), NEW r, NEW i
  PROVE  IsFiniteSet(Copies(r, i)) /\ Cardinality(Copies(r, i)) \in Nat
  <1>1. IsFiniteSet(DOMAIN docs)
    <2>1. DOMAIN docs = 1..Len(docs) /\ Len(docs) \in Nat
      OBVIOUS
    <2> QED BY <2>1, FS_Interval
  <1>2. Copies(r, i) \subseteq DOMAIN docs
    BY DEF Copies, HandlerDocs
  <1> QED BY <1>1, <1>2, FS_Subset, FS_CardinalityType

LEMMA CopiesSame ==
  ASSUME NEW s, HandlerDocs(s)' = HandlerDocs(s),
         \A d \in HandlerDocs(s) : docs'[d].i = docs[d].i, NEW i
  PROVE  Copies(s, i)' = Copies(s, i)
  BY DEF Copies

\* A run whose documents stay and whose notes do not dwindle.
LEMMA CopiesQuiet ==
  ASSUME IInv, NEW s, CopiesOK(s), input' = input, HandlerDocs(s)' = HandlerDocs(s),
         \A d \in HandlerDocs(s) : docs'[d].i = docs[d].i,
         \A i \in DOMAIN input[s].docs : Noted(s, i) <= Noted(s, i)'
  PROVE  CopiesOK(s)'
  <1> SUFFICES ASSUME NEW i \in DOMAIN input[s].docs
               PROVE  Cardinality(Copies(s, i))' <= Noted(s, i)'
    BY DEF CopiesOK
  <1>1. Copies(s, i)' = Copies(s, i)
    BY CopiesSame
  <1>2. Cardinality(Copies(s, i)) \in Nat /\ Noted(s, i) \in Nat /\ Noted(s, i)' \in Nat
    BY CopiesFinite, NotedIs DEF IInv, TypeOK, FeishuTypes, Noted, One
  <1>3. Cardinality(Copies(s, i)) <= Noted(s, i) /\ Noted(s, i) <= Noted(s, i)'
    BY DEF CopiesOK
  <1> QED BY <1>1, <1>2, <1>3

\* A document made is one copy more, and one note more.
LEMMA CopiesMade ==
  ASSUME IInv, NEW r \in Runs, CopiesOK(r), input' = input,
         NEW e \in DocRecord, e.run = r, e.by = "handler", docs' = Append(docs, e),
         \A i \in DOMAIN input[r].docs : Noted(r, i)' >= Noted(r, i) + One(i = e.i)
  PROVE  CopiesOK(r)'
  <1> SUFFICES ASSUME NEW i \in DOMAIN input[r].docs
               PROVE  Cardinality(Copies(r, i))' <= Noted(r, i)'
    BY DEF CopiesOK
  <1>1. docs \in Seq(DocRecord)
    BY DEF IInv, TypeOK, FeishuTypes
  <1>2. /\ docs' \in Seq(DocRecord) /\ Len(docs') = Len(docs) + 1
        /\ \A d \in 1..Len(docs) : docs'[d] = docs[d]
        /\ docs'[Len(docs) + 1] = e
    BY <1>1, AppendProperties
  <1>3. /\ DOMAIN docs = 1..Len(docs) /\ Len(docs) \in Nat
        /\ DOMAIN docs' = DOMAIN docs \cup {Len(docs) + 1} /\ Len(docs) + 1 \notin DOMAIN docs
    BY <1>1, <1>2
  <1>4. Copies(r, i)' = IF i = e.i THEN Copies(r, i) \cup {Len(docs) + 1} ELSE Copies(r, i)
    <2>1. HandlerDocs(r)' = HandlerDocs(r) \cup {Len(docs) + 1}
      BY <1>2, <1>3 DEF HandlerDocs
    <2>2. \A d \in HandlerDocs(r) : docs'[d] = docs[d]
      BY <1>2, <1>3 DEF HandlerDocs
    <2>3. \A d : d \in Copies(r, i)' <=> d \in HandlerDocs(r)' /\ docs'[d].i = i
      BY DEF Copies
    <2>4. \A d : d \in Copies(r, i) <=> d \in HandlerDocs(r) /\ docs[d].i = i
      BY DEF Copies
    <2>5. \A d : d \in Copies(r, i)' <=> d \in Copies(r, i) \/ (d = Len(docs) + 1 /\ i = e.i)
      <3> TAKE d
      <3>1. CASE d \in HandlerDocs(r)
        <4>1. d # Len(docs) + 1 /\ docs'[d].i = docs[d].i
          BY <1>3, <2>2, <3>1 DEF HandlerDocs
        <4> QED BY <2>1, <2>3, <2>4, <3>1, <4>1
      <3>2. CASE d \notin HandlerDocs(r)
        <4>1. d \notin Copies(r, i) /\ (d \in HandlerDocs(r)' <=> d = Len(docs) + 1)
          BY <2>1, <2>4, <3>2
        <4>2. d = Len(docs) + 1 => docs'[d].i = e.i
          BY <1>2
        <4> QED BY <2>3, <4>1, <4>2
      <3> QED BY <3>1, <3>2
    <2> QED BY <2>5
  <1>5. Len(docs) + 1 \notin Copies(r, i)
    BY <1>3 DEF Copies, HandlerDocs
  <1>6. Cardinality(Copies(r, i)') = Cardinality(Copies(r, i)) + One(i = e.i)
    <2>1. IsFiniteSet(Copies(r, i)) /\ Cardinality(Copies(r, i)) \in Nat
      BY <1>1, CopiesFinite
    <2>2. Cardinality(Copies(r, i) \cup {Len(docs) + 1}) = Cardinality(Copies(r, i)) + 1
      BY <1>5, <2>1, FS_AddElement
    <2>3. CASE i = e.i
      <3>1. Copies(r, i)' = Copies(r, i) \cup {Len(docs) + 1}
        BY <1>4, <2>3
      <3> QED BY <2>2, <2>3, <3>1 DEF One
    <2>4. CASE i # e.i
      <3>1. Copies(r, i)' = Copies(r, i)
        BY <1>4, <2>4
      <3> QED BY <2>1, <2>4, <3>1 DEF One
    <2> QED BY <2>3, <2>4
  <1>7. Cardinality(Copies(r, i)) \in Nat /\ Noted(r, i) \in Nat /\ Noted(r, i)' \in Nat
    BY <1>1, CopiesFinite DEF Noted, One
  <1>8. Cardinality(Copies(r, i)) <= Noted(r, i) /\ Noted(r, i)' >= Noted(r, i) + One(i = e.i)
    BY DEF CopiesOK
  <1> QED BY <1>6, <1>7, <1>8 DEF One

\* A write to the one file of an overwriting run.
LEMMA CopiesOverwritten ==
  ASSUME IInv, NEW r \in Runs, input' = input, Overwrites(input[r]), NEW u \in DOMAIN docs,
         FileNamed(r, u), docs' = [docs EXCEPT ![u].i = at[r]],
         \A i \in DOMAIN input[r].docs : Noted(r, i)' >= One(i = at[r])
  PROVE  CopiesOK(r)'
  <1> SUFFICES ASSUME NEW i \in DOMAIN input[r].docs
               PROVE  Cardinality(Copies(r, i))' <= Noted(r, i)'
    BY DEF CopiesOK
  <1>1. docs \in Seq(DocRecord)
    BY DEF IInv, TypeOK, FeishuTypes
  <1>2. \A d \in DOMAIN docs : docs[d] \in DocRecord
    BY <1>1
  <1>3. ASSUME NEW d \in HandlerDocs(r) PROVE d = u
    <2>1. d \in DOMAIN docs /\ docs[d].run = r /\ docs[d].by = "user"
      <3>1. d \in DOMAIN docs /\ docs[d].run = r /\ docs[d].by # "organizer"
        BY <1>3 DEF HandlerDocs
      <3>2. docs[d].by # "handler"
        BY <3>1 DEF IInv, DocumentOK
      <3> QED BY <1>2, <3>1, <3>2 DEF DocRecord
    <2> QED BY <2>1 DEF FileNamed, IInv, FilesOK
  <1>4. /\ DOMAIN docs' = DOMAIN docs /\ docs'[u].i = at[r]
        /\ \A d \in DOMAIN docs : docs'[d].run = docs[d].run /\ docs'[d].by = docs[d].by
    BY <1>2 DEF DocRecord
  <1>5. HandlerDocs(r)' = HandlerDocs(r)
    BY <1>4 DEF HandlerDocs
  <1>6. Copies(r, i)' \subseteq (IF i = at[r] THEN {u} ELSE {})
    BY <1>3, <1>4, <1>5 DEF Copies
  <1>7. Noted(r, i)' \in Nat /\ Noted(r, i)' >= One(i = at[r])
    BY DEF Noted, One
  <1>8. CASE Copies(r, i)' = {}
    <2>1. Cardinality(Copies(r, i)') = 0
      BY <1>8, FS_EmptySet
    <2> QED BY <1>7, <2>1
  <1>9. CASE Copies(r, i)' # {}
    <2>1. Copies(r, i)' = {u} /\ i = at[r]
      BY <1>6, <1>9
    <2>2. Cardinality({u}) = 1
      BY FS_Singleton
    <2>3. Cardinality(Copies(r, i)') = 1
      BY <2>1, <2>2
    <2> QED BY <1>7, <2>1, <2>3 DEF One
  <1> QED BY <1>8, <1>9

\* A step of a run leaves what other runs stand and have noted alone.
RunAlone(r) ==
    /\ input' = input /\ options' = options
    /\ \A s \in Runs : s # r =>
          pc'[s] = pc[s] /\ at'[s] = at[s] /\ pub'[s] = pub[s] /\ wikiPub'[s] = wikiPub[s]

LEMMA RunStepAlone ==
  ASSUME IInv, NEW r \in Runs, RunStep(r) PROVE RunAlone(r)
  <1>1. /\ pc \in [Procs -> RunStages \cup OrganizerStages] /\ at \in [Runs -> Nat]
        /\ pub \in [Runs -> PubFile] /\ wikiPub \in [Runs -> Seq(Entry)]
        /\ \A s \in Runs : s \in Procs
    BY DEF IInv, TypeOK, ProcessTypes, ResultTypes, Procs
  <1>2. /\ input' = input /\ options' = options
        /\ pc' = pc \/ \E stage : pc' = [pc EXCEPT ![r] = stage]
        /\ at' = at \/ \E n : at' = [at EXCEPT ![r] = n]
        /\ pub' = pub \/ \E file : pub' = [pub EXCEPT ![r] = file]
        /\ wikiPub' = wikiPub \/ \E list : wikiPub' = [wikiPub EXCEPT ![r] = list]
    <2>1. ASSUME NEW list, WikiFailed(r, list)
          PROVE  /\ \E stage : pc' = [pc EXCEPT ![r] = stage]
                 /\ \E n : at' = [at EXCEPT ![r] = n]
                 /\ pub' = pub \/ \E file : pub' = [pub EXCEPT ![r] = file]
                 /\ \E l : wikiPub' = [wikiPub EXCEPT ![r] = l]
      BY <2>1 DEF WikiFailed, EnterDrive, Record, Forget, Reset, Put
    <2>2. CASE Begin(r)
      BY <2>2 DEF Begin, EnterDrive, Record, Forget, Put, memory
    <2>3. CASE ListSpaces(r) \/ CreateSpace(r) \/ CreateFolder(r)
      BY <2>3 DEF ListSpaces, CreateSpace, CreateFolder, Put, records
    <2>4. CASE CheckSpace(r)
      BY <2>1, <2>4 DEF CheckSpace, Put, records
    <2>5. CASE CreateNode(r)
      BY <2>1, <2>5 DEF CreateNode, Put, records
    <2>6. CASE CreateWikiDoc(r)
      BY <2>1, <2>6 DEF CreateWikiDoc, Put, records
    <2>7. CASE MoveWikiDoc(r)
      BY <2>1, <2>7 DEF MoveWikiDoc, Record, Forget, Reset, Put
    <2>8. CASE WriteDriveDoc(r)
      BY <2>8 DEF WriteDriveDoc, Record, Forget, Reset, Put
    <2> QED BY <2>2, <2>3, <2>4, <2>5, <2>6, <2>7, <2>8 DEF RunStep
  <1> QED BY <1>1, <1>2 DEF RunAlone

\* What is left to show for a step of run r is about its own copies.
LEMMA CopiesFromOwn ==
  ASSUME IInv, CopiesInv, NEW r, input' = input, options' = options, WritesFor(r),
         \A s \in Runs : s # r =>
             pc'[s] = pc[s] /\ at'[s] = at[s] /\ pub'[s] = pub[s] /\ wikiPub'[s] = wikiPub[s],
         r \in Runs => CopiesOK(r)'
  PROVE  CopiesInv'
  <1> SUFFICES ASSUME NEW s \in Runs, s # r PROVE CopiesOK(s)'
    BY DEF CopiesInv
  <1>1. HandlerDocs(s)' = HandlerDocs(s) /\ \A d \in HandlerDocs(s) : docs'[d].i = docs[d].i
    BY WritesOthers
  <1>2. \A i : Noted(s, i)' = Noted(s, i) /\ Noted(s, i) \in Nat
    BY DEF Noted, One, InHand, DriveTarget, ToWiki
  <1>3. \A i \in DOMAIN input[s].docs : Noted(s, i) <= Noted(s, i)'
    BY <1>2
  <1> QED BY <1>1, <1>3, CopiesQuiet DEF CopiesInv

LEMMA AppendDomain ==
  ASSUME NEW list \in Seq(Entry), NEW e
  PROVE  DOMAIN Append(list, e) = DOMAIN list \cup {Len(list) + 1} /\ Len(list) + 1 \notin DOMAIN list
  <1>1. list \in Seq(Entry \cup {e})
    BY SeqMonotonic
  <1>2. Append(list, e) \in Seq(Entry \cup {e}) /\ Len(Append(list, e)) = Len(list) + 1
    BY <1>1, AppendProperties
  <1>3. /\ DOMAIN list = 1..Len(list) /\ Len(list) \in Nat
        /\ DOMAIN Append(list, e) = 1..(Len(list) + 1)
    BY <1>2
  <1> QED BY <1>3

\* A step that writes no document, in a stage with nothing in hand.
LEMMA CopiesBefore ==
  ASSUME IInv, CopiesInv, NEW r \in Runs, RunAlone(r), docs' = docs,
         pub[r].docs = <<>>, pc[r] # "wikiMove", wikiPub[r] = <<>> \/ wikiPub'[r] = wikiPub[r]
  PROVE  CopiesInv'
  <1>1. WritesFor(r) /\ HandlerDocs(r)' = HandlerDocs(r) /\ \A d \in HandlerDocs(r) : docs'[d].i = docs[d].i
    BY NothingWritten DEF HandlerDocs
  <1>2. ASSUME NEW i PROVE Noted(r, i) <= Noted(r, i)'
    <2>1. Noted(r, i) = One(i \in DOMAIN wikiPub[r])
      BY DEF Noted, One, InHand
    <2>2. Noted(r, i)' \in Nat /\ Noted(r, i)' >= One(i \in DOMAIN wikiPub'[r])
      BY DEF Noted, One
    <2>3. One(i \in DOMAIN wikiPub[r]) <= One(i \in DOMAIN wikiPub'[r])
      BY DEF One
    <2>4. One(i \in DOMAIN wikiPub[r]) \in Nat /\ One(i \in DOMAIN wikiPub'[r]) \in Nat
      BY DEF One
    <2> QED BY <2>1, <2>2, <2>3, <2>4
  <1>3. CopiesOK(r)'
    BY <1>1, <1>2, CopiesQuiet DEF CopiesInv, RunAlone
  <1> QED BY <1>1, <1>3, CopiesFromOwn DEF RunAlone

LEMMA CopiesEarly ==
  ASSUME IInv, CopiesInv, NEW r \in Runs, RunAlone(r),
         \/ Begin(r) \/ ListSpaces(r) \/ CreateSpace(r) \/ CheckSpace(r) \/ CreateNode(r)
         \/ CreateFolder(r)
  PROVE  CopiesInv'
  <1>1. docs' = docs /\ pc[r] # "wikiMove" /\ pc[r] \notin {"driveDoc", "done"}
    BY DEF Begin, ListSpaces, CreateSpace, CheckSpace, CreateNode, CreateFolder, feishu
  <1>2. pub[r].docs = <<>>
    BY <1>1 DEF IInv, StageOK
  <1>3. wikiPub[r] = <<>> \/ wikiPub'[r] = wikiPub[r]
    <2>1. CASE CreateFolder(r)
      BY <2>1 DEF CreateFolder, records
    <2>2. CASE ~CreateFolder(r)
      <3>1. pc[r] \in {"start"} \cup (WikiStages \ {"wikiDoc", "wikiMove"})
        BY <2>2 DEF Begin, ListSpaces, CreateSpace, CheckSpace, CreateNode, WikiStages
      <3> QED BY <3>1 DEF IInv, StageOK
    <2> QED BY <2>1, <2>2
  <1> QED BY <1>1, <1>2, <1>3, CopiesBefore

\* The document is in hand, or its loss is noted.
LEMMA CopiesCreateWikiDoc ==
  ASSUME IInv, CopiesInv, NEW r \in Runs, RunAlone(r), CreateWikiDoc(r) PROVE CopiesInv'
  <1>1. /\ pc[r] = "wikiDoc" /\ StageOK(r) /\ at[r] \in Nat /\ at[r] # 0
        /\ wikiPub \in [Runs -> Seq(Entry)] /\ wikiPub[r] \in Seq(Entry) /\ r \in Procs
        /\ pc \in [Procs -> RunStages \cup OrganizerStages] /\ docs \in Seq(DocRecord)
    <2>1. pc[r] = "wikiDoc" /\ StageOK(r)
      BY DEF CreateWikiDoc, IInv
    <2>2. at[r] \in DOMAIN input[r].docs /\ input[r].docs \in Seq(Types)
      BY <2>1 DEF StageOK, Busy, IInv, TypeOK, Input
    <2>3. at[r] \in Nat /\ at[r] # 0
      BY <2>2
    <2> QED BY <2>1, <2>3 DEF IInv, TypeOK, ResultTypes, ProcessTypes, FeishuTypes, Procs
  <1>2. pub[r].docs = <<>> /\ Len(wikiPub[r]) = at[r] - 1
    BY <1>1 DEF StageOK
  <1> DEFINE e == NewDoc(r, at[r], "loose", 0, "handler")
             list == Append(wikiPub[r], Listed(at[r], "failed", 0))
  <1>3. /\ docs' = docs \/ docs' = Append(docs, e)
        /\ \/ pc' = [pc EXCEPT ![r] = "wikiMove"] /\ at' = at /\ wikiPub' = wikiPub
           \/ wikiPub' = [wikiPub EXCEPT ![r] = list]
    BY DEF CreateWikiDoc, WikiFailed, Put, records
  <1>4. e \in DocRecord /\ e.run = r /\ e.by = "handler" /\ e.i = at[r]
    BY <1>1 DEF NewDoc, DocRecord
  <1>5. DOMAIN list = DOMAIN wikiPub[r] \cup {at[r]} /\ at[r] \notin DOMAIN wikiPub[r]
    BY <1>1, <1>2, AppendDomain
  <1> HIDE DEF e, list
  <1>6. ASSUME NEW i PROVE Noted(r, i)' >= Noted(r, i) + One(i = at[r]) /\ Noted(r, i)' >= Noted(r, i)
    <2>1. Noted(r, i) = One(i \in DOMAIN wikiPub[r])
      BY <1>1, <1>2 DEF Noted, One, InHand
    <2>2. /\ Noted(r, i)' \in Nat /\ Noted(r, i)' >= One(i \in DOMAIN wikiPub'[r]) + One(InHand(r, i))'
      BY DEF Noted, One
    <2>3. One(i \in DOMAIN wikiPub'[r]) + One(InHand(r, i))' >= One(i \in DOMAIN wikiPub[r]) + One(i = at[r])
      <3>1. CASE pc' = [pc EXCEPT ![r] = "wikiMove"] /\ at' = at /\ wikiPub' = wikiPub
        <4>1. InHand(r, i)' <=> i = at[r]
          BY <1>1, <3>1 DEF InHand
        <4> QED BY <3>1, <4>1 DEF One
      <3>2. CASE wikiPub' = [wikiPub EXCEPT ![r] = list]
        <4>1. wikiPub'[r] = list
          BY <1>1, <3>2
        <4> QED BY <1>5, <4>1 DEF One
      <3> QED BY <1>3, <3>1, <3>2
    <2>4. /\ One(i \in DOMAIN wikiPub[r]) \in Nat /\ One(i = at[r]) \in Nat
          /\ One(i \in DOMAIN wikiPub'[r]) \in Nat /\ One(InHand(r, i))' \in Nat
      BY DEF One
    <2> QED BY <2>1, <2>2, <2>3, <2>4
  <1>7. CopiesOK(r)' /\ WritesFor(r)
    <2>1. CASE docs' = docs
      <3>1. WritesFor(r) /\ HandlerDocs(r)' = HandlerDocs(r) /\ \A d \in HandlerDocs(r) : docs'[d].i = docs[d].i
        BY <2>1, NothingWritten DEF HandlerDocs
      <3> QED BY <1>6, <3>1, CopiesQuiet DEF CopiesInv, RunAlone
    <2>2. CASE docs' = Append(docs, e)
      BY <1>1, <1>4, <1>6, <2>2, AppendWrites, CopiesMade DEF CopiesInv, RunAlone
    <2> QED BY <1>3, <2>1, <2>2
  <1> QED BY <1>7, CopiesFromOwn DEF RunAlone

\* The document in hand becomes an entry.
LEMMA CopiesMoveWikiDoc ==
  ASSUME IInv, CopiesInv, NEW r \in Runs, RunAlone(r), MoveWikiDoc(r) PROVE CopiesInv'
  <1>1. /\ pc[r] = "wikiMove" /\ StageOK(r) /\ at[r] \in Nat
        /\ wikiPub \in [Runs -> Seq(Entry)] /\ wikiPub[r] \in Seq(Entry)
        /\ docs \in Seq(DocRecord)
    BY DEF MoveWikiDoc, IInv, TypeOK, ResultTypes, ProcessTypes, FeishuTypes
  <1>2. pub[r].docs = <<>> /\ Len(wikiPub[r]) = at[r] - 1
    BY <1>1 DEF StageOK
  <1>3. PICK e : wikiPub' = [wikiPub EXCEPT ![r] = Append(wikiPub[r], e)]
    BY DEF MoveWikiDoc, WikiFailed, Put
  <1>4. docs' = docs \/ docs' = MoveTo(doc[r], Destination(r))
    BY DEF MoveWikiDoc
  <1>5. DOMAIN wikiPub'[r] = DOMAIN wikiPub[r] \cup {at[r]} /\ at[r] \notin DOMAIN wikiPub[r]
    BY <1>1, <1>2, <1>3, AppendDomain
  <1>6. \A s : WritesFor(s)
    BY <1>1, <1>4, NothingWritten, MoveWrites
  <1>7. HandlerDocs(r)' = HandlerDocs(r) /\ \A d \in HandlerDocs(r) : docs'[d].i = docs[d].i
    <2>1. r # Organizer
      BY PublishingAssumption DEF PublishingAssumption
    <2> QED BY <1>6, <2>1, WritesOthers
  <1>8. ASSUME NEW i PROVE Noted(r, i)' >= Noted(r, i)
    <2>1. Noted(r, i) = One(i \in DOMAIN wikiPub[r]) + One(i = at[r])
      BY <1>1, <1>2 DEF Noted, One, InHand
    <2>2. Noted(r, i)' \in Nat /\ Noted(r, i)' >= One(i \in DOMAIN wikiPub'[r])
      BY DEF Noted, One
    <2>3. One(i \in DOMAIN wikiPub'[r]) >= One(i \in DOMAIN wikiPub[r]) + One(i = at[r])
      BY <1>5 DEF One
    <2>4. One(i \in DOMAIN wikiPub[r]) + One(i = at[r]) \in Nat /\ One(i \in DOMAIN wikiPub'[r]) \in Nat
      BY DEF One
    <2> QED BY <2>1, <2>2, <2>3, <2>4
  <1>9. CopiesOK(r)'
    BY <1>7, <1>8, CopiesQuiet DEF CopiesInv, RunAlone, Noted, One
  <1> QED BY <1>6, <1>9, CopiesFromOwn DEF RunAlone

\* Every Drive document, failed or not, has its entry.
LEMMA CopiesWriteDriveDoc ==
  ASSUME IInv, CopiesInv, NEW r \in Runs, RunAlone(r), WriteDriveDoc(r) PROVE CopiesInv'
  <1>1. /\ pc[r] = "driveDoc" /\ StageOK(r) /\ at[r] \in Nat /\ folder[r] \in Nat
        /\ pub \in [Runs -> PubFile] /\ pub[r].docs \in Seq(Entry)
        /\ wikiPub' = wikiPub /\ docs \in Seq(DocRecord)
    BY DEF WriteDriveDoc, IInv, TypeOK, ResultTypes, ProcessTypes, FeishuTypes, PubFile
  <1>2. Len(pub[r].docs) = at[r] - 1
    BY <1>1 DEF StageOK
  <1> DEFINE e == NewDoc(r, at[r], "drive", folder[r], "handler")
  <1>3. /\ \/ docs' = docs
           \/ Overwrites(input[r]) /\ docs' = [docs EXCEPT ![UserFile(r)].i = at[r]]
           \/ docs' = Append(docs, e)
        /\ \E entry, status :
              pub' = [pub EXCEPT ![r] = [status |-> status, docs |-> Append(pub[r].docs, entry),
                                         fallback |-> ToWiki(r)]]
    BY DEF WriteDriveDoc, Record, Put
  <1>4. PICK entry : pub'[r].docs = Append(pub[r].docs, entry) /\ pub'[r].fallback = ToWiki(r)
    BY <1>1, <1>3
  <1>5. DOMAIN pub'[r].docs = DOMAIN pub[r].docs \cup {at[r]} /\ at[r] \notin DOMAIN pub[r].docs
    BY <1>1, <1>2, <1>4, AppendDomain
  <1>6. DriveTarget(r)'
    BY <1>4 DEF DriveTarget, ToWiki, RunAlone
  <1>7. e \in DocRecord /\ e.run = r /\ e.by = "handler" /\ e.i = at[r]
    BY <1>1 DEF NewDoc, DocRecord
  <1> HIDE DEF e
  <1>8. ASSUME NEW i PROVE /\ Noted(r, i)' >= Noted(r, i) + One(i = at[r])
                           /\ Noted(r, i)' >= Noted(r, i) /\ Noted(r, i)' >= One(i = at[r])
    <2>1. Noted(r, i) <= One(i \in DOMAIN wikiPub[r]) + One(i \in DOMAIN pub[r].docs)
          /\ Noted(r, i) \in Nat
      BY <1>1 DEF Noted, One, InHand
    <2>2. Noted(r, i)' >= One(i \in DOMAIN wikiPub[r]) + One(i \in DOMAIN pub'[r].docs)
          /\ Noted(r, i)' \in Nat
      BY <1>1, <1>6 DEF Noted, One
    <2>3. One(i \in DOMAIN pub'[r].docs) = One(i \in DOMAIN pub[r].docs) + One(i = at[r])
      BY <1>5 DEF One
    <2>4. /\ One(i \in DOMAIN pub[r].docs) \in Nat /\ One(i = at[r]) \in Nat
          /\ One(i \in DOMAIN wikiPub[r]) \in Nat /\ One(i \in DOMAIN pub'[r].docs) \in Nat
      BY DEF One
    <2> QED BY <2>1, <2>2, <2>3, <2>4
  <1>9. CopiesOK(r)' /\ WritesFor(r)
    <2>1. CASE docs' = docs
      <3>1. WritesFor(r) /\ HandlerDocs(r)' = HandlerDocs(r) /\ \A d \in HandlerDocs(r) : docs'[d].i = docs[d].i
        BY <2>1, NothingWritten DEF HandlerDocs
      <3> QED BY <1>8, <3>1, CopiesQuiet DEF CopiesInv, RunAlone, Noted, One
    <2>2. CASE Overwrites(input[r]) /\ docs' = [docs EXCEPT ![UserFile(r)].i = at[r]]
      <3> DEFINE u == UserFile(r)
      <3>1. u \in DOMAIN docs /\ docs[u].run = r /\ docs[u].by = "user"
        BY <2>2, UserFileIs
      <3>2. docs' = [docs EXCEPT ![u].i = at[r]] /\ FileNamed(r, u)
        BY <2>2, <3>1 DEF FileNamed
      <3>3. at[r] \in Nat \ {0}
        <4>1. at[r] \in DOMAIN input[r].docs /\ input[r].docs \in Seq(Types)
          BY <1>1 DEF StageOK, Busy, IInv, TypeOK, Input
        <4> QED BY <4>1
      <3> HIDE DEF u
      <3>4. WritesFor(r)
        BY <1>1, <2>2, <3>1, <3>2, <3>3, OverwriteWrites
      <3>5. input' = input
        BY DEF RunAlone
      <3>6. \A i \in DOMAIN input[r].docs : Noted(r, i)' >= One(i = at[r])
        BY <1>8
      <3>7. CopiesOK(r)'
        <4>1. Overwrites(input[r]) /\ u \in DOMAIN docs /\ FileNamed(r, u)
          BY <2>2, <3>1, <3>2
        <4> QED BY <3>2, <3>5, <3>6, <4>1, CopiesOverwritten
      <3> QED BY <3>4, <3>7
    <2>3. CASE docs' = Append(docs, e)
      BY <1>1, <1>7, <1>8, <2>3, AppendWrites, CopiesMade DEF CopiesInv, RunAlone
    <2> QED BY <1>3, <2>1, <2>2, <2>3
  <1> QED BY <1>9, CopiesFromOwn DEF RunAlone

LEMMA InitCopies == Init => CopiesInv
  <1> SUFFICES ASSUME Init, NEW r \in Runs, NEW i \in DOMAIN input[r].docs
               PROVE  Cardinality(Copies(r, i)) <= Noted(r, i)
    BY DEF CopiesInv, CopiesOK
  <1>1. IInv /\ pc[r] = "start"
    BY InitIInv DEF Init, Procs
  <1>2. i # 0
    BY <1>1 DEF IInv, TypeOK, Input
  <1>3. Copies(r, i) = {}
    BY <1>1, <1>2 DEF Copies, HandlerDocs, IInv, DocumentOK
  <1>4. Cardinality(Copies(r, i)) = 0
    BY <1>3, FS_EmptySet
  <1> QED BY <1>4 DEF Noted, One

LEMMA NextCopies == IInv /\ CopiesInv /\ [Next]_vars => CopiesInv'
  <1> SUFFICES ASSUME IInv, CopiesInv, [Next]_vars PROVE CopiesInv'
    OBVIOUS
  <1>1. ASSUME NEW r \in Runs, RunStep(r) PROVE CopiesInv'
    <2>1. RunAlone(r)
      BY <1>1, RunStepAlone
    <2> QED BY <1>1, <2>1, CopiesEarly, CopiesCreateWikiDoc, CopiesMoveWikiDoc, CopiesWriteDriveDoc
            DEF RunStep
  <1>2. \A s \in Runs : s # Organizer
    BY PublishingAssumption DEF PublishingAssumption
  <1>3. CASE OrgStart \/ OrgStep
    <2>1. \A s \in Runs : pc'[s] = pc[s]
      <3>1. pc' = pc \/ \E stage : pc' = [pc EXCEPT ![Organizer] = stage]
        BY <1>3 DEF OrgStart, OrgStep, OrgListSpaces, OrgCreateSpace, OrgNode, OrgFolder, OrgMap,
           OrgSkipDoc, OrgRecreate, OrgRecreateMove, OrgMove, OrgEnd, Forget, Put
      <3> QED BY <1>2, <3>1 DEF IInv, TypeOK, ProcessTypes, Procs
    <2> QED BY <1>2, <1>3, <2>1, CommandWrites, CopiesFromOwn
  <1>4. CASE UNCHANGED vars
    <2>1. /\ input' = input /\ options' = options /\ docs' = docs /\ pc' = pc /\ at' = at
          /\ pub' = pub /\ wikiPub' = wikiPub
      BY <1>4 DEF vars, memory, records, feishu
    <2> QED BY <1>2, <2>1, NothingWritten, CopiesFromOwn
  <1> QED BY <1>1, <1>3, <1>4 DEF Next

LEMMA CopiesNoted == ASSUME IInv, CopiesInv PROVE CopiesAreRecorded
  <1> SUFFICES ASSUME NEW r \in Runs, pub[r].status # "none", NEW i \in DOMAIN input[r].docs
               PROVE  Cardinality({d \in HandlerDocs(r) : docs[d].i = i})
                        <= Cardinality({n \in DOMAIN wikiPub[r] : wikiPub[r][n].i = i})
                           + (IF DriveTarget(r)
                              THEN Cardinality({n \in DOMAIN pub[r].docs : pub[r].docs[n].i = i}) ELSE 0)
    BY DEF CopiesAreRecorded
  <1>1. pc[r] = "done" /\ ResultOK(r)
    BY DEF IInv, StageOK
  <1>2. ASSUME NEW list, ListOK(input[r], r, list, docs, nodes)
        PROVE  Cardinality({n \in DOMAIN list : list[n].i = i}) = One(i \in DOMAIN list)
    <2>1. \A n \in DOMAIN list : list[n].i = n
      BY <1>2 DEF ListOK, EntryOK
    <2>2. CASE i \in DOMAIN list
      <3>1. {n \in DOMAIN list : list[n].i = i} = {i}
        BY <2>1, <2>2
      <3>2. Cardinality({i}) = 1
        BY FS_Singleton
      <3> QED BY <2>2, <3>1, <3>2 DEF One
    <2>3. CASE i \notin DOMAIN list
      <3>1. {n \in DOMAIN list : list[n].i = i} = {}
        BY <2>1, <2>3
      <3> QED BY <2>3, <3>1, FS_EmptySet DEF One
    <2> QED BY <2>2, <2>3
  <1>3. Cardinality(Copies(r, i)) <= Noted(r, i)
    BY DEF CopiesInv, CopiesOK
  <1>4. Noted(r, i) = One(i \in DOMAIN wikiPub[r]) + One(DriveTarget(r) /\ i \in DOMAIN pub[r].docs)
    BY <1>1 DEF Noted, One, InHand
  <1>5. /\ Cardinality({n \in DOMAIN wikiPub[r] : wikiPub[r][n].i = i}) = One(i \in DOMAIN wikiPub[r])
        /\ Cardinality({n \in DOMAIN pub[r].docs : pub[r].docs[n].i = i}) = One(i \in DOMAIN pub[r].docs)
    BY <1>1, <1>2 DEF ResultOK
  <1>6. One(DriveTarget(r) /\ i \in DOMAIN pub[r].docs)
          = IF DriveTarget(r) THEN One(i \in DOMAIN pub[r].docs) ELSE 0
    BY DEF One
  <1> QED BY <1>3, <1>4, <1>5, <1>6 DEF Copies

\* Every document a finished run made is in one of its records.
THEOREM CopiesRecorded == Spec => []CopiesAreRecorded
  <1>1. Spec => [](IInv /\ CopiesInv)
    BY Invariant, InitCopies, NextCopies, PTL DEF Spec
  <1>2. IInv /\ CopiesInv => CopiesAreRecorded
    BY CopiesNoted
  <1> QED BY <1>1, <1>2, PTL

-----------------------------------------------------------------------------
(* What is made is made once.                                               *)

(* Who is at work is alone, and nothing has failed yet.                     *)
Quiet == ~overlap /\ faults = 0
OnlyOne == \A p, q \in Procs : Busy(p) /\ Busy(q) => p = q

(* What the process at work remembers of the registries, as far as it will  *)
(* use it, is what the files say.                                           *)
RunRemembers(r) ==
    /\ pc[r] \in {"checkSpace", "wikiNode", "wikiDoc", "wikiMove"} => mem[r].wiki = wikiReg
    /\ pc[r] = "folder" => mem[r].drive = driveReg /\ driveReg[input[r].project] = 0
CommandRemembers ==
    Busy(Organizer) => mem[Organizer].wiki = wikiReg /\ mem[Organizer].drive = driveReg
Remembered == CommandRemembers /\ \A r \in Runs : RunRemembers(r)

(* The one space is where the command works; nobody creates a second.       *)
SpaceKnown ==
    /\ spaces <= 1 /\ wikiReg.space <= spaces
    /\ \A q \in Procs : pc[q] = "createSpace" => spaces = 0
    /\ pc[Organizer] \in {"work", "recreateMove", "moveFile"} => space[Organizer] = 1 /\ spaces = 1

(* The registries know every folder, every node - one that the command made *)
(* with its space - and every copy the command has put into the wiki.       *)
FoldersKnown ==
    /\ \A f \in DOMAIN folders : driveReg[folders[f]] # 0
    /\ \A f, g \in DOMAIN folders : folders[f] = folders[g] => f = g
NodesKnown ==
    /\ \A n \in DOMAIN nodes :
          LET e == wikiReg.nodes[nodes[n].key]
          IN e.token # 0 /\ (nodes[n].by = "organizer" => e.space = 1)
    /\ \A m, n \in DOMAIN nodes :
          nodes[m].key = nodes[n].key /\ nodes[m].by = nodes[n].by => m = n
CopyOf(r, i, d) == docs[d].by = "organizer" /\ docs[d].run = r /\ docs[d].i = i
CopyNoted(r, i) == [run |-> r, type |-> input[r].docs[i], space |-> 1] \in wikiReg.docs
CopyInHand(r, i) ==
    pc[Organizer] = "recreateMove" /\ Task.run = r /\ pub[r].docs[Task.n].i = i
CopiesKnown ==
    \A d \in DOMAIN docs : docs[d].by = "organizer" =>
        /\ CopyNoted(docs[d].run, docs[d].i) \/ CopyInHand(docs[d].run, docs[d].i)
        /\ \A e \in DOMAIN docs : CopyOf(docs[d].run, docs[d].i, e) => d = e

Alone == OnlyOne /\ Remembered /\ SpaceKnown /\ FoldersKnown /\ NodesKnown /\ CopiesKnown
AloneInv == Quiet => Alone

LEMMA Unfailed ==
  ASSUME TypeOK, NEW o, Charge(o), faults' = 0
  PROVE  o = "ok" /\ faults = 0
  BY DEF TypeOK, Charge

LEMMA ProcessesAre ==
  Organizer \in Procs /\ \A r \in Runs : r \in Procs /\ r # Organizer
  BY PublishingAssumption DEF PublishingAssumption, Procs

(* The step of a run while no other process is at work.                     *)
LEMMA RunsTurn ==
  ASSUME IInv, Alone, NEW r \in Runs, \A q \in Procs \ {r} : ~Busy(q) /\ pc'[q] = pc[q],
         RunRemembers(r)', spaces' <= 1, wikiReg'.space <= spaces',
         pc'[r] = "createSpace" => spaces' = 0
  PROVE  OnlyOne' /\ Remembered' /\ SpaceKnown' /\ \A s, i : ~CopyInHand(s, i)
  <1>1. \A q \in Procs \ {r} : pc'[q] \in {"start", "done"} /\ pc[q] \in {"start", "done"}
    BY DEF Busy
  <1>2. Organizer \in Procs \ {r} /\ \A s \in Runs : s # r => s \in Procs \ {r}
    BY ProcessesAre
  <1>3. OnlyOne'
    BY <1>1 DEF OnlyOne, Busy
  <1>4. CommandRemembers' /\ \A s \in Runs : s # r => RunRemembers(s)'
    BY <1>1, <1>2 DEF CommandRemembers, RunRemembers, Busy
  <1>5. SpaceKnown'
    BY <1>1, <1>2 DEF SpaceKnown
  <1> QED BY <1>1, <1>2, <1>3, <1>4, <1>5 DEF Remembered, CopyInHand

LEMMA RunIsAlone ==
  ASSUME Alone, NEW r \in Runs, Busy(r)
  PROVE  \A q \in Procs \ {r} : ~Busy(q)
  BY ProcessesAre DEF Alone, OnlyOne

(* The step of the command while no run is at work.                         *)
LEMMA CommandsTurn ==
  ASSUME IInv, Alone, \A r \in Runs : ~Busy(r) /\ pc'[r] = pc[r],
         CommandRemembers', spaces' <= 1, wikiReg'.space <= spaces',
         pc'[Organizer] = "createSpace" => spaces' = 0,
         pc'[Organizer] \in {"work", "recreateMove", "moveFile"} =>
             space'[Organizer] = 1 /\ spaces' = 1
  PROVE  OnlyOne' /\ Remembered' /\ SpaceKnown'
  <1>1. \A r \in Runs : pc'[r] \in {"start", "done"}
    BY DEF Busy
  <1>2. OnlyOne'
    BY <1>1 DEF OnlyOne, Busy, Procs
  <1>3. \A s \in Runs : RunRemembers(s)'
    BY <1>1 DEF RunRemembers
  <1>4. SpaceKnown'
    BY <1>1 DEF SpaceKnown, Procs
  <1> QED BY <1>2, <1>3, <1>4 DEF Remembered

(* No copy of the command's is made or forgotten.                           *)
LEMMA CopiesStayKnown ==
  ASSUME CopiesKnown, wikiReg.docs \subseteq wikiReg'.docs, input' = input,
         \A d \in DOMAIN docs' : docs'[d].by = "organizer" =>
             d \in DOMAIN docs /\ docs[d].by = "organizer"
               /\ docs'[d].run = docs[d].run /\ docs'[d].i = docs[d].i,
         \A r, i : CopyInHand(r, i) => CopyInHand(r, i)'
  PROVE  CopiesKnown'
  <1> SUFFICES ASSUME NEW d \in DOMAIN docs', docs'[d].by = "organizer"
               PROVE  /\ CopyNoted(docs[d].run, docs[d].i)' \/ CopyInHand(docs[d].run, docs[d].i)'
                      /\ \A e \in DOMAIN docs' : CopyOf(docs[d].run, docs[d].i, e)' => d = e
    BY DEF CopiesKnown, CopyOf, CopyNoted, CopyInHand
  <1> DEFINE r == docs[d].run
             i == docs[d].i
  <1>1. /\ d \in DOMAIN docs /\ docs[d].by = "organizer"
        /\ docs'[d].run = docs[d].run /\ docs'[d].i = docs[d].i
    OBVIOUS
  <1>2. CopyNoted(r, i) \/ CopyInHand(r, i)
    BY <1>1 DEF CopiesKnown
  <1> QED BY <1>1, <1>2 DEF CopiesKnown, CopyNoted, CopyOf

(* Registries, folders and nodes stay as they are.                          *)
LEMMA MadeStays ==
  ASSUME Alone, wikiReg'.nodes = wikiReg.nodes, driveReg' = driveReg, UNCHANGED <<nodes, folders>>
  PROVE  FoldersKnown' /\ NodesKnown'
  BY DEF Alone, FoldersKnown, NodesKnown

LEMMA BeginAlone ==
  ASSUME IInv, Alone, NEW r \in Runs, Begin(r), ~overlap' PROVE Alone'
  <1>1. /\ pc \in [Procs -> RunStages \cup OrganizerStages] /\ r \in Procs /\ r # Organizer
        /\ Organizer \in Procs /\ pc[r] = "start" /\ mem \in [Procs -> Memory]
    BY ProcessesAre DEF IInv, TypeOK, ProcessTypes, Begin
  <1>2. /\ UNCHANGED <<input, org, wikiReg, driveReg, spaces, nodes, folders, docs>>
        /\ input' = input /\ wikiReg' = wikiReg /\ docs' = docs /\ spaces' = spaces
    BY DEF Begin, registries, feishu, command
  <1>3. PICK p \in {"done", "listSpaces", "folder", "driveDoc"} : pc' = [pc EXCEPT ![r] = p]
    BY DEF Begin, Forget, EnterDrive, Put
  <1>4. \A q \in Procs : q # r => pc'[q] = pc[q] /\ mem'[q] = mem[q] /\ space'[q] = space[q]
    BY <1>1 DEF Begin, Forget, EnterDrive, Put, memory, IInv, TypeOK, ProcessTypes
  <1>5. pc'[r] = p
    BY <1>1, <1>3
  <1>6. CopiesKnown'
    <2>1. ASSUME NEW s, NEW i, CopyInHand(s, i) PROVE CopyInHand(s, i)'
      <3>1. /\ pc[Organizer] = "recreateMove" /\ Task.run = s /\ pub[s].docs[Task.n].i = i
            /\ org.work # <<>> /\ Task.kind = "doc"
        BY <2>1 DEF CopyInHand, IInv, CommandOK
      <3>2. s \in Runs /\ pub[s].status # "none"
        BY <3>1, TaskIs
      <3>3. s # r
        BY <1>1, <3>2 DEF IInv, StageOK
      <3>4. pub'[s] = pub[s] /\ Task' = Task
        BY <1>2, <3>2, <3>3 DEF Begin, Record, Put, IInv, TypeOK, ResultTypes, Task
      <3> QED BY <1>1, <1>4, <3>1, <3>4 DEF CopyInHand
    <2> QED BY <1>2, <2>1, CopiesStayKnown DEF Alone
  <1>7. FoldersKnown' /\ NodesKnown'
    BY <1>2, MadeStays
  <1>8. CASE p = "done"
    <2>1. OnlyOne'
      BY <1>4, <1>5, <1>8 DEF Alone, OnlyOne, Busy
    <2>2. Remembered'
      <3>1. CommandRemembers'
        BY <1>1, <1>2, <1>4 DEF Alone, Remembered, CommandRemembers, Busy
      <3>2. \A s \in Runs : s # r => RunRemembers(s)'
        BY <1>2, <1>4, ProcessesAre DEF Alone, Remembered, RunRemembers
      <3>3. RunRemembers(r)'
        BY <1>5, <1>8 DEF RunRemembers
      <3> QED BY <3>1, <3>2, <3>3 DEF Remembered
    <2>3. SpaceKnown'
      BY <1>1, <1>2, <1>4, <1>5, <1>8 DEF Alone, SpaceKnown
    <2> QED BY <1>6, <1>7, <2>1, <2>2, <2>3 DEF Alone
  <1>9. CASE p # "done"
    <2>1. \A q \in Procs \ {r} : ~Busy(q)
      <3>1. NoteOverlap(r)
        BY <1>1, <1>5, <1>9 DEF Begin, Forget, Put
      <3> QED BY <3>1 DEF NoteOverlap
    <2>2. RunRemembers(r)'
      <3>1. CASE p = "folder"
        <4>1. EnterDrive(r)
          BY <1>1, <1>5, <3>1 DEF Begin, Forget, Put
        <4>2. mem'[r].drive = driveReg /\ driveReg[input[r].project] = 0
          <5>1. mem'[r] = [EmptyMem EXCEPT !.drive = driveReg]
            BY <1>1, <4>1 DEF EnterDrive, Put
          <5>2. pc'[r] = IF driveReg[input[r].project] = 0 THEN "folder" ELSE "driveDoc"
            BY <1>1, <4>1 DEF EnterDrive, Put
          <5> QED BY <1>5, <3>1, <5>1, <5>2 DEF EmptyMem
        <4> QED BY <1>2, <1>5, <3>1, <4>2 DEF RunRemembers
      <3> QED BY <1>5, <3>1, <1>9 DEF RunRemembers
    <2>3. OnlyOne' /\ Remembered' /\ SpaceKnown'
      BY <1>2, <1>4, <1>5, <2>1, <2>2, RunsTurn DEF Alone, SpaceKnown
    <2> QED BY <1>6, <1>7, <2>3 DEF Alone
  <1> QED BY <1>8, <1>9

(* A run's step that makes no folder, node or copy of the command's.        *)
LEMMA QuietRunStep ==
  ASSUME IInv, Alone, NEW r \in Runs, Busy(r), NEW p, pc' = [pc EXCEPT ![r] = p],
         RunRemembers(r)', spaces' <= 1, wikiReg'.space <= spaces',
         p = "createSpace" => spaces' = 0, input' = input,
         wikiReg'.nodes = wikiReg.nodes, driveReg' = driveReg, UNCHANGED <<nodes, folders>>,
         wikiReg.docs \subseteq wikiReg'.docs,
         \A d \in DOMAIN docs' : docs'[d].by = "organizer" =>
             d \in DOMAIN docs /\ docs[d].by = "organizer"
               /\ docs'[d].run = docs[d].run /\ docs'[d].i = docs[d].i
  PROVE  Alone'
  <1>1. \A q \in Procs \ {r} : ~Busy(q)
    BY RunIsAlone
  <1>2. pc'[r] = p /\ \A q \in Procs \ {r} : pc'[q] = pc[q]
    BY ProcessesAre DEF IInv, TypeOK, ProcessTypes
  <1>3. OnlyOne' /\ Remembered' /\ SpaceKnown' /\ \A s, i : ~CopyInHand(s, i)
    BY <1>1, <1>2, RunsTurn
  <1>4. CopiesKnown'
    BY <1>3, CopiesStayKnown DEF Alone
  <1> QED BY <1>3, <1>4, MadeStays DEF Alone

LEMMA ListSpacesAlone ==
  ASSUME IInv, Alone, NEW r \in Runs, ListSpaces(r), faults' = 0 PROVE Alone'
  <1>1. /\ pc[r] = "listSpaces" /\ Busy(r) /\ r \in Procs /\ mem \in [Procs -> Memory]
        /\ spaces \in Nat /\ wikiReg \in WikiFile
        /\ UNCHANGED <<input, wikiReg, driveReg, spaces, nodes, folders, docs>>
        /\ docs' = docs /\ spaces' = spaces /\ wikiReg' = wikiReg /\ driveReg' = driveReg /\ input' = input
    BY ProcessesAre DEF ListSpaces, Busy, IInv, TypeOK, ProcessTypes, RegistryTypes, FeishuTypes,
       registries, feishu
  <1>2. \/ /\ pc' = [pc EXCEPT ![r] = "checkSpace"] /\ mem' = [mem EXCEPT ![r].wiki = wikiReg]
        \/ /\ pc' = [pc EXCEPT ![r] = "createSpace"] /\ spaces = 0
    BY Unfailed DEF ListSpaces, IInv, Put
  <1>3. spaces <= 1 /\ wikiReg.space <= spaces
    BY DEF Alone, SpaceKnown
  <1>4. CASE pc' = [pc EXCEPT ![r] = "checkSpace"] /\ mem' = [mem EXCEPT ![r].wiki = wikiReg]
    <2>1. RunRemembers(r)'
      BY <1>1, <1>4, MemWiki DEF RunRemembers, IInv, TypeOK, ProcessTypes
    <2> QED BY <1>1, <1>3, <1>4, <2>1, QuietRunStep
  <1>5. CASE pc' = [pc EXCEPT ![r] = "createSpace"] /\ spaces = 0
    <2>1. RunRemembers(r)'
      BY <1>1, <1>5 DEF RunRemembers, IInv, TypeOK, ProcessTypes
    <2> QED BY <1>1, <1>3, <1>5, <2>1, QuietRunStep
  <1> QED BY <1>2, <1>4, <1>5

LEMMA CreateSpaceAlone ==
  ASSUME IInv, Alone, NEW r \in Runs, CreateSpace(r), faults' = 0 PROVE Alone'
  <1>1. /\ pc[r] = "createSpace" /\ Busy(r) /\ r \in Procs /\ mem \in [Procs -> Memory]
        /\ wikiReg \in WikiFile /\ pc' = [pc EXCEPT ![r] = "checkSpace"]
        /\ mem' = [mem EXCEPT ![r].wiki = wikiReg]
        /\ UNCHANGED <<nodes, folders>>
        /\ docs' = docs /\ wikiReg' = wikiReg /\ driveReg' = driveReg /\ input' = input
    BY ProcessesAre DEF CreateSpace, Busy, IInv, TypeOK, ProcessTypes, RegistryTypes, registries, Put
  <1>2. spaces' = spaces + 1
    BY Unfailed DEF CreateSpace, IInv
  <1>3. spaces = 0 /\ wikiReg.space <= spaces /\ wikiReg.space \in Nat
    BY <1>1 DEF Alone, SpaceKnown, WikiFile
  <1>4. spaces' <= 1 /\ wikiReg'.space <= spaces'
    BY <1>1, <1>2, <1>3
  <1>5. RunRemembers(r)'
    BY <1>1, MemWiki DEF RunRemembers, IInv, TypeOK, ProcessTypes
  <1> QED BY <1>1, <1>4, <1>5, QuietRunStep

LEMMA CheckSpaceAlone ==
  ASSUME IInv, Alone, NEW r \in Runs, CheckSpace(r), faults' = 0 PROVE Alone'
  <1>1. /\ pc[r] = "checkSpace" /\ Busy(r) /\ r \in Procs
        /\ UNCHANGED <<nodes, folders>> /\ spaces' = spaces
        /\ docs' = docs /\ wikiReg' = wikiReg /\ driveReg' = driveReg /\ input' = input
    BY ProcessesAre DEF CheckSpace, Busy, registries, feishu
  <1>2. mem' = mem /\ \E p \in {"wikiDoc", "wikiNode"} : pc' = [pc EXCEPT ![r] = p]
    BY Unfailed DEF CheckSpace, IInv, AfterNodes, Put
  <1>3. PICK p \in {"wikiDoc", "wikiNode"} : pc' = [pc EXCEPT ![r] = p]
    BY <1>2
  <1>4. mem[r].wiki = wikiReg
    BY <1>1 DEF Alone, Remembered, RunRemembers
  <1>5. RunRemembers(r)'
    BY <1>1, <1>2, <1>3, <1>4 DEF RunRemembers, IInv, TypeOK, ProcessTypes
  <1>6. spaces <= 1 /\ wikiReg.space <= spaces
    BY DEF Alone, SpaceKnown
  <1> QED BY <1>1, <1>3, <1>5, <1>6, QuietRunStep

LEMMA CreateWikiDocAlone ==
  ASSUME IInv, Alone, NEW r \in Runs, CreateWikiDoc(r), faults' = 0 PROVE Alone'
  <1> DEFINE new == NewDoc(r, at[r], "loose", 0, "handler")
  <1>1. /\ pc[r] = "wikiDoc" /\ Busy(r) /\ r \in Procs /\ docs \in Seq(DocRecord)
        /\ UNCHANGED <<nodes, folders>> /\ spaces' = spaces
        /\ wikiReg' = wikiReg /\ driveReg' = driveReg /\ input' = input
    BY ProcessesAre DEF CreateWikiDoc, Busy, IInv, TypeOK, FeishuTypes, registries
  <1>2. /\ mem' = mem /\ pc' = [pc EXCEPT ![r] = "wikiMove"]
        /\ docs' = Append(docs, new)
    BY Unfailed DEF CreateWikiDoc, IInv, Put
  <1>3. mem[r].wiki = wikiReg
    BY <1>1 DEF Alone, Remembered, RunRemembers
  <1>4. RunRemembers(r)'
    BY <1>1, <1>2, <1>3 DEF RunRemembers, IInv, TypeOK, ProcessTypes
  <1>5. \A d \in DOMAIN docs' : docs'[d].by = "organizer" => d \in DOMAIN docs /\ docs'[d] = docs[d]
    <2>1. new.by = "handler"
      BY DEF NewDoc
    <2> HIDE DEF new
    <2>2. \A d \in DOMAIN docs' : IF d \in DOMAIN docs THEN docs'[d] = docs[d] ELSE docs'[d] = new
      BY <1>1, <1>2
    <2> QED BY <2>1, <2>2
  <1>6. spaces <= 1 /\ wikiReg.space <= spaces
    BY DEF Alone, SpaceKnown
  <1> QED BY <1>1, <1>2, <1>4, <1>5, <1>6, QuietRunStep

LEMMA MoveWikiDocAlone ==
  ASSUME IInv, Alone, NEW r \in Runs, MoveWikiDoc(r), faults' = 0 PROVE Alone'
  <1> DEFINE noted == [mem[r].wiki EXCEPT
                          !.docs = @ \cup {[run |-> r, type |-> input[r].docs[at[r]], space |-> 0]}]
  <1>1. /\ pc[r] = "wikiMove" /\ Busy(r) /\ r \in Procs /\ docs \in Seq(DocRecord)
        /\ UNCHANGED <<nodes, folders>> /\ spaces' = spaces /\ mem \in [Procs -> Memory]
        /\ driveReg' = driveReg /\ input' = input /\ wikiReg \in WikiFile
    BY ProcessesAre DEF MoveWikiDoc, Busy, IInv, TypeOK, FeishuTypes, ProcessTypes, RegistryTypes
  <1>2. /\ docs' = MoveTo(doc[r], Destination(r)) /\ wikiReg' = noted
        /\ \/ pc' = [pc EXCEPT ![r] = "wikiDoc"] /\ mem' = [mem EXCEPT ![r].wiki = noted]
           \/ pc' = [pc EXCEPT ![r] = "done"]
    BY Unfailed DEF MoveWikiDoc, IInv, Put, Forget
  <1>3. mem[r].wiki = wikiReg
    BY <1>1 DEF Alone, Remembered, RunRemembers
  <1>4. /\ noted \in WikiFile /\ noted.nodes = wikiReg.nodes /\ noted.space = wikiReg.space
        /\ wikiReg.docs \subseteq noted.docs
    <2>1. at[r] \in DOMAIN input[r].docs /\ input[r].docs \in Seq(Types)
      BY <1>1 DEF IInv, StageOK, TypeOK, Input
    <2>2. input[r].docs[at[r]] \in Types
      BY <2>1
    <2> QED BY <1>1, <1>3, <2>2 DEF WikiFile
  <1> HIDE DEF noted
  <1>5. \A d \in DOMAIN docs' : d \in DOMAIN docs /\ docs'[d].run = docs[d].run
                                  /\ docs'[d].i = docs[d].i /\ docs'[d].by = docs[d].by
    <2>1. Destination(r) \in Nat
      <3>1. CategoryKey(input[r].project, input[r].docs[at[r]]) \in Keys
        <4>1. at[r] \in DOMAIN input[r].docs /\ input[r].docs \in Seq(Types)
              /\ input[r].project \in Projects
          BY <1>1 DEF IInv, StageOK, TypeOK, Input
        <4> QED BY <4>1, Constants
      <3> QED BY <1>1, <1>3, <3>1 DEF Destination, WikiFile
    <2> DEFINE ds == MoveTo(doc[r], Destination(r))
    <2>2. /\ DOMAIN ds = DOMAIN docs /\ \A d \in DOMAIN docs : d # doc[r] => ds[d] = docs[d]
          /\ doc[r] \in DOMAIN docs =>
                ds[doc[r]] = [run |-> docs[doc[r]].run, i |-> docs[doc[r]].i, place |-> "wiki",
                              node |-> Destination(r), by |-> docs[doc[r]].by]
      BY <1>1, <2>1, MoveToIs
    <2>3. docs' = ds
      BY <1>2
    <2> HIDE DEF ds
    <2> QED BY <2>2, <2>3
  <1>6. spaces' <= 1 /\ wikiReg'.space <= spaces'
    BY <1>1, <1>2, <1>4 DEF Alone, SpaceKnown
  <1>7. CASE pc' = [pc EXCEPT ![r] = "wikiDoc"] /\ mem' = [mem EXCEPT ![r].wiki = noted]
    <2>1. RunRemembers(r)'
      BY <1>1, <1>2, <1>4, <1>7, MemWiki DEF RunRemembers, IInv, TypeOK, ProcessTypes
    <2> QED BY <1>1, <1>2, <1>4, <1>5, <1>6, <1>7, <2>1, QuietRunStep
  <1>8. CASE pc' = [pc EXCEPT ![r] = "done"]
    <2>1. RunRemembers(r)'
      BY <1>1, <1>8 DEF RunRemembers, IInv, TypeOK, ProcessTypes
    <2> QED BY <1>1, <1>2, <1>4, <1>5, <1>6, <1>8, <2>1, QuietRunStep
  <1> QED BY <1>2, <1>7, <1>8

LEMMA WriteDriveDocAlone ==
  ASSUME IInv, Alone, NEW r \in Runs, WriteDriveDoc(r), faults' = 0 PROVE Alone'
  <1> DEFINE new == NewDoc(r, at[r], "drive", folder[r], "handler")
  <1>1. /\ pc[r] = "driveDoc" /\ Busy(r) /\ r \in Procs /\ docs \in Seq(DocRecord)
        /\ UNCHANGED <<nodes, folders>> /\ spaces' = spaces /\ pc \in [Procs -> RunStages \cup OrganizerStages]
        /\ wikiReg' = wikiReg /\ driveReg' = driveReg /\ input' = input
    BY ProcessesAre DEF WriteDriveDoc, Busy, IInv, TypeOK, FeishuTypes, ProcessTypes, registries
  <1>2. \E p \in {"driveDoc", "done"} : pc' = [pc EXCEPT ![r] = p]
    <2>1. pc' = pc \/ pc' = [pc EXCEPT ![r] = "done"]
      BY DEF WriteDriveDoc, Forget, Put
    <2>2. pc = [pc EXCEPT ![r] = "driveDoc"]
      BY <1>1
    <2> QED BY <2>1, <2>2
  <1>3. PICK p \in {"driveDoc", "done"} : pc' = [pc EXCEPT ![r] = p]
    BY <1>2
  <1>4. RunRemembers(r)'
    BY <1>1, <1>3 DEF RunRemembers
  <1>5. \A d \in DOMAIN docs' : docs'[d].by = "organizer" => d \in DOMAIN docs /\ docs'[d] = docs[d]
    <2>1. docs' = IF Overwrites(input[r]) THEN [docs EXCEPT ![UserFile(r)].i = at[r]]
                  ELSE Append(docs, new)
      BY Unfailed DEF WriteDriveDoc, IInv
    <2>2. CASE Overwrites(input[r])
      <3>1. UserFile(r) \in DOMAIN docs /\ docs[UserFile(r)].by = "user"
        BY <2>2, UserFileIs DEF Overwrites, IInv, FileNamed
      <3>2. docs' = [docs EXCEPT ![UserFile(r)] = [docs[UserFile(r)] EXCEPT !.i = at[r]]]
        BY <2>1, <2>2
      <3>3. docs'[UserFile(r)].by = "user"
        <4>1. docs[UserFile(r)] \in DocRecord
          BY <1>1, <3>1
        <4>2. docs'[UserFile(r)] = [docs[UserFile(r)] EXCEPT !.i = at[r]]
          BY <3>1, <3>2
        <4> QED BY <3>1, <4>1, <4>2 DEF DocRecord
      <3>4. DOMAIN docs' = DOMAIN docs /\ \A d \in DOMAIN docs : d # UserFile(r) => docs'[d] = docs[d]
        BY <3>2
      <3> QED BY <3>3, <3>4
    <2>3. CASE ~Overwrites(input[r])
      <3>1. new.by = "handler"
        BY DEF NewDoc
      <3> HIDE DEF new
      <3>2. \A d \in DOMAIN docs' : IF d \in DOMAIN docs THEN docs'[d] = docs[d] ELSE docs'[d] = new
        BY <1>1, <2>1, <2>3
      <3> QED BY <3>1, <3>2
    <2> QED BY <2>2, <2>3
  <1>6. spaces <= 1 /\ wikiReg.space <= spaces
    BY DEF Alone, SpaceKnown
  <1> QED BY <1>1, <1>3, <1>4, <1>5, <1>6, QuietRunStep

(* A further member of a list.                                              *)
LEMMA OneMore ==
  ASSUME NEW S, NEW list \in Seq(S), NEW e \in S
  PROVE  LET new == Append(list, e)
         IN /\ DOMAIN new = DOMAIN list \cup {Len(list) + 1} /\ Len(list) + 1 \notin DOMAIN list
            /\ \A n \in DOMAIN list : new[n] = list[n]
            /\ new[Len(list) + 1] = e /\ Len(list) + 1 # 0
  OBVIOUS

(* The registry learns of a folder it had none of.                          *)
LEMMA FolderLearnt ==
  ASSUME TypeOK, FoldersKnown, NEW p \in Projects, driveReg[p] = 0, folders' = Append(folders, p),
         driveReg' = [driveReg EXCEPT ![p] = Len(folders) + 1]
  PROVE  FoldersKnown'
  <1> DEFINE new == Len(folders) + 1
  <1>1. /\ DOMAIN folders' = DOMAIN folders \cup {new} /\ new \notin DOMAIN folders
        /\ \A n \in DOMAIN folders : folders'[n] = folders[n]
        /\ folders'[new] = p /\ new # 0
    BY OneMore DEF TypeOK, FeishuTypes
  <1>2. DOMAIN driveReg = Projects /\ \A f \in DOMAIN folders : folders[f] \in Projects
    BY DEF TypeOK, FeishuTypes, RegistryTypes, DriveFile
  <1> HIDE DEF new
  <1>3. driveReg'[p] = new /\ \A o \in Projects : o # p => driveReg'[o] = driveReg[o]
    BY <1>2 DEF new
  <1>4. \A f \in DOMAIN folders : folders[f] # p
    BY DEF FoldersKnown
  <1> QED BY <1>1, <1>2, <1>3, <1>4 DEF FoldersKnown

(* The registry learns of a node that its maker had not made.               *)
LEMMA NodeLearnt ==
  ASSUME TypeOK, NodesKnown, NEW k \in Keys, NEW node \in NodeRecord, node.key = k,
         NEW s \in Nat, node.by = "organizer" => s = 1,
         \A n \in DOMAIN nodes : nodes[n].key = k => nodes[n].by # node.by,
         node.by = "handler" => wikiReg.nodes[k].token = 0,
         nodes' = Append(nodes, node),
         wikiReg'.nodes = [wikiReg.nodes EXCEPT ![k] = [token |-> Len(nodes) + 1, space |-> s]]
  PROVE  NodesKnown'
  <1> DEFINE new == Len(nodes) + 1
  <1>1. /\ DOMAIN nodes' = DOMAIN nodes \cup {new} /\ new \notin DOMAIN nodes
        /\ \A n \in DOMAIN nodes : nodes'[n] = nodes[n]
        /\ nodes'[new] = node /\ new # 0
    BY OneMore DEF TypeOK, FeishuTypes
  <1>2. DOMAIN wikiReg.nodes = Keys /\ \A n \in DOMAIN nodes : nodes[n].key \in Keys
    <2>1. \A n \in DOMAIN nodes : nodes[n] \in NodeRecord
      BY DEF TypeOK, FeishuTypes
    <2> QED BY <2>1 DEF TypeOK, NodeRecord, RegistryTypes, WikiFile
  <1> HIDE DEF new
  <1>3. /\ wikiReg'.nodes[k].token = new /\ wikiReg'.nodes[k].space = s
        /\ \A l \in Keys : l # k => wikiReg'.nodes[l] = wikiReg.nodes[l]
    BY <1>2 DEF new
  <1>4. ASSUME NEW n \in DOMAIN nodes, nodes[n].key = k
        PROVE  node.by = "organizer"
    BY <1>4 DEF NodesKnown, NodeRecord
  <1>5. \A n \in DOMAIN nodes :
           LET e == wikiReg'.nodes[nodes[n].key]
           IN e.token # 0 /\ (nodes[n].by = "organizer" => e.space = 1)
    BY <1>1, <1>2, <1>3, <1>4 DEF NodesKnown
  <1>6. \A n \in DOMAIN nodes' :
           LET e == wikiReg'.nodes[nodes'[n].key]
           IN e.token # 0 /\ (nodes'[n].by = "organizer" => e.space = 1)
    BY <1>1, <1>3, <1>5
  <1>7. \A m, n \in DOMAIN nodes' :
          nodes'[m].key = nodes'[n].key /\ nodes'[m].by = nodes'[n].by => m = n
    BY <1>1 DEF NodesKnown
  <1> QED BY <1>6, <1>7 DEF NodesKnown

LEMMA CreateFolderAlone ==
  ASSUME IInv, Alone, NEW r \in Runs, CreateFolder(r), faults' = 0 PROVE Alone'
  <1> DEFINE p == input[r].project
  <1>1. /\ pc[r] = "folder" /\ Busy(r) /\ r \in Procs /\ p \in Projects
        /\ pc' = [pc EXCEPT ![r] = "driveDoc"] /\ pc \in [Procs -> RunStages \cup OrganizerStages]
        /\ spaces' = spaces /\ nodes' = nodes /\ docs' = docs /\ wikiReg' = wikiReg /\ input' = input
    BY ProcessesAre DEF CreateFolder, Busy, IInv, TypeOK, ProcessTypes, Input, Put
  <1>2. mem[r].drive = driveReg /\ driveReg[p] = 0
    BY <1>1 DEF Alone, Remembered, RunRemembers
  <1>3. folders' = Append(folders, p) /\ driveReg' = [driveReg EXCEPT ![p] = Len(folders) + 1]
    BY <1>2, Unfailed DEF CreateFolder, IInv
  <1>4. FoldersKnown'
    BY <1>1, <1>2, <1>3, FolderLearnt DEF IInv, Alone
  <1>5. NodesKnown'
    BY <1>1 DEF Alone, NodesKnown
  <1>6. \A q \in Procs \ {r} : ~Busy(q) /\ pc'[q] = pc[q]
    BY <1>1, RunIsAlone
  <1>7. RunRemembers(r)' /\ pc'[r] = "driveDoc"
    BY <1>1 DEF RunRemembers
  <1>8. OnlyOne' /\ Remembered' /\ SpaceKnown' /\ \A s, i : ~CopyInHand(s, i)
    BY <1>1, <1>6, <1>7, RunsTurn DEF Alone, SpaceKnown
  <1>9. CopiesKnown'
    BY <1>1, <1>8, CopiesStayKnown DEF Alone
  <1> QED BY <1>4, <1>5, <1>8, <1>9 DEF Alone

(* The next node of a run's plan is one its registry has no token for.      *)
LEMMA NextNodeIsMissing ==
  ASSUME NEW x \in Input, NEW s \in Nat, NEW wiki, Missing(x, s, wiki) # {}
  PROVE  wiki.nodes[NextNode(x, s, wiki)].token = 0
  <1>1. PlannedNodes(x, s) \in Seq(Keys)
    BY PlannedIs
  <1>2. Missing(x, s, wiki) \subseteq Nat
    BY <1>1 DEF Missing
  <1>3. Min(Missing(x, s, wiki)) \in Missing(x, s, wiki)
    BY <1>2, Least
  <1> QED BY <1>3 DEF NextNode, Missing

LEMMA NodeIs ==
  ASSUME TypeOK, NEW k \in Keys, NEW s \in Nat, NEW parent \in Nat,
         parent # 0 => parent \in DOMAIN nodes, NEW by \in {"handler", "organizer"}
  PROVE  LET node == NewNode(k, s, parent, by)
         IN node \in NodeRecord /\ node.key = k /\ node.by = by
  <1>1. ASSUME parent # 0 PROVE nodes[parent].space \in Nat
    <2>1. nodes[parent] \in NodeRecord
      BY <1>1 DEF TypeOK, FeishuTypes
    <2> QED BY <2>1 DEF NodeRecord
  <1> QED BY <1>1 DEF NewNode, NodeRecord

LEMMA CreateNodeAlone ==
  ASSUME IInv, Alone, NEW r \in Runs, CreateNode(r), faults' = 0 PROVE Alone'
  <1> DEFINE k == NextNode(input[r], space[r], mem[r].wiki)
             parent == ParentToken(k, space[r], mem[r].wiki)
             node == NewNode(k, space[r], parent, "handler")
             noted == [mem[r].wiki EXCEPT !.nodes[k] = [token |-> Len(nodes) + 1, space |-> 0]]
  <1>1. /\ pc[r] = "wikiNode" /\ Busy(r) /\ r \in Procs /\ input[r] \in Input /\ TypeOK
        /\ pc \in [Procs -> RunStages \cup OrganizerStages] /\ mem \in [Procs -> Memory]
        /\ spaces' = spaces /\ docs' = docs /\ folders' = folders /\ driveReg' = driveReg /\ input' = input
        /\ space[r] \in Nat /\ wikiReg \in WikiFile /\ Len(nodes) \in Nat
    BY ProcessesAre DEF CreateNode, Busy, IInv, TypeOK, ProcessTypes, RegistryTypes, FeishuTypes
  <1>2. mem[r].wiki = wikiReg
    BY <1>1 DEF Alone, Remembered, RunRemembers
  <1>3. k \in Keys /\ wikiReg.nodes[k].token = 0
    <2>1. Missing(input[r], space[r], mem[r].wiki) # {}
      BY <1>1 DEF IInv, StageOK
    <2> QED BY <1>1, <1>2, <2>1, NextNodeIs, NextNodeIsMissing
  <1>4. /\ nodes' = Append(nodes, node) /\ wikiReg' = noted
        /\ mem' = [mem EXCEPT ![r].wiki = noted]
        /\ \E p \in {"wikiDoc", "wikiNode"} : pc' = [pc EXCEPT ![r] = p]
    BY Unfailed DEF CreateNode, IInv, Put, AfterNodes
  <1> HIDE DEF k
  <1>5. node \in NodeRecord /\ node.key = k /\ node.by = "handler"
    <2>1. parent \in Nat /\ (parent # 0 => parent \in DOMAIN nodes)
      <3>1. Genuine(wikiReg, nodes) /\ (k[1] = "category" => ProjectKey(k[2]) \in Keys)
        BY <1>3, KeyIs DEF IInv, RegistriesGenuine
      <3>2. \A l \in Keys : wikiReg.nodes[l].token \in Nat
                         /\ (wikiReg.nodes[l].token # 0 => wikiReg.nodes[l].token \in DOMAIN nodes)
        BY <1>1, TokenIs DEF IInv, RegistriesGenuine
      <3> QED BY <1>2, <3>1, <3>2, Constants DEF ParentToken
    <2> HIDE DEF parent
    <2> QED BY <1>1, <1>3, <2>1, NodeIs
  <1> HIDE DEF node
  <1>6. /\ noted \in WikiFile /\ noted.docs = wikiReg.docs /\ noted.space = wikiReg.space
        /\ noted.nodes = [wikiReg.nodes EXCEPT ![k] = [token |-> Len(nodes) + 1, space |-> 0]]
    <2> DEFINE entry == [token |-> Len(nodes) + 1, space |-> 0]
               table == [wikiReg.nodes EXCEPT ![k] = entry]
    <2>1. wikiReg.nodes \in [Keys -> [token : Nat, space : Nat]]
      BY <1>1 DEF WikiFile
    <2>2. entry \in [token : Nat, space : Nat]
      BY <1>1
    <2>3. table \in [Keys -> [token : Nat, space : Nat]]
      BY <1>3, <2>1, <2>2
    <2>4. noted = [wikiReg EXCEPT !.nodes = table]
      BY <1>2
    <2> HIDE DEF table, noted
    <2>5. noted \in WikiFile /\ noted.docs = wikiReg.docs /\ noted.space = wikiReg.space
          /\ noted.nodes = table
      BY <1>1, <2>3, <2>4 DEF WikiFile
    <2> QED BY <2>5 DEF table
  <1> HIDE DEF noted
  <1>7. NodesKnown'
    <2>1. \A n \in DOMAIN nodes : nodes[n].key # k
      BY <1>3 DEF Alone, NodesKnown
    <2>2. wikiReg'.nodes = [wikiReg.nodes EXCEPT ![k] = [token |-> Len(nodes) + 1, space |-> 0]]
      BY <1>4, <1>6
    <2>3. nodes' = Append(nodes, node) /\ NodesKnown /\ 0 \in Nat
      BY <1>4 DEF Alone
    <2>4. node.by # "organizer"
      BY <1>5
    <2> QED BY <1>1, <1>3, <1>5, <2>1, <2>2, <2>3, <2>4, NodeLearnt
  <1>8. FoldersKnown'
    BY <1>1 DEF Alone, FoldersKnown
  <1>9. \A q \in Procs \ {r} : ~Busy(q) /\ pc'[q] = pc[q]
    BY <1>1, <1>4, RunIsAlone
  <1>10. RunRemembers(r)' /\ pc'[r] # "createSpace"
    <2>1. mem'[r].wiki = noted
      BY <1>1, <1>4, <1>6, MemWiki
    <2> QED BY <1>1, <1>4, <2>1 DEF RunRemembers
  <1>11. spaces' <= 1 /\ wikiReg'.space <= spaces'
    BY <1>1, <1>4, <1>6 DEF Alone, SpaceKnown
  <1>12. OnlyOne' /\ Remembered' /\ SpaceKnown' /\ \A s, i : ~CopyInHand(s, i)
    BY <1>9, <1>10, <1>11, RunsTurn
  <1>13. CopiesKnown'
    BY <1>1, <1>4, <1>6, <1>12, CopiesStayKnown DEF Alone
  <1> QED BY <1>7, <1>8, <1>12, <1>13 DEF Alone

(* While the command is at work the registries are what it remembers, and   *)
(* the one space is its own.                                                *)
LEMMA CommandIsAlone ==
  ASSUME IInv, Alone, Busy(Organizer)
  PROVE  /\ \A r \in Runs : ~Busy(r)
         /\ Organizer \in Procs /\ Memo.wiki = wikiReg /\ Memo.drive = driveReg
         /\ wikiReg \in WikiFile /\ driveReg \in DriveFile /\ mem \in [Procs -> Memory]
         /\ pc \in [Procs -> RunStages \cup OrganizerStages] /\ space \in [Procs -> Nat]
         /\ spaces \in Nat /\ spaces <= 1 /\ wikiReg.space <= spaces /\ wikiReg.space \in Nat
         /\ pc[Organizer] \in {"work", "recreateMove", "moveFile"} => space[Organizer] = 1 /\ spaces = 1
  BY ProcessesAre DEF Alone, OnlyOne, Remembered, CommandRemembers, SpaceKnown, Memo, IInv, TypeOK,
     RegistryTypes, ProcessTypes, FeishuTypes, WikiFile

(* A step of the command that makes no folder, node or copy.                *)
LEMMA QuietCommandStep ==
  ASSUME IInv, Alone, \A r \in Runs : ~Busy(r) /\ pc'[r] = pc[r], pc[Organizer] # "recreateMove",
         CommandRemembers', spaces' <= 1, wikiReg'.space <= spaces',
         pc'[Organizer] = "createSpace" => spaces' = 0,
         pc'[Organizer] \in {"work", "recreateMove", "moveFile"} =>
             space'[Organizer] = 1 /\ spaces' = 1,
         input' = input, wikiReg'.nodes = wikiReg.nodes, driveReg' = driveReg,
         UNCHANGED <<nodes, folders>>, wikiReg.docs \subseteq wikiReg'.docs,
         \A d \in DOMAIN docs' : docs'[d].by = "organizer" =>
             d \in DOMAIN docs /\ docs[d].by = "organizer"
               /\ docs'[d].run = docs[d].run /\ docs'[d].i = docs[d].i
  PROVE  Alone'
  <1>1. OnlyOne' /\ Remembered' /\ SpaceKnown'
    BY CommandsTurn
  <1>2. CopiesKnown'
    BY CopiesStayKnown DEF Alone, CopyInHand
  <1> QED BY <1>1, <1>2, MadeStays DEF Alone

LEMMA OrgStartAlone ==
  ASSUME IInv, Alone, OrgStart, ~overlap' PROVE Alone'
  <1> DEFINE both == [wiki |-> wikiReg, drive |-> driveReg]
  <1>1. /\ pc[Organizer] \in {"start", "done"} /\ Organizer \in Procs /\ \A r \in Runs : r # Organizer
        /\ pc \in [Procs -> RunStages \cup OrganizerStages] /\ mem \in [Procs -> Memory]
        /\ space \in [Procs -> Nat] /\ spaces \in Nat /\ wikiReg.space \in Nat
        /\ UNCHANGED <<nodes, folders>> /\ docs' = docs
        /\ wikiReg' = wikiReg /\ driveReg' = driveReg /\ spaces' = spaces /\ input' = input
        /\ \A r \in Runs : r \in Procs
    BY ProcessesAre DEF OrgStart, IInv, TypeOK, ProcessTypes, RegistryTypes, FeishuTypes, WikiFile,
       registries, feishu
  <1>2. /\ mem' = [mem EXCEPT ![Organizer] = both] /\ space' = [space EXCEPT ![Organizer] = wikiReg.space]
        /\ pc' = [pc EXCEPT ![Organizer] = IF wikiReg.space # 0 THEN "work" ELSE "listSpaces"]
    BY DEF OrgStart, Put
  <1>3. \A r \in Runs : ~Busy(r) /\ pc'[r] = pc[r]
    BY <1>1, <1>2 DEF OrgStart, NoteOverlap
  <1>4. CommandRemembers'
    BY <1>1, <1>2 DEF CommandRemembers
  <1>5. spaces <= 1 /\ wikiReg.space <= spaces
    BY DEF Alone, SpaceKnown
  <1>6. /\ pc'[Organizer] \in {"work", "listSpaces"}
        /\ pc'[Organizer] = "work" => space'[Organizer] = 1 /\ spaces' = 1
    BY <1>1, <1>2, <1>5
  <1> QED BY <1>1, <1>3, <1>4, <1>5, <1>6, QuietCommandStep

(* The registry is saved with the space it is about.                        *)
LEMMA SpaceSaved ==
  ASSUME TypeOK, Organizer \in Procs, NEW s \in Nat, SaveWiki([wikiReg EXCEPT !.space = s])
  PROVE  /\ wikiReg'.space = s /\ wikiReg'.nodes = wikiReg.nodes /\ wikiReg'.docs = wikiReg.docs
         /\ mem'[Organizer].wiki = wikiReg' /\ mem'[Organizer].drive = mem[Organizer].drive
  <1> DEFINE w == [wikiReg EXCEPT !.space = s]
  <1>1. w \in WikiFile /\ w.space = s /\ w.nodes = wikiReg.nodes /\ w.docs = wikiReg.docs
    BY DEF TypeOK, RegistryTypes, WikiFile
  <1>2. wikiReg' = w /\ mem' = [mem EXCEPT ![Organizer].wiki = w]
    BY DEF SaveWiki
  <1> HIDE DEF w
  <1> QED BY <1>1, <1>2, MemWiki DEF TypeOK, ProcessTypes

LEMMA OrgListSpacesAlone ==
  ASSUME IInv, Alone, OrgListSpaces, faults' = 0 PROVE Alone'
  <1>1. /\ pc[Organizer] = "listSpaces" /\ Busy(Organizer) /\ \A r \in Runs : r \in Procs /\ r # Organizer
        /\ UNCHANGED <<nodes, folders>> /\ docs' = docs
        /\ driveReg' = driveReg /\ spaces' = spaces /\ input' = input
    BY ProcessesAre DEF OrgListSpaces, Busy, feishu
  <1>2. /\ \A r \in Runs : ~Busy(r)
        /\ Organizer \in Procs /\ Memo.wiki = wikiReg /\ Memo.drive = driveReg
        /\ pc \in [Procs -> RunStages \cup OrganizerStages] /\ space \in [Procs -> Nat]
        /\ spaces \in Nat /\ spaces <= 1 /\ wikiReg.space <= spaces
    BY <1>1, CommandIsAlone
  <1>3. \/ /\ \E s \in 1..spaces : /\ space' = [space EXCEPT ![Organizer] = s]
                                   /\ SaveWiki([Memo.wiki EXCEPT !.space = s])
           /\ pc' = [pc EXCEPT ![Organizer] = "work"]
        \/ /\ spaces = 0 /\ pc' = [pc EXCEPT ![Organizer] = "createSpace"]
           /\ mem' = mem /\ wikiReg' = wikiReg
    BY Unfailed DEF OrgListSpaces, IInv, Put
  <1>4. \A r \in Runs : ~Busy(r) /\ pc'[r] = pc[r]
    BY <1>1, <1>2, <1>3
  <1>5. CASE /\ \E s \in 1..spaces : /\ space' = [space EXCEPT ![Organizer] = s]
                                     /\ SaveWiki([Memo.wiki EXCEPT !.space = s])
             /\ pc' = [pc EXCEPT ![Organizer] = "work"]
    <2>1. /\ spaces = 1 /\ space'[Organizer] = 1 /\ SaveWiki([wikiReg EXCEPT !.space = 1])
          /\ pc'[Organizer] = "work"
      BY <1>2, <1>5
    <2>2. /\ wikiReg'.space = 1 /\ wikiReg'.nodes = wikiReg.nodes /\ wikiReg'.docs = wikiReg.docs
          /\ mem'[Organizer].wiki = wikiReg' /\ mem'[Organizer].drive = driveReg
      BY <1>2, <2>1, SpaceSaved DEF IInv, Memo
    <2>3. CommandRemembers'
      BY <1>1, <2>2 DEF CommandRemembers
    <2> QED BY <1>1, <1>4, <2>1, <2>2, <2>3, QuietCommandStep
  <1>6. CASE /\ spaces = 0 /\ pc' = [pc EXCEPT ![Organizer] = "createSpace"]
             /\ mem' = mem /\ wikiReg' = wikiReg
    <2>1. CommandRemembers' /\ pc'[Organizer] = "createSpace"
      BY <1>1, <1>2, <1>6 DEF CommandRemembers, Memo
    <2> QED BY <1>1, <1>2, <1>4, <1>6, <2>1, QuietCommandStep
  <1> QED BY <1>3, <1>5, <1>6

LEMMA OrgCreateSpaceAlone ==
  ASSUME IInv, Alone, OrgCreateSpace, faults' = 0 PROVE Alone'
  <1>1. /\ pc[Organizer] = "createSpace" /\ Busy(Organizer) /\ \A r \in Runs : r \in Procs /\ r # Organizer
        /\ UNCHANGED <<nodes, folders>> /\ docs' = docs
        /\ driveReg' = driveReg /\ input' = input
    BY ProcessesAre DEF OrgCreateSpace, Busy
  <1>2. /\ \A r \in Runs : ~Busy(r)
        /\ Organizer \in Procs /\ Memo.wiki = wikiReg /\ Memo.drive = driveReg
        /\ pc \in [Procs -> RunStages \cup OrganizerStages] /\ space \in [Procs -> Nat]
    BY <1>1, CommandIsAlone
  <1>3. spaces = 0
    BY <1>1, <1>2 DEF Alone, SpaceKnown
  <1>4. /\ space' = [space EXCEPT ![Organizer] = 1] /\ spaces' = 1
        /\ SaveWiki([wikiReg EXCEPT !.space = 1])
        /\ pc' = [pc EXCEPT ![Organizer] = "work"]
    BY <1>2, <1>3, Unfailed DEF OrgCreateSpace, IInv, Put
  <1>5. /\ wikiReg'.space = 1 /\ wikiReg'.nodes = wikiReg.nodes /\ wikiReg'.docs = wikiReg.docs
        /\ mem'[Organizer].wiki = wikiReg' /\ mem'[Organizer].drive = driveReg
    BY <1>2, <1>4, SpaceSaved DEF IInv, Memo
  <1>6. CommandRemembers' /\ pc'[Organizer] = "work" /\ space'[Organizer] = 1
    BY <1>1, <1>2, <1>4, <1>5 DEF CommandRemembers
  <1>7. \A r \in Runs : ~Busy(r) /\ pc'[r] = pc[r]
    BY <1>1, <1>2, <1>4
  <1> QED BY <1>1, <1>4, <1>5, <1>6, <1>7, QuietCommandStep

LEMMA OrgEndAlone ==
  ASSUME IInv, Alone, OrgEnd PROVE Alone'
  <1>1. /\ pc[Organizer] = "work" /\ Busy(Organizer) /\ \A r \in Runs : r \in Procs /\ r # Organizer
        /\ UNCHANGED <<nodes, folders>> /\ docs' = docs /\ wikiReg' = wikiReg /\ spaces' = spaces
        /\ driveReg' = driveReg /\ input' = input /\ pc' = [pc EXCEPT ![Organizer] = "done"]
    BY ProcessesAre DEF OrgEnd, Busy, registries, feishu, Forget, Put
  <1>2. /\ \A r \in Runs : ~Busy(r)
        /\ Organizer \in Procs /\ pc \in [Procs -> RunStages \cup OrganizerStages]
        /\ spaces <= 1 /\ wikiReg.space <= spaces
    BY <1>1, CommandIsAlone
  <1>3. CommandRemembers' /\ pc'[Organizer] = "done"
    BY <1>1, <1>2 DEF CommandRemembers, Busy
  <1>4. \A r \in Runs : ~Busy(r) /\ pc'[r] = pc[r]
    BY <1>1, <1>2
  <1> QED BY <1>1, <1>2, <1>3, <1>4, QuietCommandStep

LEMMA OrgSkipDocAlone ==
  ASSUME IInv, Alone, OrgSkipDoc PROVE Alone'
  <1>1. /\ pc[Organizer] = "work" /\ Busy(Organizer)
        /\ UNCHANGED <<nodes, folders>> /\ docs' = docs /\ wikiReg' = wikiReg /\ spaces' = spaces
        /\ driveReg' = driveReg /\ input' = input /\ pc' = pc /\ mem' = mem /\ space' = space
    BY DEF OrgSkipDoc, Doing, Busy, registries, feishu, memory
  <1>2. /\ \A r \in Runs : ~Busy(r)
        /\ Memo.wiki = wikiReg /\ Memo.drive = driveReg
        /\ spaces <= 1 /\ wikiReg.space <= spaces /\ space[Organizer] = 1 /\ spaces = 1
    BY <1>1, CommandIsAlone
  <1>3. CommandRemembers'
    BY <1>1, <1>2 DEF CommandRemembers, Memo
  <1> QED BY <1>1, <1>2, <1>3, QuietCommandStep

LEMMA OrgMapAlone ==
  ASSUME IInv, Alone, OrgMap PROVE Alone'
  <1>1. /\ pc[Organizer] = "work" /\ Busy(Organizer)
        /\ UNCHANGED <<nodes, folders>> /\ docs' = docs /\ wikiReg' = wikiReg /\ spaces' = spaces
        /\ input' = input /\ pc' = pc /\ space' = space
    BY DEF OrgMap, Doing, Busy, feishu
  <1>2. /\ \A r \in Runs : ~Busy(r)
        /\ Organizer \in Procs /\ Memo.wiki = wikiReg /\ Memo.drive = driveReg
        /\ driveReg \in DriveFile /\ mem \in [Procs -> Memory]
        /\ spaces <= 1 /\ wikiReg.space <= spaces /\ space[Organizer] = 1 /\ spaces = 1
    BY <1>1, CommandIsAlone
  <1>3. /\ driveReg' = driveReg
        /\ mem' = mem \/ mem' = [mem EXCEPT ![Organizer].drive = driveReg]
    BY <1>2 DEF OrgMap, SaveDrive
  <1>4. mem'[Organizer].wiki = wikiReg /\ mem'[Organizer].drive = driveReg
    BY <1>2, <1>3 DEF Memo, Memory
  <1>5. CommandRemembers'
    BY <1>1, <1>3, <1>4 DEF CommandRemembers
  <1> QED BY <1>1, <1>2, <1>3, <1>5, QuietCommandStep

LEMMA OrgFolderAlone ==
  ASSUME IInv, Alone, OrgFolder, faults' = 0 PROVE Alone'
  <1> DEFINE p == Task.project
  <1>1. /\ pc[Organizer] = "work" /\ Busy(Organizer) /\ org.work # <<>> /\ Task.kind = "folder"
        /\ nodes' = nodes /\ docs' = docs /\ wikiReg' = wikiReg /\ spaces' = spaces
        /\ input' = input /\ pc' = pc /\ space' = space
    BY DEF OrgFolder, Doing, Busy
  <1>2. /\ \A r \in Runs : ~Busy(r)
        /\ Organizer \in Procs /\ Memo.wiki = wikiReg /\ Memo.drive = driveReg
        /\ driveReg \in DriveFile /\ mem \in [Procs -> Memory]
        /\ spaces <= 1 /\ wikiReg.space <= spaces /\ space[Organizer] = 1 /\ spaces = 1
    BY <1>1, CommandIsAlone
  <1>3. p \in Projects
    BY <1>1, TaskIs DEF WorkItem
  <1>4. CASE driveReg[p] # 0
    <2>1. UNCHANGED <<folders, mem, driveReg>>
      BY <1>2, <1>4 DEF OrgFolder
    <2>2. CommandRemembers'
      BY <1>1, <1>2, <2>1 DEF CommandRemembers, Memo
    <2> QED BY <1>1, <1>2, <2>1, <2>2, QuietCommandStep
  <1>5. CASE driveReg[p] = 0
    <2> DEFINE table == [driveReg EXCEPT ![p] = Len(folders) + 1]
    <2>1. folders' = Append(folders, p) /\ SaveDrive(table)
      BY <1>2, <1>5, Unfailed DEF OrgFolder, IInv
    <2>2. driveReg' = table /\ mem' = [mem EXCEPT ![Organizer].drive = table]
      BY <2>1 DEF SaveDrive
    <2>3. FoldersKnown'
      BY <1>3, <1>5, <2>1, <2>2, FolderLearnt DEF IInv, Alone
    <2>4. NodesKnown'
      BY <1>1 DEF Alone, NodesKnown
    <2> HIDE DEF table
    <2>5. mem'[Organizer].wiki = wikiReg /\ mem'[Organizer].drive = driveReg'
      BY <1>2, <2>2 DEF Memo, Memory
    <2>6. CommandRemembers'
      BY <1>1, <2>5 DEF CommandRemembers
    <2>7. OnlyOne' /\ Remembered' /\ SpaceKnown'
      BY <1>1, <1>2, <2>6, CommandsTurn
    <2>8. CopiesKnown'
      BY <1>1, CopiesStayKnown DEF Alone, CopyInHand
    <2> QED BY <2>3, <2>4, <2>7, <2>8 DEF Alone
  <1> QED BY <1>4, <1>5

LEMMA OrgNodeAlone ==
  ASSUME IInv, Alone, OrgNode, faults' = 0 PROVE Alone'
  <1> DEFINE k == Task.key
             parent == IF k[1] = "category" THEN TokenHere(ProjectKey(k[2])) ELSE 0
             node == NewNode(k, space[Organizer], parent, "organizer")
             entry == [token |-> Len(nodes) + 1, space |-> 1]
             table == [wikiReg.nodes EXCEPT ![k] = entry]
             w == [wikiReg EXCEPT !.nodes = table]
  <1>1. /\ pc[Organizer] = "work" /\ Busy(Organizer) /\ org.work # <<>> /\ Task.kind = "node"
        /\ folders' = folders /\ docs' = docs /\ driveReg' = driveReg /\ spaces' = spaces
        /\ input' = input /\ pc' = pc /\ space' = space
    BY DEF OrgNode, Doing, Busy
  <1>2. /\ \A r \in Runs : ~Busy(r)
        /\ Organizer \in Procs /\ Memo.wiki = wikiReg /\ Memo.drive = driveReg
        /\ wikiReg \in WikiFile /\ mem \in [Procs -> Memory]
        /\ spaces <= 1 /\ wikiReg.space <= spaces /\ space[Organizer] = 1 /\ spaces = 1
    BY <1>1, CommandIsAlone
  <1>3. k \in Keys
    BY <1>1, TaskIs DEF WorkItem
  <1>4. CASE TokenHere(k) # 0
    <2>1. UNCHANGED <<nodes, mem, wikiReg>> /\ wikiReg' = wikiReg
      BY <1>4 DEF OrgNode
    <2>2. CommandRemembers'
      BY <1>1, <1>2, <2>1 DEF CommandRemembers, Memo
    <2> QED BY <1>1, <1>2, <2>1, <2>2, QuietCommandStep
  <1>5. CASE TokenHere(k) = 0
    <2>1. /\ nodes' = Append(nodes, node)
          /\ SaveWiki([Memo.wiki EXCEPT !.nodes[k] = [token |-> Len(nodes) + 1, space |-> space[Organizer]]])
      BY <1>5, Unfailed DEF OrgNode, IInv
    <2>2. wikiReg' = w /\ mem' = [mem EXCEPT ![Organizer].wiki = w]
      BY <1>2, <2>1 DEF SaveWiki
    <2>3. node \in NodeRecord /\ node.key = k /\ node.by = "organizer"
      <3>1. parent \in Nat /\ (parent # 0 => parent \in DOMAIN nodes)
        BY <1>3, KeyIs, TokenHereIs
      <3> HIDE DEF parent
      <3>2. space[Organizer] \in Nat /\ TypeOK
        BY <1>2 DEF IInv
      <3> QED BY <1>3, <3>1, <3>2, NodeIs
    <2>4. /\ w \in WikiFile /\ w.nodes = table /\ w.docs = wikiReg.docs /\ w.space = wikiReg.space
      <3>1. wikiReg.nodes \in [Keys -> [token : Nat, space : Nat]]
        BY <1>2 DEF WikiFile
      <3>2. entry \in [token : Nat, space : Nat]
        BY DEF IInv, TypeOK, FeishuTypes
      <3> HIDE DEF entry
      <3>3. table \in [Keys -> [token : Nat, space : Nat]]
        BY <1>3, <3>1, <3>2
      <3> HIDE DEF table
      <3> QED BY <1>2, <3>3 DEF WikiFile
    <2> HIDE DEF w, node
    <2>5. \A n \in DOMAIN nodes : nodes[n].key = k => nodes[n].by # "organizer"
      BY <1>2, <1>5 DEF Alone, NodesKnown, TokenHere
    <2>6. NodesKnown'
      <3>1. wikiReg'.nodes = [wikiReg.nodes EXCEPT ![k] = [token |-> Len(nodes) + 1, space |-> 1]]
        BY <2>2, <2>4
      <3>2. NodesKnown /\ TypeOK /\ 1 \in Nat /\ node.by # "handler" /\ nodes' = Append(nodes, node)
        BY <2>1, <2>3 DEF Alone, IInv
      <3>3. \A n \in DOMAIN nodes : nodes[n].key = k => nodes[n].by # node.by
        BY <2>3, <2>5
      <3> HIDE DEF k
      <3> QED BY <1>3, <2>3, <3>1, <3>2, <3>3, NodeLearnt
    <2>7. FoldersKnown'
      BY <1>1 DEF Alone, FoldersKnown
    <2>8. mem'[Organizer].wiki = wikiReg' /\ mem'[Organizer].drive = driveReg
      BY <1>2, <2>2, <2>4, MemWiki DEF Memo
    <2>9. CommandRemembers'
      BY <1>1, <2>8 DEF CommandRemembers
    <2>10. OnlyOne' /\ Remembered' /\ SpaceKnown'
      BY <1>1, <1>2, <2>2, <2>4, <2>9, CommandsTurn
    <2>11. CopiesKnown'
      BY <1>1, <2>2, <2>4, CopiesStayKnown DEF Alone, CopyInHand
    <2> QED BY <2>6, <2>7, <2>10, <2>11 DEF Alone
  <1> QED BY <1>4, <1>5

(* A note is added to what the registry says of documents.                  *)
LEMMA NoteSaved ==
  ASSUME IInv, Alone, Busy(Organizer), org.work # <<>>, Task.kind = "doc", NEW s \in Nat, NoteDoc(s)
  PROVE  /\ wikiReg'.space = wikiReg.space /\ wikiReg'.nodes = wikiReg.nodes
         /\ wikiReg'.docs = wikiReg.docs \cup {[run |-> Task.run, type |-> TaskType, space |-> s]}
         /\ mem'[Organizer].wiki = wikiReg' /\ mem'[Organizer].drive = driveReg
  <1> DEFINE w == [wikiReg EXCEPT !.docs = @ \cup {[run |-> Task.run, type |-> TaskType, space |-> s]}]
  <1>1. /\ Organizer \in Procs /\ Memo.wiki = wikiReg /\ Memo.drive = driveReg
        /\ wikiReg \in WikiFile /\ mem \in [Procs -> Memory]
    BY CommandIsAlone
  <1>2. Task.run \in Runs /\ TaskType \in Types
    BY DocTaskIs
  <1>3. /\ w \in WikiFile /\ w.space = wikiReg.space /\ w.nodes = wikiReg.nodes
        /\ w.docs = wikiReg.docs \cup {[run |-> Task.run, type |-> TaskType, space |-> s]}
    BY <1>1, <1>2 DEF WikiFile
  <1>4. wikiReg' = w /\ mem' = [mem EXCEPT ![Organizer].wiki = w]
    BY <1>1 DEF NoteDoc, SaveWiki
  <1> HIDE DEF w
  <1> QED BY <1>1, <1>3, <1>4, MemWiki DEF Memo

LEMMA OrgMoveAlone ==
  ASSUME IInv, Alone, OrgMove, faults' = 0 PROVE Alone'
  <1>1. /\ pc[Organizer] \in {"work", "moveFile"} /\ Busy(Organizer)
        /\ org.work # <<>> /\ Task.kind = "doc" /\ driveReg' = driveReg /\ spaces' = spaces
        /\ UNCHANGED <<nodes, folders>> /\ input' = input /\ space' = space
        /\ docs \in Seq(DocRecord) /\ \A r \in Runs : r # Organizer
    BY ProcessesAre DEF OrgMove, Doing, Busy, IInv, CommandOK, TypeOK, FeishuTypes
  <1>2. /\ \A r \in Runs : ~Busy(r)
        /\ Organizer \in Procs /\ pc \in [Procs -> RunStages \cup OrganizerStages]
        /\ spaces <= 1 /\ wikiReg.space <= spaces /\ space[Organizer] = 1 /\ spaces = 1
    BY <1>1, CommandIsAlone
  <1>3. /\ docs' = MoveTo(TaskToken, TaskParent) /\ NoteDoc(0)
        /\ pc' = [pc EXCEPT ![Organizer] = "work"]
    BY Unfailed DEF OrgMove, IInv, Put
  <1>4. /\ wikiReg'.space = wikiReg.space /\ wikiReg'.nodes = wikiReg.nodes
        /\ wikiReg.docs \subseteq wikiReg'.docs
        /\ mem'[Organizer].wiki = wikiReg' /\ mem'[Organizer].drive = driveReg
    BY <1>1, <1>3, NoteSaved
  <1>5. \A d \in DOMAIN docs' : d \in DOMAIN docs /\ docs'[d].run = docs[d].run
                                  /\ docs'[d].i = docs[d].i /\ docs'[d].by = docs[d].by
    <2> DEFINE ds == MoveTo(TaskToken, TaskParent)
    <2>1. TaskParent \in Nat
      BY <1>1, DocTaskIs
    <2>2. /\ DOMAIN ds = DOMAIN docs /\ \A d \in DOMAIN docs : d # TaskToken => ds[d] = docs[d]
          /\ TaskToken \in DOMAIN docs =>
                ds[TaskToken] = [run |-> docs[TaskToken].run, i |-> docs[TaskToken].i, place |-> "wiki",
                                 node |-> TaskParent, by |-> docs[TaskToken].by]
      BY <1>1, <2>1, MoveToIs
    <2>3. docs' = ds
      BY <1>3
    <2> HIDE DEF ds
    <2> QED BY <2>2, <2>3
  <1>6. CommandRemembers' /\ pc'[Organizer] = "work"
    BY <1>1, <1>2, <1>3, <1>4 DEF CommandRemembers
  <1>7. \A r \in Runs : ~Busy(r) /\ pc'[r] = pc[r]
    BY <1>1, <1>2, <1>3, ProcessesAre
  <1> QED BY <1>1, <1>2, <1>4, <1>5, <1>6, <1>7, QuietCommandStep

LEMMA OrgRecreateAlone ==
  ASSUME IInv, Alone, OrgRecreate, faults' = 0 PROVE Alone'
  <1> DEFINE i == pub[Task.run].docs[Task.n].i
             new == NewDoc(Task.run, i, "loose", 0, "organizer")
             last == Len(docs) + 1
  <1>1. /\ pc[Organizer] = "work" /\ Busy(Organizer) /\ ~KnownInWiki
        /\ org.work # <<>> /\ Task.kind = "doc" /\ driveReg' = driveReg /\ spaces' = spaces
        /\ nodes' = nodes /\ folders' = folders /\ input' = input /\ space' = space
        /\ wikiReg' = wikiReg /\ mem' = mem /\ pub' = pub
        /\ docs \in Seq(DocRecord) /\ \A r \in Runs : r # Organizer
    BY ProcessesAre DEF OrgRecreate, Doing, Busy, IInv, TypeOK, FeishuTypes, registries, records
  <1>2. /\ \A r \in Runs : ~Busy(r) /\ Memo.wiki = wikiReg /\ Memo.drive = driveReg
        /\ Organizer \in Procs /\ pc \in [Procs -> RunStages \cup OrganizerStages]
        /\ spaces <= 1 /\ wikiReg.space <= spaces /\ space[Organizer] = 1 /\ spaces = 1
        /\ Memo.wiki = wikiReg /\ Memo.drive = driveReg
    BY <1>1, CommandIsAlone
  <1>3. /\ docs' = Append(docs, new) /\ org' = org
        /\ pc' = [pc EXCEPT ![Organizer] = "recreateMove"]
    BY Unfailed DEF OrgRecreate, IInv, Put
  <1>4. pc'[Organizer] = "recreateMove" /\ \A r \in Runs : ~Busy(r) /\ pc'[r] = pc[r]
    BY <1>1, <1>2, <1>3, ProcessesAre
  <1>5. CommandRemembers'
    BY <1>1, <1>2 DEF CommandRemembers, Memo
  <1>6. OnlyOne' /\ Remembered' /\ SpaceKnown'
    BY <1>1, <1>2, <1>4, <1>5, CommandsTurn
  <1>7. FoldersKnown' /\ NodesKnown'
    BY <1>1, MadeStays
  <1>8. /\ new \in DocRecord /\ new.run = Task.run /\ new.i = i /\ new.by = "organizer"
    BY <1>1, DocTaskIs DEF NewDoc, DocRecord
  <1> HIDE DEF new
  <1>9. /\ DOMAIN docs' = DOMAIN docs \cup {last} /\ last \notin DOMAIN docs
        /\ \A d \in DOMAIN docs : docs'[d] = docs[d]
        /\ docs'[last] = new
    BY <1>1, <1>3, <1>8, OneMore
  <1>10. \A d \in DOMAIN docs : ~CopyOf(Task.run, i, d)
    <2>1. TaskType = input[Task.run].docs[i]
      BY DEF TaskType, TypeAt
    <2>2. [run |-> Task.run, type |-> TaskType, space |-> 1] \notin wikiReg.docs
      BY <1>1, <1>2 DEF KnownInWiki
    <2> HIDE DEF i
    <2>3. ~CopyNoted(Task.run, i)
      BY <2>1, <2>2 DEF CopyNoted
    <2>4. ~CopyInHand(Task.run, i)
      BY <1>1 DEF CopyInHand
    <2> QED BY <2>3, <2>4 DEF Alone, CopiesKnown, CopyOf
  <1>11. /\ pc'[Organizer] = "recreateMove" /\ Task' = Task
         /\ pub'[Task.run].docs[Task.n].i = i
    BY <1>1, <1>3, <1>4 DEF Task
  <1>12. ASSUME NEW d \in DOMAIN docs, docs[d].by = "organizer"
         PROVE  /\ CopyNoted(docs[d].run, docs[d].i)'
                /\ \A e \in DOMAIN docs : CopyOf(docs[d].run, docs[d].i, e) => d = e
                /\ docs[d].run # Task.run \/ docs[d].i # i
    <2>1. ~CopyInHand(docs[d].run, docs[d].i)
      BY <1>1 DEF CopyInHand
    <2>2. CopyNoted(docs[d].run, docs[d].i)
      BY <1>12, <2>1 DEF Alone, CopiesKnown
    <2>3. CopyNoted(docs[d].run, docs[d].i)'
      BY <1>1, <1>9, <2>2 DEF CopyNoted
    <2> QED BY <1>10, <1>12, <2>3 DEF Alone, CopiesKnown, CopyOf
  <1> HIDE DEF last, i
  <1>13. CopiesKnown'
    <2> SUFFICES ASSUME NEW d \in DOMAIN docs', docs'[d].by = "organizer"
                 PROVE  /\ CopyNoted(docs[d].run, docs[d].i)' \/ CopyInHand(docs[d].run, docs[d].i)'
                        /\ \A e \in DOMAIN docs' : CopyOf(docs[d].run, docs[d].i, e)' => d = e
      BY DEF CopiesKnown, CopyOf, CopyNoted, CopyInHand
    <2>1. CASE d = last
      <3>1. docs'[d].run = Task.run /\ docs'[d].i = i
        BY <1>8, <1>9, <2>1
      <3>2. CopyInHand(docs[d].run, docs[d].i)'
        BY <1>11, <3>1 DEF CopyInHand
      <3>3. \A e \in DOMAIN docs : ~CopyOf(docs[d].run, docs[d].i, e)'
        BY <1>9, <1>10, <3>1 DEF CopyOf
      <3> QED BY <1>9, <2>1, <3>2, <3>3
    <2>2. CASE d \in DOMAIN docs
      <3>1. docs'[d] = docs[d]
        BY <1>9, <2>2
      <3>2. CopyNoted(docs[d].run, docs[d].i)'
        BY <1>12, <2>2, <3>1
      <3>3. \A e \in DOMAIN docs : CopyOf(docs[d].run, docs[d].i, e)' => d = e
        BY <1>9, <1>12, <2>2, <3>1 DEF CopyOf
      <3>4. docs[d].run # Task.run \/ docs[d].i # i
        BY <1>12, <2>2, <3>1
      <3>5. docs'[last].run = Task.run /\ docs'[last].i = i
        BY <1>8, <1>9
      <3>6. ASSUME NEW e, e = last, CopyOf(docs[d].run, docs[d].i, e)' PROVE d = e
        BY <3>1, <3>4, <3>5, <3>6 DEF CopyOf
      <3> QED BY <1>9, <3>2, <3>3, <3>6
    <2> QED BY <1>9, <2>1, <2>2
  <1> QED BY <1>6, <1>7, <1>13 DEF Alone

LEMMA OrgRecreateMoveAlone ==
  ASSUME IInv, Alone, OrgRecreateMove, faults' = 0 PROVE Alone'
  <1> DEFINE copy == doc[Organizer]
  <1>1. /\ pc[Organizer] = "recreateMove" /\ Busy(Organizer)
        /\ org.work # <<>> /\ Task.kind = "doc" /\ driveReg' = driveReg /\ spaces' = spaces
        /\ UNCHANGED <<nodes, folders>> /\ input' = input /\ space' = space
        /\ docs \in Seq(DocRecord) /\ \A r \in Runs : r # Organizer
    BY ProcessesAre DEF OrgRecreateMove, Busy, IInv, CommandOK, TypeOK, FeishuTypes
  <1>2. /\ \A r \in Runs : ~Busy(r)
        /\ Organizer \in Procs /\ pc \in [Procs -> RunStages \cup OrganizerStages]
        /\ spaces <= 1 /\ wikiReg.space <= spaces /\ space[Organizer] = 1 /\ spaces = 1
    BY <1>1, CommandIsAlone
  <1>3. /\ docs' = MoveTo(copy, TaskParent) /\ NoteDoc(1)
        /\ pc' = [pc EXCEPT ![Organizer] = "work"]
    BY <1>2, Unfailed DEF OrgRecreateMove, IInv, Put
  <1>4. /\ wikiReg'.space = wikiReg.space /\ wikiReg'.nodes = wikiReg.nodes
        /\ wikiReg'.docs = wikiReg.docs \cup {[run |-> Task.run, type |-> TaskType, space |-> 1]}
        /\ mem'[Organizer].wiki = wikiReg' /\ mem'[Organizer].drive = driveReg
    BY <1>1, <1>3, NoteSaved
  <1>5. /\ DOMAIN docs' = DOMAIN docs
        /\ \A d \in DOMAIN docs : docs'[d].run = docs[d].run /\ docs'[d].i = docs[d].i
                                    /\ docs'[d].by = docs[d].by
    <2> DEFINE ds == MoveTo(copy, TaskParent)
    <2>1. TaskParent \in Nat
      BY <1>1, DocTaskIs
    <2>2. /\ DOMAIN ds = DOMAIN docs /\ \A d \in DOMAIN docs : d # copy => ds[d] = docs[d]
          /\ copy \in DOMAIN docs =>
                ds[copy] = [run |-> docs[copy].run, i |-> docs[copy].i, place |-> "wiki",
                            node |-> TaskParent, by |-> docs[copy].by]
      BY <1>1, <2>1, MoveToIs
    <2>3. docs' = ds
      BY <1>3
    <2> HIDE DEF ds
    <2> QED BY <2>2, <2>3
  <1>6. CommandRemembers' /\ pc'[Organizer] = "work"
    BY <1>1, <1>2, <1>3, <1>4 DEF CommandRemembers
  <1>7. \A r \in Runs : ~Busy(r) /\ pc'[r] = pc[r]
    BY <1>1, <1>2, <1>3, ProcessesAre
  <1>8. OnlyOne' /\ Remembered' /\ SpaceKnown'
    BY <1>1, <1>2, <1>4, <1>6, <1>7, CommandsTurn
  <1>9. FoldersKnown' /\ NodesKnown'
    BY <1>1, <1>4, MadeStays
  <1>10. ASSUME NEW r, NEW i, CopyNoted(r, i) \/ CopyInHand(r, i)
         PROVE  [run |-> r, type |-> input[r].docs[i], space |-> 1] \in wikiReg'.docs
    <2>1. CASE CopyInHand(r, i)
      <3>1. r = Task.run /\ input[r].docs[i] = TaskType
        BY <2>1 DEF CopyInHand, TaskType, TypeAt
      <3> QED BY <1>4, <3>1
    <2> QED BY <1>4, <1>10, <2>1 DEF CopyNoted
  <1>11. CopiesKnown'
    <2> SUFFICES ASSUME NEW d \in DOMAIN docs', docs'[d].by = "organizer"
                 PROVE  /\ CopyNoted(docs[d].run, docs[d].i)'
                        /\ \A e \in DOMAIN docs' : CopyOf(docs[d].run, docs[d].i, e)' => d = e
      BY DEF CopiesKnown, CopyOf, CopyNoted, CopyInHand
    <2>1. d \in DOMAIN docs /\ docs[d].by = "organizer"
      BY <1>5
    <2>2. CopyNoted(docs[d].run, docs[d].i) \/ CopyInHand(docs[d].run, docs[d].i)
      BY <2>1 DEF Alone, CopiesKnown
    <2>3. CopyNoted(docs[d].run, docs[d].i)'
      BY <1>1, <1>5, <1>10, <2>1, <2>2 DEF CopyNoted
    <2>4. \A e \in DOMAIN docs : CopyOf(docs[d].run, docs[d].i, e) => d = e
      BY <2>1 DEF Alone, CopiesKnown
    <2> QED BY <1>5, <2>1, <2>3, <2>4 DEF CopyOf
  <1> QED BY <1>8, <1>9, <1>11 DEF Alone

-----------------------------------------------------------------------------
LEMMA InitAlone == Init => AloneInv
  <1> SUFFICES ASSUME Init PROVE Alone
    BY DEF AloneInv
  <1>1. IInv
    BY InitIInv
  <1>2. /\ \A q \in Procs : pc[q] = "start"
        /\ Organizer \in Procs /\ \A r \in Runs : r \in Procs
        /\ spaces = 0 /\ nodes = <<>> /\ folders = <<>> /\ wikiReg = EmptyWiki
    BY ProcessesAre DEF Init
  <1>3. OnlyOne /\ Remembered
    BY <1>2 DEF OnlyOne, Remembered, CommandRemembers, RunRemembers, Busy
  <1>4. SpaceKnown
    BY <1>2 DEF SpaceKnown, EmptyWiki
  <1>5. FoldersKnown /\ NodesKnown
    BY <1>2 DEF FoldersKnown, NodesKnown
  <1>6. \A d \in DOMAIN docs : docs[d].by = "user"
    <2> DEFINE files == {[run |-> r, i |-> 0, place |-> "user", node |-> 0, by |-> "user"] :
                            r \in {x \in Runs : input[x].token}}
    <2>1. IsFiniteSet(files)
      <3> DEFINE named == {x \in Runs : input[x].token}
                 file(r) == [run |-> r, i |-> 0, place |-> "user", node |-> 0, by |-> "user"]
      <3>1. IsFiniteSet(named)
        BY PublishingAssumption, FS_Subset DEF PublishingAssumption
      <3>2. [r \in named |-> file(r)] \in Surjection(named, files)
        BY DEF Surjection
      <3> QED BY <3>1, <3>2, FS_Surjection
    <2>2. docs = SetToSeq(files)
      BY DEF Init
    <2>3. \A f \in files : f.by = "user"
      OBVIOUS
    <2> HIDE DEF files
    <2>4. docs \in Seq(files)
      BY <2>1, <2>2, SetToSeqIs
    <2> QED BY <2>3, <2>4
  <1>7. CopiesKnown
    BY <1>6 DEF CopiesKnown
  <1> QED BY <1>3, <1>4, <1>5, <1>7 DEF Alone

\* Faults are never taken back, nor is the note of an overlap.
LEMMA QuietBefore ==
  ASSUME IInv, [Next]_vars, Quiet'
  PROVE  Quiet
  <1>1. overlap \in BOOLEAN /\ faults \in Nat
    BY DEF IInv, TypeOK
  <1>2. ASSUME NEW r \in Runs, RunStep(r) PROVE ~overlap
    <2>1. CASE Begin(r)
      BY <1>1, <2>1 DEF Begin, NoteOverlap, Quiet
    <2>2. CASE ListSpaces(r) \/ CreateSpace(r) \/ CheckSpace(r) \/ CreateNode(r)
      BY <2>2 DEF ListSpaces, CreateSpace, CheckSpace, CreateNode, Quiet
    <2>3. CASE CreateWikiDoc(r) \/ MoveWikiDoc(r) \/ CreateFolder(r) \/ WriteDriveDoc(r)
      BY <2>3 DEF CreateWikiDoc, MoveWikiDoc, CreateFolder, WriteDriveDoc, Quiet
    <2> QED BY <1>2, <2>1, <2>2, <2>3 DEF RunStep
  <1>3. ASSUME NEW r \in Runs, RunStep(r) PROVE faults' = faults \/ \E o : Charge(o)
    <2>1. CASE Begin(r)
      BY <2>1 DEF Begin
    <2>2. CASE ListSpaces(r) \/ CreateSpace(r) \/ CheckSpace(r) \/ CreateNode(r)
      BY <2>2 DEF ListSpaces, CreateSpace, CheckSpace, CreateNode
    <2>3. CASE CreateWikiDoc(r) \/ MoveWikiDoc(r) \/ CreateFolder(r) \/ WriteDriveDoc(r)
      BY <2>3 DEF CreateWikiDoc, MoveWikiDoc, CreateFolder, WriteDriveDoc
    <2> QED BY <1>3, <2>1, <2>2, <2>3 DEF RunStep
  <1>4. CASE OrgStart
    BY <1>1, <1>4 DEF OrgStart, NoteOverlap, Quiet
  <1>5. ASSUME OrgStep PROVE ~overlap
    BY <1>5 DEF OrgStep, OrgListSpaces, OrgCreateSpace, OrgNode, OrgFolder, OrgMap, OrgSkipDoc,
       OrgRecreate, OrgRecreateMove, OrgMove, OrgEnd, Quiet
  <1>6. ASSUME OrgStep PROVE faults' = faults \/ \E o : Charge(o)
    <2>1. CASE OrgListSpaces \/ OrgCreateSpace \/ OrgMap \/ OrgSkipDoc \/ OrgEnd
      BY <2>1 DEF OrgListSpaces, OrgCreateSpace, OrgMap, OrgSkipDoc, OrgEnd
    <2>2. CASE OrgNode
      BY <2>2 DEF OrgNode
    <2>3. CASE OrgFolder
      BY <2>3 DEF OrgFolder
    <2>4. CASE OrgRecreate \/ OrgRecreateMove \/ OrgMove
      BY <2>4 DEF OrgRecreate, OrgRecreateMove, OrgMove
    <2> QED BY <1>6, <2>1, <2>2, <2>3, <2>4 DEF OrgStep
  <1>7. (\E o : Charge(o)) => faults = 0
    BY <1>1 DEF Charge, Quiet
  <1>8. CASE UNCHANGED vars
    BY <1>8 DEF vars, Quiet
  <1> QED BY <1>2, <1>3, <1>4, <1>5, <1>6, <1>7, <1>8 DEF Next, Quiet

LEMMA NextAlone == IInv /\ AloneInv /\ [Next]_vars => AloneInv'
  <1> SUFFICES ASSUME IInv, AloneInv, [Next]_vars, Quiet' PROVE Alone'
    BY DEF AloneInv
  <1>1. Alone /\ ~overlap' /\ faults' = 0
    BY QuietBefore DEF AloneInv, Quiet
  <1>2. ASSUME NEW r \in Runs, RunStep(r) PROVE Alone'
    BY <1>1, <1>2, BeginAlone, ListSpacesAlone, CreateSpaceAlone, CheckSpaceAlone,
       CreateNodeAlone, CreateWikiDocAlone, MoveWikiDocAlone, CreateFolderAlone,
       WriteDriveDocAlone DEF RunStep
  <1>3. CASE OrgStart
    BY <1>1, <1>3, OrgStartAlone
  <1>4. CASE OrgStep
    BY <1>1, <1>4, OrgListSpacesAlone, OrgCreateSpaceAlone, OrgNodeAlone, OrgFolderAlone,
       OrgMapAlone, OrgSkipDocAlone, OrgRecreateAlone, OrgRecreateMoveAlone, OrgMoveAlone,
       OrgEndAlone DEF OrgStep
  <1>5. CASE UNCHANGED vars
    <2>1. /\ pc' = pc /\ mem' = mem /\ input' = input /\ space' = space /\ pub' = pub
          /\ wikiReg' = wikiReg /\ driveReg' = driveReg /\ spaces' = spaces /\ nodes' = nodes
          /\ folders' = folders /\ docs' = docs /\ org' = org
      BY <1>5 DEF vars, memory, records, command, registries, feishu
    <2>2. OnlyOne' /\ Remembered' /\ SpaceKnown'
      BY <1>1, <2>1 DEF Alone, OnlyOne, Remembered, CommandRemembers, RunRemembers, SpaceKnown,
         Memo, Busy
    <2>3. FoldersKnown' /\ NodesKnown'
      BY <1>1, <2>1 DEF Alone, FoldersKnown, NodesKnown
    <2>4. CopiesKnown'
      BY <1>1, <2>1 DEF Alone, CopiesKnown, CopyNoted, CopyInHand, CopyOf, Task
    <2> QED BY <2>2, <2>3, <2>4 DEF Alone
  <1> QED BY <1>2, <1>3, <1>4, <1>5 DEF Next

\* One at work, and registries that know what was made, make nothing twice.
LEMMA AloneReuses == AloneInv => ReusedWhenAlone
  <1> SUFFICES ASSUME AloneInv, Quiet PROVE Alone => ReusedWhenAlone
    BY DEF AloneInv, Quiet, ReusedWhenAlone
  <1> HAVE Alone
  <1>1. \A d, e \in DOMAIN docs :
           /\ docs[d].by = "organizer" /\ docs[e].by = "organizer"
           /\ docs[d].run = docs[e].run /\ docs[d].i = docs[e].i
           => d = e
    BY DEF Alone, CopiesKnown, CopyOf
  <1> QED BY <1>1 DEF Alone, SpaceKnown, FoldersKnown, NodesKnown, ReusedWhenAlone

\* While no two processes overlap and no call fails, what is made is made once.
THEOREM ReusedAlone == Spec => []ReusedWhenAlone
  <1>1. Spec => [](IInv /\ AloneInv)
    BY Invariant, InitAlone, NextAlone, PTL DEF Spec
  <1> QED BY <1>1, AloneReuses, PTL
=============================================================================
