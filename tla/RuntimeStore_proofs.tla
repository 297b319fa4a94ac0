------------------------ MODULE RuntimeStore_proofs ------------------------
(***************************************************************************)
(* Safety of the runtime store for any runs, files, contents, lifetimes    *)
(* and quotas, and any number of commands, deaths and failed deletions.    *)
(***************************************************************************)
EXTENDS RuntimeStore, FiniteSetTheorems, TLAPS

-----------------------------------------------------------------------------
(* The inductive invariant. *)

Row == [status : {"none", "ready", "deleted", "quarantined"}, sha : Contents \cup {None},
        obj : Contents \cup {None}, made : Nat, used : Nat, pinned : BOOLEAN]
Table == [rows : [Paths -> Row], known : SUBSET Runs, pins : SUBSET Runs,
          refs : SUBSET (Keys \X Paths)]
Bytes == [c : Contents \cup {None}, made : Nat]
Marks(statuses) == {NoMark} \cup [path : Paths, status : statuses]

IndexCmd == [op : {"index"}, queue : SUBSET (Runs \cup {Cache}), run : Runs \cup {Cache, None},
             todo : SUBSET Paths, cas : BOOLEAN, again : BOOLEAN]
CleanupCmd == [op : {"cleanup"}, todo : SUBSET Paths,
               mark : Marks({"missing", "deleted", "failed"}), phase : {"ttl", "quota"},
               kind : Kinds \cup {None}, over : [Kinds -> Nat], got : Nat, seen : SUBSET Paths,
               counted : Table, gone : Nat]
DedupeCmd == [op : {"dedupe"}, groups : SUBSET Contents, todo : SUBSET Paths,
              mark : Marks({"linked"}), obj : Contents \cup {None}]
Selection == UNION {[S -> Contents \cup {None}] : S \in SUBSET Paths}
QuarantineCmd == [op : {"quarantine"}, todo : SUBSET Paths, mark : Marks({"quarantined"}),
                  selected : Selection]
OperatorCmd == {Idle} \cup IndexCmd \cup CleanupCmd \cup DedupeCmd \cup QuarantineCmd

DiskTypes ==
    /\ file \in [Paths -> Paths \cup Contents \cup {None}]
    /\ object \in SUBSET Contents
    /\ bytes \in [Paths \cup Contents -> Bytes]
RowTypes == db \in Table /\ draft \in Table /\ writer \in Procs \cup {None}
CmdTypes ==
    /\ DOMAIN cmd = Procs
    /\ cmd[Operator] \in OperatorCmd /\ cmd[Handler] \in {Idle} \cup IndexCmd
    /\ cmd = [i \in Procs |-> cmd[i]]
HistoryTypes ==
    /\ answer \in [Paths -> Paths \cup Contents \cup {None}]
    /\ given \in [Paths -> Contents \cup {None}]
    /\ reused \in SUBSET Paths /\ kept \in SUBSET (Runs \cup Paths) /\ protected \in SUBSET Paths

TypeOK ==
    /\ task \in Scenarios /\ now \in Nat
    /\ DiskTypes /\ RowTypes /\ CmdTypes /\ HistoryTypes

(* A write in place changes every file linked to the same object, so what  *)
(* may have been the bytes of a cached text is told apart from nothing but *)
(* other contents.                                                         *)
Texts == UNION {task.arrives[p] : p \in {q \in Paths : Run(q) = Cache}}
Similar(c, d) == c = d \/ (c \in Texts /\ d \in Texts)
Near(c, p) == given[p] # None /\ Similar(c, given[p])

(* Every file has the bytes it was given, or the like, and shares them     *)
(* with an object of the like or, attachments only, with another path.     *)
FileOK(p) ==
    Exists(p) =>
        /\ Content(p) # None /\ Near(Content(p), p)
        /\ file[p] \in Contents => Near(file[p], p)
        /\ file[p] \in Paths => given[file[p]] # None
        /\ file[p] \in Paths /\ file[p] # p => Kind(p) = "raw_media" /\ Kind(file[p]) = "raw_media"
ObjectOK(d) ==
    /\ d \in object => bytes[d].c # None
    /\ bytes[d].c # None => Similar(bytes[d].c, d)
TextOK(p) == Run(p) = Cache => given[p] \in Texts \cup {None}
DiskOK == (\A p \in Paths : FileOK(p) /\ TextOK(p)) /\ \A d \in Contents : ObjectOK(d)

(* A row tells of its file: what it was given, under which key, and that   *)
(* it is gone.                                                             *)
Tells(row, p) ==
    /\ row.status # "none" => given[p] # None
    /\ row.sha # None => Near(row.sha, p)
    /\ row.obj # None => Near(row.obj, p)
    /\ row.status \in {"deleted", "quarantined"} => ~Exists(p)
RefsOK(t) == \A k \in Keys, p \in Paths : <<k, p>> \in t.refs => k = task.key[p] /\ given[p] # None
TableOK(t) == (\A p \in Paths : Tells(t.rows[p], p)) /\ RefsOK(t)
RowsOK == TableOK(db) /\ TableOK(draft)

(* What a command is about to do fits the files.                           *)
Marked == cmd[Operator].mark.path
Clears(op) ==
    Working(op) =>
        /\ \A p \in Todo : given[p] # None
        /\ Mark # NoMark => Marked \in Todo /\ (Mark.status # "failed" => ~Exists(Marked))
Links ==
    Working("dedupe") =>
        /\ Todo # {} \/ Mark # NoMark => cmd[Operator].obj \in object
        /\ \A p \in Todo : Near(cmd[Operator].obj, p)
        /\ Mark # NoMark => Marked \in Todo
CmdOK == Clears("cleanup") /\ Clears("quarantine") /\ Links

(* Pins are the same in both tables, and a cleanup keeps off what they     *)
(* protect.                                                                *)
SamePins(t, u) == t.pins = u.pins /\ \A p \in Paths : t.rows[p].pinned = u.rows[p].pinned
KeptOK == \A x \in kept : IF x \in Runs THEN x \in db.pins ELSE db.rows[x].pinned
ProtectedOK ==
    /\ protected # {} => Working("cleanup")
    /\ \A p \in protected : Exists(p) /\ Pinned(db, p)
    /\ Working("cleanup") => \A p \in Todo : ~Pinned(db, p)
PinsOK == SamePins(db, draft) /\ KeptOK /\ ProtectedOK

(* What a run takes is what its key stands for.                            *)
Named(x, q) ==
    /\ Kind(q) = "raw_media" /\ Run(q) \notin Fixtures /\ task.key[q] # None
    /\ x \in Paths => Kind(x) = "raw_media" /\ given[x] = task.genuine[task.key[q]]
    /\ x \in Contents => x = task.genuine[task.key[q]] /\ x \notin Texts
ReuseOK ==
    /\ \A q \in Paths : answer[q] # None => Named(answer[q], q)
    /\ \A p \in reused : Kind(p) = "raw_media" /\ given[p] # None
    /\ \A p \in Paths : Kind(p) = "raw_media" => given[p] \notin Texts
    /\ \A p \in Paths : Kind(p) = "raw_media" /\ Run(p) \notin Fixtures /\ task.key[p] # None =>
          given[p] \in {task.genuine[task.key[p]], None} \cup task.bad
    /\ ReusedIsGenuine

(* What the rows of a kind count is what was counted, less what was        *)
(* reclaimed or found without a file.                                      *)
Bytes_(t, k) == effective_kind_bytes(t, k)
Counted(c, t) ==
    /\ Bytes_(t, c.kind) + c.gone + c.got >= task.max_bytes[c.kind] + c.over[c.kind]
    /\ \A k \in Kinds \ {c.kind} : c.over[k] > 0 => Bytes_(t, k) >= task.max_bytes[k] + c.over[k]
QuotaOK ==
    LET c == cmd[Operator] IN
    Working("cleanup") /\ c.phase = "quota" =>
        /\ c.kind \in Kinds /\ c.over[c.kind] > 0 /\ c.got <= c.over[c.kind]
        /\ c.todo # {} => c.got < c.over[c.kind]
        /\ \A p \in c.todo : Kind(p) = c.kind
        /\ writer # Operator => c.got = 0 /\ c.gone = 0 /\ Counted(c, c.counted)
        /\ writer = Operator /\ db = c.counted => Counted(c, draft)

IInv == TypeOK /\ DiskOK /\ RowsOK /\ CmdOK /\ PinsOK /\ ReuseOK /\ QuotaOK

-----------------------------------------------------------------------------
(* Types of the operators. *)

(* The fields of a scenario.                                               *)
LEMMA ScenarioType ==
  ASSUME TypeOK
  PROVE  /\ \A p \in Paths : Run(p) \in Runs \cup {Cache} /\ Kind(p) \in Kinds
         /\ \A p \in Paths : task.key[p] \in Keys \cup {None}
         /\ \A p \in Paths : task.arrives[p] \subseteq Contents
         /\ \A k \in Keys : task.genuine[k] \in Contents
         /\ task.bad \subseteq Contents
         /\ task.ttl \in [Kinds -> Nat] /\ task.max_bytes \in [Kinds -> Nat]
BY RuntimeStoreAssumption DEF RuntimeStoreAssumption, TypeOK, Scenario, Run, Kind

(* What is a path, a content, a run or None is nothing else.               *)
LEMMA Different ==
    /\ None \notin Paths /\ None \notin Contents /\ None \notin Runs /\ None \notin Keys
    /\ None \notin Procs /\ Paths \cap Contents = {} /\ Paths \cap Runs = {}
    /\ Cache \notin Runs /\ Cache \notin Paths
    /\ Handler \in Procs /\ Operator \in Procs /\ Handler # Operator
BY RuntimeStoreAssumption DEF RuntimeStoreAssumption, Procs, Handler, Operator

LEMMA ViewType ==
  ASSUME RowTypes, NEW i \in Procs
  PROVE  View(i) \in Table
BY DEF RowTypes, View

LEMMA PutType ==
  ASSUME RowTypes, NEW i \in Procs, NEW new \in Table, Put(i, new)
  PROVE  RowTypes'
BY DEF RowTypes, Put

LEMMA CommitType ==
  ASSUME RowTypes, NEW i \in Procs, NEW new \in Table, Commit(i, new)
  PROVE  RowTypes'
BY DEF RowTypes, Commit

LEMMA CommitIfOpenType ==
  ASSUME RowTypes, NEW i \in Procs, CommitIfOpen(i)
  PROVE  RowTypes'
BY DEF RowTypes, CommitIfOpen, Commit, rows

LEMMA TableRow ==
  ASSUME NEW t \in Table, NEW p \in Paths
  PROVE  t.rows[p] \in Row
BY DEF Table

LEMMA RowsType ==
  ASSUME NEW t \in Table, NEW p \in Paths, NEW row \in Row
  PROVE  [t EXCEPT !.rows[p] = row] \in Table
BY DEF Table

LEMMA UpsertType ==
  ASSUME NEW t \in Table, NEW p \in Paths, NEW new \in Row
  PROVE  Upsert(t, p, new) \in Table
<1>1. t.rows[p] \in Row
  BY TableRow
<1> DEFINE row == [new EXCEPT !.obj = IF new.obj = None THEN t.rows[p].obj ELSE new.obj,
                      !.used = IF t.rows[p].status = "none" THEN new.used ELSE t.rows[p].used,
                      !.pinned = t.rows[p].pinned]
<1>2. row \in Row
  BY <1>1 DEF Row
<1>3. Upsert(t, p, new) = [t EXCEPT !.rows[p] = row]
  BY DEF Upsert
<1> HIDE DEF row
<1> QED BY <1>2, <1>3, RowsType

LEMMA SetStatusType ==
  ASSUME NEW t \in Table, NEW p \in Paths,
         NEW s \in {"none", "ready", "deleted", "quarantined"}
  PROVE  SetStatus(t, p, s) \in Table
<1>1. t.rows[p] \in Row
  BY TableRow
<1> DEFINE row == [t.rows[p] EXCEPT !.status = s]
<1>2. row \in Row
  BY <1>1 DEF Row
<1>3. SetStatus(t, p, s) = [t EXCEPT !.rows[p] = row]
  BY DEF SetStatus
<1> HIDE DEF row
<1> QED BY <1>2, <1>3, RowsType

LEMMA DiskType ==
  ASSUME NEW f \in [Paths -> Paths \cup Contents \cup {None}], NEW o \in SUBSET Contents,
         NEW b \in [Paths \cup Contents -> Bytes], Disk(f, o, b)
  PROVE  DiskTypes'
<1>1. NoBytes \in Bytes
  BY DEF NoBytes, Bytes
<1> QED BY <1>1 DEF DiskTypes, Disk

(* The bytes of a file that is there.                                      *)
LEMMA ContentType ==
  ASSUME DiskTypes, NEW p \in Paths, Exists(p)
  PROVE  /\ file[p] \in Paths \cup Contents /\ bytes[file[p]] \in Bytes
         /\ bytes[file[p]] = [c |-> Content(p), made |-> bytes[file[p]].made]
BY DEF DiskTypes, Exists, Bytes, Content

LEMMA CasType ==
  ASSUME DiskTypes, NEW d \in Contents, NEW b \in Bytes
  PROVE  ensure_cas_object(d, b) \in [Paths \cup Contents -> Bytes]
BY DEF DiskTypes, ensure_cas_object

(* What the rows of a kind count is a number.                              *)
LEMMA CountType ==
  ASSUME NEW t, NEW k
  PROVE  /\ IsFiniteSet({StorageKey(t, p) : p \in {q \in Paths : Live(t, q) /\ Kind(q) = k}})
         /\ effective_kind_bytes(t, k) \in Nat
<1> DEFINE Q == {q \in Paths : Live(t, q) /\ Kind(q) = k}
           T == {StorageKey(t, p) : p \in Q}
           f == [p \in Q |-> StorageKey(t, p)]
<1>1. IsFiniteSet(Q)
  BY RuntimeStoreAssumption, FS_Subset DEF RuntimeStoreAssumption
<1>2. f \in Surjection(Q, T)
  BY DEF Surjection
<1>3. IsFiniteSet(T)
  BY <1>1, <1>2, FS_Surjection
<1> QED BY <1>3, FS_CardinalityType DEF effective_kind_bytes

(* A command of the given kind has the fields of that kind.                *)
LEMMA CmdOf ==
  ASSUME CmdTypes
  PROVE  /\ \A i \in Procs : cmd[i].op = "index" => cmd[i] \in IndexCmd
         /\ Working("cleanup") => cmd[Operator] \in CleanupCmd
         /\ Working("dedupe") => cmd[Operator] \in DedupeCmd
         /\ Working("quarantine") => cmd[Operator] \in QuarantineCmd
         /\ cmd[Operator] = Idle \/ cmd[Operator].op \in {"index", "cleanup", "dedupe", "quarantine"}
         /\ cmd[Handler] = Idle \/ cmd[Handler].op = "index"
<1>1. /\ \A c \in IndexCmd : c.op = "index"
      /\ \A c \in CleanupCmd : c.op = "cleanup"
      /\ \A c \in DedupeCmd : c.op = "dedupe"
      /\ \A c \in QuarantineCmd : c.op = "quarantine"
      /\ Idle.op = "idle"
  BY DEF IndexCmd, CleanupCmd, DedupeCmd, QuarantineCmd, Idle
<1> QED BY <1>1 DEF CmdTypes, OperatorCmd, Working, Procs

(* A process has another command.                                          *)
LEMMA NewCmd ==
  ASSUME CmdTypes, NEW i \in Procs, NEW c, cmd' = [cmd EXCEPT ![i] = c],
         i = Operator => c \in OperatorCmd, i = Handler => c \in {Idle} \cup IndexCmd
  PROVE  /\ CmdTypes' /\ cmd'[i] = c
         /\ \A j \in Procs \ {i} : cmd'[j] = cmd[j]
BY Different DEF CmdTypes, Procs

-----------------------------------------------------------------------------
(* Type correctness, command by command. *)

(* What a step leaves alone keeps its type.                                *)
LEMMA TypeFrames ==
  ASSUME TypeOK
  PROVE  /\ UNCHANGED disk => DiskTypes'
         /\ UNCHANGED rows => RowTypes'
         /\ UNCHANGED cmd => CmdTypes'
         /\ UNCHANGED <<answer, history>> => HistoryTypes'
         /\ task' = task /\ now' = now => task' \in Scenarios /\ now' \in Nat
BY DEF TypeOK, DiskTypes, RowTypes, CmdTypes, HistoryTypes, disk, rows, history

LEMMA TypeFiles ==
  ASSUME TypeOK, NEW p \in Paths, Arrive(p) \/ Rewrite(p) \/ Find(p) \/ Reuse(p)
  PROVE  TypeOK'
<1> USE DEF TypeOK
<1>1. ASSUME NEW c \in Contents, NEW x \in Paths \cup Contents,
             NEW b, b = [bytes EXCEPT ![x] = [c |-> c, made |-> now]],
             Disk([file EXCEPT ![p] = x], object, b)
      PROVE  DiskTypes'
  <2>1. [c |-> c, made |-> now] \in Bytes
    BY DEF Bytes
  <2>2. b \in [Paths \cup Contents -> Bytes]
    BY <2>1, <1>1 DEF DiskTypes
  <2>3. [file EXCEPT ![p] = x] \in [Paths -> Paths \cup Contents \cup {None}]
    BY DEF DiskTypes
  <2> QED BY <1>1, <2>2, <2>3, DiskType DEF DiskTypes
<1>2. CASE Arrive(p)
  <2>1. PICK c \in task.arrives[p] : Write(p, c)
    BY <1>2 DEF Arrive
  <2>2. c \in Contents
    BY ScenarioType
  <2>3. DiskTypes'
    BY <1>1, <2>1, <2>2 DEF Write
  <2>4. HistoryTypes'
    BY <1>2, <2>1, <2>2 DEF HistoryTypes, Write, Arrive
  <2> QED BY <1>2, <2>3, <2>4, TypeFrames DEF Arrive
<1>3. CASE Rewrite(p)
  <2>1. PICK c \in task.arrives[p] \ {Content(p)}, x \in {p, file[p]} :
           /\ Disk([file EXCEPT ![p] = x], object, [bytes EXCEPT ![x] = [c |-> c, made |-> now]])
           /\ given' = [given EXCEPT ![p] = c]
    BY <1>3 DEF Rewrite
  <2>2. c \in Contents /\ x \in Paths \cup Contents
    BY <1>3, ScenarioType, ContentType DEF Rewrite
  <2>3. DiskTypes'
    BY <1>1, <2>1, <2>2
  <2>4. HistoryTypes'
    BY <1>3, <2>1, <2>2 DEF HistoryTypes, Rewrite
  <2> QED BY <1>3, <2>3, <2>4, TypeFrames DEF Rewrite
<1>4. CASE Find(p)
  <2>1. PICK q \in Paths : answer' = [answer EXCEPT ![p] = available(q)]
    BY <1>4 DEF Find, Candidates
  <2>2. available(q) \in Paths \cup Contents \cup {None}
    BY DEF available, DiskTypes
  <2>3. HistoryTypes'
    BY <1>4, <2>1, <2>2 DEF Find, HistoryTypes, history
  <2> QED BY <1>4, <2>3, TypeFrames DEF Find
<1>5. CASE Reuse(p)
  <2> DEFINE x == answer[p]
             there == IF x \in Paths THEN file[x] ELSE IF x \in object THEN x ELSE None
  <2>1. /\ there \in Paths \cup Contents /\ bytes[there].c \in Contents \cup {None}
        /\ Disk([file EXCEPT ![p] = there], object, bytes)
        /\ given' = [given EXCEPT ![p] = bytes[there].c]
    <3>1. /\ there # None /\ Disk([file EXCEPT ![p] = there], object, bytes)
          /\ given' = [given EXCEPT ![p] = bytes[there].c]
      BY <1>5 DEF Reuse
    <3>2. there \in Paths \cup Contents
      BY <3>1 DEF DiskTypes
    <3> QED BY <3>1, <3>2 DEF DiskTypes, Bytes
  <2> HIDE DEF there
  <2>2. [file EXCEPT ![p] = there] \in [Paths -> Paths \cup Contents \cup {None}]
    BY <2>1 DEF DiskTypes
  <2>3. DiskTypes'
    BY <2>1, <2>2, DiskType DEF DiskTypes
  <2>4. HistoryTypes'
    BY <1>5, <2>1 DEF HistoryTypes, Reuse
  <2> QED BY <1>5, <2>3, <2>4, TypeFrames DEF Reuse
<1> QED BY <1>2, <1>3, <1>4, <1>5

LEMMA TypeIndex ==
  ASSUME TypeOK, DiskOK,
         \/ IndexRun \/ Scan
         \/ \E i \in Procs : NextRun(i) \/ IndexDone(i) \/ \E p \in Paths : IndexFile(i, p)
  PROVE  TypeOK'
<1> USE DEF TypeOK
<1>1. ASSUME NEW R \in SUBSET (Runs \cup {Cache}), NEW cas \in BOOLEAN, NEW again \in BOOLEAN
      PROVE  Indexing(R, cas, again) \in IndexCmd
  BY DEF Indexing, IndexCmd
<1>2. discover_run_dirs \subseteq Runs
  BY DEF discover_run_dirs
<1>3. CASE IndexRun
  <2>1. PICK r \in Runs : cmd' = [cmd EXCEPT ![Handler] = Indexing({r}, TRUE, FALSE)]
    BY <1>3 DEF IndexRun, Begin
  <2>2. CmdTypes'
    BY <1>1, <2>1, NewCmd, Different
  <2> QED BY <1>3, <2>2, TypeFrames DEF IndexRun
<1>4. CASE Scan
  <2>1. PICK again \in BOOLEAN :
           cmd' = [cmd EXCEPT ![Operator] = Indexing(discover_run_dirs \cup {Cache}, FALSE, again)]
    BY <1>4 DEF Scan, Begin
  <2>2. CmdTypes'
    BY <1>1, <1>2, <2>1, NewCmd, Different DEF OperatorCmd
  <2> QED BY <1>4, <2>2, TypeFrames DEF Scan
<1>5. ASSUME NEW i \in Procs, NextRun(i) \/ IndexDone(i) \/ \E p \in Paths : IndexFile(i, p)
      PROVE  TypeOK'
  <2>1. cmd[i] \in IndexCmd
    BY <1>5, CmdOf DEF NextRun, IndexDone, IndexFile
  <2>2. ASSUME NEW c \in {Idle} \cup IndexCmd, cmd' = [cmd EXCEPT ![i] = c]
        PROVE  CmdTypes'
    BY <2>2, NewCmd DEF OperatorCmd
  <2>3. CASE NextRun(i)
    <3> DEFINE r == IF cmd[i].queue \cap Runs # {} THEN CHOOSE r \in Runs : r \in cmd[i].queue
                    ELSE Cache
               c == [cmd[i] EXCEPT !.run = r, !.queue = @ \ {r},
                                   !.todo = {p \in PathsOf(r) : Exists(p)}]
    <3>1. r \in Runs \cup {Cache}
      OBVIOUS
    <3>2. /\ cmd' = [cmd EXCEPT ![i].run = r, ![i].queue = @ \ {r},
                                ![i].todo = {p \in PathsOf(r) : Exists(p)}]
          /\ IF r = Cache THEN UNCHANGED rows
             ELSE Put(i, [View(i) EXCEPT !.known = @ \cup {r}])
      BY <2>3 DEF NextRun
    <3> HIDE DEF r
    <3>3. {p \in PathsOf(r) : Exists(p)} \in SUBSET Paths
      BY DEF PathsOf
    <3>4. c \in IndexCmd /\ cmd' = [cmd EXCEPT ![i] = c]
      BY <2>1, <3>1, <3>2, <3>3 DEF IndexCmd, CmdTypes
    <3>5. CmdTypes'
      BY <2>2, <3>4
    <3>6. RowTypes'
      <4>1. CASE r = Cache
        BY <3>2, <4>1, TypeFrames
      <4>2. CASE r # Cache
        <5>1. [View(i) EXCEPT !.known = @ \cup {r}] \in Table
          BY <3>1, <4>2, ViewType DEF Table
        <5> QED BY <3>2, <4>2, <5>1, PutType
      <4> QED BY <4>1, <4>2
    <3> QED BY <2>3, <3>5, <3>6, TypeFrames DEF NextRun
  <2>4. ASSUME NEW p \in Paths, IndexFile(i, p)
        PROVE  TypeOK'
    <3> DEFINE c == [cmd[i] EXCEPT !.todo = @ \ {p}]
    <3>1. c \in IndexCmd /\ cmd' = [cmd EXCEPT ![i] = c]
      BY <2>1, <2>4 DEF IndexCmd, CmdTypes, IndexFile
    <3>2. CmdTypes'
      BY <2>2, <3>1
    <3>3. DiskTypes' /\ RowTypes'
      <4>1. CASE ~Exists(p)
        BY <2>4, <4>1, TypeFrames DEF IndexFile
      <4>2. CASE Exists(p)
        <5> DEFINE b == bytes[file[p]]
                   linked == cmd[i].cas /\ should_cas(p)
                   new == [status |-> "ready", sha |-> b.c, obj |-> IF linked THEN b.c ELSE None,
                           made |-> b.made, used |-> b.made, pinned |-> FALSE]
        <5>1. /\ IF linked
                 THEN Disk(replace_with_compat_link(p, b.c), object \cup {b.c},
                           ensure_cas_object(b.c, b))
                 ELSE UNCHANGED disk
              /\ Put(i, Upsert(View(i), p, new))
          BY <2>4, <4>2 DEF IndexFile, register_artifact
        <5>2. b \in Bytes
          BY <4>2, ContentType
        <5> HIDE DEF b
        <5>3. new \in Row
          BY <5>2 DEF Row, Bytes
        <5>4. Upsert(View(i), p, new) \in Table
          BY <5>3, ViewType, UpsertType
        <5> HIDE DEF new
        <5>5. RowTypes'
          BY <5>1, <5>4, PutType
        <5>6. DiskTypes'
          <6>1. CASE ~linked
            BY <5>1, <6>1, TypeFrames
          <6>2. CASE linked /\ b.c \in Contents
            <7>1. ensure_cas_object(b.c, b) \in [Paths \cup Contents -> Bytes]
              BY <5>2, <6>2, CasType
            <7>2. /\ replace_with_compat_link(p, b.c) \in [Paths -> Paths \cup Contents \cup {None}]
                  /\ object \cup {b.c} \in SUBSET Contents
              BY <6>2 DEF DiskTypes, replace_with_compat_link
            <7> QED BY <5>1, <6>2, <7>1, <7>2, DiskType
          <6>3. b.c \in Contents
            BY <4>2, <5>2 DEF DiskOK, FileOK, Content, Bytes, b
          <6> QED BY <6>1, <6>2, <6>3
        <5> QED BY <5>5, <5>6
      <4> QED BY <4>1, <4>2
    <3> QED BY <2>4, <3>2, <3>3, TypeFrames DEF IndexFile
  <2>5. CASE IndexDone(i)
    <3>1. CmdTypes'
      <4> DEFINE c == IF cmd[i].queue # {} THEN [cmd[i] EXCEPT !.run = None]
                      ELSE IF cmd[i].again /\ discover_run_dirs # {}
                           THEN Indexing(discover_run_dirs, TRUE, FALSE) ELSE Idle
      <4>1. cmd' = [cmd EXCEPT ![i] = c]
        BY <2>5 DEF IndexDone, CmdTypes
      <4>2. c \in {Idle} \cup IndexCmd
        <5>1. [cmd[i] EXCEPT !.run = None] \in IndexCmd
          BY <2>1 DEF IndexCmd
        <5>2. Indexing(discover_run_dirs, TRUE, FALSE) \in IndexCmd
          BY <1>1, <1>2
        <5> QED BY <5>1, <5>2
      <4> HIDE DEF c
      <4> QED BY <2>2, <4>1, <4>2
    <3>2. RowTypes'
      <4>1. CASE writer # i
        BY <2>5, <4>1, TypeFrames DEF IndexDone
      <4>2. CASE writer = i
        <5>1. index_sources(draft, cmd[i].run) \in Table
          <6> DEFINE more == {<<task.key[p], p>> :
                       p \in {q \in PathsOf(cmd[i].run) : task.key[q] # None /\ Live(draft, q)}}
          <6>1. more \in SUBSET (Keys \X Paths)
            BY ScenarioType DEF PathsOf
          <6>2. index_sources(draft, cmd[i].run) = [draft EXCEPT !.refs = @ \cup more]
            BY DEF index_sources
          <6> HIDE DEF more
          <6> QED BY <6>1, <6>2 DEF RowTypes, Table
        <5> QED BY <2>5, <4>2, <5>1, CommitType DEF IndexDone
      <4> QED BY <4>1, <4>2
    <3> QED BY <2>5, <3>1, <3>2, TypeFrames DEF IndexDone
  <2> QED BY <1>5, <2>3, <2>4, <2>5
<1> QED BY <1>3, <1>4, <1>5

(* The record of an operator's command is replaced by one of its kind.     *)
LEMMA OperatorCmdType ==
  ASSUME CmdTypes, NEW c \in OperatorCmd, cmd' = [cmd EXCEPT ![Operator] = c]
  PROVE  CmdTypes'
BY NewCmd, Different

LEMMA TypeCleanup ==
  ASSUME TypeOK, Cleanup \/ DeleteFile \/ DeleteRow \/ AboveQuota
  PROVE  TypeOK'
<1> USE DEF TypeOK
<1>1. ASSUME NEW c \in CleanupCmd, cmd' = [cmd EXCEPT ![Operator] = c]
      PROVE  CmdTypes'
  BY <1>1, OperatorCmdType DEF OperatorCmd
<1>2. View(Operator) \in Table
  BY ViewType, Different
<1>3. NoOverage \in [Kinds -> Nat]
  BY DEF NoOverage
<1>4. CASE Cleanup
  <2> DEFINE c == [op |-> "cleanup", todo |-> expired_candidate_rows(db), mark |-> NoMark,
                   phase |-> "ttl", kind |-> None, over |-> NoOverage,
                   got |-> 0, seen |-> {}, counted |-> db, gone |-> 0]
  <2>1. cmd' = [cmd EXCEPT ![Operator] = c]
    BY <1>4 DEF Cleanup, Begin
  <2>2. expired_candidate_rows(db) \in SUBSET Paths
    BY DEF expired_candidate_rows
  <2>3. c \in CleanupCmd
    BY <1>3, <2>2 DEF CleanupCmd, Marks, RowTypes
  <2> HIDE DEF c
  <2>4. CmdTypes'
    BY <1>1, <2>1, <2>3
  <2>5. HistoryTypes'
    BY <1>4 DEF Cleanup, HistoryTypes
  <2> QED BY <1>4, <2>4, <2>5, TypeFrames DEF Cleanup
<1>5. CASE DeleteFile
  <2>1. cmd[Operator] \in CleanupCmd
    BY <1>5, CmdOf DEF DeleteFile
  <2>2. PICK p \in Paths, s \in {"missing", "deleted", "failed"} :
           /\ cmd' = [cmd EXCEPT ![Operator].mark = [path |-> p, status |-> s]]
           /\ UNCHANGED disk \/ Disk(Unlinked(p), object, bytes)
    <3>1. PICK p \in IF cmd[Operator].phase = "quota" THEN Oldest(View(Operator), Todo) ELSE Todo :
               \/ /\ cmd' = [cmd EXCEPT ![Operator].mark = [path |-> p, status |-> "missing"]]
                  /\ UNCHANGED disk
               \/ /\ cmd' = [cmd EXCEPT ![Operator].mark = [path |-> p, status |-> "deleted"]]
                  /\ Disk(Unlinked(p), object, bytes)
               \/ /\ cmd' = [cmd EXCEPT ![Operator].mark = [path |-> p, status |-> "failed"]]
                  /\ UNCHANGED disk
      BY <1>5 DEF DeleteFile
    <3>2. p \in Paths
      BY <2>1, <3>1 DEF Oldest, Todo, CleanupCmd
    <3> QED BY <3>1, <3>2
  <2> DEFINE mark == [path |-> p, status |-> s]
             c == [cmd[Operator] EXCEPT !.mark = mark]
  <2>3. mark \in Marks({"missing", "deleted", "failed"})
    BY DEF Marks
  <2>4. cmd' = [cmd EXCEPT ![Operator].mark = mark]
    BY <2>2
  <2> HIDE DEF mark
  <2>5. c \in CleanupCmd /\ cmd' = [cmd EXCEPT ![Operator] = c]
    BY <2>1, <2>3, <2>4 DEF CleanupCmd, CmdTypes
  <2>6. CmdTypes'
    BY <1>1, <2>5
  <2>7. DiskTypes'
    <3>1. Unlinked(p) \in [Paths -> Paths \cup Contents \cup {None}]
      BY DEF Unlinked, DiskTypes
    <3> QED BY <2>2, <3>1, DiskType, TypeFrames DEF DiskTypes
  <2> QED BY <1>5, <2>6, <2>7, TypeFrames DEF DeleteFile
<1>6. CASE DeleteRow
  <2>1. cmd[Operator] \in CleanupCmd /\ Mark # NoMark
    BY <1>6, CmdOf DEF DeleteRow
  <2>2. Mark \in [path : Paths, status : {"missing", "deleted", "failed"}]
    BY <2>1 DEF Mark, CleanupCmd, Marks
  <2>3. AfterDelete(View(Operator), Mark.path, Mark.status) \in Table
    BY <1>2, <2>2, SetStatusType DEF AfterDelete
  <2>4. RowTypes'
    BY <1>6, <2>3, PutType, Different DEF DeleteRow
  <2>5. PICK todo \in SUBSET Paths, seen \in SUBSET Paths, got \in Nat, gone \in Nat :
           cmd' = [cmd EXCEPT ![Operator].mark = NoMark, ![Operator].seen = seen,
                      ![Operator].todo = todo, ![Operator].got = got, ![Operator].gone = gone]
    <3> DEFINE c == cmd[Operator]
               more == c.got + IF Mark.status = "deleted" THEN Size(Mark.path) ELSE 0
               done == c.phase = "quota" /\ Enough(more, c.over[c.kind])
               todo == IF done THEN {} ELSE c.todo \ {Mark.path}
               seen == c.seen \cup {Mark.path}
               got == IF c.phase = "quota" THEN more ELSE 0
               gone == IF c.phase = "quota" /\ Mark.status = "missing" THEN c.gone + 1 ELSE c.gone
    <3>1. c.todo \in SUBSET Paths /\ c.seen \in SUBSET Paths /\ c.got \in Nat /\ c.gone \in Nat
      BY <2>1 DEF CleanupCmd
    <3>2. todo \in SUBSET Paths /\ seen \in SUBSET Paths /\ got \in Nat /\ gone \in Nat
      BY <2>2, <3>1 DEF Size
    <3>3. cmd' = [cmd EXCEPT ![Operator].mark = NoMark, ![Operator].seen = seen,
                      ![Operator].todo = todo, ![Operator].got = got, ![Operator].gone = gone]
      BY <1>6 DEF DeleteRow, CmdTypes
    <3> HIDE DEF todo, seen, got, gone
    <3> QED BY <3>2, <3>3
  <2> DEFINE c == [cmd[Operator] EXCEPT !.mark = NoMark, !.seen = seen, !.todo = todo,
                                        !.got = got, !.gone = gone]
  <2>6. c \in CleanupCmd /\ cmd' = [cmd EXCEPT ![Operator] = c]
    BY <2>1, <2>5 DEF CleanupCmd, CmdTypes, Marks
  <2>7. CmdTypes'
    BY <1>1, <2>6
  <2> QED BY <1>6, <2>4, <2>7, TypeFrames DEF DeleteRow
<1>7. CASE AboveQuota
  <2> DEFINE c == cmd[Operator]
             over == IF c.phase = "ttl" THEN quota_overages(View(Operator))
                     ELSE [c.over EXCEPT ![c.kind] = 0]
             kinds == {k \in Kinds : over[k] > 0}
  <2>1. c \in CleanupCmd
    BY <1>7, CmdOf DEF AboveQuota
  <2>2. CASE kinds = {} /\ CommitIfOpen(Operator) /\ cmd' = [cmd EXCEPT ![Operator] = Idle]
             /\ protected' = {}
    <3>1. CmdTypes'
      BY <2>2, OperatorCmdType DEF OperatorCmd
    <3>2. RowTypes'
      BY <2>2, CommitIfOpenType, Different
    <3>3. HistoryTypes'
      BY <1>7, <2>2 DEF AboveQuota, HistoryTypes
    <3> QED BY <1>7, <3>1, <3>2, <3>3, TypeFrames DEF AboveQuota
  <2>3. ASSUME NEW k \in kinds,
               cmd' = [cmd EXCEPT ![Operator].phase = "quota", ![Operator].kind = k,
                            ![Operator].over = over, ![Operator].got = 0, ![Operator].gone = 0,
                            ![Operator].counted = IF c.phase = "ttl" THEN db ELSE @,
                            ![Operator].todo = quota_lru_candidate_rows(View(Operator), k) \ c.seen],
               UNCHANGED <<rows, protected>>
        PROVE  TypeOK'
    <3> DEFINE todo == quota_lru_candidate_rows(View(Operator), k) \ c.seen
               counted == IF c.phase = "ttl" THEN db ELSE c.counted
               new == [c EXCEPT !.phase = "quota", !.kind = k, !.over = over, !.got = 0, !.gone = 0,
                                !.counted = counted, !.todo = todo]
    <3>1. over \in [Kinds -> Nat]
      <4>1. quota_overages(View(Operator)) \in [Kinds -> Nat]
        <5>1. ASSUME NEW x \in Kinds
              PROVE  effective_kind_bytes(View(Operator), x) \in Nat
          BY CountType
        <5>2. task.max_bytes \in [Kinds -> Nat]
          BY ScenarioType
        <5> QED BY <5>1, <5>2 DEF quota_overages
      <4> QED BY <2>1, <4>1 DEF CleanupCmd
    <3>2. todo \in SUBSET Paths /\ counted \in Table
      BY <2>1 DEF quota_lru_candidate_rows, CleanupCmd, RowTypes
    <3>3. cmd' = [cmd EXCEPT ![Operator].phase = "quota", ![Operator].kind = k,
                            ![Operator].over = over, ![Operator].got = 0, ![Operator].gone = 0,
                            ![Operator].counted = counted, ![Operator].todo = todo]
      BY <2>3 DEF CmdTypes
    <3> HIDE DEF over, todo, counted
    <3>4. new \in CleanupCmd /\ cmd' = [cmd EXCEPT ![Operator] = new]
      BY <2>1, <3>1, <3>2, <3>3 DEF CleanupCmd, CmdTypes
    <3>5. CmdTypes'
      BY <1>1, <3>4
    <3> QED BY <1>7, <2>3, <3>5, TypeFrames DEF AboveQuota, history
  <2> QED BY <1>7, <2>2, <2>3 DEF AboveQuota
<1> QED BY <1>4, <1>5, <1>6, <1>7

LEMMA TypeDedupe ==
  ASSUME TypeOK, DiskOK, Dedupe \/ DedupeGroup \/ DedupeLink \/ DedupeRow \/ DedupeDone
  PROVE  TypeOK'
<1> USE DEF TypeOK
<1>1. ASSUME NEW c \in DedupeCmd, cmd' = [cmd EXCEPT ![Operator] = c]
      PROVE  CmdTypes'
  BY <1>1, OperatorCmdType DEF OperatorCmd
<1>2. CASE Dedupe
  <2> DEFINE c == [op |-> "dedupe", groups |-> DuplicateDigests(db), todo |-> {},
                   mark |-> NoMark, obj |-> None]
  <2>1. cmd' = [cmd EXCEPT ![Operator] = c]
    BY <1>2 DEF Dedupe, Begin
  <2>2. c \in DedupeCmd
    BY DEF DedupeCmd, Marks, DuplicateDigests
  <2> HIDE DEF c
  <2>3. CmdTypes'
    BY <1>1, <2>1, <2>2
  <2> QED BY <1>2, <2>3, TypeFrames DEF Dedupe
<1>3. CASE DedupeGroup
  <2> DEFINE t == View(Operator)
  <2>1. cmd[Operator] \in DedupeCmd /\ t \in Table
    BY <1>3, CmdOf, ViewType, Different DEF DedupeGroup
  <2>2. PICK d \in cmd[Operator].groups :
           IF Cardinality(SameDigest(t, d)) < 2
           THEN cmd' = [cmd EXCEPT ![Operator].groups = @ \ {d}] /\ UNCHANGED disk
           ELSE \E keeper \in Keepers(t, d) :
                  LET obj == t.rows[keeper].obj
                      there == IF obj # None THEN obj \in object ELSE Exists(keeper)
                      others == {p \in SameDigest(t, d) \ {keeper} : ~Pinned(t, p)}
                  IN /\ IF there /\ obj = None
                        THEN Disk(file, object \cup {d}, ensure_cas_object(d, bytes[file[keeper]]))
                        ELSE UNCHANGED disk
                     /\ cmd' = [cmd EXCEPT ![Operator].groups = @ \ {d},
                                   ![Operator].obj = IF obj # None THEN obj ELSE d,
                                   ![Operator].todo = IF there THEN others ELSE {}]
    BY <1>3 DEF DedupeGroup
  <2>3. d \in Contents
    BY <2>1 DEF DedupeCmd
  <2>4. CASE Cardinality(SameDigest(t, d)) < 2
    <3> DEFINE c == [cmd[Operator] EXCEPT !.groups = @ \ {d}]
    <3>1. c \in DedupeCmd /\ cmd' = [cmd EXCEPT ![Operator] = c]
      BY <2>1, <2>2, <2>4 DEF DedupeCmd, CmdTypes
    <3>2. CmdTypes'
      BY <1>1, <3>1
    <3> QED BY <1>3, <2>2, <2>4, <3>2, TypeFrames DEF DedupeGroup
  <2> DEFINE obj(k) == t.rows[k].obj
             there(k) == IF obj(k) # None THEN obj(k) \in object ELSE Exists(k)
             others(k) == {p \in SameDigest(t, d) \ {k} : ~Pinned(t, p)}
  <2>5. ASSUME NEW keeper \in Keepers(t, d),
               IF there(keeper) /\ obj(keeper) = None
               THEN Disk(file, object \cup {d}, ensure_cas_object(d, bytes[file[keeper]]))
               ELSE UNCHANGED disk,
               cmd' = [cmd EXCEPT ![Operator].groups = @ \ {d},
                                  ![Operator].obj = IF obj(keeper) # None THEN obj(keeper) ELSE d,
                                  ![Operator].todo = IF there(keeper) THEN others(keeper) ELSE {}]
        PROVE  TypeOK'
    <3> DEFINE todo == IF there(keeper) THEN others(keeper) ELSE {}
               to == IF obj(keeper) # None THEN obj(keeper) ELSE d
               c == [cmd[Operator] EXCEPT !.groups = @ \ {d}, !.obj = to, !.todo = todo]
    <3>1. keeper \in Paths /\ todo \in SUBSET Paths
      BY <2>5 DEF Keepers, SameDigest
    <3>2. obj(keeper) \in Contents \cup {None}
      BY <2>1, <2>5, <3>1, TableRow DEF Row
    <3>3. to \in Contents
      BY <2>3, <3>2
    <3>4. cmd' = [cmd EXCEPT ![Operator].groups = @ \ {d}, ![Operator].obj = to,
                             ![Operator].todo = todo]
      BY <2>5
    <3> HIDE DEF todo, to
    <3>5. c \in DedupeCmd /\ cmd' = [cmd EXCEPT ![Operator] = c]
      BY <2>1, <3>1, <3>3, <3>4 DEF DedupeCmd, CmdTypes
    <3>6. CmdTypes'
      BY <1>1, <3>5
    <3>7. DiskTypes'
      <4>1. CASE there(keeper) /\ obj(keeper) = None
        <5>1. bytes[file[keeper]] \in Bytes
          BY <2>5, <3>1, <4>1, ContentType
        <5>2. ensure_cas_object(d, bytes[file[keeper]]) \in [Paths \cup Contents -> Bytes]
          BY <2>3, <5>1, CasType
        <5> QED BY <2>3, <2>5, <4>1, <5>2, DiskType DEF DiskTypes
      <4>2. CASE ~(there(keeper) /\ obj(keeper) = None)
        BY <2>5, <4>2, TypeFrames
      <4> QED BY <4>1, <4>2
    <3> QED BY <1>3, <3>6, <3>7, TypeFrames DEF DedupeGroup
  <2>6. CASE ~(Cardinality(SameDigest(t, d)) < 2)
    <3>1. PICK keeper \in Keepers(t, d) :
             /\ IF there(keeper) /\ obj(keeper) = None
                THEN Disk(file, object \cup {d}, ensure_cas_object(d, bytes[file[keeper]]))
                ELSE UNCHANGED disk
             /\ cmd' = [cmd EXCEPT ![Operator].groups = @ \ {d},
                           ![Operator].obj = IF obj(keeper) # None THEN obj(keeper) ELSE d,
                           ![Operator].todo = IF there(keeper) THEN others(keeper) ELSE {}]
      BY <2>2, <2>6
    <3> QED BY <2>5, <3>1
  <2> QED BY <2>4, <2>6
<1>4. CASE DedupeLink
  <2>1. cmd[Operator] \in DedupeCmd
    BY <1>4, CmdOf DEF DedupeLink
  <2>2. PICK p \in Todo :
           IF Exists(p) /\ should_cas(p)
           THEN /\ Disk(replace_with_compat_link(p, cmd[Operator].obj), object, bytes)
                /\ cmd' = [cmd EXCEPT ![Operator].mark = [path |-> p, status |-> "linked"]]
           ELSE /\ cmd' = [cmd EXCEPT ![Operator].todo = @ \ {p}]
                /\ UNCHANGED disk
    BY <1>4 DEF DedupeLink
  <2>3. p \in Paths
    BY <2>1, <2>2 DEF Todo, DedupeCmd
  <2>4. CASE ~(Exists(p) /\ should_cas(p))
    <3> DEFINE c == [cmd[Operator] EXCEPT !.todo = @ \ {p}]
    <3>1. c \in DedupeCmd /\ cmd' = [cmd EXCEPT ![Operator] = c]
      BY <2>1, <2>2, <2>4 DEF DedupeCmd, CmdTypes
    <3>2. CmdTypes'
      BY <1>1, <3>1
    <3> QED BY <1>4, <2>2, <2>4, <3>2, TypeFrames DEF DedupeLink
  <2>5. CASE Exists(p) /\ should_cas(p)
    <3> DEFINE mark == [path |-> p, status |-> "linked"]
               c == [cmd[Operator] EXCEPT !.mark = mark]
    <3>1. mark \in Marks({"linked"}) /\ cmd' = [cmd EXCEPT ![Operator].mark = mark]
      BY <2>2, <2>3, <2>5 DEF Marks
    <3> HIDE DEF mark
    <3>2. c \in DedupeCmd /\ cmd' = [cmd EXCEPT ![Operator] = c]
      BY <2>1, <3>1 DEF DedupeCmd, CmdTypes
    <3>3. CmdTypes'
      BY <1>1, <3>2
    <3>4. replace_with_compat_link(p, cmd[Operator].obj) \in [Paths -> Paths \cup Contents \cup {None}]
      BY <2>1, <2>3 DEF replace_with_compat_link, DiskTypes, DedupeCmd
    <3>5. DiskTypes'
      BY <2>2, <2>5, <3>4, DiskType DEF DiskTypes
    <3> QED BY <1>4, <3>3, <3>5, TypeFrames DEF DedupeLink
  <2> QED BY <2>4, <2>5
<1>5. CASE DedupeRow
  <2>1. cmd[Operator] \in DedupeCmd /\ Mark # NoMark
    BY <1>5, CmdOf DEF DedupeRow
  <2>2. Mark.path \in Paths /\ cmd[Operator].obj \in Contents \cup {None}
    BY <2>1 DEF Mark, DedupeCmd, Marks
  <2>3. RowTypes'
    <3> DEFINE t == View(Operator)
               p == Mark.path
               row == [t.rows[p] EXCEPT !.obj = cmd[Operator].obj, !.used = now]
               new == [t EXCEPT !.rows[p] = row]
    <3>1. t \in Table
      BY ViewType, Different
    <3>2. t.rows[p] \in Row
      BY <2>2, <3>1, TableRow
    <3>3. row \in Row
      BY <2>2, <3>2 DEF Row
    <3>4. [t EXCEPT !.rows[p].obj = cmd[Operator].obj, !.rows[p].used = now] = new
      BY <2>2, <3>1 DEF Table
    <3>5. Put(Operator, new)
      BY <1>5, <3>4 DEF DedupeRow
    <3> HIDE DEF row
    <3>6. new \in Table
      BY <2>2, <3>1, <3>3, RowsType
    <3> QED BY <3>5, <3>6, PutType, Different
  <2> DEFINE c == [cmd[Operator] EXCEPT !.mark = NoMark, !.todo = @ \ {Mark.path}]
  <2>4. c \in DedupeCmd /\ cmd' = [cmd EXCEPT ![Operator] = c]
    BY <1>5, <2>1 DEF DedupeRow, DedupeCmd, CmdTypes, Marks
  <2>5. CmdTypes'
    BY <1>1, <2>4
  <2> QED BY <1>5, <2>3, <2>5, TypeFrames DEF DedupeRow
<1>6. CASE DedupeDone
  <2>1. CmdTypes'
    BY <1>6, OperatorCmdType DEF OperatorCmd, DedupeDone
  <2>2. RowTypes'
    BY <1>6, CommitIfOpenType, Different DEF DedupeDone
  <2> QED BY <1>6, <2>1, <2>2, TypeFrames DEF DedupeDone
<1> QED BY <1>2, <1>3, <1>4, <1>5, <1>6

LEMMA TypeQuarantine ==
  ASSUME TypeOK, Quarantine \/ QuarantineFile \/ QuarantineRow \/ QuarantineDone
  PROVE  TypeOK'
<1> USE DEF TypeOK
<1>1. ASSUME NEW c \in QuarantineCmd, cmd' = [cmd EXCEPT ![Operator] = c]
      PROVE  CmdTypes'
  BY <1>1, OperatorCmdType DEF OperatorCmd
<1>2. CASE Quarantine
  <2>1. PICK ps \in SUBSET Paths :
           cmd' = [cmd EXCEPT ![Operator] = [op |-> "quarantine", todo |-> ps, mark |-> NoMark,
                                             selected |-> [p \in ps |-> db.rows[p].obj]]]
    BY <1>2 DEF Quarantine, Begin, SameDigest
  <2> DEFINE selected == [p \in ps |-> db.rows[p].obj]
  <2>2. selected \in Selection
    <3>1. \A p \in ps : db.rows[p].obj \in Contents \cup {None}
      BY TableRow DEF Row, RowTypes
    <3> QED BY <3>1 DEF Selection
  <2> HIDE DEF selected
  <2> DEFINE c == [op |-> "quarantine", todo |-> ps, mark |-> NoMark, selected |-> selected]
  <2>3. c \in QuarantineCmd
    BY <2>2 DEF QuarantineCmd, Marks
  <2>4. cmd' = [cmd EXCEPT ![Operator] = c]
    BY <2>1 DEF selected
  <2> HIDE DEF c
  <2>5. CmdTypes'
    BY <1>1, <2>3, <2>4
  <2> QED BY <1>2, <2>5, TypeFrames DEF Quarantine
<1>3. CASE QuarantineFile
  <2>1. cmd[Operator] \in QuarantineCmd
    BY <1>3, CmdOf DEF QuarantineFile
  <2>2. PICK p \in Todo :
           /\ Disk(Unlinked(p),
                   IF Shared(View(Operator), Selected[p]) THEN object ELSE object \ {Selected[p]},
                   bytes)
           /\ cmd' = [cmd EXCEPT ![Operator].mark = [path |-> p, status |-> "quarantined"]]
    BY <1>3 DEF QuarantineFile
  <2>3. p \in Paths
    BY <2>1, <2>2 DEF Todo, QuarantineCmd
  <2> DEFINE mark == [path |-> p, status |-> "quarantined"]
             c == [cmd[Operator] EXCEPT !.mark = mark]
  <2>4. mark \in Marks({"quarantined"}) /\ cmd' = [cmd EXCEPT ![Operator].mark = mark]
    BY <2>2, <2>3 DEF Marks
  <2> HIDE DEF mark
  <2>5. c \in QuarantineCmd /\ cmd' = [cmd EXCEPT ![Operator] = c]
    BY <2>1, <2>4 DEF QuarantineCmd, CmdTypes
  <2>6. CmdTypes'
    BY <1>1, <2>5
  <2>7. Unlinked(p) \in [Paths -> Paths \cup Contents \cup {None}]
    BY <2>3 DEF Unlinked, DiskTypes
  <2>8. DiskTypes'
    BY <2>2, <2>7, DiskType DEF DiskTypes
  <2> QED BY <1>3, <2>6, <2>8, TypeFrames DEF QuarantineFile
<1>4. CASE QuarantineRow
  <2>1. cmd[Operator] \in QuarantineCmd /\ Mark # NoMark
    BY <1>4, CmdOf DEF QuarantineRow
  <2>2. Mark.path \in Paths /\ Mark.status = "quarantined"
    BY <2>1 DEF Mark, QuarantineCmd, Marks
  <2>3. SetStatus(View(Operator), Mark.path, Mark.status) \in Table
    BY <2>2, ViewType, SetStatusType, Different
  <2>4. RowTypes'
    BY <1>4, <2>3, PutType, Different DEF QuarantineRow
  <2> DEFINE c == [cmd[Operator] EXCEPT !.mark = NoMark, !.todo = @ \ {Mark.path}]
  <2>5. c \in QuarantineCmd /\ cmd' = [cmd EXCEPT ![Operator] = c]
    BY <1>4, <2>1 DEF QuarantineRow, QuarantineCmd, CmdTypes, Marks
  <2>6. CmdTypes'
    BY <1>1, <2>5
  <2> QED BY <1>4, <2>4, <2>6, TypeFrames DEF QuarantineRow
<1>5. CASE QuarantineDone
  <2>1. CmdTypes'
    BY <1>5, OperatorCmdType DEF OperatorCmd, QuarantineDone
  <2>2. RowTypes'
    BY <1>5, CommitIfOpenType, Different DEF QuarantineDone
  <2> QED BY <1>5, <2>1, <2>2, TypeFrames DEF QuarantineDone
<1> QED BY <1>2, <1>3, <1>4, <1>5

LEMMA TypeOthers ==
  ASSUME TypeOK, DiskOK, PutObject \/ Pin \/ Tick \/ \E i \in Procs : Dies(i)
  PROVE  TypeOK'
<1> USE DEF TypeOK
<1>1. CASE PutObject
  <2>1. PICK p \in Paths, replace \in BOOLEAN :
           /\ Exists(p)
           /\ Disk(IF replace THEN replace_with_compat_link(p, Content(p)) ELSE file,
                   object \cup {Content(p)}, ensure_cas_object(Content(p), bytes[file[p]]))
    BY <1>1 DEF PutObject
  <2>2. Content(p) \in Contents /\ bytes[file[p]] \in Bytes
    BY <2>1, ContentType DEF DiskOK, FileOK, Content, Bytes
  <2>3. ensure_cas_object(Content(p), bytes[file[p]]) \in [Paths \cup Contents -> Bytes]
    BY <2>2, CasType
  <2>5. object \cup {Content(p)} \in SUBSET Contents
    BY <2>2 DEF DiskTypes
  <2>6. (IF replace THEN replace_with_compat_link(p, Content(p)) ELSE file)
          \in [Paths -> Paths \cup Contents \cup {None}]
    BY <2>2 DEF replace_with_compat_link, DiskTypes
  <2>7. DiskTypes'
    BY <2>1, <2>3, <2>5, <2>6, DiskType
  <2> QED BY <1>1, <2>7, TypeFrames DEF PutObject
<1>2. CASE Pin
  <2>1. PICK v \in BOOLEAN, x \in db.known \cup {p \in Paths : db.rows[p].status # "none"} :
           /\ db' = IF x \in Runs THEN PinRun(db, x, v) ELSE PinRow(db, x, v)
           /\ kept' = IF v THEN kept \cup {x} ELSE kept \ {x}
    BY <1>2 DEF Pin
  <2>2. x \in Runs \cup Paths /\ db \in Table
    BY DEF RowTypes, Table
  <2>3. x \in Runs => PinRun(db, x, v) \in Table
    BY <2>2 DEF PinRun, Table
  <2>4. x \in Paths => PinRow(db, x, v) \in Table
    <3> SUFFICES ASSUME x \in Paths PROVE PinRow(db, x, v) \in Table
      OBVIOUS
    <3> DEFINE row == [db.rows[x] EXCEPT !.pinned = v]
    <3>1. row \in Row
      BY <2>2, TableRow DEF Row
    <3>2. PinRow(db, x, v) = [db EXCEPT !.rows[x] = row]
      BY DEF PinRow
    <3> HIDE DEF row
    <3> QED BY <2>2, <3>1, <3>2, RowsType
  <2>5. RowTypes'
    BY <1>2, <2>1, <2>2, <2>3, <2>4 DEF Pin, RowTypes
  <2>6. HistoryTypes'
    BY <1>2, <2>1, <2>2 DEF Pin, HistoryTypes
  <2> QED BY <1>2, <2>5, <2>6, TypeFrames DEF Pin
<1>3. CASE Tick
  BY <1>3, TypeFrames DEF Tick
<1>4. ASSUME NEW i \in Procs, Dies(i)
      PROVE  TypeOK'
  <2>1. CmdTypes'
    BY <1>4, NewCmd DEF Dies, OperatorCmd
  <2>2. RowTypes'
    BY <1>4 DEF Dies, RowTypes
  <2>3. HistoryTypes'
    BY <1>4 DEF Dies, HistoryTypes
  <2> QED BY <1>4, <2>1, <2>2, <2>3, TypeFrames DEF Dies
<1> QED BY <1>1, <1>2, <1>3, <1>4

LEMMA TypeStep ==
  ASSUME TypeOK, DiskOK, [Next]_vars
  PROVE  TypeOK'
<1>1. CASE UNCHANGED vars
  BY <1>1, TypeFrames DEF TypeOK, vars
<1>2. CASE Next
  BY <1>2, TypeFiles, TypeIndex, TypeCleanup, TypeDedupe, TypeQuarantine, TypeOthers DEF Next
<1> QED BY <1>1, <1>2

LEMMA TypeInit ==
  ASSUME Init
  PROVE  TypeOK
<1>1. NoRow \in Row /\ NoBytes \in Bytes
  BY DEF NoRow, NoBytes, Row, Bytes
<1>2. DiskTypes
  BY <1>1 DEF Init, DiskTypes
<1>3. RowTypes
  BY <1>1 DEF Init, RowTypes, Table
<1>4. CmdTypes
  BY Different DEF Init, CmdTypes, OperatorCmd, Procs
<1>5. HistoryTypes
  BY DEF Init, HistoryTypes
<1> QED BY <1>2, <1>3, <1>4, <1>5 DEF Init, TypeOK

-----------------------------------------------------------------------------
(* The files. *)

LEMMA SimilarIsEquivalence ==
  /\ \A c, d : Similar(c, d) => Similar(d, c)
  /\ \A c, d, e : Similar(c, d) /\ Similar(d, e) => Similar(c, e)
BY DEF Similar

(* Links and objects are changed so that every new link, and every object, *)
(* has bytes like its digest.                                              *)
Relinks(f, o, b) ==
  /\ f \in [Paths -> Paths \cup Contents \cup {None}] /\ o \in SUBSET Contents
  /\ b \in [Paths \cup Contents -> Bytes]
  /\ \A q \in Paths : f[q] \in {file[q], None} \/ (Near(f[q], q) /\ f[q] \in o)
  /\ \A x \in Paths \cup Contents :
         b[x] = bytes[x] \/ (x \in Contents /\ b[x].c # None /\ Similar(b[x].c, x))
  /\ \A d \in o : d \in object \/ b[d].c # None

LEMMA Relinked ==
  ASSUME TypeOK, DiskOK, task' = task, given' = given,
         NEW f, NEW o, NEW b, Relinks(f, o, b), Disk(f, o, b)
  PROVE  DiskOK'
<1> USE Different DEF Relinks
<1>1. /\ \A q \in Paths : FileOK(q) /\ TextOK(q)
      /\ \A d \in Contents : ObjectOK(d)
  BY DEF DiskOK
<1>2. file' = f /\ object' = o /\ \A x \in Paths \cup Contents :
         bytes'[x] = IF x \in o \/ \E q \in Paths : f[q] = x THEN b[x] ELSE NoBytes
  BY DEF Disk
<1>3. \A d \in o : b[d].c # None
  BY <1>1 DEF ObjectOK
<1>4. \A d \in Contents : b[d].c # None => Similar(b[d].c, d)
  BY <1>1 DEF ObjectOK
<1>5. NoBytes.c = None
  BY DEF NoBytes
<1>6. ASSUME NEW d \in Contents
      PROVE  ObjectOK(d)'
  <2>1. d \in o => bytes'[d].c # None
    BY <1>2, <1>3
  <2>2. bytes'[d].c # None => Similar(bytes'[d].c, d)
    BY <1>2, <1>4, <1>5
  <2> QED BY <1>2, <2>1, <2>2 DEF ObjectOK, Similar, Texts, Run
<1>7. ASSUME NEW q \in Paths
      PROVE  FileOK(q)' /\ TextOK(q)'
  <2>1. TextOK(q)'
    BY <1>1 DEF TextOK, Texts, Run
  <2>2. ASSUME f[q] # None
        PROVE  /\ b[f[q]].c # None /\ Near(b[f[q]].c, q)
               /\ f[q] \in Contents => Near(f[q], q)
               /\ f[q] \in Paths => given[f[q]] # None
               /\ f[q] \in Paths /\ f[q] # q => Kind(q) = "raw_media" /\ Kind(f[q]) = "raw_media"
    <3>1. CASE f[q] = file[q]
      <4>1. /\ bytes[f[q]].c # None /\ Near(bytes[f[q]].c, q)
            /\ f[q] \in Contents => Near(f[q], q)
            /\ f[q] \in Paths => given[f[q]] # None
            /\ f[q] \in Paths /\ f[q] # q => Kind(q) = "raw_media" /\ Kind(f[q]) = "raw_media"
        BY <1>1, <2>2, <3>1 DEF FileOK, Exists, Content
      <4>2. f[q] \in Paths \cup Contents
        BY <2>2
      <4>3. CASE b[f[q]] = bytes[f[q]]
        BY <4>1, <4>3
      <4>4. CASE f[q] \in Contents /\ b[f[q]].c # None /\ Similar(b[f[q]].c, f[q])
        BY <4>1, <4>4, SimilarIsEquivalence DEF Near
      <4> QED BY <4>2, <4>3, <4>4
    <3>2. CASE f[q] # file[q]
      <4>1. Near(f[q], q) /\ f[q] \in o /\ f[q] \in Contents
        BY <2>2, <3>2
      <4>2. b[f[q]].c # None /\ Similar(b[f[q]].c, f[q])
        BY <1>3, <1>4, <4>1
      <4> QED BY <4>1, <4>2, SimilarIsEquivalence DEF Near
    <3> QED BY <3>1, <3>2
  <2>3. f[q] # None => bytes'[f[q]] = b[f[q]]
    BY <1>2
  <2>4. FileOK(q)'
    <3>1. file'[q] # None =>
            /\ bytes'[file'[q]].c # None /\ Near(bytes'[file'[q]].c, q)
            /\ file'[q] \in Contents => Near(file'[q], q)
            /\ file'[q] \in Paths => given[file'[q]] # None
            /\ file'[q] \in Paths /\ file'[q] # q => Kind(q) = "raw_media" /\ Kind(file'[q]) = "raw_media"
      BY <1>2, <2>2, <2>3
    <3> QED BY <3>1 DEF FileOK, Exists, Content, Near, Similar, Texts, Run, Kind
  <2> QED BY <2>1, <2>4
<1> QED BY <1>6, <1>7 DEF DiskOK

LEMMA DiskUnchanged ==
  ASSUME DiskOK, task' = task, given' = given, UNCHANGED disk
  PROVE  DiskOK'
BY DEF DiskOK, FileOK, ObjectOK, TextOK, Exists, Content, Near, Similar, Texts, Run, Kind, disk

(* A step may give a path a file only before it has been given anything,   *)
(* and changes what a path has only from one text to another.              *)
Grows ==
  /\ task' = task
  /\ \A p \in Paths : Exists(p)' => Exists(p) \/ given[p] = None
  /\ \A p \in Paths : given[p] # None =>
        /\ given'[p] # None
        /\ given'[p] = given[p] \/ (given[p] \in Texts /\ given'[p] \in Texts)

LEMMA GrowsNear ==
  ASSUME Grows
  PROVE  /\ Texts' = Texts
         /\ \A c, p : p \in Paths /\ Near(c, p) =>
               given'[p] # None /\ (c = given'[p] \/ (c \in Texts /\ given'[p] \in Texts))
<1>1. Texts' = Texts
  BY DEF Grows, Texts, Run
<1> QED BY <1>1 DEF Grows, Near, Similar

(* A file, or an object, is copied to the object of its digest.            *)
LEMMA Copied ==
  ASSUME TypeOK, DiskOK, task' = task, given' = given,
         NEW p \in Paths, NEW q \in Paths, NEW d \in Contents, Exists(q), Similar(Content(q), d),
         NEW f, f = file \/ (f = [file EXCEPT ![p] = d] /\ Near(d, p) /\ Exists(p)),
         Disk(f, object \cup {d}, ensure_cas_object(d, bytes[file[q]]))
  PROVE  DiskOK' /\ Grows
<1> DEFINE b == ensure_cas_object(d, bytes[file[q]])
           o == object \cup {d}
<1>1. /\ bytes[file[q]] \in Bytes /\ bytes[file[q]].c # None /\ Similar(bytes[file[q]].c, d)
      /\ file[q] \in Paths \cup Contents
  BY ContentType DEF TypeOK, DiskOK, FileOK, Content
<1>2. /\ file \in [Paths -> Paths \cup Contents \cup {None}] /\ object \in SUBSET Contents
      /\ bytes \in [Paths \cup Contents -> Bytes]
  BY DEF TypeOK, DiskTypes
<1>3. /\ b \in [Paths \cup Contents -> Bytes] /\ o \in SUBSET Contents
      /\ f \in [Paths -> Paths \cup Contents \cup {None}]
  BY <1>1, <1>2, CasType DEF TypeOK
<1>4. \A x \in Paths : f[x] \in {file[x], None} \/ (Near(f[x], x) /\ f[x] \in o)
  BY <1>2
<1>5. \A x \in Paths \cup Contents :
         b[x] = bytes[x] \/ (x \in Contents /\ b[x].c # None /\ Similar(b[x].c, x))
  BY <1>1, <1>2 DEF ensure_cas_object
<1>6. \A x \in o : x \in object \/ b[x].c # None
  BY <1>1, <1>2 DEF ensure_cas_object
<1>7. \A x \in Paths : f[x] # None => file[x] # None
  BY <1>2 DEF Exists
<1>8. file' = f
  BY DEF Disk
<1>9. Relinks(f, o, b)
  BY <1>3, <1>4, <1>5, <1>6 DEF Relinks
<1>10. DiskOK'
  BY <1>9, Relinked
<1> QED BY <1>7, <1>8, <1>10 DEF Grows, Exists

(* A path is removed, or leads to an object that is there; objects go.     *)
LEMMA Moved ==
  ASSUME TypeOK, DiskOK, task' = task, given' = given,
         NEW p \in Paths, NEW x, x = None \/ (x \in object /\ Near(x, p) /\ Exists(p)),
         NEW o \in SUBSET object, x \in o \cup {None},
         Disk([file EXCEPT ![p] = x], o, bytes)
  PROVE  DiskOK' /\ Grows
<1> DEFINE f == [file EXCEPT ![p] = x]
<1>1. /\ file \in [Paths -> Paths \cup Contents \cup {None}] /\ object \in SUBSET Contents
      /\ bytes \in [Paths \cup Contents -> Bytes]
  BY DEF TypeOK, DiskTypes
<1>2. f \in [Paths -> Paths \cup Contents \cup {None}] /\ o \in SUBSET Contents
  BY <1>1
<1>3. \A q \in Paths : f[q] \in {file[q], None} \/ (Near(f[q], q) /\ f[q] \in o)
  BY <1>1
<1>4. Relinks(f, o, bytes)
  BY <1>1, <1>2, <1>3 DEF Relinks
<1>5. \A q \in Paths : f[q] # None => file[q] # None
  BY <1>1 DEF Exists
<1>6. file' = f
  BY DEF Disk
<1>7. DiskOK'
  BY <1>4, Relinked
<1> QED BY <1>5, <1>6, <1>7 DEF Grows, Exists

LEMMA FilesSame ==
  ASSUME DiskOK, task' = task, given' = given, UNCHANGED disk
  PROVE  DiskOK' /\ Grows
<1>1. DiskOK'
  BY DiskUnchanged
<1> QED BY <1>1 DEF Grows, Exists, disk

(* What Plausible says, of the scenario at hand.                           *)
LEMMA Arrivals ==
  ASSUME TypeOK, NEW p \in Paths, NEW c \in task.arrives[p]
  PROVE  /\ c \in Contents /\ (Run(p) = Cache => c \in Texts)
         /\ Kind(p) = "raw_media" => Run(p) # Cache /\ c \notin Texts
         /\ Kind(p) = "raw_media" /\ Run(p) \notin Fixtures /\ task.key[p] # None =>
               c \in {task.genuine[task.key[p]]} \cup task.bad
<1>1. Plausible(task) /\ c \in Contents
  BY RuntimeStoreAssumption, ScenarioType DEF RuntimeStoreAssumption, TypeOK
<1>2. Kind(p) = "raw_media" => Run(p) # Cache
  BY <1>1 DEF Plausible, Kind, Run
<1>3. Kind(p) = "raw_media" => c \notin Texts
  BY <1>1 DEF Plausible, Kind, Run, Texts
<1>4. Run(p) = Cache => c \in Texts
  BY DEF Texts
<1>5. Kind(p) = "raw_media" /\ Run(p) \notin Fixtures /\ task.key[p] # None =>
         c \in {task.genuine[task.key[p]]} \cup task.bad
  BY <1>1 DEF Plausible, Kind, Run
<1> QED BY <1>1, <1>2, <1>3, <1>4, <1>5

LEMMA FilesArrive ==
  ASSUME TypeOK, DiskOK, NEW p \in Paths, Arrive(p)
  PROVE  DiskOK' /\ Grows
<1>1. given[p] = None /\ ~Exists(p) /\ task' = task
  BY DEF Arrive
<1>2. PICK c \in task.arrives[p] : Write(p, c)
  BY DEF Arrive
<1>3. c \in Contents /\ c # None /\ (Run(p) = Cache => c \in Texts)
  BY Arrivals, Different
<1> DEFINE b == [bytes EXCEPT ![p] = [c |-> c, made |-> now]]
           f == [file EXCEPT ![p] = p]
<1>4. /\ file' = f /\ object' = object /\ given' = [given EXCEPT ![p] = c]
      /\ bytes' = [x \in Paths \cup Contents |->
                     IF x \in object \/ \E q \in Paths : f[q] = x THEN b[x] ELSE NoBytes]
  BY <1>2 DEF Write, Disk
<1>5. /\ file \in [Paths -> Paths \cup Contents \cup {None}] /\ object \in SUBSET Contents
      /\ bytes \in [Paths \cup Contents -> Bytes] /\ given \in [Paths -> Contents \cup {None}]
  BY DEF TypeOK, DiskTypes, HistoryTypes
<1>6. /\ \A q \in Paths : file'[q] = IF q = p THEN p ELSE file[q]
      /\ \A q \in Paths : given'[q] = IF q = p THEN c ELSE given[q]
  BY <1>4, <1>5
<1>7. Texts' = Texts
  BY <1>1 DEF Texts, Run
<1>8. ASSUME NEW q \in Paths \ {p}
      PROVE  FileOK(q)'
  <2>1. FileOK(q)
    BY DEF DiskOK
  <2>2. file[q] # p
    BY <1>1, <2>1, Different DEF FileOK, Exists
  <2>3. file[q] # None => bytes'[file[q]] = bytes[file[q]]
    BY <1>4, <1>5, <1>6, <2>2
  <2>4. file[q] # None =>
            /\ bytes'[file[q]].c # None /\ given'[q] # None /\ Similar(bytes'[file[q]].c, given'[q])
            /\ file[q] \in Contents => Similar(file[q], given'[q])
            /\ file[q] \in Paths => given'[file[q]] # None
            /\ file[q] \in Paths /\ file[q] # q => Kind(q) = "raw_media" /\ Kind(file[q]) = "raw_media"
    BY <1>6, <2>1, <2>2, <2>3 DEF FileOK, Exists, Content, Near
  <2> QED BY <1>1, <1>6, <1>7, <2>4 DEF FileOK, Exists, Content, Near, Similar, Kind
<1>9. FileOK(p)'
  <2>1. file'[p] = p /\ bytes'[p].c = c /\ given'[p] = c
    BY <1>4, <1>5, <1>6
  <2> QED BY <1>3, <2>1, Different DEF FileOK, Exists, Content, Near, Similar
<1>10. \A q \in Paths : TextOK(q)'
  BY <1>1, <1>3, <1>6, <1>7 DEF DiskOK, TextOK, Run
<1>11. \A d \in Contents : ObjectOK(d)'
  <2>1. ASSUME NEW d \in Contents
        PROVE  ObjectOK(d)'
    <3>1. ObjectOK(d) /\ d # p
      BY Different DEF DiskOK
    <3>2. bytes'[d] = bytes[d] \/ (bytes'[d] = NoBytes /\ d \notin object)
      BY <1>4, <1>5, <3>1
    <3> QED BY <1>4, <1>7, <3>1, <3>2 DEF ObjectOK, Similar, NoBytes
  <2> QED BY <2>1
<1>12. DiskOK'
  BY <1>8, <1>9, <1>10, <1>11 DEF DiskOK
<1>13. Grows
  BY <1>1, <1>6 DEF Grows, Exists
<1> QED BY <1>12, <1>13

LEMMA FilesRewrite ==
  ASSUME TypeOK, DiskOK, NEW p \in Paths, Rewrite(p)
  PROVE  DiskOK' /\ Grows
<1>1. Run(p) = Cache /\ Exists(p) /\ task' = task
  BY DEF Rewrite
<1>2. PICK c \in task.arrives[p] \ {Content(p)}, x \in {p, file[p]} :
         /\ Disk([file EXCEPT ![p] = x], object, [bytes EXCEPT ![x] = [c |-> c, made |-> now]])
         /\ given' = [given EXCEPT ![p] = c]
  BY DEF Rewrite
<1>3. c \in Contents /\ c # None /\ c \in Texts /\ Kind(p) # "raw_media"
  BY <1>1, Arrivals, Different
<1> DEFINE b == [bytes EXCEPT ![x] = [c |-> c, made |-> now]]
           f == [file EXCEPT ![p] = x]
<1>4. /\ file' = f /\ object' = object /\ given' = [given EXCEPT ![p] = c]
      /\ bytes' = [y \in Paths \cup Contents |->
                     IF y \in object \/ \E q \in Paths : f[q] = y THEN b[y] ELSE NoBytes]
  BY <1>2 DEF Disk
<1>5. /\ file \in [Paths -> Paths \cup Contents \cup {None}] /\ object \in SUBSET Contents
      /\ bytes \in [Paths \cup Contents -> Bytes] /\ given \in [Paths -> Contents \cup {None}]
  BY DEF TypeOK, DiskTypes, HistoryTypes
<1>6. /\ \A q \in Paths : file'[q] = IF q = p THEN x ELSE file[q]
      /\ \A q \in Paths : given'[q] = IF q = p THEN c ELSE given[q]
  BY <1>4, <1>5
<1>7. Texts' = Texts
  BY <1>1 DEF Texts, Run
(* What the old file of the text leads to belongs to texts.                *)
<1>8. /\ x \in Paths \cup Contents /\ given[p] \in Texts
      /\ x \in Contents => x \in Texts
      /\ x \in Paths => x = p
  <2>1. FileOK(p) /\ TextOK(p)
    BY DEF DiskOK
  <2>2. given[p] \in Texts
    BY <1>1, <2>1 DEF FileOK, TextOK, Near
  <2>3. file[p] \in Paths \cup Contents /\ (file[p] \in Paths => file[p] = p)
    BY <1>1, <1>3, <1>5, <2>1 DEF FileOK, Exists
  <2>4. file[p] \in Contents => file[p] \in Texts
    BY <1>1, <2>1, <2>2 DEF FileOK, Exists, Near, Similar
  <2> QED BY <2>2, <2>3, <2>4, Different
<1>9. ASSUME NEW q \in Paths \ {p}
      PROVE  FileOK(q)'
  <2>1. FileOK(q)
    BY DEF DiskOK
  <2>2. file[q] # None => bytes'[file[q]] = b[file[q]]
    BY <1>4, <1>5, <1>6
  <2>3. CASE file[q] # None /\ file[q] = x
    <3>1. x \in Contents /\ given[q] \in Texts
      BY <1>3, <1>8, <2>1, <2>3 DEF FileOK, Exists, Near, Similar
    <3>2. bytes'[x].c = c
      BY <1>5, <1>8, <2>2, <2>3
    <3> QED BY <1>3, <1>6, <1>7, <1>8, <2>1, <2>3, <3>1, <3>2, Different
            DEF FileOK, Exists, Content, Near, Similar
  <2>4. CASE file[q] # x
    <3>1. file[q] # None => bytes'[file[q]] = bytes[file[q]]
      BY <1>5, <2>2, <2>4
    <3>2. file[q] # None =>
            /\ bytes'[file[q]].c # None /\ given'[q] # None /\ Similar(bytes'[file[q]].c, given'[q])
            /\ file[q] \in Contents => Similar(file[q], given'[q])
            /\ file[q] \in Paths => given'[file[q]] # None
            /\ file[q] \in Paths /\ file[q] # q => Kind(q) = "raw_media" /\ Kind(file[q]) = "raw_media"
      BY <1>3, <1>6, <2>1, <3>1 DEF FileOK, Exists, Content, Near
    <3> QED BY <1>1, <1>6, <1>7, <3>2 DEF FileOK, Exists, Content, Near, Similar, Kind
  <2>5. CASE file[q] = None
    BY <1>6, <2>5 DEF FileOK, Exists
  <2> QED BY <2>3, <2>4, <2>5
<1>10. FileOK(p)'
  <2>1. file'[p] = x /\ bytes'[x].c = c /\ given'[p] = c
    BY <1>4, <1>5, <1>6, <1>8
  <2> QED BY <1>3, <1>7, <1>8, <2>1, Different DEF FileOK, Exists, Content, Near, Similar
<1>11. \A q \in Paths : TextOK(q)'
  BY <1>1, <1>3, <1>6, <1>7 DEF DiskOK, TextOK, Run
<1>12. \A d \in Contents : ObjectOK(d)'
  <2>1. ASSUME NEW d \in Contents
        PROVE  ObjectOK(d)'
    <3>1. ObjectOK(d)
      BY DEF DiskOK
    <3>2. bytes'[d] = b[d] \/ (bytes'[d] = NoBytes /\ d \notin object)
      BY <1>4
    <3>3. CASE d = x
      <4>1. b[d].c = c /\ d \in Texts
        BY <1>5, <1>8, <3>3
      <4> QED BY <1>3, <1>4, <1>7, <3>2, <4>1 DEF ObjectOK, Similar, NoBytes
    <3>4. CASE d # x
      <4>1. b[d] = bytes[d]
        BY <1>5, <3>4
      <4> QED BY <1>4, <1>7, <3>1, <3>2, <4>1 DEF ObjectOK, Similar, NoBytes
    <3> QED BY <3>3, <3>4
  <2> QED BY <2>1
<1>13. DiskOK'
  BY <1>9, <1>10, <1>11, <1>12 DEF DiskOK
<1>14. Grows
  BY <1>1, <1>3, <1>6, <1>8 DEF Grows, Exists
<1> QED BY <1>13, <1>14

(* What find-source has named has the bytes that the file key stands for.  *)
LEMMA FilesReuse ==
  ASSUME TypeOK, DiskOK, ReuseOK, NEW q \in Paths, Reuse(q)
  PROVE  /\ DiskOK' /\ Grows /\ task' = task
         /\ Kind(q) = "raw_media" /\ Run(q) \notin Fixtures /\ task.key[q] \in Keys
         /\ given[q] = None /\ given' = [given EXCEPT ![q] = task.genuine[task.key[q]]]
         /\ task.genuine[task.key[q]] \notin Texts
<1> DEFINE x == answer[q]
           there == IF x \in Paths THEN file[x] ELSE IF x \in object THEN x ELSE None
           g == task.genuine[task.key[q]]
           f == [file EXCEPT ![q] = there]
<1>1. /\ given[q] = None /\ x # None /\ there # None /\ task' = task
      /\ Disk(f, object, bytes)
      /\ given' = [given EXCEPT ![q] = bytes[there].c]
  BY DEF Reuse
<1>2. Named(x, q)
  BY <1>1 DEF ReuseOK
<1>3. task.key[q] \in Keys /\ g \in Contents /\ g # None
  BY <1>2, ScenarioType, Different DEF Named
<1>4. /\ file \in [Paths -> Paths \cup Contents \cup {None}] /\ object \in SUBSET Contents
      /\ bytes \in [Paths \cup Contents -> Bytes] /\ given \in [Paths -> Contents \cup {None}]
      /\ x \in Paths \cup Contents \cup {None}
  BY DEF TypeOK, DiskTypes, HistoryTypes
<1>5. /\ there \in Paths \cup Contents /\ bytes[there].c = g /\ g \notin Texts
      /\ there \in Contents => Similar(there, g) /\ there \notin Texts
      /\ there \in Paths => given[there] # None /\ Kind(there) = "raw_media"
  <2>1. CASE x \in Paths
    <3>1. /\ FileOK(x) /\ Exists(x) /\ there = file[x] /\ there \in Paths \cup Contents
          /\ Kind(x) = "raw_media" /\ given[x] = g /\ g \notin Texts
      BY <1>1, <1>2, <1>4, <2>1 DEF DiskOK, Exists, Named, ReuseOK
    <3>2. bytes[there].c = g
      BY <3>1 DEF FileOK, Near, Similar, Content
    <3>3. there \in Contents => Similar(there, g) /\ there \notin Texts
      BY <3>1 DEF FileOK, Near, Similar
    <3>4. there \in Paths => given[there] # None /\ Kind(there) = "raw_media"
      BY <3>1 DEF FileOK
    <3> QED BY <3>1, <3>2, <3>3, <3>4
  <2>2. CASE x \notin Paths
    <3>1. x \in object /\ there = x /\ x \in Contents /\ x = g /\ x \notin Texts
      BY <1>1, <1>2, <1>4, <2>2 DEF Named
    <3>2. bytes[x].c = g
      BY <3>1 DEF DiskOK, ObjectOK, Similar
    <3> QED BY <2>2, <3>1, <3>2 DEF Similar
  <2> QED BY <2>1, <2>2
<1> HIDE DEF there, g
<1>6. /\ file' = f /\ object' = object /\ given' = [given EXCEPT ![q] = g]
      /\ bytes' = [y \in Paths \cup Contents |->
                     IF y \in object \/ \E p \in Paths : f[p] = y THEN bytes[y] ELSE NoBytes]
  BY <1>1, <1>5 DEF Disk
<1>7. /\ \A p \in Paths : file'[p] = IF p = q THEN there ELSE file[p]
      /\ \A p \in Paths : given'[p] = IF p = q THEN g ELSE given[p]
  BY <1>4, <1>6
<1>8. Texts' = Texts
  BY <1>1 DEF Texts, Run
<1>9. \A p \in Paths : file'[p] # None => bytes'[file'[p]] = bytes[file'[p]]
  BY <1>4, <1>5, <1>6, <1>7
<1>10. ASSUME NEW p \in Paths \ {q}
       PROVE  FileOK(p)'
  <2>1. FileOK(p)
    BY DEF DiskOK
  <2>2. file[p] # None =>
            /\ bytes'[file[p]].c # None /\ given'[p] # None /\ Similar(bytes'[file[p]].c, given'[p])
            /\ file[p] \in Contents => Similar(file[p], given'[p])
            /\ file[p] \in Paths => given'[file[p]] # None
            /\ file[p] \in Paths /\ file[p] # p => Kind(p) = "raw_media" /\ Kind(file[p]) = "raw_media"
    BY <1>3, <1>7, <1>9, <2>1 DEF FileOK, Exists, Content, Near, g
  <2> QED BY <1>1, <1>7, <1>8, <2>2 DEF FileOK, Exists, Content, Near, Similar, Kind
<1>11. FileOK(q)'
  <2>1. file'[q] = there /\ bytes'[there].c = g /\ given'[q] = g /\ Kind(q) = "raw_media"
    BY <1>1, <1>2, <1>5, <1>7, <1>9 DEF Named
  <2>2. g # None /\ there \in Paths => given'[there] # None
    BY <1>3, <1>5, <1>7 DEF g
  <2>3. g # None
    BY <1>3 DEF g
  <2> QED BY <1>1, <1>5, <1>7, <1>8, <2>1, <2>2, <2>3, Different
          DEF FileOK, Exists, Content, Near, Similar, Kind
<1>12. \A p \in Paths : TextOK(p)'
  <2>1. Run(q) # Cache
    <3>1. Kind(q) = "raw_media" /\ Plausible(task)
      BY <1>2, RuntimeStoreAssumption DEF Named, TypeOK, RuntimeStoreAssumption
    <3> QED BY <3>1 DEF Plausible, Kind, Run
  <2> QED BY <1>1, <1>7, <1>8, <2>1 DEF DiskOK, TextOK, Run
<1>13. \A d \in Contents : ObjectOK(d)'
  <2>1. ASSUME NEW d \in Contents
        PROVE  ObjectOK(d)'
    <3>1. ObjectOK(d)
      BY DEF DiskOK
    <3>2. bytes'[d] = bytes[d] \/ (bytes'[d] = NoBytes /\ d \notin object)
      BY <1>4, <1>6
    <3> QED BY <1>6, <1>8, <3>1, <3>2 DEF ObjectOK, Similar, NoBytes
  <2> QED BY <2>1
<1>14. DiskOK'
  BY <1>10, <1>11, <1>12, <1>13 DEF DiskOK
<1>15. Grows
  BY <1>1, <1>7 DEF Grows, Exists
<1> QED BY <1>1, <1>2, <1>3, <1>5, <1>6, <1>14, <1>15 DEF Named, g

(* The rows tell of their files, in both tables.                           *)
LEMMA RowTells ==
  ASSUME TypeOK, RowsOK, NEW i \in Procs, NEW p \in Paths
  PROVE  Tells(View(i).rows[p], p) /\ Tells(db.rows[p], p) /\ RefsOK(View(i))
BY DEF RowsOK, TableOK, View

(* An object for the digest of a row is like the file of that row.         *)
LEMMA FilesDedupeGroup ==
  ASSUME TypeOK, DiskOK, RowsOK, DedupeGroup
  PROVE  DiskOK' /\ Grows
<1> DEFINE t == View(Operator)
           obj(k) == t.rows[k].obj
           there(k) == IF obj(k) # None THEN obj(k) \in object ELSE Exists(k)
<1>1. task' = task /\ given' = given /\ cmd[Operator] \in DedupeCmd
  BY CmdOf DEF DedupeGroup, history, TypeOK
<1>2. PICK d \in cmd[Operator].groups :
         \/ UNCHANGED disk
         \/ \E keeper \in Keepers(t, d) :
              IF there(keeper) /\ obj(keeper) = None
              THEN Disk(file, object \cup {d}, ensure_cas_object(d, bytes[file[keeper]]))
              ELSE UNCHANGED disk
  BY DEF DedupeGroup
<1>3. CASE UNCHANGED disk
  BY <1>1, <1>3, FilesSame
<1>4. ASSUME NEW keeper \in Keepers(t, d), Exists(keeper),
             Disk(file, object \cup {d}, ensure_cas_object(d, bytes[file[keeper]]))
      PROVE  DiskOK' /\ Grows
  <2>1. keeper \in Paths /\ t.rows[keeper].sha = d /\ d \in Contents
    BY <1>1 DEF Keepers, SameDigest, DedupeCmd
  <2>2. Near(d, keeper)
    BY <2>1, RowTells, Different DEF Tells
  <2>3. Near(Content(keeper), keeper)
    BY <1>4, <2>1 DEF DiskOK, FileOK
  <2>4. Similar(Content(keeper), d)
    BY <2>2, <2>3, SimilarIsEquivalence DEF Near
  <2> QED BY <1>1, <1>4, <2>1, <2>4, Copied
<1> QED BY <1>2, <1>3, <1>4

LEMMA FilesLinks ==
  ASSUME TypeOK, DiskOK, CmdOK, DeleteFile \/ QuarantineFile \/ DedupeLink
  PROVE  DiskOK' /\ Grows
<1>1. task' = task /\ given' = given
  BY DEF DeleteFile, QuarantineFile, DedupeLink, history
<1>2. ASSUME NEW p \in Paths, NEW o \in SUBSET object, Disk(Unlinked(p), o, bytes)
      PROVE  DiskOK' /\ Grows
  BY <1>1, <1>2, Moved DEF Unlinked
<1>3. CASE DeleteFile
  <2>1. cmd[Operator] \in CleanupCmd
    BY <1>3, CmdOf DEF DeleteFile, TypeOK
  <2>2. PICK p \in IF cmd[Operator].phase = "quota" THEN Oldest(View(Operator), Todo) ELSE Todo :
           UNCHANGED disk \/ Disk(Unlinked(p), object, bytes)
    BY <1>3 DEF DeleteFile
  <2>3. p \in Paths
    BY <2>1 DEF Oldest, Todo, CleanupCmd
  <2> QED BY <1>1, <1>2, <2>2, <2>3, FilesSame
<1>4. CASE QuarantineFile
  <2>1. cmd[Operator] \in QuarantineCmd
    BY <1>4, CmdOf DEF QuarantineFile, TypeOK
  <2>2. PICK p \in Todo :
           Disk(Unlinked(p),
                IF Shared(View(Operator), Selected[p]) THEN object ELSE object \ {Selected[p]}, bytes)
    BY <1>4 DEF QuarantineFile
  <2>3. p \in Paths
    BY <2>1 DEF Todo, QuarantineCmd
  <2> QED BY <1>2, <2>2, <2>3
<1>5. CASE DedupeLink
  <2>1. cmd[Operator] \in DedupeCmd
    BY <1>5, CmdOf DEF DedupeLink, TypeOK
  <2>2. PICK p \in Todo :
           \/ UNCHANGED disk
           \/ Exists(p) /\ Disk(replace_with_compat_link(p, cmd[Operator].obj), object, bytes)
    BY <1>5 DEF DedupeLink
  <2>3. p \in Paths
    BY <2>1 DEF Todo, DedupeCmd
  <2>4. cmd[Operator].obj \in object /\ Near(cmd[Operator].obj, p)
    BY <1>5 DEF CmdOK, Links, DedupeLink
  <2>5. CASE Exists(p) /\ Disk(replace_with_compat_link(p, cmd[Operator].obj), object, bytes)
    BY <1>1, <2>3, <2>4, <2>5, Moved DEF replace_with_compat_link
  <2> QED BY <1>1, <2>2, <2>5, FilesSame
<1> QED BY <1>3, <1>4, <1>5

LEMMA FilesObjects ==
  ASSUME TypeOK, DiskOK,
         PutObject \/ \E i \in Procs, p \in Paths : IndexFile(i, p)
  PROVE  DiskOK' /\ Grows
<1>1. task' = task /\ given' = given
  BY DEF PutObject, IndexFile, history
<1>2. ASSUME NEW p \in Paths, Exists(p)
      PROVE  Content(p) \in Contents /\ Similar(Content(p), Content(p)) /\ Near(Content(p), p)
  BY <1>2, ContentType DEF DiskOK, FileOK, TypeOK, Bytes, Content, Similar
<1>3. ASSUME NEW p \in Paths, Exists(p), NEW f,
             f = file \/ f = replace_with_compat_link(p, Content(p)),
             Disk(f, object \cup {Content(p)}, ensure_cas_object(Content(p), bytes[file[p]]))
      PROVE  DiskOK' /\ Grows
  <2>1. f = file \/ (f = [file EXCEPT ![p] = Content(p)] /\ Near(Content(p), p) /\ Exists(p))
    BY <1>2, <1>3 DEF replace_with_compat_link
  <2> QED BY <1>1, <1>2, <1>3, <2>1, Copied
<1>4. CASE PutObject
  <2>1. PICK p \in Paths, replace \in BOOLEAN :
           /\ Exists(p)
           /\ Disk(IF replace THEN replace_with_compat_link(p, Content(p)) ELSE file,
                   object \cup {Content(p)}, ensure_cas_object(Content(p), bytes[file[p]]))
    BY <1>4 DEF PutObject
  <2> QED BY <1>3, <2>1
<1>5. ASSUME NEW i \in Procs, NEW p \in Paths, IndexFile(i, p)
      PROVE  DiskOK' /\ Grows
  <2>1. \/ UNCHANGED disk
        \/ Exists(p) /\ Disk(replace_with_compat_link(p, Content(p)), object \cup {Content(p)},
                             ensure_cas_object(Content(p), bytes[file[p]]))
    BY <1>5 DEF IndexFile, register_artifact, Content
  <2> QED BY <1>1, <1>3, <2>1, FilesSame
<1> QED BY <1>4, <1>5

LEMMA FilesStep ==
  ASSUME TypeOK, DiskOK, RowsOK, CmdOK, ReuseOK, [Next]_vars
  PROVE  DiskOK' /\ Grows
<1>1. CASE UNCHANGED vars
  BY <1>1, FilesSame DEF vars, history
<1>2. ASSUME NEW p \in Paths, Arrive(p) \/ Rewrite(p) \/ Find(p) \/ Reuse(p)
      PROVE  DiskOK' /\ Grows
  <2>1. CASE Find(p)
    BY <2>1, FilesSame DEF Find, history
  <2> QED BY <1>2, <2>1, FilesArrive, FilesRewrite, FilesReuse
<1>3. CASE \/ IndexRun \/ Scan \/ Cleanup \/ DeleteRow \/ AboveQuota
           \/ Dedupe \/ DedupeRow \/ DedupeDone \/ Quarantine \/ QuarantineRow \/ QuarantineDone
           \/ Pin \/ Tick
           \/ \E i \in Procs : NextRun(i) \/ IndexDone(i) \/ Dies(i)
  <2>1. task' = task /\ given' = given /\ UNCHANGED disk
    BY <1>3 DEF IndexRun, Scan, Cleanup, DeleteRow, AboveQuota, Dedupe, DedupeRow, DedupeDone,
                Quarantine, QuarantineRow, QuarantineDone, Pin, Tick, NextRun, IndexDone, Dies,
                history
  <2> QED BY <2>1, FilesSame
<1>4. CASE Next
  BY <1>2, <1>3, <1>4, FilesDedupeGroup, FilesLinks, FilesObjects DEF Next
<1> QED BY <1>1, <1>4

-----------------------------------------------------------------------------
(* The rows. *)

(* What a table tells stays right as the files change, and a table that is *)
(* put in another's place has to be right before the step.                 *)
LEMMA RowsKept ==
  ASSUME Grows, RowsOK, NEW t, TableOK(t), db' \in {db, draft, t}, draft' \in {db, draft, t}
  PROVE  RowsOK'
<1>1. ASSUME NEW u, TableOK(u), NEW p \in Paths
      PROVE  /\ u.rows[p].status # "none" => given'[p] # None
             /\ u.rows[p].sha # None =>
                  /\ given'[p] # None
                  /\ u.rows[p].sha = given'[p] \/ (u.rows[p].sha \in Texts /\ given'[p] \in Texts)
             /\ u.rows[p].obj # None =>
                  /\ given'[p] # None
                  /\ u.rows[p].obj = given'[p] \/ (u.rows[p].obj \in Texts /\ given'[p] \in Texts)
             /\ u.rows[p].status \in {"deleted", "quarantined"} => file'[p] = None
  <2>1. Tells(u.rows[p], p)
    BY <1>1 DEF TableOK
  <2>2. u.rows[p].status \in {"deleted", "quarantined"} => file'[p] = None
    BY <2>1 DEF Tells, Grows, Exists
  <2>3. u.rows[p].status # "none" => given'[p] # None
    BY <2>1 DEF Tells, Grows
  <2> QED BY <2>1, <2>2, <2>3, GrowsNear DEF Tells
<1>2. ASSUME NEW u, TableOK(u), NEW k \in Keys, NEW p \in Paths, <<k, p>> \in u.refs
      PROVE  k = task.key[p] /\ given'[p] # None
  BY <1>2 DEF TableOK, RefsOK, Grows
<1>3. TableOK(db) /\ TableOK(draft) /\ task' = task /\ Texts' = Texts
  BY GrowsNear DEF RowsOK, Grows
<1>4. TableOK(db)'
  <2>1. PICK u : u = db' /\ TableOK(u)
    BY <1>3
  <2>2. ASSUME NEW p \in Paths
        PROVE  Tells(db.rows[p], p)'
    BY <1>1, <1>3, <2>1 DEF Tells, Near, Similar, Exists
  <2>3. RefsOK(db)'
    BY <1>2, <1>3, <2>1 DEF RefsOK
  <2> QED BY <2>2, <2>3 DEF TableOK
<1>5. TableOK(draft)'
  <2>1. PICK u : u = draft' /\ TableOK(u)
    BY <1>3
  <2>2. ASSUME NEW p \in Paths
        PROVE  Tells(draft.rows[p], p)'
    BY <1>1, <1>3, <2>1 DEF Tells, Near, Similar, Exists
  <2>3. RefsOK(draft)'
    BY <1>2, <1>3, <2>1 DEF RefsOK
  <2> QED BY <2>2, <2>3 DEF TableOK
<1> QED BY <1>4, <1>5 DEF RowsOK

LEMMA ViewOK ==
  ASSUME RowsOK, NEW i
  PROVE  TableOK(View(i))
BY DEF RowsOK, View

(* A row is replaced by one that tells of the file.                        *)
LEMMA OneRow ==
  ASSUME NEW t \in Table, TableOK(t), NEW p \in Paths, NEW row \in Row, Tells(row, p)
  PROVE  TableOK([t EXCEPT !.rows[p] = row])
<1> DEFINE new == [t EXCEPT !.rows[p] = row]
<1>1. /\ \A q \in Paths : new.rows[q] = IF q = p THEN row ELSE t.rows[q]
      /\ new.refs = t.refs
  BY DEF Table
<1> HIDE DEF new
<1>2. \A q \in Paths : Tells(new.rows[q], q)
  BY <1>1 DEF TableOK
<1>3. RefsOK(new)
  BY <1>1 DEF TableOK, RefsOK
<1>4. TableOK(new)
  BY <1>2, <1>3 DEF TableOK
<1> QED BY <1>4 DEF new

LEMMA RowsIndex ==
  ASSUME TypeOK, DiskOK, RowsOK, Grows,
         NEW i \in Procs, NextRun(i) \/ IndexDone(i) \/ \E p \in Paths : IndexFile(i, p)
  PROVE  RowsOK'
<1> USE DEF TypeOK
<1>1. View(i) \in Table /\ TableOK(View(i))
  BY ViewType, ViewOK
<1>2. ASSUME NEW t, TableOK(t), Put(i, t) \/ UNCHANGED rows
      PROVE  RowsOK'
  BY <1>2, RowsKept DEF Put, rows
<1>3. ASSUME UNCHANGED rows
      PROVE  RowsOK'
  BY <1>1, <1>2, <1>3
<1>4. CASE NextRun(i)
  <2>1. PICK r \in Runs \cup {Cache} :
           UNCHANGED rows \/ Put(i, [View(i) EXCEPT !.known = @ \cup {r}])
    BY <1>4 DEF NextRun
  <2> DEFINE t == [View(i) EXCEPT !.known = @ \cup {r}]
  <2>2. t.rows = View(i).rows /\ t.refs = View(i).refs
    BY <1>1 DEF Table
  <2> HIDE DEF t
  <2>3. TableOK(t)
    BY <1>1, <2>2 DEF TableOK, RefsOK
  <2> QED BY <1>2, <2>1, <2>3 DEF t
<1>5. ASSUME NEW p \in Paths, IndexFile(i, p)
      PROVE  RowsOK'
  <2>1. CASE ~Exists(p)
    BY <1>3, <1>5, <2>1 DEF IndexFile
  <2>2. CASE Exists(p)
    <3> DEFINE b == bytes[file[p]]
               linked == cmd[i].cas /\ should_cas(p)
               new == [status |-> "ready", sha |-> b.c, obj |-> IF linked THEN b.c ELSE None,
                       made |-> b.made, used |-> b.made, pinned |-> FALSE]
               old == View(i).rows[p]
               row == [new EXCEPT !.obj = IF new.obj = None THEN old.obj ELSE new.obj,
                                  !.used = IF old.status = "none" THEN new.used ELSE old.used,
                                  !.pinned = old.pinned]
    <3>1. Put(i, Upsert(View(i), p, new))
      BY <1>5, <2>2 DEF IndexFile, register_artifact
    <3>2. Upsert(View(i), p, new) = [View(i) EXCEPT !.rows[p] = row]
      BY DEF Upsert
    <3>3. b \in Bytes /\ b.c # None /\ Near(b.c, p)
      BY <2>2, ContentType DEF DiskOK, FileOK, Content
    <3>4. old \in Row /\ Tells(old, p)
      BY <1>1, TableRow DEF TableOK
    <3> HIDE DEF b, old
    <3>5. row \in Row /\ row.status = "ready" /\ row.sha = b.c /\ row.obj \in {b.c, old.obj}
      BY <3>3, <3>4 DEF Row, Bytes
    <3> HIDE DEF row
    <3>6. Tells(row, p)
      BY <3>3, <3>4, <3>5 DEF Tells, Near
    <3>7. TableOK([View(i) EXCEPT !.rows[p] = row])
      BY <1>1, <3>5, <3>6, OneRow
    <3> QED BY <1>2, <3>1, <3>2, <3>7
  <2> QED BY <2>1, <2>2
<1>6. CASE IndexDone(i)
  <2>1. CASE writer # i
    BY <1>3, <1>6, <2>1 DEF IndexDone
  <2>2. CASE writer = i
    <3> DEFINE t == index_sources(draft, cmd[i].run)
    <3>1. /\ t.rows = draft.rows
          /\ t.refs = draft.refs \cup {<<task.key[p], p>> :
                p \in {q \in PathsOf(cmd[i].run) : task.key[q] # None /\ Live(draft, q)}}
      BY DEF index_sources, RowTypes, Table
    <3>2. Commit(i, t)
      BY <1>6, <2>2 DEF IndexDone
    <3> HIDE DEF t
    <3>3. RefsOK(t)
      <4>1. ASSUME NEW k \in Keys, NEW p \in Paths, <<k, p>> \in t.refs
            PROVE  k = task.key[p] /\ given[p] # None
        <5>1. CASE <<k, p>> \in draft.refs
          BY <5>1 DEF RowsOK, TableOK, RefsOK
        <5>2. CASE \E q \in Paths : <<k, p>> = <<task.key[q], q>> /\ Live(draft, q)
          BY <5>2 DEF RowsOK, TableOK, Tells, Live
        <5> QED BY <3>1, <4>1, <5>1, <5>2 DEF PathsOf
      <4> QED BY <4>1 DEF RefsOK
    <3>4. TableOK(t)
      BY <3>1, <3>3 DEF RowsOK, TableOK
    <3> QED BY <3>2, <3>4, RowsKept DEF Commit
  <2> QED BY <2>1, <2>2
<1> QED BY <1>4, <1>5, <1>6

LEMMA RowsOperator ==
  ASSUME TypeOK, RowsOK, CmdOK, Grows, DeleteRow \/ DedupeRow \/ QuarantineRow
  PROVE  RowsOK'
<1> USE DEF TypeOK
<1>1. View(Operator) \in Table /\ TableOK(View(Operator))
  BY ViewType, ViewOK, Different
<1>2. ASSUME NEW t, TableOK(t), Put(Operator, t)
      PROVE  RowsOK'
  BY <1>2, RowsKept DEF Put
<1>3. ASSUME NEW p \in Paths, given[p] # None, ~Exists(p), NEW s \in {"deleted", "quarantined"}
      PROVE  TableOK(SetStatus(View(Operator), p, s))
  <2> DEFINE old == View(Operator).rows[p]
             row == [old EXCEPT !.status = s]
  <2>1. old \in Row /\ Tells(old, p)
    BY <1>1, TableRow DEF TableOK
  <2> HIDE DEF old
  <2>2. row \in Row /\ row.status = s /\ row.sha = old.sha /\ row.obj = old.obj
    BY <2>1 DEF Row
  <2>3. SetStatus(View(Operator), p, s) = [View(Operator) EXCEPT !.rows[p] = row]
    BY DEF SetStatus, old
  <2> HIDE DEF row
  <2>4. Tells(row, p)
    BY <1>3, <2>1, <2>2 DEF Tells
  <2> QED BY <1>1, <2>2, <2>3, <2>4, OneRow
<1>4. CASE DeleteRow
  <2>1. Mark # NoMark /\ Working("cleanup") /\ cmd[Operator] \in CleanupCmd
    BY <1>4, CmdOf DEF DeleteRow
  <2>2. Mark \in [path : Paths, status : {"missing", "deleted", "failed"}]
    BY <2>1 DEF Mark, CleanupCmd, Marks
  <2>3. Mark.status # "failed" => given[Mark.path] # None /\ ~Exists(Mark.path)
    BY <2>1 DEF CmdOK, Clears, Marked, Mark
  <2>4. TableOK(AfterDelete(View(Operator), Mark.path, Mark.status))
    BY <1>1, <1>3, <2>2, <2>3 DEF AfterDelete
  <2> QED BY <1>2, <1>4, <2>4 DEF DeleteRow
<1>5. CASE QuarantineRow
  <2>1. Mark # NoMark /\ Working("quarantine") /\ cmd[Operator] \in QuarantineCmd
    BY <1>5, CmdOf DEF QuarantineRow
  <2>2. Mark.path \in Paths /\ Mark.status = "quarantined"
    BY <2>1 DEF Mark, QuarantineCmd, Marks
  <2>3. given[Mark.path] # None /\ ~Exists(Mark.path)
    BY <2>1, <2>2 DEF CmdOK, Clears, Marked, Mark
  <2>4. TableOK(SetStatus(View(Operator), Mark.path, Mark.status))
    BY <1>3, <2>2, <2>3
  <2> QED BY <1>2, <1>5, <2>4 DEF QuarantineRow
<1>6. CASE DedupeRow
  <2>1. Mark # NoMark /\ Working("dedupe") /\ cmd[Operator] \in DedupeCmd
    BY <1>6, CmdOf DEF DedupeRow
  <2>2. Mark.path \in Paths /\ cmd[Operator].obj \in Contents \cup {None}
    BY <2>1 DEF Mark, DedupeCmd, Marks
  <2>3. Near(cmd[Operator].obj, Mark.path)
    BY <2>1 DEF CmdOK, Links, Marked, Mark
  <2> DEFINE t == View(Operator)
             p == Mark.path
             old == t.rows[p]
             row == [old EXCEPT !.obj = cmd[Operator].obj, !.used = now]
  <2>4. Put(Operator, [t EXCEPT !.rows[p] = row])
    <3>1. [t EXCEPT !.rows[p].obj = cmd[Operator].obj, !.rows[p].used = now]
            = [t EXCEPT !.rows[p] = row]
      BY <1>1, <2>2 DEF Table
    <3> QED BY <1>6, <3>1 DEF DedupeRow
  <2>5. old \in Row /\ Tells(old, p)
    BY <1>1, <2>2, TableRow DEF TableOK
  <2> HIDE DEF old
  <2>6. /\ row \in Row /\ row.status = old.status /\ row.sha = old.sha
        /\ row.obj = cmd[Operator].obj
    BY <2>2, <2>5 DEF Row
  <2> HIDE DEF row
  <2>7. Tells(row, p)
    BY <2>3, <2>5, <2>6 DEF Tells
  <2>8. TableOK([t EXCEPT !.rows[p] = row])
    BY <1>1, <2>2, <2>6, <2>7, OneRow
  <2> QED BY <1>2, <2>4, <2>8
<1> QED BY <1>4, <1>5, <1>6

LEMMA RowsPin ==
  ASSUME TypeOK, RowsOK, Grows, Pin
  PROVE  RowsOK'
<1>1. PICK v \in BOOLEAN, x \in db.known \cup {p \in Paths : db.rows[p].status # "none"} :
         db' = IF x \in Runs THEN PinRun(db, x, v) ELSE PinRow(db, x, v)
  BY DEF Pin
<1>2. db \in Table /\ TableOK(db) /\ draft' = db'
  BY DEF TypeOK, RowTypes, RowsOK, Pin
<1>3. x \in Runs \/ x \in Paths
  BY <1>2 DEF Table
<1>4. CASE x \in Runs
  <2>1. PinRun(db, x, v).rows = db.rows /\ PinRun(db, x, v).refs = db.refs
    BY <1>2 DEF PinRun, Table
  <2>2. TableOK(PinRun(db, x, v))
    BY <1>2, <2>1 DEF TableOK, RefsOK
  <2> QED BY <1>1, <1>2, <1>4, <2>2, RowsKept
<1>5. CASE x \in Paths
  <2> DEFINE row == [db.rows[x] EXCEPT !.pinned = v]
  <2>1. db.rows[x] \in Row /\ Tells(db.rows[x], x)
    BY <1>2, <1>5, TableRow DEF TableOK
  <2>2. /\ row \in Row /\ row.status = db.rows[x].status /\ row.sha = db.rows[x].sha
        /\ row.obj = db.rows[x].obj
    BY <2>1 DEF Row
  <2>3. PinRow(db, x, v) = [db EXCEPT !.rows[x] = row]
    BY DEF PinRow
  <2> HIDE DEF row
  <2>4. Tells(row, x)
    BY <2>1, <2>2 DEF Tells
  <2>5. TableOK(PinRow(db, x, v))
    BY <1>2, <1>5, <2>2, <2>3, <2>4, OneRow
  <2> QED BY <1>1, <1>2, <1>5, <2>5, RowsKept, Different
<1> QED BY <1>3, <1>4, <1>5

LEMMA RowsStep ==
  ASSUME TypeOK, DiskOK, RowsOK, CmdOK, Grows, [Next]_vars
  PROVE  RowsOK'
<1>1. TableOK(db) /\ TableOK(draft)
  BY DEF RowsOK
<1>2. CASE UNCHANGED vars
  BY <1>1, <1>2, RowsKept DEF vars, rows
<1>3. CASE \/ \E p \in Paths : Arrive(p) \/ Rewrite(p) \/ Find(p) \/ Reuse(p)
           \/ IndexRun \/ Scan \/ Cleanup \/ DeleteFile \/ Dedupe \/ DedupeGroup \/ DedupeLink
           \/ Quarantine \/ QuarantineFile \/ PutObject \/ Tick
  <2>1. UNCHANGED rows
    BY <1>3 DEF Arrive, Rewrite, Find, Reuse, IndexRun, Scan, Cleanup, DeleteFile, Dedupe,
                DedupeGroup, DedupeLink, Quarantine, QuarantineFile, PutObject, Tick
  <2> QED BY <1>1, <2>1, RowsKept DEF rows
<1>4. CASE AboveQuota \/ DedupeDone \/ QuarantineDone \/ \E i \in Procs : Dies(i)
  <2>1. db' \in {db, draft} /\ draft' \in {db, draft}
    BY <1>4 DEF AboveQuota, DedupeDone, QuarantineDone, CommitIfOpen, Commit, Dies, rows
  <2> QED BY <1>1, <2>1, RowsKept
<1>5. CASE Next
  BY <1>3, <1>4, <1>5, RowsIndex, RowsOperator, RowsPin DEF Next
<1> QED BY <1>2, <1>5

-----------------------------------------------------------------------------
(* The commands of the operator. *)

OperatorStep ==
  \/ Cleanup \/ DeleteFile \/ DeleteRow \/ AboveQuota
  \/ Dedupe \/ DedupeGroup \/ DedupeLink \/ DedupeRow
  \/ Quarantine \/ QuarantineFile \/ QuarantineRow

(* Every other step leaves the operator's command alone, and what it       *)
(* protects, and removes no object, or the operator is idle or indexes     *)
(* when it is done, and it was no cleanup or protects nothing any more.    *)
LEMMA OperatorSteps ==
  ASSUME TypeOK, [Next]_vars
  PROVE  \/ OperatorStep
         \/ cmd'[Operator] = cmd[Operator] /\ object \subseteq object' /\ protected' = protected
         \/ /\ cmd'[Operator].op \in {"idle", "index"}
            /\ protected' = {} \/ (~Working("cleanup") /\ protected' = protected)
<1> USE DEF TypeOK
<1>1. CASE \/ UNCHANGED vars \/ PutObject \/ Pin \/ Tick
           \/ \E p \in Paths : Arrive(p) \/ Rewrite(p) \/ Find(p) \/ Reuse(p)
  <2>1. cmd' = cmd
    BY <1>1 DEF vars, PutObject, Pin, Tick, Arrive, Rewrite, Find, Reuse
  <2>2. object \subseteq object'
    BY <1>1 DEF vars, disk, PutObject, Pin, Tick, Arrive, Write, Rewrite, Find, Reuse, Disk
  <2>3. protected' = protected
    BY <1>1 DEF vars, history, PutObject, Pin, Tick, Arrive, Rewrite, Find, Reuse
  <2> QED BY <2>1, <2>2, <2>3
<1>2. CASE IndexRun
  <2>1. PICK c \in IndexCmd : cmd' = [cmd EXCEPT ![Handler] = c]
    BY <1>2 DEF IndexRun, Begin, Indexing, IndexCmd
  <2>2. cmd'[Operator] = cmd[Operator]
    BY <2>1, NewCmd, Different
  <2> QED BY <1>2, <2>2 DEF IndexRun, disk, history
<1>3. CASE Scan \/ DedupeDone \/ QuarantineDone
  <2>1. \A R, cas, again : Indexing(R, cas, again).op = "index"
    BY DEF Indexing
  <2>2. ASSUME Scan
        PROVE  cmd'[Operator].op \in {"idle", "index"}
    <3>1. PICK again \in BOOLEAN :
             cmd' = [cmd EXCEPT ![Operator] = Indexing(discover_run_dirs \cup {Cache}, FALSE, again)]
      BY <2>2 DEF Scan, Begin
    <3> QED BY <2>1, <3>1, Different DEF CmdTypes
  <2>3. ASSUME DedupeDone \/ QuarantineDone
        PROVE  cmd'[Operator].op \in {"idle", "index"}
    BY <2>3, Different DEF DedupeDone, QuarantineDone, CmdTypes, Idle
  <2>4. ~Working("cleanup") /\ protected' = protected
    BY <1>3 DEF Scan, DedupeDone, QuarantineDone, Begin, Working, history
  <2> QED BY <1>3, <2>2, <2>3, <2>4
<1>4. ASSUME NEW i \in Procs,
             NextRun(i) \/ IndexDone(i) \/ Dies(i) \/ \E p \in Paths : IndexFile(i, p)
      PROVE  \/ cmd'[Operator] = cmd[Operator] /\ object \subseteq object' /\ protected' = protected
             \/ /\ cmd'[Operator].op \in {"idle", "index"}
                /\ protected' = {} \/ (~Working("cleanup") /\ protected' = protected)
  <2>1. object \subseteq object'
    <3>1. \A x : x \in object => x \in object'
      BY <1>4 DEF NextRun, IndexDone, Dies, IndexFile, register_artifact, disk, Disk
    <3> QED BY <3>1
  <2>2. CASE i # Operator
    <3>1. ASSUME NextRun(i)
          PROVE  cmd'[Operator] = cmd[Operator]
      <4>1. PICK r, T : cmd' = [cmd EXCEPT ![i].run = r, ![i].queue = @ \ {r}, ![i].todo = T]
        BY <3>1 DEF NextRun
      <4> QED BY <2>2, <4>1, Different DEF CmdTypes
    <3>2. ASSUME IndexDone(i) \/ Dies(i)
          PROVE  cmd'[Operator] = cmd[Operator]
      <4>1. PICK c : cmd' = [cmd EXCEPT ![i] = c]
        BY <3>2 DEF IndexDone, Dies
      <4> QED BY <2>2, <4>1, Different DEF CmdTypes
    <3>3. ASSUME \E p \in Paths : IndexFile(i, p)
          PROVE  cmd'[Operator] = cmd[Operator]
      BY <2>2, <3>3, Different DEF IndexFile, CmdTypes
    <3>4. protected' = protected
      BY <1>4, <2>2 DEF NextRun, IndexDone, Dies, IndexFile, history
    <3> QED BY <1>4, <2>1, <3>1, <3>2, <3>3, <3>4
  <2>3. CASE i = Operator
    <3>1. CASE Dies(i)
      BY <2>3, <3>1, Different DEF Dies, CmdTypes, Idle
    <3>2. ASSUME NextRun(i) \/ \E p \in Paths : IndexFile(i, p)
          PROVE  cmd'[Operator].op = "index"
      <4>1. cmd[i] \in IndexCmd
        BY <3>2, CmdOf DEF NextRun, IndexFile
      <4>2. cmd'[i].op = cmd[i].op
        BY <3>2, <4>1 DEF NextRun, IndexFile, CmdTypes, IndexCmd
      <4> QED BY <2>3, <4>1, <4>2 DEF IndexCmd
    <3>3. ASSUME IndexDone(i)
          PROVE  cmd'[Operator].op \in {"idle", "index"}
      <4>1. cmd[i] \in IndexCmd
        BY <3>3, CmdOf DEF IndexDone
      <4>2. [cmd[i] EXCEPT !.run = None].op = "index" /\ Idle.op = "idle"
            /\ Indexing(discover_run_dirs, TRUE, FALSE).op = "index"
        BY <4>1 DEF IndexCmd, Idle, Indexing
      <4>3. cmd'[i] \in {[cmd[i] EXCEPT !.run = None], Idle, Indexing(discover_run_dirs, TRUE, FALSE)}
        BY <3>3 DEF IndexDone, CmdTypes
      <4> QED BY <2>3, <4>2, <4>3
    <3>4. ~Dies(i) => ~Working("cleanup") /\ protected' = protected
      BY <1>4, <2>3 DEF NextRun, IndexDone, IndexFile, history, Working
    <3> QED BY <1>4, <3>1, <3>2, <3>3, <3>4
  <2> QED BY <2>2, <2>3
<1>5. CASE Next
  BY <1>1, <1>2, <1>3, <1>4, <1>5 DEF Next, OperatorStep
<1> QED BY <1>1, <1>5

LEMMA CmdKept ==
  ASSUME TypeOK, CmdOK, Grows, object \subseteq object', cmd'[Operator] = cmd[Operator]
  PROVE  CmdOK'
<1>1. \A op \in {"cleanup", "quarantine", "dedupe"} :
        Working(op) => Todo \subseteq Paths
  BY CmdOf DEF TypeOK, Todo, CleanupCmd, DedupeCmd, QuarantineCmd
<1>2. ASSUME NEW op \in {"cleanup", "quarantine"}, Clears(op)
      PROVE  Clears(op)'
  BY <1>1, <1>2 DEF Clears, Grows, Working, Todo, Mark, Marked
<1>3. Links'
  <2>1. SUFFICES ASSUME Working("dedupe")
        PROVE  /\ Todo # {} \/ Mark # NoMark => cmd[Operator].obj \in object'
               /\ \A p \in Todo :
                     /\ given'[p] # None
                     /\ \/ cmd[Operator].obj = given'[p]
                        \/ cmd[Operator].obj \in Texts' /\ given'[p] \in Texts'
               /\ Mark # NoMark => Marked \in Todo
    BY DEF Links, Near, Similar, Working, Todo, Mark, Marked
  <2>2. Links /\ Todo \subseteq Paths
    BY <1>1, <2>1 DEF CmdOK
  <2> QED BY <2>1, <2>2, GrowsNear DEF Links
<1> QED BY <1>2, <1>3 DEF CmdOK

(* What a command that clears rows is about to do, after a step.           *)
LEMMA ClearsNext ==
  ASSUME Grows, NEW c, cmd'[Operator] = c, c.op \in {"cleanup", "quarantine"},
         c.todo \subseteq Paths, \A p \in c.todo : given[p] # None,
         c.mark # NoMark => /\ c.mark.path \in c.todo
                            /\ c.mark.status # "failed" => file'[c.mark.path] = None
  PROVE  CmdOK'
<1>1. \A op \in {"cleanup", "quarantine"} : Clears(op)'
  BY DEF Clears, Grows, Working, Todo, Mark, Marked, Exists
<1>2. Links'
  BY DEF Links, Working
<1> QED BY <1>1, <1>2 DEF CmdOK

(* What a command that links files is about to do, after a step.           *)
LEMMA LinksNext ==
  ASSUME Grows, NEW c, cmd'[Operator] = c, c.op = "dedupe", c.todo \subseteq Paths,
         c.todo # {} \/ c.mark # NoMark => c.obj \in object',
         \A p \in c.todo : Near(c.obj, p),
         c.mark # NoMark => c.mark.path \in c.todo
  PROVE  CmdOK'
<1>1. Clears("cleanup")' /\ Clears("quarantine")'
  BY DEF Clears, Working
<1>2. \A p \in c.todo :
        given'[p] # None /\ (c.obj = given'[p] \/ (c.obj \in Texts' /\ given'[p] \in Texts'))
  BY GrowsNear
<1>3. Links'
  BY <1>2 DEF Links, Working, Todo, Mark, Marked, Near, Similar
<1> QED BY <1>1, <1>3 DEF CmdOK

(* A live row tells that its path was given something.                     *)
LEMMA LiveGiven ==
  ASSUME TypeOK, RowsOK, NEW p \in Paths
  PROVE  /\ Live(db, p) => given[p] # None
         /\ Live(View(Operator), p) => given[p] # None
BY RowTells, Different DEF Live, Tells

LEMMA CmdCleanup ==
  ASSUME TypeOK, RowsOK, CmdOK, Grows, Cleanup \/ DeleteFile \/ DeleteRow \/ AboveQuota
  PROVE  CmdOK'
<1> USE DEF TypeOK
<1>1. CASE Cleanup
  <2> DEFINE c == [op |-> "cleanup", todo |-> expired_candidate_rows(db), mark |-> NoMark,
                   phase |-> "ttl", kind |-> None, over |-> NoOverage,
                   got |-> 0, seen |-> {}, counted |-> db, gone |-> 0]
  <2>1. c.op = "cleanup" /\ c.todo = expired_candidate_rows(db) /\ c.mark = NoMark
    OBVIOUS
  <2>2. cmd'[Operator] = c
    BY <1>1, Different DEF Cleanup, Begin, CmdTypes
  <2> HIDE DEF c
  <2>3. c.todo \subseteq Paths /\ \A p \in c.todo : given[p] # None
    BY <2>1, LiveGiven DEF expired_candidate_rows, Deletable
  <2> QED BY <2>1, <2>2, <2>3, ClearsNext
<1>2. ASSUME DeleteFile \/ DeleteRow \/ AboveQuota
      PROVE  /\ cmd[Operator] \in CleanupCmd /\ cmd[Operator].todo \subseteq Paths
             /\ \A p \in cmd[Operator].todo : given[p] # None
  <2>1. Working("cleanup")
    BY <1>2 DEF DeleteFile, DeleteRow, AboveQuota
  <2> QED BY <2>1, CmdOf DEF CleanupCmd, CmdOK, Clears, Todo
<1>3. CASE DeleteFile
  <2>1. PICK p \in IF cmd[Operator].phase = "quota" THEN Oldest(View(Operator), Todo) ELSE Todo,
             s \in {"missing", "deleted", "failed"} :
           /\ cmd' = [cmd EXCEPT ![Operator].mark = [path |-> p, status |-> s]]
           /\ s # "failed" => file'[p] = None
    <3>1. PICK p \in IF cmd[Operator].phase = "quota" THEN Oldest(View(Operator), Todo) ELSE Todo :
             \/ /\ cmd' = [cmd EXCEPT ![Operator].mark = [path |-> p, status |-> "missing"]]
                /\ UNCHANGED disk /\ ~Exists(p)
             \/ /\ cmd' = [cmd EXCEPT ![Operator].mark = [path |-> p, status |-> "deleted"]]
                /\ Disk(Unlinked(p), object, bytes)
             \/ /\ cmd' = [cmd EXCEPT ![Operator].mark = [path |-> p, status |-> "failed"]]
      BY <1>3 DEF DeleteFile
    <3>2. p \in Paths
      BY <1>2, <1>3, <3>1 DEF Oldest, Todo
    <3>3. Disk(Unlinked(p), object, bytes) => file'[p] = None
      BY <3>2 DEF Disk, Unlinked, DiskTypes
    <3>4. UNCHANGED disk /\ ~Exists(p) => file'[p] = None
      BY DEF disk, Exists
    <3> QED BY <3>1, <3>3, <3>4
  <2>2. p \in cmd[Operator].todo
    BY <2>1 DEF Oldest, Todo
  <2> DEFINE c == cmd'[Operator]
  <2>3. c.op = "cleanup" /\ c.todo = cmd[Operator].todo /\ c.mark = [path |-> p, status |-> s]
    BY <1>2, <1>3, <2>1, Different DEF CmdTypes, CleanupCmd
  <2>4. c.mark.path = p /\ c.mark.status = s
    BY <2>3
  <2> HIDE DEF c
  <2>5. \A q \in c.todo : given[q] # None
    BY <1>2, <1>3, <2>3
  <2>6. c.mark.path \in c.todo /\ (c.mark.status # "failed" => file'[c.mark.path] = None)
    BY <2>1, <2>2, <2>3, <2>4
  <2>7. c.todo \subseteq Paths
    BY <1>2, <1>3, <2>3
  <2> QED BY <2>3, <2>5, <2>6, <2>7, ClearsNext DEF c
<1>4. CASE DeleteRow
  <2> DEFINE c == cmd'[Operator]
  <2>2. c.op = "cleanup" /\ c.todo \subseteq cmd[Operator].todo /\ c.mark = NoMark
    BY <1>2, <1>4, Different DEF DeleteRow, CmdTypes, CleanupCmd
  <2> HIDE DEF c
  <2> QED BY <1>2, <1>4, <2>2, ClearsNext DEF c
<1>5. CASE AboveQuota
  <2>1. CASE cmd' = [cmd EXCEPT ![Operator] = Idle]
    <3>1. cmd'[Operator].op = "idle"
      BY <2>1, Different DEF CmdTypes, Idle
    <3> QED BY <3>1 DEF CmdOK, Clears, Links, Working
  <2> DEFINE todo(k) == quota_lru_candidate_rows(View(Operator), k) \ cmd[Operator].seen
  <2>2. ASSUME NEW k, NEW c, c = cmd'[Operator],
               c.op = "cleanup" /\ c.todo = todo(k) /\ c.mark = NoMark
        PROVE  CmdOK'
    <3>1. todo(k) \subseteq Paths /\ \A p \in todo(k) : given[p] # None
      BY LiveGiven DEF quota_lru_candidate_rows, Deletable
    <3> HIDE DEF todo
    <3> QED BY <2>2, <3>1, ClearsNext
  <2>3. ASSUME cmd' # [cmd EXCEPT ![Operator] = Idle]
        PROVE  \E k : /\ cmd'[Operator].op = "cleanup" /\ cmd'[Operator].todo = todo(k)
                      /\ cmd'[Operator].mark = NoMark
    <3> HIDE DEF todo
    <3>1. Mark = NoMark
      BY <1>5 DEF AboveQuota
    <3> DEFINE over == IF cmd[Operator].phase = "ttl" THEN quota_overages(View(Operator))
                       ELSE [cmd[Operator].over EXCEPT ![cmd[Operator].kind] = 0]
               counted == IF cmd[Operator].phase = "ttl" THEN db ELSE cmd[Operator].counted
    <3>2. PICK k \in {x \in Kinds : over[x] > 0} :
             cmd' = [cmd EXCEPT ![Operator].phase = "quota", ![Operator].kind = k,
                        ![Operator].over = over, ![Operator].got = 0, ![Operator].gone = 0,
                        ![Operator].counted = IF cmd[Operator].phase = "ttl" THEN db ELSE @,
                        ![Operator].todo = quota_lru_candidate_rows(View(Operator), k)
                                              \ cmd[Operator].seen]
      BY <1>5, <2>3 DEF AboveQuota
    <3> HIDE DEF over
    <3>3. cmd' = [cmd EXCEPT ![Operator].phase = "quota", ![Operator].kind = k,
                        ![Operator].over = over, ![Operator].got = 0, ![Operator].gone = 0,
                        ![Operator].counted = counted, ![Operator].todo = todo(k)]
      BY <1>2, <1>5, <3>2, Different DEF CmdTypes, CleanupCmd, todo
    <3> HIDE DEF counted
    <3>4. /\ cmd'[Operator].op = cmd[Operator].op /\ cmd'[Operator].todo = todo(k)
          /\ cmd'[Operator].mark = cmd[Operator].mark
      BY <1>2, <1>5, <3>3, Different DEF CmdTypes, CleanupCmd
    <3> QED BY <1>2, <1>5, <3>1, <3>4 DEF Mark, CleanupCmd
  <2> QED BY <2>1, <2>2, <2>3
<1> QED BY <1>1, <1>3, <1>4, <1>5

LEMMA CmdQuarantine ==
  ASSUME TypeOK, RowsOK, CmdOK, Grows, Quarantine \/ QuarantineFile \/ QuarantineRow
  PROVE  CmdOK'
<1> USE DEF TypeOK
<1>1. CASE Quarantine
  <2>1. PICK ps \in {SameDigest(db, d) : d \in Contents} \cup {{p} : p \in {q \in Paths : Live(db, q)}} :
           cmd' = [cmd EXCEPT ![Operator] = [op |-> "quarantine", todo |-> ps, mark |-> NoMark,
                                             selected |-> [p \in ps |-> db.rows[p].obj]]]
    BY <1>1 DEF Quarantine, Begin
  <2>2. ps \subseteq Paths /\ \A p \in ps : given[p] # None
    BY LiveGiven DEF SameDigest
  <2> DEFINE sel == [p \in ps |-> db.rows[p].obj]
             c == [op |-> "quarantine", todo |-> ps, mark |-> NoMark, selected |-> sel]
  <2>3. cmd'[Operator] = c
    BY <2>1, Different DEF CmdTypes
  <2>4. c.op = "quarantine" /\ c.todo = ps /\ c.mark = NoMark
    OBVIOUS
  <2> HIDE DEF c
  <2> QED BY <2>2, <2>3, <2>4, ClearsNext
<1>2. ASSUME QuarantineFile \/ QuarantineRow
      PROVE  /\ cmd[Operator] \in QuarantineCmd /\ cmd[Operator].todo \subseteq Paths
             /\ \A p \in cmd[Operator].todo : given[p] # None
  <2>1. Working("quarantine")
    BY <1>2 DEF QuarantineFile, QuarantineRow
  <2> QED BY <2>1, CmdOf DEF QuarantineCmd, CmdOK, Clears, Todo
<1>3. CASE QuarantineFile
  <2>1. PICK p \in Todo :
           /\ \E o : Disk(Unlinked(p), o, bytes)
           /\ cmd' = [cmd EXCEPT ![Operator].mark = [path |-> p, status |-> "quarantined"]]
    BY <1>3 DEF QuarantineFile
  <2>2. p \in cmd[Operator].todo /\ p \in Paths /\ file'[p] = None
    BY <1>2, <1>3, <2>1 DEF Todo, Disk, Unlinked, DiskTypes
  <2> DEFINE c == cmd'[Operator]
  <2>3. /\ c.op = "quarantine" /\ c.todo = cmd[Operator].todo
        /\ c.mark = [path |-> p, status |-> "quarantined"]
    BY <1>2, <1>3, <2>1, Different DEF CmdTypes, QuarantineCmd
  <2> HIDE DEF c
  <2> QED BY <1>2, <1>3, <2>2, <2>3, ClearsNext DEF c
<1>4. CASE QuarantineRow
  <2> DEFINE c == cmd'[Operator]
  <2>1. c.op = "quarantine" /\ c.todo \subseteq cmd[Operator].todo /\ c.mark = NoMark
    BY <1>2, <1>4, Different DEF QuarantineRow, CmdTypes, QuarantineCmd
  <2> HIDE DEF c
  <2> QED BY <1>2, <1>4, <2>1, ClearsNext DEF c
<1> QED BY <1>1, <1>3, <1>4

LEMMA CmdDedupe ==
  ASSUME TypeOK, DiskOK, RowsOK, CmdOK, Grows, Dedupe \/ DedupeGroup \/ DedupeLink \/ DedupeRow
  PROVE  CmdOK'
<1> USE DEF TypeOK
<1>1. CASE Dedupe
  <2> DEFINE c == [op |-> "dedupe", groups |-> DuplicateDigests(db), todo |-> {},
                   mark |-> NoMark, obj |-> None]
  <2>1. c.op = "dedupe" /\ c.todo = {} /\ c.mark = NoMark
    OBVIOUS
  <2>2. cmd'[Operator] = c
    BY <1>1, Different DEF Dedupe, Begin, CmdTypes
  <2> HIDE DEF c
  <2> QED BY <2>1, <2>2, LinksNext
<1>2. ASSUME DedupeGroup \/ DedupeLink \/ DedupeRow
      PROVE  /\ cmd[Operator] \in DedupeCmd /\ cmd[Operator].todo \subseteq Paths
             /\ cmd[Operator].todo # {} \/ cmd[Operator].mark # NoMark => cmd[Operator].obj \in object
             /\ \A p \in cmd[Operator].todo : Near(cmd[Operator].obj, p)
  <2>1. Working("dedupe")
    BY <1>2 DEF DedupeGroup, DedupeLink, DedupeRow
  <2>2. Links
    BY DEF CmdOK
  <2> QED BY <2>1, <2>2, CmdOf DEF DedupeCmd, Links, Todo, Mark
<1>3. object \subseteq object'
  <2>1. ASSUME NEW x \in object
        PROVE  x \in object'
    <3>1. CASE Dedupe \/ DedupeRow
      BY <3>1 DEF Dedupe, DedupeRow, disk
    <3>2. CASE DedupeGroup
      BY <3>2 DEF DedupeGroup, disk, Disk
    <3>3. CASE DedupeLink
      BY <3>3 DEF DedupeLink, disk, Disk
    <3> QED BY <3>1, <3>2, <3>3
  <2> QED BY <2>1
<1>4. CASE DedupeGroup
  <2> DEFINE t == View(Operator)
             obj(k) == t.rows[k].obj
             there(k) == IF obj(k) # None THEN obj(k) \in object ELSE Exists(k)
             others(k, d) == {p \in SameDigest(t, d) \ {k} : ~Pinned(t, p)}
  <2>1. Todo = {} /\ Mark = NoMark /\ Working("dedupe")
    BY <1>4 DEF DedupeGroup
  <2>2. PICK d \in cmd[Operator].groups :
           \/ cmd' = [cmd EXCEPT ![Operator].groups = @ \ {d}]
           \/ \E keeper \in Keepers(t, d) :
                /\ there(keeper) /\ obj(keeper) = None => object' = object \cup {d}
                /\ cmd' = [cmd EXCEPT ![Operator].groups = @ \ {d},
                              ![Operator].obj = IF obj(keeper) # None THEN obj(keeper) ELSE d,
                              ![Operator].todo = IF there(keeper) THEN others(keeper, d) ELSE {}]
    BY <1>4 DEF DedupeGroup, Disk
  <2>3. d \in Contents /\ t \in Table
    BY <1>2, <1>4, ViewType, Different DEF DedupeCmd
  <2>4. CASE cmd' = [cmd EXCEPT ![Operator].groups = @ \ {d}]
    <3> DEFINE c == cmd'[Operator]
    <3>1. c.op = "dedupe" /\ c.todo = {} /\ c.mark = NoMark
      BY <1>2, <1>4, <2>1, <2>4, Different DEF CmdTypes, DedupeCmd, Todo, Mark
    <3> HIDE DEF c
    <3> QED BY <3>1, LinksNext DEF c
  <2>5. ASSUME NEW keeper \in Keepers(t, d),
               there(keeper) /\ obj(keeper) = None => object' = object \cup {d},
               NEW to, to = IF obj(keeper) # None THEN obj(keeper) ELSE d,
               NEW todo, todo = IF there(keeper) THEN others(keeper, d) ELSE {},
               cmd' = [cmd EXCEPT ![Operator].groups = @ \ {d}, ![Operator].obj = to,
                                  ![Operator].todo = todo]
        PROVE  CmdOK'
    <3> DEFINE c == cmd'[Operator]
    <3>1. c.op = "dedupe" /\ c.todo = todo /\ c.mark = NoMark /\ c.obj = to
      BY <1>2, <1>4, <2>1, <2>5, Different DEF CmdTypes, DedupeCmd, Mark
    <3>2. keeper \in Paths /\ t.rows[keeper].sha = d
      BY <2>5 DEF Keepers, SameDigest
    <3>3. Near(d, keeper) /\ Near(to, keeper)
      BY <2>3, <2>5, <3>2, RowTells, Different DEF Tells
    <3>4. \A p \in todo : p \in Paths /\ Near(to, p)
      <4>1. ASSUME NEW p \in todo
            PROVE  p \in Paths /\ Near(to, p)
        <5>1. p \in Paths /\ t.rows[p].sha = d
          BY <2>5, <4>1 DEF SameDigest
        <5>2. Near(d, p)
          BY <2>3, <5>1, RowTells, Different DEF Tells
        <5> QED BY <3>3, <5>1, <5>2, SimilarIsEquivalence DEF Near
      <4> QED BY <4>1
    <3>5. todo # {} => to \in object'
      BY <1>3, <2>5
    <3> HIDE DEF c
    <3> QED BY <3>1, <3>4, <3>5, LinksNext DEF c
  <2> QED BY <2>2, <2>4, <2>5
<1>5. CASE DedupeLink
  <2>1. PICK p \in Todo :
           \/ cmd' = [cmd EXCEPT ![Operator].mark = [path |-> p, status |-> "linked"]]
           \/ cmd' = [cmd EXCEPT ![Operator].todo = @ \ {p}]
    BY <1>5 DEF DedupeLink
  <2>2. p \in cmd[Operator].todo /\ cmd[Operator].mark = NoMark
    BY <1>5, <2>1 DEF Todo, Mark, DedupeLink
  <2> DEFINE c == cmd'[Operator]
  <2>3. /\ c.op = "dedupe" /\ c.todo \subseteq cmd[Operator].todo /\ c.obj = cmd[Operator].obj
        /\ c.mark # NoMark => c.mark.path = p /\ p \in c.todo
    BY <1>2, <1>5, <2>1, <2>2, Different DEF CmdTypes, DedupeCmd
  <2> HIDE DEF c
  <2> QED BY <1>2, <1>3, <1>5, <2>2, <2>3, LinksNext DEF c
<1>6. CASE DedupeRow
  <2>1. cmd[Operator].mark # NoMark
    BY <1>6 DEF DedupeRow, Mark
  <2> DEFINE c == cmd'[Operator]
  <2>2. /\ c.op = "dedupe" /\ c.todo \subseteq cmd[Operator].todo /\ c.obj = cmd[Operator].obj
        /\ c.mark = NoMark
    BY <1>2, <1>6, Different DEF DedupeRow, CmdTypes, DedupeCmd
  <2> HIDE DEF c
  <2> QED BY <1>2, <1>3, <1>6, <2>1, <2>2, LinksNext DEF c
<1> QED BY <1>1, <1>4, <1>5, <1>6

LEMMA CmdStep ==
  ASSUME TypeOK, DiskOK, RowsOK, CmdOK, Grows, [Next]_vars
  PROVE  CmdOK'
<1>1. CASE OperatorStep
  BY <1>1, CmdCleanup, CmdDedupe, CmdQuarantine DEF OperatorStep
<1>2. CASE cmd'[Operator].op \in {"idle", "index"}
  BY <1>2 DEF CmdOK, Clears, Links, Working
<1> QED BY <1>1, <1>2, OperatorSteps, CmdKept

-----------------------------------------------------------------------------
(* Pins. *)

(* Nothing but Pin changes the pins of a table.                            *)
PinsStay ==
  /\ db'.pins = db.pins /\ draft'.pins = db.pins
  /\ \A p \in Paths : /\ db'.rows[p].pinned = db.rows[p].pinned
                      /\ draft'.rows[p].pinned = db.rows[p].pinned

LEMMA PinsOf ==
  ASSUME SamePins(db, draft), NEW t, SamePins(db, t), db' \in {db, draft, t}, draft' \in {db, draft, t}
  PROVE  PinsStay
BY DEF SamePins, PinsStay

LEMMA PinsRow ==
  ASSUME NEW t \in Table, SamePins(db, t), NEW p \in Paths, NEW row, row.pinned = t.rows[p].pinned
  PROVE  SamePins(db, [t EXCEPT !.rows[p] = row])
<1> DEFINE new == [t EXCEPT !.rows[p] = row]
<1>1. new.pins = t.pins /\ \A q \in Paths : new.rows[q] = IF q = p THEN row ELSE t.rows[q]
  BY DEF Table
<1> HIDE DEF new
<1>2. SamePins(db, new)
  BY <1>1 DEF SamePins
<1> QED BY <1>2 DEF new

LEMMA PinsView ==
  ASSUME SamePins(db, draft), NEW i
  PROVE  SamePins(db, View(i))
BY DEF SamePins, View

LEMMA PinsIndex ==
  ASSUME TypeOK, SamePins(db, draft),
         NEW i \in Procs, NextRun(i) \/ IndexDone(i) \/ \E p \in Paths : IndexFile(i, p)
  PROVE  PinsStay
<1> USE DEF TypeOK
<1>1. View(i) \in Table /\ SamePins(db, View(i))
  BY ViewType, PinsView
<1>2. ASSUME NEW t, SamePins(db, t), Put(i, t) \/ Commit(i, t) \/ UNCHANGED rows
      PROVE  PinsStay
  BY <1>2, PinsOf DEF Put, Commit, rows
<1>3. CASE NextRun(i)
  <2>1. PICK r \in Runs \cup {Cache} :
           UNCHANGED rows \/ Put(i, [View(i) EXCEPT !.known = @ \cup {r}])
    BY <1>3 DEF NextRun
  <2> DEFINE t == [View(i) EXCEPT !.known = @ \cup {r}]
  <2>2. t.rows = View(i).rows /\ t.pins = View(i).pins
    BY <1>1 DEF Table
  <2> HIDE DEF t
  <2>3. SamePins(db, t)
    BY <1>1, <2>2 DEF SamePins
  <2> QED BY <1>2, <2>1, <2>3 DEF t
<1>4. ASSUME NEW p \in Paths, IndexFile(i, p)
      PROVE  PinsStay
  <2> DEFINE old == View(i).rows[p]
  <2>2. ASSUME Exists(p)
        PROVE  PinsStay
    <3> DEFINE b == bytes[file[p]]
               linked == cmd[i].cas /\ should_cas(p)
               fresh == [status |-> "ready", sha |-> b.c, obj |-> IF linked THEN b.c ELSE None,
                         made |-> b.made, used |-> b.made, pinned |-> FALSE]
               merged == [fresh EXCEPT !.obj = IF fresh.obj = None THEN old.obj ELSE fresh.obj,
                                       !.used = IF old.status = "none" THEN fresh.used ELSE old.used,
                                       !.pinned = old.pinned]
    <3>1. Put(i, Upsert(View(i), p, fresh))
      BY <1>4, <2>2 DEF IndexFile, register_artifact
    <3>2. Upsert(View(i), p, fresh) = [View(i) EXCEPT !.rows[p] = merged]
      BY DEF Upsert
    <3>3. merged.pinned = old.pinned
      OBVIOUS
    <3> HIDE DEF merged
    <3>4. SamePins(db, [View(i) EXCEPT !.rows[p] = merged])
      BY <1>1, <3>3, PinsRow
    <3> QED BY <1>2, <3>1, <3>2, <3>4
  <2>3. CASE ~Exists(p)
    BY <1>1, <1>2, <1>4, <2>3 DEF IndexFile
  <2> QED BY <2>2, <2>3
<1>5. CASE IndexDone(i)
  <2>1. CASE writer # i
    BY <1>1, <1>2, <1>5, <2>1 DEF IndexDone
  <2>2. CASE writer = i
    <3> DEFINE t == index_sources(draft, cmd[i].run)
    <3>1. t.rows = draft.rows /\ t.pins = draft.pins
      BY DEF index_sources, RowTypes, Table
    <3>2. Commit(i, t)
      BY <1>5, <2>2 DEF IndexDone
    <3> HIDE DEF t
    <3> QED BY <1>2, <3>1, <3>2 DEF SamePins
  <2> QED BY <2>1, <2>2
<1> QED BY <1>3, <1>4, <1>5

LEMMA PinsSteps ==
  ASSUME TypeOK, SamePins(db, draft), [Next]_vars, ~Pin
  PROVE  PinsStay
<1> USE DEF TypeOK
<1>1. SamePins(db, db)
  BY DEF SamePins
<1>2. CASE UNCHANGED rows
  BY <1>1, <1>2, PinsOf DEF rows
<1>3. CASE AboveQuota \/ DedupeDone \/ QuarantineDone \/ \E i \in Procs : Dies(i)
  <2>1. db' \in {db, draft} /\ draft' \in {db, draft}
    BY <1>3 DEF AboveQuota, DedupeDone, QuarantineDone, CommitIfOpen, Commit, Dies, rows
  <2> QED BY <1>1, <2>1, PinsOf
<1>4. CASE DeleteRow \/ DedupeRow \/ QuarantineRow
  <2> DEFINE t == View(Operator)
  <2>1. t \in Table /\ SamePins(db, t)
    BY ViewType, PinsView, Different
  <2>2. ASSUME NEW p \in Paths, NEW s
        PROVE  SamePins(db, SetStatus(t, p, s))
    <3> DEFINE row == [t.rows[p] EXCEPT !.status = s]
    <3>1. row.pinned = t.rows[p].pinned
      BY <2>1, TableRow DEF Row
    <3>2. SetStatus(t, p, s) = [t EXCEPT !.rows[p] = row]
      BY DEF SetStatus
    <3> HIDE DEF row
    <3> QED BY <2>1, <3>1, <3>2, PinsRow
  <2>3. Mark.path \in Paths
    <3>1. /\ DeleteRow => cmd[Operator] \in CleanupCmd /\ Mark # NoMark
          /\ DedupeRow => cmd[Operator] \in DedupeCmd /\ Mark # NoMark
          /\ QuarantineRow => cmd[Operator] \in QuarantineCmd /\ Mark # NoMark
      BY CmdOf DEF DeleteRow, DedupeRow, QuarantineRow
    <3> QED BY <1>4, <3>1 DEF Mark, CleanupCmd, DedupeCmd, QuarantineCmd, Marks
  <2>4. PICK new : Put(Operator, new) /\ SamePins(db, new)
    <3>1. CASE DeleteRow
      <4>1. SamePins(db, AfterDelete(t, Mark.path, Mark.status))
        BY <2>1, <2>2, <2>3 DEF AfterDelete
      <4> QED BY <3>1, <4>1 DEF DeleteRow
    <3>2. CASE QuarantineRow
      BY <2>2, <2>3, <3>2 DEF QuarantineRow
    <3>3. CASE DedupeRow
      <4> DEFINE p == Mark.path
                 row == [t.rows[p] EXCEPT !.obj = cmd[Operator].obj, !.used = now]
      <4>1. row.pinned = t.rows[p].pinned
        BY <2>1, <2>3, TableRow DEF Row
      <4>2. [t EXCEPT !.rows[p].obj = cmd[Operator].obj, !.rows[p].used = now]
              = [t EXCEPT !.rows[p] = row]
        BY <2>1, <2>3 DEF Table
      <4>3. Put(Operator, [t EXCEPT !.rows[p] = row])
        BY <3>3, <4>2 DEF DedupeRow
      <4> HIDE DEF row
      <4>4. SamePins(db, [t EXCEPT !.rows[p] = row])
        BY <2>1, <2>3, <4>1, PinsRow
      <4> QED BY <4>3, <4>4
    <3> QED BY <1>4, <3>1, <3>2, <3>3
  <2> QED BY <2>4, PinsOf DEF Put
<1>5. CASE \/ UNCHANGED vars \/ \E p \in Paths : Arrive(p) \/ Rewrite(p) \/ Find(p) \/ Reuse(p)
           \/ IndexRun \/ Scan \/ Cleanup \/ DeleteFile \/ Dedupe \/ DedupeGroup \/ DedupeLink
           \/ Quarantine \/ QuarantineFile \/ PutObject \/ Tick
  <2>1. UNCHANGED rows
    BY <1>5 DEF vars, Arrive, Rewrite, Find, Reuse, IndexRun, Scan, Cleanup, DeleteFile, Dedupe,
                DedupeGroup, DedupeLink, Quarantine, QuarantineFile, PutObject, Tick
  <2> QED BY <1>2, <2>1
<1>6. CASE Next
  BY <1>3, <1>4, <1>5, <1>6, PinsIndex DEF Next
<1> QED BY <1>5, <1>6

(* A file goes when a cleanup deletes it or a quarantine moves it away.    *)
LEMMA FilesStay ==
  ASSUME TypeOK, DiskOK, CmdOK, [Next]_vars, NEW p \in Paths, Exists(p)
  PROVE  Exists(p)' \/ Working("quarantine") \/ (Working("cleanup") /\ p \in Todo)
<1> USE DEF TypeOK
<1>1. file \in [Paths -> Paths \cup Contents \cup {None}] /\ file[p] # None
  BY DEF DiskTypes, Exists
<1>2. CASE UNCHANGED disk
  BY <1>2 DEF disk, Exists
<1>3. ASSUME NEW q \in Paths, NEW x, x # None, file' = file \/ file' = [file EXCEPT ![q] = x]
      PROVE  Exists(p)'
  BY <1>1, <1>3 DEF Exists
<1>4. ASSUME NEW q \in Paths, Arrive(q) \/ Rewrite(q) \/ Find(q) \/ Reuse(q)
      PROVE  Exists(p)'
  <2>1. CASE Arrive(q)
    <3>1. file' = [file EXCEPT ![q] = q]
      BY <2>1 DEF Arrive, Write, Disk
    <3> QED BY <1>3, <3>1, Different
  <2>2. CASE Rewrite(q)
    <3>1. PICK x \in {q, file[q]} : file' = [file EXCEPT ![q] = x]
      BY <2>2 DEF Rewrite, Disk
    <3>2. x # None
      BY <2>2, Different DEF Rewrite, Exists
    <3> QED BY <1>3, <3>1, <3>2
  <2>3. CASE Find(q)
    BY <1>2, <1>4, <2>3 DEF Find, disk, Exists
  <2>4. CASE Reuse(q)
    <3> DEFINE x == answer[q]
               there == IF x \in Paths THEN file[x] ELSE IF x \in object THEN x ELSE None
    <3>1. there # None /\ file' = [file EXCEPT ![q] = there]
      BY <2>4 DEF Reuse, Disk
    <3> HIDE DEF there
    <3> QED BY <1>3, <3>1
  <2> QED BY <1>4, <2>1, <2>2, <2>3, <2>4
<1>5. CASE DeleteFile
  <2>1. PICK q \in IF cmd[Operator].phase = "quota" THEN Oldest(View(Operator), Todo) ELSE Todo :
           UNCHANGED disk \/ Disk(Unlinked(q), object, bytes)
    BY <1>5 DEF DeleteFile
  <2>2. q \in Todo /\ Working("cleanup")
    BY <1>5, <2>1 DEF Oldest, DeleteFile
  <2> QED BY <1>1, <1>2, <2>1, <2>2 DEF Disk, Unlinked, Exists
<1>6. CASE DedupeGroup
  BY <1>6 DEF DedupeGroup, disk, Disk, Exists
<1>7. CASE DedupeLink
  <2>1. PICK q \in Todo : file' = file \/ file' = [file EXCEPT ![q] = cmd[Operator].obj]
    BY <1>7 DEF DedupeLink, disk, Disk, replace_with_compat_link
  <2>2. q \in Paths
    BY <1>7, CmdOf DEF DedupeLink, Todo, DedupeCmd
  <2>3. cmd[Operator].obj # None
    BY <1>7, <2>1, Different DEF DedupeLink, CmdOK, Links, DiskTypes
  <2> QED BY <1>3, <2>1, <2>2, <2>3
<1>8. CASE QuarantineFile
  BY <1>8 DEF QuarantineFile
<1>9. CASE PutObject
  <2>1. PICK q \in Paths : Exists(q) /\ (file' = file \/ file' = [file EXCEPT ![q] = Content(q)])
    BY <1>9 DEF PutObject, Disk, replace_with_compat_link
  <2>2. Content(q) # None
    BY <2>1 DEF DiskOK, FileOK
  <2> QED BY <1>3, <2>1, <2>2
<1>10. ASSUME NEW i \in Procs, NEW q \in Paths, IndexFile(i, q)
       PROVE  Exists(p)'
  <2>1. file' = file \/ (Exists(q) /\ file' = [file EXCEPT ![q] = Content(q)])
    BY <1>10 DEF IndexFile, register_artifact, disk, Disk, replace_with_compat_link, Content
  <2>2. Exists(q) => Content(q) # None
    BY DEF DiskOK, FileOK
  <2>3. CASE file' = file
    BY <1>1, <2>3 DEF Exists
  <2> QED BY <1>3, <2>1, <2>2, <2>3
<1>11. CASE \/ UNCHANGED vars \/ IndexRun \/ Scan \/ Cleanup \/ DeleteRow \/ AboveQuota
            \/ Dedupe \/ DedupeRow \/ DedupeDone \/ Quarantine \/ QuarantineRow \/ QuarantineDone
            \/ Pin \/ Tick
            \/ \E i \in Procs : NextRun(i) \/ IndexDone(i) \/ Dies(i)
  BY <1>2, <1>11 DEF vars, IndexRun, Scan, Cleanup, DeleteRow, AboveQuota, Dedupe, DedupeRow,
     DedupeDone, Quarantine, QuarantineRow, QuarantineDone, Pin, Tick, NextRun, IndexDone, Dies
<1>12. CASE Next
  BY <1>4, <1>5, <1>6, <1>7, <1>8, <1>9, <1>10, <1>11, <1>12 DEF Next
<1> QED BY <1>11, <1>12

(* What a cleanup goes through next is nothing that is pinned.             *)
LEMMA CleanupTodo ==
  ASSUME TypeOK, PinsOK, OperatorStep, Working("cleanup")'
  PROVE  /\ \A p \in Todo' : p \in Paths /\ ~Pinned(db, p)
         /\ Cleanup \/ (Working("cleanup") /\ protected' = protected)
<1> USE DEF TypeOK
<1>1. ASSUME NEW t \in {db, View(Operator)}, NEW p \in Paths
      PROVE  Pinned(t, p) <=> Pinned(db, p)
  BY PinsView DEF PinsOK, SamePins, Pinned, RunPinned, View
<1>2. CASE Cleanup
  <2>1. Todo' = expired_candidate_rows(db)
    <3> DEFINE todo == expired_candidate_rows(db)
    <3>1. cmd' = [cmd EXCEPT ![Operator] = [op |-> "cleanup", todo |-> todo, mark |-> NoMark,
                   phase |-> "ttl", kind |-> None, over |-> NoOverage,
                   got |-> 0, seen |-> {}, counted |-> db, gone |-> 0]]
      BY <1>2 DEF Cleanup, Begin
    <3> HIDE DEF todo
    <3>2. cmd'[Operator].todo = todo
      BY <3>1, Different DEF CmdTypes
    <3> QED BY <3>2 DEF Todo, todo
  <2> QED BY <1>2, <2>1 DEF expired_candidate_rows, Deletable
<1>3. ASSUME ~Cleanup
      PROVE  Working("cleanup")
  <2>1. CASE DeleteFile \/ DeleteRow \/ AboveQuota
    BY <2>1 DEF DeleteFile, DeleteRow, AboveQuota
  <2>2. CASE Dedupe
    <3>1. cmd'[Operator] = [op |-> "dedupe", groups |-> DuplicateDigests(db), todo |-> {},
                            mark |-> NoMark, obj |-> None]
      BY <2>2, Different DEF Dedupe, Begin, CmdTypes
    <3>2. cmd'[Operator].op = "dedupe"
      BY <3>1
    <3> QED BY <3>2 DEF Working
  <2>3. CASE Quarantine
    <3>1. PICK ps, sel : cmd' = [cmd EXCEPT ![Operator] =
                            [op |-> "quarantine", todo |-> ps, mark |-> NoMark, selected |-> sel]]
      BY <2>3 DEF Quarantine, Begin
    <3>2. cmd'[Operator].op = "quarantine"
      BY <3>1, Different DEF CmdTypes
    <3> QED BY <3>2 DEF Working
  <2>4. CASE QuarantineFile \/ QuarantineRow
    <3>1. cmd[Operator] \in QuarantineCmd
      BY <2>4, CmdOf DEF QuarantineFile, QuarantineRow
    <3>2. cmd'[Operator].op = cmd[Operator].op
      <4>1. CASE QuarantineFile
        <5>1. PICK mark : cmd' = [cmd EXCEPT ![Operator].mark = mark]
          BY <4>1 DEF QuarantineFile
        <5> QED BY <3>1, <5>1, Different DEF CmdTypes, QuarantineCmd
      <4>2. CASE QuarantineRow
        BY <3>1, <4>2, Different DEF QuarantineRow, CmdTypes, QuarantineCmd
      <4> QED BY <2>4, <4>1, <4>2
    <3> QED BY <3>1, <3>2 DEF Working, QuarantineCmd
  <2>5. CASE DedupeLink \/ DedupeRow
    <3>1. cmd[Operator] \in DedupeCmd
      BY <2>5, CmdOf DEF DedupeLink, DedupeRow
    <3>2. cmd'[Operator].op = cmd[Operator].op
      BY <2>5, <3>1, Different DEF DedupeLink, DedupeRow, CmdTypes, DedupeCmd
    <3> QED BY <3>1, <3>2 DEF Working, DedupeCmd
  <2>6. CASE DedupeGroup
    <3>1. cmd[Operator] \in DedupeCmd
      BY <2>6, CmdOf DEF DedupeGroup
    <3> DEFINE t == View(Operator)
               obj(k) == t.rows[k].obj
               there(k) == IF obj(k) # None THEN obj(k) \in object ELSE Exists(k)
               others(k, d) == {p \in SameDigest(t, d) \ {k} : ~Pinned(t, p)}
    <3>2. PICK d \in cmd[Operator].groups :
             \/ cmd' = [cmd EXCEPT ![Operator].groups = @ \ {d}]
             \/ \E keeper \in Keepers(t, d) :
                  cmd' = [cmd EXCEPT ![Operator].groups = @ \ {d},
                             ![Operator].obj = IF obj(keeper) # None THEN obj(keeper) ELSE d,
                             ![Operator].todo = IF there(keeper) THEN others(keeper, d) ELSE {}]
      BY <2>6 DEF DedupeGroup
    <3>3. CASE cmd' = [cmd EXCEPT ![Operator].groups = @ \ {d}]
      BY <3>1, <3>3, Different DEF CmdTypes, DedupeCmd, Working
    <3>4. ASSUME NEW to, NEW todo,
                 cmd' = [cmd EXCEPT ![Operator].groups = @ \ {d}, ![Operator].obj = to,
                                    ![Operator].todo = todo]
          PROVE  ~Working("cleanup")'
      BY <3>1, <3>4, Different DEF CmdTypes, DedupeCmd, Working
    <3> QED BY <3>2, <3>3, <3>4
  <2> QED BY <1>3, <2>1, <2>2, <2>3, <2>4, <2>5, <2>6 DEF OperatorStep
<1>4. ASSUME Working("cleanup")
      PROVE  /\ cmd[Operator] \in CleanupCmd /\ Todo \subseteq Paths
             /\ \A p \in Todo : ~Pinned(db, p)
  BY <1>4, CmdOf DEF CleanupCmd, Todo, PinsOK, ProtectedOK
<1>5. CASE Working("cleanup") /\ (DeleteFile \/ DeleteRow)
  <2>1. Todo' \subseteq Todo
    <3>1. CASE DeleteFile
      <4>1. PICK mark : cmd' = [cmd EXCEPT ![Operator].mark = mark]
        BY <3>1 DEF DeleteFile
      <4>2. cmd'[Operator].todo = cmd[Operator].todo
        BY <1>4, <1>5, <4>1, Different DEF CmdTypes, CleanupCmd
      <4> QED BY <4>2 DEF Todo
    <3>2. CASE DeleteRow
      <4>1. cmd'[Operator].todo \subseteq cmd[Operator].todo
        BY <1>4, <1>5, <3>2, Different DEF DeleteRow, CmdTypes, CleanupCmd
      <4> QED BY <4>1 DEF Todo
    <3> QED BY <1>5, <3>1, <3>2
  <2>2. protected' = protected
    BY <1>5 DEF DeleteFile, DeleteRow, history
  <2> QED BY <1>4, <1>5, <2>1, <2>2
<1>6. CASE AboveQuota
  <2> DEFINE over == IF cmd[Operator].phase = "ttl" THEN quota_overages(View(Operator))
                     ELSE [cmd[Operator].over EXCEPT ![cmd[Operator].kind] = 0]
             todo(k) == quota_lru_candidate_rows(View(Operator), k) \ cmd[Operator].seen
  <2>1. cmd' # [cmd EXCEPT ![Operator] = Idle]
    BY Different DEF CmdTypes, Working, Idle
  <2>2. PICK k \in Kinds :
           /\ cmd' = [cmd EXCEPT ![Operator].phase = "quota", ![Operator].kind = k,
                        ![Operator].over = over, ![Operator].got = 0, ![Operator].gone = 0,
                        ![Operator].counted = IF cmd[Operator].phase = "ttl" THEN db ELSE @,
                        ![Operator].todo = quota_lru_candidate_rows(View(Operator), k)
                                              \ cmd[Operator].seen]
           /\ protected' = protected
    BY <1>6, <2>1 DEF AboveQuota
  <2>3. Working("cleanup")
    BY <1>6 DEF AboveQuota
  <2> HIDE DEF over
  <2>4. cmd'[Operator].todo = todo(k)
    <3> HIDE DEF todo
    <3> QED BY <1>4, <2>2, <2>3, Different DEF CmdTypes, CleanupCmd, todo
  <2>5. \A p \in todo(k) : p \in Paths /\ ~Pinned(View(Operator), p)
    BY DEF quota_lru_candidate_rows, Deletable
  <2> HIDE DEF todo
  <2>6. \A p \in Todo' : p \in Paths /\ ~Pinned(View(Operator), p)
    BY <2>4, <2>5 DEF Todo
  <2> QED BY <1>1, <2>2, <2>3, <2>6
<1>7. ~(Dedupe \/ DedupeGroup \/ DedupeLink \/ DedupeRow
        \/ Quarantine \/ QuarantineFile \/ QuarantineRow) \/ Cleanup
  BY <1>3 DEF Dedupe, DedupeGroup, DedupeLink, DedupeRow, Quarantine, QuarantineFile,
              QuarantineRow, Begin, Working
<1> QED BY <1>2, <1>3, <1>5, <1>6, <1>7 DEF OperatorStep

LEMMA PinsPin ==
  ASSUME TypeOK, DiskOK, CmdOK, PinsOK, Pin
  PROVE  PinsOK'
<1> USE DEF TypeOK
<1>1. /\ writer = None /\ cmd[Operator] = Idle /\ draft' = db' /\ cmd' = cmd
      /\ protected' = protected /\ task' = task
  BY DEF Pin
<1>2. PICK v \in BOOLEAN, x \in db.known \cup {p \in Paths : db.rows[p].status # "none"} :
         /\ db' = IF x \in Runs THEN PinRun(db, x, v) ELSE PinRow(db, x, v)
         /\ kept' = IF v THEN kept \cup {x} ELSE kept \ {x}
  BY DEF Pin
<1>3. db \in Table /\ x \in Runs \cup Paths /\ kept \subseteq Runs \cup Paths
  BY DEF RowTypes, Table, HistoryTypes
<1>4. ~Working("cleanup") /\ protected = {} /\ ~Working("cleanup")'
  BY <1>1 DEF Working, Idle, PinsOK, ProtectedOK
<1>5. SamePins(db, draft)'
  BY <1>1 DEF SamePins
<1>6. ProtectedOK'
  BY <1>1, <1>4 DEF ProtectedOK
<1>7. KeptOK
  BY DEF PinsOK
<1>8. KeptOK'
  <2>1. CASE x \in Runs
    <3>1. db'.rows = db.rows /\ db'.pins = IF v THEN db.pins \cup {x} ELSE db.pins \ {x}
      BY <1>2, <1>3, <2>1 DEF PinRun, Table
    <3> QED BY <1>2, <1>3, <1>7, <2>1, <3>1 DEF KeptOK
  <2>2. CASE x \in Paths
    <3>1. db' = PinRow(db, x, v) /\ x \notin Runs
      BY <1>2, <2>2, Different
    <3>2. /\ db'.pins = db.pins
          /\ \A p \in Paths : db'.rows[p].pinned = IF p = x THEN v ELSE db.rows[p].pinned
      BY <1>3, <2>2, <3>1 DEF PinRow, Table, Row
    <3> QED BY <1>2, <1>3, <1>7, <3>1, <3>2 DEF KeptOK
  <2> QED BY <1>3, <2>1, <2>2
<1> QED BY <1>5, <1>6, <1>8 DEF PinsOK

LEMMA PinsStep ==
  ASSUME TypeOK, DiskOK, CmdOK, PinsOK, [Next]_vars
  PROVE  PinsOK'
<1> USE DEF TypeOK
<1>1. CASE Pin
  BY <1>1, PinsPin
<1>2. CASE ~Pin
  <2>1. PinsStay /\ task' = task /\ kept' = kept
    <3>1. PinsStay
      BY <1>2, PinsSteps DEF PinsOK
    <3>2. task' = task
      BY DEF Next, vars, Arrive, Rewrite, Find, Reuse, IndexRun, Scan, NextRun, IndexDone, Dies,
             IndexFile, Cleanup, DeleteFile, DeleteRow, AboveQuota, Dedupe, DedupeGroup, DedupeLink,
             DedupeRow, DedupeDone, Quarantine, QuarantineFile, QuarantineRow, QuarantineDone,
             PutObject, Pin, Tick
    <3>3. kept' = kept
      BY <1>2 DEF Next, vars, history, Arrive, Rewrite, Find, Reuse, IndexRun, Scan, NextRun,
             IndexDone, Dies, IndexFile, Cleanup, DeleteFile, DeleteRow, AboveQuota, Dedupe,
             DedupeGroup, DedupeLink, DedupeRow, DedupeDone, Quarantine, QuarantineFile,
             QuarantineRow, QuarantineDone, PutObject, Pin, Tick
    <3> QED BY <3>1, <3>2, <3>3
  <2>2. SamePins(db, draft)'
    BY <2>1 DEF PinsStay, SamePins
  <2>3. KeptOK'
    BY <2>1 DEF PinsStay, KeptOK, PinsOK, HistoryTypes
  <2>4. \A p \in Paths : Pinned(db, p)' <=> Pinned(db, p)
    BY <2>1 DEF PinsStay, Pinned, RunPinned, Run
  <2>5. ASSUME protected' = protected, NEW p \in protected, Working("cleanup")
        PROVE  Exists(p)' /\ Pinned(db, p)'
    <3>1. p \in Paths /\ Exists(p) /\ Pinned(db, p) /\ p \notin Todo
      BY <2>5 DEF PinsOK, ProtectedOK, HistoryTypes
    <3>2. ~Working("quarantine")
      BY <2>5 DEF Working
    <3> QED BY <2>4, <3>1, <3>2, FilesStay
  <2>6. CASE OperatorStep
    <3>1. CASE Working("cleanup")'
      <4>1. \A p \in Todo' : p \in Paths /\ ~Pinned(db, p)
        BY <2>6, <3>1, CleanupTodo
      <4>2. ASSUME NEW p \in Todo'
            PROVE  ~Pinned(db, p)'
        BY <2>4, <4>1, <4>2
      <4>3. \A p \in Todo' : ~Pinned(db, p)'
        BY <4>2
      <4>4. \A p \in protected' : Exists(p)' /\ Pinned(db, p)'
        <5>1. CASE Cleanup
          <6>1. ASSUME NEW p \in protected'
                PROVE  Exists(p)' /\ Pinned(db, p)'
            <7>1. p \in Paths /\ {p, Run(p)} \cap kept # {} /\ Exists(p) /\ UNCHANGED disk
              BY <5>1, <6>1 DEF Cleanup
            <7>2. Pinned(db, p)
              <8>1. p \in kept \/ Run(p) \in kept
                BY <7>1
              <8>2. p \in kept => db.rows[p].pinned
                BY <7>1, Different DEF PinsOK, KeptOK
              <8>3. Run(p) \in kept => Run(p) \in db.pins
                BY <7>1, ScenarioType, Different DEF PinsOK, KeptOK, HistoryTypes
              <8> QED BY <8>1, <8>2, <8>3 DEF Pinned, RunPinned
            <7> QED BY <2>4, <7>1, <7>2 DEF Exists, disk
          <6> QED BY <6>1
        <5>2. CASE ~Cleanup
          <6>1. Working("cleanup") /\ protected' = protected
            BY <2>6, <3>1, <5>2, CleanupTodo
          <6> QED BY <2>5, <6>1
        <5> QED BY <5>1, <5>2
      <4>5. ProtectedOK'
        BY <3>1, <4>3, <4>4 DEF ProtectedOK, Todo
      <4> QED BY <2>2, <2>3, <4>5 DEF PinsOK
    <3>2. CASE ~Working("cleanup")'
      <4>1. protected' = {}
        <5>1. CASE Cleanup
          <6>1. cmd'[Operator] = [op |-> "cleanup", todo |-> expired_candidate_rows(db),
                   mark |-> NoMark, phase |-> "ttl", kind |-> None, over |-> NoOverage,
                   got |-> 0, seen |-> {}, counted |-> db, gone |-> 0]
            BY <5>1, Different DEF Cleanup, Begin, CmdTypes
          <6> QED BY <3>2, <6>1 DEF Working
        <5>2. CASE DeleteFile \/ DeleteRow
          <6>1. cmd[Operator] \in CleanupCmd
            BY <5>2, CmdOf DEF DeleteFile, DeleteRow
          <6>2. cmd'[Operator].op = cmd[Operator].op
            <7>1. CASE DeleteFile
              <8>1. PICK mark : cmd' = [cmd EXCEPT ![Operator].mark = mark]
                BY <7>1 DEF DeleteFile
              <8> QED BY <6>1, <8>1, Different DEF CmdTypes, CleanupCmd
            <7>2. CASE DeleteRow
              BY <6>1, <7>2, Different DEF DeleteRow, CmdTypes, CleanupCmd
            <7> QED BY <5>2, <7>1, <7>2
          <6> QED BY <3>2, <6>1, <6>2 DEF Working, CleanupCmd
        <5>3. CASE AboveQuota
          <6>1. cmd[Operator] \in CleanupCmd
            BY <5>3, CmdOf DEF AboveQuota
          <6> DEFINE over == IF cmd[Operator].phase = "ttl" THEN quota_overages(View(Operator))
                             ELSE [cmd[Operator].over EXCEPT ![cmd[Operator].kind] = 0]
          <6>2. SUFFICES ASSUME NEW k \in Kinds,
                   cmd' = [cmd EXCEPT ![Operator].phase = "quota", ![Operator].kind = k,
                            ![Operator].over = over, ![Operator].got = 0, ![Operator].gone = 0,
                            ![Operator].counted = IF cmd[Operator].phase = "ttl" THEN db ELSE @,
                            ![Operator].todo = quota_lru_candidate_rows(View(Operator), k)
                                                  \ cmd[Operator].seen]
                PROVE FALSE
            BY <5>3 DEF AboveQuota
          <6> HIDE DEF over
          <6>3. cmd'[Operator].op = cmd[Operator].op
            BY <6>1, <6>2, Different DEF CmdTypes, CleanupCmd
          <6> QED BY <3>2, <6>1, <6>3 DEF Working, CleanupCmd
        <5>4. CASE \/ Dedupe \/ DedupeGroup \/ DedupeLink \/ DedupeRow
                   \/ Quarantine \/ QuarantineFile \/ QuarantineRow
          <6>1. ~Working("cleanup") /\ protected' = protected
            BY <5>4 DEF Dedupe, DedupeGroup, DedupeLink, DedupeRow, Quarantine, QuarantineFile,
                        QuarantineRow, Begin, Working, history
          <6> QED BY <6>1 DEF PinsOK, ProtectedOK
        <5> QED BY <2>6, <5>1, <5>2, <5>3, <5>4 DEF OperatorStep
      <4>2. ProtectedOK'
        BY <3>2, <4>1 DEF ProtectedOK
      <4> QED BY <2>2, <2>3, <4>2 DEF PinsOK
    <3> QED BY <3>1, <3>2
  <2>7. CASE cmd'[Operator] = cmd[Operator] /\ protected' = protected
    <3>1. Working("cleanup")' <=> Working("cleanup")
      BY <2>7 DEF Working
    <3>2. Todo' = Todo
      BY <2>7 DEF Todo
    <3>3. protected' # {} => Working("cleanup")'
      BY <2>7, <3>1 DEF PinsOK, ProtectedOK
    <3>4. ASSUME NEW p \in protected'
          PROVE  Exists(p)' /\ Pinned(db, p)'
      BY <2>5, <2>7, <3>1, <3>3, <3>4
    <3>5. ASSUME Working("cleanup")', NEW p \in Todo'
          PROVE  ~Pinned(db, p)'
      <4>1. p \in Todo /\ Working("cleanup")
        BY <3>1, <3>2, <3>5
      <4>2. p \in Paths
        BY <4>1, CmdOf DEF CleanupCmd, Todo
      <4> QED BY <2>4, <4>1, <4>2 DEF PinsOK, ProtectedOK
    <3>6. ProtectedOK'
      BY <3>3, <3>4, <3>5 DEF ProtectedOK
    <3> QED BY <2>2, <2>3, <3>6 DEF PinsOK
  <2>8. CASE /\ cmd'[Operator].op \in {"idle", "index"}
             /\ protected' = {} \/ (~Working("cleanup") /\ protected' = protected)
    <3>1. ~Working("cleanup")' /\ protected' = {}
      BY <2>8 DEF Working, PinsOK, ProtectedOK
    <3>2. ProtectedOK'
      BY <3>1 DEF ProtectedOK
    <3> QED BY <2>2, <2>3, <3>2 DEF PinsOK
  <2> QED BY <2>6, <2>7, <2>8, OperatorSteps
<1> QED BY <1>1, <1>2

-----------------------------------------------------------------------------
(* What runs take from the store. *)

(* A path gets what may arrive at it or what its key stands for; an answer *)
(* goes, or names a file that has what the key stands for; a file that was *)
(* taken has it.                                                           *)
Gives ==
  \A p \in Paths : Kind(p) = "raw_media" /\ given'[p] # given[p] =>
     /\ given'[p] \notin Texts
     /\ Run(p) \notin Fixtures /\ task.key[p] # None =>
           given'[p] \in {task.genuine[task.key[p]]} \cup task.bad
Answers(x, q) ==
  /\ x # None => Named(x, q)
  /\ \A p \in Paths : answer'[p] \in {answer[p], None} \/ (p = q /\ answer'[p] = x)
Takes(T) ==
  /\ T \subseteq Paths /\ reused' = reused \cup T
  /\ \A p \in T : /\ Kind(p) = "raw_media" /\ given'[p] # None
                 /\ given'[p] = task.genuine[task.key[p]]

LEMMA ReuseNext ==
  ASSUME TypeOK, ReuseOK, Grows, Gives, NEW x, NEW q, Answers(x, q), NEW T, Takes(T)
  PROVE  ReuseOK'
<1> USE DEF Gives, Answers, Takes
<1>1. task' = task /\ Texts' = Texts
  BY GrowsNear DEF Grows
<1>2. reused \subseteq Paths /\ given \in [Paths -> Contents \cup {None}]
  BY DEF TypeOK, HistoryTypes
(* What an attachment was given stays.                                     *)
<1>3. \A p \in Paths : Kind(p) = "raw_media" /\ given[p] # None => given'[p] = given[p]
  BY DEF Grows, ReuseOK
<1>4. ASSUME NEW y, NEW p \in Paths, Named(y, p), y # None
      PROVE  /\ Kind(p) = "raw_media" /\ Run(p) \notin Fixtures /\ task.key[p] # None
             /\ y \in Paths => Kind(y) = "raw_media" /\ given'[y] = task.genuine[task.key[p]]
             /\ y \in Contents => y = task.genuine[task.key[p]] /\ y \notin Texts
  <2>1. task.genuine[task.key[p]] # None
    BY <1>4, ScenarioType, Different DEF Named
  <2> QED BY <1>3, <1>4, <2>1 DEF Named
<1>5. \A p \in Paths : answer'[p] # None => Named(answer[p], p)'
  <2>1. ASSUME NEW p \in Paths, answer'[p] # None
        PROVE  Named(answer[p], p)'
    <3>1. PICK y : y = answer'[p] /\ y # None /\ Named(y, p)
      BY <2>1 DEF ReuseOK
    <3> QED BY <1>1, <1>4, <3>1 DEF Named, Kind, Run
  <2> QED BY <2>1
<1>6. \A p \in reused' : Kind(p)' = "raw_media" /\ given'[p] # None
  BY <1>1, <1>2 DEF ReuseOK, Kind, Grows
<1>7. \A p \in Paths : Kind(p)' = "raw_media" => given'[p] \notin Texts'
  BY <1>1 DEF ReuseOK, Kind
<1>8. \A p \in Paths : Kind(p)' = "raw_media" /\ Run(p)' \notin Fixtures /\ task'.key[p] # None =>
          given'[p] \in {task'.genuine[task'.key[p]], None} \cup task'.bad
  BY <1>1 DEF ReuseOK, Kind, Run
<1>9. ReusedIsGenuine'
  <2>1. ASSUME NEW p \in reused
        PROVE  given'[p] = task.genuine[task.key[p]]
    <3>1. p \in Paths /\ Kind(p) = "raw_media" /\ given[p] = task.genuine[task.key[p]]
      BY <1>2, <2>1 DEF ReuseOK, ReusedIsGenuine
    <3>2. given[p] # None
      BY <2>1 DEF ReuseOK
    <3> QED BY <1>3, <3>1, <3>2
  <2> QED BY <1>1, <2>1 DEF ReusedIsGenuine
<1> QED BY <1>5, <1>6, <1>7, <1>8, <1>9 DEF ReuseOK

(* Whatever find-source names for a file key has what the key stands for:  *)
(* the row was written for a path under that key, no fixture's, and what   *)
(* that path was given, like any object with its digest, has a header.     *)
LEMMA FindNames ==
  ASSUME TypeOK, DiskOK, RowsOK, ReuseOK, NEW q \in Paths, Find(q)
  PROVE  \E x : Named(x, q) /\ answer' = [answer EXCEPT ![q] = x]
<1> USE DEF TypeOK
<1>1. PICK p \in Candidates(task.key[q]) : answer' = [answer EXCEPT ![q] = available(p)]
  BY DEF Find
<1> DEFINE g == task.genuine[task.key[q]]
           obj == db.rows[p].obj
<1>2. /\ Kind(q) = "raw_media" /\ Run(q) \notin Fixtures
      /\ p \in Paths /\ <<task.key[q], p>> \in db.refs /\ Live(db, p) /\ Kind(p) = "raw_media"
      /\ Run(p) \notin Fixtures /\ audio_artifact_ready(p) /\ available(p) # None
  BY <1>1 DEF Candidates, Find
<1>3. task.key[q] \in Keys /\ task.key[q] # None /\ task.key[q] = task.key[p]
  <2>1. task.key[q] \in Keys
    BY <1>2 DEF RowTypes, Table
  <2> QED BY <1>2, <2>1, Different DEF RowsOK, TableOK, RefsOK
<1>4. given[p] # None /\ given[p] \notin Texts /\ given[p] \in {g} \cup task.bad
  <2>1. given[p] # None
    BY <1>2, LiveGiven
  <2> QED BY <1>2, <1>3, <2>1 DEF ReuseOK
<1>5. obj # None => obj = given[p]
  <2>1. obj # None => Near(obj, p)
    BY <1>2 DEF RowsOK, TableOK, Tells
  <2> QED BY <1>4, <2>1 DEF Near, Similar
<1>6. given[p] = g
  <2>1. CASE Exists(p) /\ HasHeader(file[p])
    <3>1. Content(p) = given[p]
      BY <1>2, <1>4, <2>1 DEF DiskOK, FileOK, Near, Similar
    <3> QED BY <1>4, <2>1, <3>1 DEF HasHeader, Content
  <2>2. CASE obj \in object /\ HasHeader(obj)
    <3>1. obj # None /\ obj \in Contents
      BY <2>2, Different DEF DiskTypes
    <3>2. bytes[obj].c = obj
      BY <1>4, <1>5, <2>2, <3>1 DEF DiskOK, ObjectOK, Similar
    <3> QED BY <1>4, <1>5, <2>2, <3>1, <3>2 DEF HasHeader
  <2> QED BY <1>2, <2>1, <2>2 DEF audio_artifact_ready
<1>7. Named(available(p), q)
  <2>1. CASE Exists(p)
    <3>1. available(p) = p
      BY <2>1 DEF available
    <3> QED BY <1>2, <1>3, <1>6, <3>1, Different DEF Named
  <2>2. CASE ~Exists(p)
    <3>1. available(p) = obj /\ obj \in object /\ obj \in Contents
      BY <1>2, <2>2 DEF available, DiskTypes
    <3> QED BY <1>2, <1>3, <1>4, <1>5, <1>6, <3>1, Different DEF Named
  <2> QED BY <2>1, <2>2
<1> QED BY <1>1, <1>7

LEMMA ReuseStep ==
  ASSUME TypeOK, DiskOK, RowsOK, ReuseOK, Grows, [Next]_vars
  PROVE  ReuseOK'
<1> USE DEF TypeOK
<1>1. answer \in [Paths -> Paths \cup Contents \cup {None}] /\ given \in [Paths -> Contents \cup {None}]
  BY DEF HistoryTypes
<1>2. ASSUME NEW p \in Paths, Arrive(p) \/ Rewrite(p)
      PROVE  ReuseOK'
  <2>1. PICK c \in task.arrives[p] : given' = [given EXCEPT ![p] = c]
    BY <1>2 DEF Arrive, Write, Rewrite
  <2>2. \A q \in Paths : answer'[q] \in {answer[q], None}
    BY <1>1, <1>2 DEF Arrive, Rewrite
  <2>3. \A q \in Paths : given'[q] = IF q = p THEN c ELSE given[q]
    BY <1>1, <2>1
  <2>4. reused' = reused
    BY <1>2 DEF Arrive, Rewrite
  <2>5. Gives
    BY <2>3, Arrivals DEF Gives
  <2>6. Answers(None, p) /\ Takes({})
    BY <2>2, <2>4 DEF Answers, Takes
  <2> QED BY <2>5, <2>6, ReuseNext
<1>3. ASSUME NEW q \in Paths, Find(q)
      PROVE  ReuseOK'
  <2>1. PICK x : Named(x, q) /\ answer' = [answer EXCEPT ![q] = x]
    BY <1>3, FindNames
  <2>2. Gives /\ Takes({})
    BY <1>3 DEF Find, history, Gives, Takes
  <2>3. Answers(x, q)
    BY <1>1, <2>1 DEF Answers
  <2> QED BY <2>1, <2>2, <2>3, ReuseNext
<1>4. ASSUME NEW q \in Paths, Reuse(q)
      PROVE  ReuseOK'
  <2> DEFINE g == task.genuine[task.key[q]]
  <2>1. /\ Kind(q) = "raw_media" /\ given' = [given EXCEPT ![q] = g]
        /\ g \notin Texts /\ g \in Contents
    BY <1>4, FilesReuse, ScenarioType
  <2>2. reused' = reused \cup {q} /\ answer' = [answer EXCEPT ![q] = None]
    BY <1>4 DEF Reuse
  <2>3. \A p \in Paths : given'[p] = IF p = q THEN g ELSE given[p]
    BY <1>1, <2>1
  <2>4. Gives
    BY <2>1, <2>3 DEF Gives
  <2>5. Answers(None, q) /\ Takes({q})
    BY <1>1, <2>1, <2>2, <2>3, Different DEF Answers, Takes
  <2> QED BY <2>4, <2>5, ReuseNext
<1>5. CASE UNCHANGED <<answer, given, reused>>
  <2>1. Gives /\ Answers(None, None) /\ Takes({})
    BY <1>5 DEF Gives, Answers, Takes
  <2> QED BY <2>1, ReuseNext
<1>6. CASE \/ UNCHANGED vars
           \/ IndexRun \/ Scan
           \/ \E i \in Procs : NextRun(i) \/ IndexDone(i) \/ Dies(i)
           \/ \E i \in Procs, p \in Paths : IndexFile(i, p)
           \/ Cleanup \/ DeleteFile \/ DeleteRow \/ AboveQuota
           \/ Dedupe \/ DedupeGroup \/ DedupeLink \/ DedupeRow \/ DedupeDone
           \/ Quarantine \/ QuarantineFile \/ QuarantineRow \/ QuarantineDone
           \/ PutObject \/ Pin \/ Tick
  <2>1. UNCHANGED <<answer, given, reused>>
    BY <1>6 DEF vars, history, IndexRun, Scan, NextRun, IndexDone, Dies, IndexFile, Cleanup,
       DeleteFile, DeleteRow, AboveQuota, Dedupe, DedupeGroup, DedupeLink, DedupeRow, DedupeDone,
       Quarantine, QuarantineFile, QuarantineRow, QuarantineDone, PutObject, Pin, Tick
  <2> QED BY <1>5, <2>1
<1>7. CASE Next
  BY <1>2, <1>3, <1>4, <1>6, <1>7 DEF Next
<1> QED BY <1>6, <1>7

-----------------------------------------------------------------------------
(* Quotas. *)

(* A row that is marked deleted takes at most one from what the rows of    *)
(* its kind count, and nothing from the other kinds.                       *)
LEMMA OneDeleted ==
  ASSUME TypeOK, NEW t \in Table, NEW p \in Paths, NEW k \in Kinds
  PROVE  LET u == SetStatus(t, p, "deleted")
         IN  /\ effective_kind_bytes(t, k) <= effective_kind_bytes(u, k) + 1
             /\ Kind(p) # k => effective_kind_bytes(u, k) = effective_kind_bytes(t, k)
<1> DEFINE u == SetStatus(t, p, "deleted")
           S(x) == {StorageKey(x, q) : q \in {r \in Paths : Live(x, r) /\ Kind(r) = k}}
<1>1. \A q \in Paths : u.rows[q].obj = t.rows[q].obj
  <2>1. t.rows \in [Paths -> Row] /\ t.rows[p] \in Row
    BY TableRow DEF Table
  <2> QED BY <2>1 DEF SetStatus, Row, Table
<1>2. \A q \in Paths : u.rows[q].status = IF q = p THEN "deleted" ELSE t.rows[q].status
  <2>1. t.rows \in [Paths -> Row] /\ t.rows[p] \in Row
    BY TableRow DEF Table
  <2> QED BY <2>1 DEF SetStatus, Row, Table
<1> HIDE DEF u
<1>3. \A q \in Paths : StorageKey(u, q) = StorageKey(t, q)
  BY <1>1 DEF StorageKey
<1>4. \A q \in Paths : Live(u, q) <=> q # p /\ Live(t, q)
  BY <1>2 DEF Live
<1>5. S(t) \subseteq S(u) \cup {StorageKey(t, p)}
  BY <1>3, <1>4
<1>6. Kind(p) # k => S(u) = S(t)
  BY <1>3, <1>4
<1>7. IsFiniteSet(S(t)) /\ IsFiniteSet(S(u))
  BY CountType
<1>8. /\ effective_kind_bytes(t, k) = Cardinality(S(t))
      /\ effective_kind_bytes(u, k) = Cardinality(S(u))
      /\ effective_kind_bytes(t, k) \in Nat /\ effective_kind_bytes(u, k) \in Nat
  BY CountType DEF effective_kind_bytes
<1> HIDE DEF S
<1>9. /\ IsFiniteSet(S(u) \cup {StorageKey(t, p)})
      /\ Cardinality(S(u) \cup {StorageKey(t, p)}) <= Cardinality(S(u)) + 1
  <2>1. Cardinality(S(u)) \in Nat
    BY <1>8
  <2> DEFINE A == S(u)
             x == StorageKey(t, p)
  <2>2. IsFiniteSet(A) /\ Cardinality(A) \in Nat
    BY <1>7, <2>1
  <2> HIDE DEF A, x
  <2>3. /\ IsFiniteSet(A \cup {x})
        /\ Cardinality(A \cup {x}) = IF x \in A THEN Cardinality(A) ELSE Cardinality(A) + 1
    BY <2>2, FS_AddElement
  <2>4. Cardinality(A \cup {x}) <= Cardinality(A) + 1
    BY <2>2, <2>3
  <2> QED BY <2>3, <2>4 DEF A, x
<1>10. Cardinality(S(t)) <= Cardinality(S(u) \cup {StorageKey(t, p)})
  BY <1>5, <1>9, FS_Subset
<1>11. Cardinality(S(u) \cup {StorageKey(t, p)}) \in Nat
  BY <1>9, FS_CardinalityType
<1>12. /\ effective_kind_bytes(t, k) <= effective_kind_bytes(u, k) + 1
       /\ Kind(p) # k => effective_kind_bytes(u, k) = effective_kind_bytes(t, k)
  BY <1>6, <1>8, <1>9, <1>10, <1>11
<1> QED BY <1>12 DEF u

(* The quota of a cleanup under way, for its record, the writer and the    *)
(* rows.                                                                   *)
Measured(c, w, d, t) ==
  /\ c.kind \in Kinds /\ c.over[c.kind] > 0 /\ c.got <= c.over[c.kind]
  /\ c.todo # {} => c.got < c.over[c.kind]
  /\ \A p \in c.todo : Kind(p) = c.kind
  /\ w # Operator => c.got = 0 /\ c.gone = 0 /\ Counted(c, c.counted)
  /\ w = Operator /\ d = c.counted => Counted(c, t)

LEMMA MeasuredNext ==
  ASSUME task' = task, NEW c, cmd'[Operator] = c,
         NEW w, NEW d, NEW t, writer' = w, db' = d, draft' = t,
         c.op = "cleanup" /\ c.phase = "quota" => Measured(c, w, d, t)
  PROVE  QuotaOK'
<1>1. Working("cleanup")' /\ c.phase = "quota" => Measured(c, w, d, t)
  BY DEF Working
<1> QED BY <1>1 DEF QuotaOK, Measured, Counted, Bytes_, effective_kind_bytes, Live, Kind,
                    StorageKey, Working

(* While a cleanup is under way, the others change rows only if it has not *)
(* changed any.                                                            *)
LEMMA OthersWrite ==
  ASSUME TypeOK, [Next]_vars, ~OperatorStep, Working("cleanup"), cmd'[Operator] = cmd[Operator]
  PROVE  /\ writer = Operator => UNCHANGED rows
         /\ writer # Operator => writer' # Operator
<1> USE DEF TypeOK
<1>1. CASE UNCHANGED rows
  BY <1>1 DEF rows
<1>2. CASE \/ UNCHANGED vars \/ \E p \in Paths : Arrive(p) \/ Rewrite(p) \/ Find(p) \/ Reuse(p)
           \/ IndexRun \/ Scan \/ PutObject \/ Tick
  <2>1. UNCHANGED rows
    BY <1>2 DEF vars, Arrive, Rewrite, Find, Reuse, IndexRun, Scan, PutObject, Tick
  <2> QED BY <1>1, <2>1
<1>3. CASE Pin \/ DedupeDone \/ QuarantineDone
  BY <1>3 DEF Pin, DedupeDone, QuarantineDone, Working, Idle
<1>4. ASSUME NEW i \in Procs,
             NextRun(i) \/ IndexDone(i) \/ Dies(i) \/ \E p \in Paths : IndexFile(i, p)
      PROVE  /\ writer = Operator => UNCHANGED rows
             /\ writer # Operator => writer' # Operator
  <2>1. i = Handler
    <3>1. CASE i = Operator
      <4>1. CASE Dies(i)
        BY <3>1, <4>1, Different DEF Dies, CmdTypes, Working, Idle
      <4> QED BY <1>4, <3>1, <4>1 DEF NextRun, IndexDone, IndexFile, Working
    <3> QED BY <3>1 DEF Procs
  <2> QED BY <1>4, <2>1, Different
          DEF NextRun, IndexDone, Dies, IndexFile, register_artifact, Put, Commit, May, rows
<1>5. CASE Next
  BY <1>2, <1>3, <1>4, <1>5 DEF Next, OperatorStep
<1> QED BY <1>2, <1>5

(* What the rows of a view count, for a record whose rows they are.        *)
LEMMA CountedView ==
  ASSUME QuotaOK, Working("cleanup"), cmd[Operator].phase = "quota", writer \in {None, Operator},
         db = cmd[Operator].counted
  PROVE  Counted(cmd[Operator], View(Operator))
BY Different DEF QuotaOK, View

LEMMA QuotaDelete ==
  ASSUME TypeOK, CmdOK, QuotaOK, DeleteRow
  PROVE  QuotaOK'
<1> USE DEF TypeOK
<1> DEFINE c == cmd[Operator]
           p == Mark.path
           s == Mark.status
           t == View(Operator)
           u == AfterDelete(t, p, s)
           more == c.got + IF s = "deleted" THEN Size(p) ELSE 0
           done == c.phase = "quota" /\ Enough(more, c.over[c.kind])
           new == [c EXCEPT !.mark = NoMark, !.seen = @ \cup {p},
                            !.todo = IF done THEN {} ELSE @ \ {p},
                            !.got = IF c.phase = "quota" THEN more ELSE 0,
                            !.gone = IF c.phase = "quota" /\ s = "missing" THEN @ + 1 ELSE @]
<1>1. Working("cleanup") /\ Mark # NoMark /\ c \in CleanupCmd /\ task' = task
  BY CmdOf DEF DeleteRow
<1>2. p \in Paths /\ s \in {"missing", "deleted", "failed"}
  BY <1>1 DEF Mark, CleanupCmd, Marks
<1>3. /\ writer' = Operator /\ db' = db /\ draft' = u /\ writer \in {None, Operator}
  BY DEF DeleteRow, Put, May
<1>4. cmd'[Operator] = new
  BY <1>1, Different DEF DeleteRow, CmdTypes, CleanupCmd
<1>5. /\ new.op = "cleanup" /\ new.phase = c.phase /\ new.kind = c.kind /\ new.over = c.over
      /\ new.counted = c.counted /\ new.todo = (IF done THEN {} ELSE c.todo \ {p})
      /\ new.got = (IF c.phase = "quota" THEN more ELSE 0)
      /\ new.gone = (IF c.phase = "quota" /\ s = "missing" THEN c.gone + 1 ELSE c.gone)
  BY <1>1 DEF CleanupCmd
<1> HIDE DEF new
<1>6. t \in Table
  BY ViewType, Different
<1>7. ASSUME c.phase = "quota"
      PROVE  Measured(new, Operator, db, u)
  <2>1. /\ c.kind \in Kinds /\ c.over[c.kind] > 0 /\ c.over \in [Kinds -> Nat]
        /\ c.got \in Nat /\ c.gone \in Nat /\ p \in c.todo /\ Kind(p) = c.kind
        /\ c.got < c.over[c.kind] /\ \A q \in c.todo : Kind(q) = c.kind
    <3>1. p \in c.todo
      BY <1>1 DEF CmdOK, Clears, Marked, Mark, Todo
    <3> QED BY <1>1, <1>7, <3>1 DEF QuotaOK, CleanupCmd
  <2>2. new.got = more /\ more \in Nat /\ more <= c.over[c.kind] /\ (new.todo # {} => more < c.over[c.kind])
    BY <1>5, <1>7, <2>1 DEF Size, Enough
  <2>3. ASSUME db = c.counted
        PROVE  Counted(new, u)
    <3>1. Counted(c, t)
      BY <1>1, <1>3, <1>7, <2>3, CountedView
    <3>2. \A k \in Kinds : effective_kind_bytes(t, k) \in Nat /\ effective_kind_bytes(u, k) \in Nat
      BY CountType
    <3>3. \A k \in Kinds :
             LET d == SetStatus(t, p, "deleted")
             IN  /\ effective_kind_bytes(t, k) <= effective_kind_bytes(d, k) + 1
                 /\ Kind(p) # k => effective_kind_bytes(d, k) = effective_kind_bytes(t, k)
      BY <1>2, <1>6, OneDeleted
    <3>4. /\ s = "failed" => u = t
          /\ s # "failed" => u = SetStatus(t, p, "deleted")
      BY DEF AfterDelete
    <3>5. \A k \in Kinds : k # c.kind => effective_kind_bytes(u, k) = effective_kind_bytes(t, k)
      BY <2>1, <3>3, <3>4
    <3>6. effective_kind_bytes(u, c.kind) + new.gone + new.got
             >= effective_kind_bytes(t, c.kind) + c.gone + c.got
      <4>1. CASE s = "failed"
        <5>1. new.gone = c.gone /\ new.got = c.got
          BY <1>5, <1>7, <2>1, <4>1
        <5> QED BY <2>1, <3>2, <3>4, <4>1, <5>1
      <4>2. CASE s # "failed"
        <5>1. effective_kind_bytes(t, c.kind) <= effective_kind_bytes(u, c.kind) + 1
          BY <2>1, <3>3, <3>4, <4>2
        <5>2. new.gone + new.got = c.gone + c.got + 1 /\ new.gone \in Nat /\ new.got \in Nat
          BY <1>2, <1>5, <1>7, <2>1, <4>2 DEF Size
        <5> QED BY <2>1, <3>2, <5>1, <5>2
      <4> QED BY <4>1, <4>2
    <3>7. task.max_bytes \in [Kinds -> Nat]
      BY ScenarioType
    <3>8. new.gone \in Nat /\ new.got \in Nat
      BY <1>5, <1>7, <2>1, <2>2
    <3> QED BY <1>5, <2>1, <3>1, <3>2, <3>5, <3>6, <3>7, <3>8 DEF Counted, Bytes_
  <2> QED BY <1>5, <2>1, <2>2, <2>3 DEF Measured
<1>8. new.op = "cleanup" /\ new.phase = "quota" => Measured(new, Operator, db, u)
  BY <1>5, <1>7
<1> HIDE DEF u
<1> QED BY <1>1, <1>3, <1>4, <1>8, MeasuredNext

(* The kinds above their quota are measured when the expired rows are      *)
(* gone; the next kind was measured then.                                  *)
LEMMA QuotaAbove ==
  ASSUME TypeOK, QuotaOK, AboveQuota
  PROVE  QuotaOK'
<1> USE DEF TypeOK
<1> DEFINE c == cmd[Operator]
           t == View(Operator)
           over == IF c.phase = "ttl" THEN quota_overages(t) ELSE [c.over EXCEPT ![c.kind] = 0]
           counted == IF c.phase = "ttl" THEN db ELSE c.counted
<1>1. Working("cleanup") /\ c \in CleanupCmd /\ task' = task
  BY CmdOf DEF AboveQuota
<1>2. CASE cmd' = [cmd EXCEPT ![Operator] = Idle]
  <2>1. cmd'[Operator] = Idle
    BY <1>2, Different DEF CmdTypes
  <2> QED BY <2>1 DEF QuotaOK, Working, Idle
<1>3. ASSUME NEW k \in Kinds, over[k] > 0, UNCHANGED rows,
             cmd' = [cmd EXCEPT ![Operator].phase = "quota", ![Operator].kind = k,
                        ![Operator].over = over, ![Operator].got = 0, ![Operator].gone = 0,
                        ![Operator].counted = counted,
                        ![Operator].todo = quota_lru_candidate_rows(t, k) \ c.seen]
      PROVE  QuotaOK'
  <2> DEFINE todo == quota_lru_candidate_rows(t, k) \ c.seen
             new == cmd'[Operator]
  <2>1. \A p \in todo : Kind(p) = k
    BY DEF quota_lru_candidate_rows
  <2>2. over \in [Kinds -> Nat]
    <3>1. task.max_bytes \in [Kinds -> Nat]
      BY ScenarioType
    <3>2. \A x \in Kinds : effective_kind_bytes(t, x) \in Nat
      BY CountType
    <3>3. quota_overages(t) \in [Kinds -> Nat]
      BY <3>1, <3>2 DEF quota_overages
    <3> QED BY <1>1, <3>3 DEF CleanupCmd
  <2> HIDE DEF todo, over, counted
  <2>3. /\ new.op = "cleanup" /\ new.phase = "quota" /\ new.kind = k /\ new.over = over
        /\ new.got = 0 /\ new.gone = 0 /\ new.counted = counted /\ new.todo = todo
    <3>1. cmd' = [cmd EXCEPT ![Operator].phase = "quota", ![Operator].kind = k,
                        ![Operator].over = over, ![Operator].got = 0, ![Operator].gone = 0,
                        ![Operator].counted = counted, ![Operator].todo = todo]
      BY <1>3 DEF todo
    <3> QED BY <1>1, <3>1, Different DEF CmdTypes, CleanupCmd
  <2>4. ASSUME NEW x, effective_kind_bytes(x, k) \in Nat,
               \A y \in Kinds : over[y] > 0 => effective_kind_bytes(x, y) >= task.max_bytes[y] + over[y]
        PROVE  Counted(new, x)
    <3>1. effective_kind_bytes(x, k) + 0 + 0 >= task.max_bytes[k] + over[k]
      BY <1>3, <2>4
    <3> QED BY <2>3, <2>4, <3>1 DEF Counted, Bytes_
  <2>5. /\ writer # Operator => Counted(new, counted)
        /\ writer = Operator /\ db = counted => Counted(new, draft)
    <3>1. CASE c.phase = "ttl"
      <4>1. ASSUME NEW x, x = t
            PROVE  Counted(new, x)
        <5>1. task.max_bytes \in [Kinds -> Nat]
          BY ScenarioType
        <5>2. \A y \in Kinds : effective_kind_bytes(t, y) \in Nat
          BY CountType
        <5>3. \A y \in Kinds : over[y] > 0 =>
                 effective_kind_bytes(t, y) >= task.max_bytes[y] + over[y]
          BY <3>1, <5>1, <5>2 DEF over, quota_overages
        <5>4. Counted(new, t)
          BY <1>3, <5>2, <5>3, <2>4
        <5> QED BY <4>1, <5>4
      <4> QED BY <3>1, <4>1 DEF View, counted
    <3>2. CASE c.phase = "quota"
      <4>1. /\ c.kind \in Kinds /\ c.over \in [Kinds -> Nat]
            /\ over = [c.over EXCEPT ![c.kind] = 0] /\ counted = c.counted
        BY <1>1, <3>2 DEF QuotaOK, CleanupCmd, over, counted
      <4>2. \A y \in Kinds : over[y] > 0 => y # c.kind /\ over[y] = c.over[y]
        BY <4>1
      <4>3. ASSUME NEW x, Counted(c, x)
            PROVE  Counted(new, x)
        <5>1. \A y \in Kinds : over[y] > 0 => Bytes_(x, y) >= task.max_bytes[y] + over[y]
          BY <4>2, <4>3 DEF Counted
        <5>2. Bytes_(x, k) \in Nat
          BY CountType DEF Bytes_
        <5> QED BY <1>3, <2>4, <5>1, <5>2 DEF Bytes_
      <4> QED BY <1>1, <3>2, <4>1, <4>3 DEF QuotaOK
    <3> QED BY <1>1, <3>1, <3>2 DEF CleanupCmd
  <2>6. Measured(new, writer, db, draft)
    <3>1. new.kind \in Kinds /\ new.over[new.kind] > 0 /\ new.got = 0 /\ new.gone = 0
      BY <1>3, <2>3
    <3>2. new.over[new.kind] \in Nat
      BY <2>2, <2>3
    <3>3. \A p \in new.todo : Kind(p) = new.kind
      BY <2>1, <2>3
    <3>4. /\ writer # Operator => Counted(new, new.counted)
          /\ writer = Operator /\ db = new.counted => Counted(new, draft)
      BY <2>3, <2>5
    <3> HIDE DEF new
    <3> QED BY <3>1, <3>2, <3>3, <3>4 DEF Measured
  <2> HIDE DEF new
  <2>7. new = cmd'[Operator] /\ writer' = writer /\ db' = db /\ draft' = draft
    BY <1>3 DEF rows, new
  <2> QED BY <1>1, <2>6, <2>7, MeasuredNext
<1>4. \/ cmd' = [cmd EXCEPT ![Operator] = Idle]
      \/ \E k \in Kinds :
            /\ over[k] > 0 /\ UNCHANGED rows
            /\ cmd' = [cmd EXCEPT ![Operator].phase = "quota", ![Operator].kind = k,
                        ![Operator].over = over, ![Operator].got = 0, ![Operator].gone = 0,
                        ![Operator].counted = counted,
                        ![Operator].todo = quota_lru_candidate_rows(t, k) \ c.seen]
  <2> DEFINE kinds == {k \in Kinds : over[k] > 0}
             todo(k) == quota_lru_candidate_rows(t, k) \ c.seen
  <2>1. cmd[Operator].counted = c.counted
    OBVIOUS
  <2>2. ASSUME cmd' # [cmd EXCEPT ![Operator] = Idle]
        PROVE  \E k \in kinds :
                 /\ cmd' = [cmd EXCEPT ![Operator].phase = "quota", ![Operator].kind = k,
                            ![Operator].over = over, ![Operator].got = 0, ![Operator].gone = 0,
                            ![Operator].counted = IF c.phase = "ttl" THEN db ELSE @,
                            ![Operator].todo = todo(k)]
                 /\ UNCHANGED rows
    BY <2>2 DEF AboveQuota
  <2> HIDE DEF over, todo
  <2>3. ASSUME cmd' # [cmd EXCEPT ![Operator] = Idle]
        PROVE  \E k \in kinds :
                 /\ cmd' = [cmd EXCEPT ![Operator].phase = "quota", ![Operator].kind = k,
                            ![Operator].over = over, ![Operator].got = 0, ![Operator].gone = 0,
                            ![Operator].counted = counted, ![Operator].todo = todo(k)]
                 /\ UNCHANGED rows
    <3>1. PICK k \in kinds :
                 /\ cmd' = [cmd EXCEPT ![Operator].phase = "quota", ![Operator].kind = k,
                            ![Operator].over = over, ![Operator].got = 0, ![Operator].gone = 0,
                            ![Operator].counted = IF c.phase = "ttl" THEN db ELSE @,
                            ![Operator].todo = todo(k)]
                 /\ UNCHANGED rows
      BY <2>2, <2>3
    <3>2. cmd' = [cmd EXCEPT ![Operator].phase = "quota", ![Operator].kind = k,
                            ![Operator].over = over, ![Operator].got = 0, ![Operator].gone = 0,
                            ![Operator].counted = counted, ![Operator].todo = todo(k)]
      BY <1>1, <3>1, Different DEF CmdTypes, CleanupCmd, counted
    <3> QED BY <3>1, <3>2
  <2> QED BY <2>3 DEF todo
<1> HIDE DEF over, counted
<1> QED BY <1>2, <1>3, <1>4

LEMMA QuotaStep ==
  ASSUME TypeOK, CmdOK, PinsOK, QuotaOK, Grows, [Next]_vars
  PROVE  QuotaOK'
<1> USE DEF TypeOK
<1>1. SUFFICES ASSUME Working("cleanup")'
      PROVE  QuotaOK'
  BY DEF QuotaOK
<1>2. task' = task
  BY DEF Grows
<1>3. CASE cmd'[Operator] = cmd[Operator] /\ ~OperatorStep
  <2>1. Working("cleanup")
    BY <1>1, <1>3 DEF Working
  <2>2. /\ writer = Operator => UNCHANGED rows
        /\ writer # Operator => writer' # Operator
    BY <1>3, <2>1, OthersWrite
  <2> DEFINE c == cmd[Operator]
             w == writer'
             d == db'
             t == draft'
  <2>3. c.phase = "quota" => Measured(c, w, d, t)
    <3>1. c.phase = "quota" => Measured(c, writer, db, draft)
      BY <2>1 DEF QuotaOK, Measured
    <3>2. CASE writer = Operator
      BY <2>2, <3>1, <3>2 DEF rows
    <3>3. CASE writer # Operator
      BY <2>2, <3>1, <3>3 DEF Measured
    <3> QED BY <3>2, <3>3
  <2>4. cmd'[Operator] = c /\ writer' = w /\ db' = d /\ draft' = t
    BY <1>3
  <2> HIDE DEF c, w, d, t
  <2> QED BY <1>2, <2>3, <2>4, MeasuredNext
<1>4. CASE OperatorStep
  <2>1. Cleanup \/ (Working("cleanup") /\ protected' = protected)
    BY <1>1, <1>4, CleanupTodo
  <2>2. CASE Cleanup
    <3> DEFINE todo == expired_candidate_rows(db)
               new == [op |-> "cleanup", todo |-> todo, mark |-> NoMark,
                       phase |-> "ttl", kind |-> None, over |-> NoOverage,
                       got |-> 0, seen |-> {}, counted |-> db, gone |-> 0]
    <3>1. cmd' = [cmd EXCEPT ![Operator] = new]
      BY <2>2 DEF Cleanup, Begin
    <3>2. cmd'[Operator] = new /\ new.phase = "ttl"
      BY <3>1, Different DEF CmdTypes
    <3>3. cmd'[Operator].phase # "quota"
      BY <3>2
    <3> QED BY <3>3 DEF QuotaOK
  <2>3. CASE DeleteFile
    <3>1. PICK m : cmd' = [cmd EXCEPT ![Operator].mark = m]
      BY <2>3 DEF DeleteFile
    <3> DEFINE c == cmd[Operator]
               new == [c EXCEPT !.mark = m]
    <3>2. c \in CleanupCmd /\ UNCHANGED rows
      BY <2>3, CmdOf DEF DeleteFile
    <3>3. cmd'[Operator] = new
      BY <3>1, Different DEF CmdTypes
    <3>4. /\ new.op = "cleanup" /\ new.phase = c.phase /\ new.kind = c.kind /\ new.over = c.over
          /\ new.got = c.got /\ new.gone = c.gone /\ new.counted = c.counted /\ new.todo = c.todo
      BY <3>2 DEF CleanupCmd
    <3>5. c.phase = "quota" => Measured(c, writer, db, draft)
      BY <2>3 DEF DeleteFile, QuotaOK, Measured
    <3> HIDE DEF new, c
    <3>6. new.phase = "quota" => Measured(new, writer, db, draft)
      BY <3>4, <3>5 DEF Measured, Counted
    <3>7. writer' = writer /\ db' = db /\ draft' = draft
      BY <3>2 DEF rows
    <3> QED BY <1>2, <3>3, <3>6, <3>7, MeasuredNext
  <2>4. CASE DeleteRow
    BY <2>4, QuotaDelete
  <2>5. CASE AboveQuota
    BY <2>5, QuotaAbove
  <2>6. CASE \/ Dedupe \/ DedupeGroup \/ DedupeLink \/ DedupeRow
             \/ Quarantine \/ QuarantineFile \/ QuarantineRow
    <3>1. ~Working("cleanup")
      BY <2>6, Different
         DEF Dedupe, DedupeGroup, DedupeLink, DedupeRow, Quarantine, QuarantineFile, QuarantineRow,
             Begin, Working, Idle
    <3> QED BY <2>1, <2>2, <3>1
  <2> QED BY <1>4, <2>2, <2>3, <2>4, <2>5, <2>6 DEF OperatorStep
<1>5. CASE cmd'[Operator].op \in {"idle", "index"}
  BY <1>1, <1>5 DEF Working
<1> QED BY <1>3, <1>4, <1>5, OperatorSteps

-----------------------------------------------------------------------------
(* The theorems. *)

LEMMA IInvInit ==
  ASSUME Init
  PROVE  IInv
<1>1. TypeOK
  BY TypeInit
<1>2. \A p \in Paths : file[p] = None /\ given[p] = None /\ answer[p] = None
  BY DEF Init
<1>3. DiskOK
  <2>1. \A d \in Contents : bytes[d].c = None
    BY DEF Init, NoBytes
  <2>2. \A p \in Paths : ~Exists(p)
    BY <1>2 DEF Exists
  <2> QED BY <1>2, <2>1, <2>2 DEF DiskOK, FileOK, TextOK, ObjectOK, Init
<1>4. RowsOK
  <2>1. /\ \A p \in Paths : db.rows[p] = NoRow
        /\ db.refs = {} /\ draft = db
    BY DEF Init
  <2> QED BY <2>1 DEF RowsOK, TableOK, Tells, RefsOK, NoRow
<1>5. \A i \in Procs : cmd[i].op = "idle"
  BY DEF Init, Idle
<1>6. CmdOK /\ QuotaOK
  BY <1>5, Different DEF CmdOK, Clears, Links, QuotaOK, Working
<1>7. PinsOK
  BY <1>5, Different DEF Init, PinsOK, SamePins, KeptOK, ProtectedOK, Working
<1>8. ReuseOK
  <2>1. /\ \A p \in Paths : given[p] \notin Texts
        /\ reused = {}
    <3>1. Texts \subseteq Contents
      BY <1>1, ScenarioType DEF Texts
    <3> QED BY <1>2, <3>1, Different DEF Init
  <2> QED BY <1>2, <2>1 DEF ReuseOK, ReusedIsGenuine
<1> QED BY <1>1, <1>3, <1>4, <1>6, <1>7, <1>8 DEF IInv

LEMMA IInvStep ==
  ASSUME IInv, [Next]_vars
  PROVE  IInv'
<1>1. DiskOK' /\ Grows
  BY FilesStep DEF IInv
<1>2. TypeOK' /\ RowsOK' /\ CmdOK'
  BY <1>1, TypeStep, RowsStep, CmdStep DEF IInv
<1>3. PinsOK' /\ ReuseOK' /\ QuotaOK'
  BY <1>1, PinsStep, ReuseStep, QuotaStep DEF IInv
<1> QED BY <1>1, <1>2, <1>3 DEF IInv

(* An attachment is never one of the cached texts, and only those differ   *)
(* from what was given.                                                    *)
LEMMA KeptLemma ==
  ASSUME IInv
  PROVE  AttachmentsAreKept
<1>1. ASSUME NEW p \in Paths, Kind(p) = "raw_media", Exists(p)
      PROVE  Content(p) = given[p]
  <2>1. Similar(Content(p), given[p]) /\ given[p] \notin Texts
    BY <1>1 DEF IInv, DiskOK, FileOK, Near, ReuseOK
  <2> QED BY <2>1 DEF Similar
<1>2. \A p \in Paths : db.rows[p].status \in {"deleted", "quarantined"} => ~Exists(p)
  BY DEF IInv, RowsOK, TableOK, Tells
<1> QED BY <1>1, <1>2 DEF AttachmentsAreKept

(* What was reclaimed of a kind is at most its overage.                    *)
LEMMA QuotaLemma ==
  ASSUME IInv
  PROVE  QuotaIsNotOverdone
<1> DEFINE c == cmd[Operator]
           n == effective_kind_bytes(View(Operator), c.kind)
           max == task.max_bytes[c.kind]
           over == c.over[c.kind]
<1>1. SUFFICES ASSUME Working("cleanup"), c.phase = "quota", db = c.counted
      PROVE  n + c.gone >= max
  BY DEF QuotaIsNotOverdone
<1>2. c \in CleanupCmd
  BY <1>1, CmdOf DEF IInv, TypeOK
<1>3. c.kind \in Kinds /\ c.got <= over
  BY <1>1 DEF IInv, QuotaOK
<1>4. c.got \in Nat /\ c.gone \in Nat /\ over \in Nat /\ max \in Nat /\ n \in Nat
  <2>1. task.max_bytes \in [Kinds -> Nat]
    BY ScenarioType DEF IInv
  <2> QED BY <1>2, <1>3, <2>1, CountType DEF CleanupCmd
<1>5. Counted(c, View(Operator))
  BY <1>1 DEF IInv, QuotaOK, View
<1>6. n + c.gone + c.got >= max + over
  BY <1>5 DEF Counted, Bytes_
<1> HIDE DEF n, max, over
<1> QED BY <1>3, <1>4, <1>6

(* Types, and how files, rows, pins, answers and counts fit each other:    *)
(* the invariant that the theorems below rest on.                          *)
THEOREM Invariant == Spec => []IInv
<1>1. Init => IInv
  BY IInvInit
<1>2. IInv /\ [Next]_vars => IInv'
  BY IInvStep
<1> QED BY <1>1, <1>2, PTL DEF Spec

(* Files lead to files or objects of the store, rows and commands have     *)
(* their form, whatever runs, dies or fails.                               *)
THEOREM TypeCorrect == Spec => []TypeOK
<1>1. IInv => TypeOK
  BY DEF IInv
<1> QED BY <1>1, Invariant, PTL

(* A cleanup deletes nothing that was pinned, itself or through its run,   *)
(* when it began (expired_candidate_rows, quota_lru_candidate_rows).       *)
THEOREM PinsHold == Spec => []PinnedSurvives
<1>1. IInv => PinnedSurvives
  BY DEF IInv, PinsOK, ProtectedOK, PinnedSurvives
<1> QED BY <1>1, Invariant, PTL

(* What find-source lets a run take is what the file key stands for, even  *)
(* if the named file was deleted, linked or replaced before it was taken.  *)
THEOREM ReuseIsGenuine == Spec => []ReusedIsGenuine
<1>1. IInv => ReusedIsGenuine
  BY DEF IInv, ReuseOK
<1> QED BY <1>1, Invariant, PTL

(* No command changes the bytes of an attachment that is there, and a row  *)
(* says deleted or quarantined only of a file that is gone.                *)
THEOREM AttachmentsKept == Spec => []AttachmentsAreKept
<1> QED BY KeptLemma, Invariant, PTL

(* A cleanup stops deleting for a kind as soon as what it reclaimed makes  *)
(* up for the overage, for any files, objects they share and quotas.       *)
THEOREM QuotaKept == Spec => []QuotaIsNotOverdone
<1> QED BY QuotaLemma, Invariant, PTL

=============================================================================
