---------------------------- MODULE RuntimeStore ----------------------------
(***************************************************************************)
(* The runtime store: the index (SQLite) of the files of all runs, and the *)
(* objects they share (tools/runtime_store_cli.py).                        *)
(*                                                                         *)
(* Two processes work on it: the handler indexes the run it has finished   *)
(* (index-run --cas), and an operator gives one command after another      *)
(* (scan, cleanup, dedupe, quarantine, pin...).  A command changes files at*)
(* once and rows in a transaction: the first change of a row takes the one *)
(* write lock, nobody else sees the rows before the commit, and a command  *)
(* that dies leaves the files as they are and the rows as they were.       *)
(* Meanwhile runs get their attachments: downloaded, or taken from a file  *)
(* that find-source names.                                                 *)
(*                                                                         *)
(* The runs and the store are in one file system with hard links, so a     *)
(* path leads to the bytes of its own or to those of an object: a link     *)
(* that os.link makes, never a symbolic link or a copy.                    *)
(***************************************************************************)
EXTENDS Integers, FiniteSets

CONSTANTS
    Runs,         \* run directories
    Fixtures,     \* the runs whose id says fixture, mock or dry run
    Paths,        \* files of the runs and of the ASR cache
    Keys,         \* file keys of attachments
    Contents,     \* what a file may hold; also its digest
    Scenarios,    \* the files, the commands and what may go wrong
    None

Handler == "handler"
Operator == "operator"
Procs == {Handler, Operator}

Cache == "asr-cache"                 \* stands for the run of a cached text
Kinds == {"raw_media", "transcript_evidence", "observability"}
CasKinds == {"raw_media", "transcript_evidence"}
Ops == {"scan", "cleanup", "dedupe", "quarantine", "put-object", "pin"}

(* of and kind of a path, the file keys of the attachments, the contents   *)
(* that may arrive at a path, the one that a file key stands for, which    *)
(* contents have no valid header, the lifetime (0: none) and the quota of  *)
(* a kind.  Bounds: time, and the number of index runs, commands, texts    *)
(* written again, deletions that fail and processes that die.              *)
Scenario == [of : [Paths -> Runs \cup {Cache}], kind : [Paths -> Kinds],
             key : [Paths -> Keys \cup {None}], arrives : [Paths -> SUBSET Contents],
             genuine : [Keys -> Contents], bad : SUBSET Contents,
             ttl : [Kinds -> Nat], max_bytes : [Kinds -> Nat],
             time : Nat, indexes : Nat, commands : Nat, rewrites : Nat,
             stuck : Nat, deaths : Nat, ops : SUBSET Ops]

(* Under its file key a run gets what the key stands for, or a download    *)
(* without a valid header, unless it is a fixture.  A cached text is no    *)
(* attachment, and its bytes are never those of one.                       *)
Plausible(t) ==
    /\ \A p \in Paths :
          t.kind[p] = "raw_media" /\ t.of[p] \notin Fixtures /\ t.key[p] # None
              => t.arrives[p] \subseteq {t.genuine[t.key[p]]} \cup t.bad
    /\ \A p, q \in Paths :
          t.kind[p] = "raw_media" /\ t.of[q] = Cache => p # q /\ t.arrives[p] \cap t.arrives[q] = {}

(* A path, a content and a run are different things, and none is None.     *)
ASSUME RuntimeStoreAssumption ==
    /\ Fixtures \subseteq Runs
    /\ None \notin Paths \cup Contents \cup Runs \cup Keys /\ None \notin Procs
    /\ Paths \cap Contents = {} /\ Paths \cap Runs = {} /\ Cache \notin Runs \cup Paths
    /\ IsFiniteSet(Paths)
    /\ Scenarios \subseteq Scenario
    /\ \A t \in Scenarios : Plausible(t)

VARIABLES
    task,        \* the scenario
    now,
    file,        \* where a path leads: to its own bytes, an object's, or nowhere
    object,      \* the objects with a name below objects/sha256
    bytes,       \* what is stored, [c, made], per path or object
    db,          \* the committed rows
    draft,       \* the rows as the transaction sees them
    writer,      \* the process with the write lock
    cmd,         \* what each process is doing
    answer,      \* per path: the file that find-source has named for it
    left,        \* what the bounds leave
    given,       \* history: what first arrived at a path
    reused,      \* history: paths that were filled from the store
    kept,        \* history: the runs and files that the operator has pinned
    protected    \* history: those of their files that the cleanup under way found

disk == <<file, object, bytes>>
rows == <<db, draft, writer>>
history == <<given, reused, kept, protected>>
vars == <<task, now, disk, rows, cmd, answer, left, history>>

NoBytes == [c |-> None, made |-> 0]
NoRow == [status |-> "none", sha |-> None, obj |-> None, made |-> 0, used |-> 0, pinned |-> FALSE]
Idle == [op |-> "idle"]

Run(p) == task.of[p]
Kind(p) == task.kind[p]
Exists(p) == file[p] # None
Content(p) == bytes[file[p]].c
PathsOf(r) == {p \in Paths : Run(p) = r}

Spend(b) == left[b] > 0 /\ left' = [left EXCEPT ![b] = @ - 1]

----------------------------------------------------------------------------
(* Rows and transactions.                                                  *)

View(i) == IF writer = i THEN draft ELSE db
May(i) == writer \in {None, i}
Put(i, new) == May(i) /\ writer' = i /\ draft' = new /\ UNCHANGED db
Commit(i, t) == writer = i /\ writer' = None /\ db' = t /\ draft' = t
CommitIfOpen(i) == IF writer = i THEN Commit(i, draft) ELSE UNCHANGED rows

Live(t, p) == t.rows[p].status = "ready"
RunPinned(t, p) == Run(p) \in t.pins
Pinned(t, p) == t.rows[p].pinned \/ RunPinned(t, p)
Deletable(t, p) == Live(t, p) /\ ~Pinned(t, p)

(* The upsert of register_artifact: a row that was there keeps its pin,    *)
(* its object when there is no new one, and when it was used.              *)
UpsertAnew(t, p, new) == [t EXCEPT !.rows[p] = new]
Upsert(t, p, new) ==
    LET old == t.rows[p]
    IN [t EXCEPT !.rows[p] =
          [new EXCEPT !.obj = IF new.obj = None THEN old.obj ELSE new.obj,
                      !.used = IF old.status = "none" THEN new.used ELSE old.used,
                      !.pinned = old.pinned]]

SetStatus(t, p, s) == [t EXCEPT !.rows[p].status = s]

----------------------------------------------------------------------------
(* Files and objects.                                                      *)

(* What nothing leads to any more is gone.                                 *)
Disk(f, o, b) ==
    /\ file' = f
    /\ object' = o
    /\ bytes' = [x \in Paths \cup Contents |->
                   IF x \in o \/ \E p \in Paths : f[p] = x THEN b[x] ELSE NoBytes]

(* The object of a digest is copied from a file unless there is one.       *)
ensure_cas_object(d, b) ==
    IF d \in object THEN bytes ELSE [bytes EXCEPT ![d] = b]

replace_with_compat_link(p, d) == [file EXCEPT ![p] = d]
Unlinked(p) == [file EXCEPT ![p] = None]

should_cas(p) == Kind(p) \in CasKinds

----------------------------------------------------------------------------
(* Runs get their files.                                                   *)

Write(p, c) ==
    /\ Disk([file EXCEPT ![p] = p], object, [bytes EXCEPT ![p] = [c |-> c, made |-> now]])
    /\ given' = [given EXCEPT ![p] = c]

(* A run writes a file, or downloads it: find-source named nothing, or     *)
(* what it named is gone.                                                  *)
Arrive(p) ==
    /\ given[p] = None /\ ~Exists(p)
    /\ answer[p] = None \/ (answer[p] \in Paths /\ ~Exists(answer[p]))
                        \/ (answer[p] \in Contents /\ answer[p] \notin object)
    /\ \E c \in task.arrives[p] : Write(p, c)
    /\ answer' = [answer EXCEPT ![p] = None]
    /\ UNCHANGED <<task, now, rows, cmd, left, reused, kept, protected>>

(* A cached text is recognised again, and copied over the file in place or *)
(* after the old one is unlinked: cpSync of directories and of files, and  *)
(* of one version of Node and another, differ.                             *)
Rewrite(p) ==
    /\ Run(p) = Cache /\ Exists(p)
    /\ Spend("rewrites")
    /\ \E c \in task.arrives[p] \ {Content(p)}, x \in {p, file[p]} :
         /\ Disk([file EXCEPT ![p] = x], object, [bytes EXCEPT ![x] = [c |-> c, made |-> now]])
         /\ given' = [given EXCEPT ![p] = c]
    /\ UNCHANGED <<task, now, rows, cmd, answer, reused, kept, protected>>

(* find-source: the live rows that the file key refers to, of no fixture,  *)
(* with bytes that look like audio, and a file to be had.                  *)
HasHeader(x) == bytes[x].c \notin task.bad
audio_artifact_ready(p) ==
    \/ Exists(p) /\ HasHeader(file[p])
    \/ db.rows[p].obj \in object /\ HasHeader(db.rows[p].obj)
available(p) ==
    IF Exists(p) THEN p
    ELSE IF db.rows[p].obj \in object THEN db.rows[p].obj ELSE None
CandidatesOfAll(k) ==
    {p \in Paths : /\ <<k, p>> \in db.refs /\ Live(db, p) /\ Kind(p) = "raw_media"
                   /\ audio_artifact_ready(p) /\ available(p) # None}
Candidates(k) ==
    {p \in Paths : /\ <<k, p>> \in db.refs
                   /\ Live(db, p)
                   /\ Kind(p) = "raw_media"
                   /\ Run(p) \notin Fixtures
                   /\ audio_artifact_ready(p)
                   /\ available(p) # None}

Find(q) ==
    /\ given[q] = None /\ answer[q] = None
    /\ Kind(q) = "raw_media" /\ Run(q) \notin Fixtures
    /\ \E p \in Candidates(task.key[q]) : answer' = [answer EXCEPT ![q] = available(p)]
    /\ UNCHANGED <<task, now, disk, rows, cmd, left, history>>

(* The named file is linked into the run.                                  *)
Reuse(q) ==
    LET x == answer[q]
        there == IF x \in Paths THEN file[x] ELSE IF x \in object THEN x ELSE None
    IN /\ given[q] = None /\ x # None /\ there # None
       /\ Disk([file EXCEPT ![q] = there], object, bytes)
       /\ given' = [given EXCEPT ![q] = bytes[there].c]
       /\ reused' = reused \cup {q}
       /\ answer' = [answer EXCEPT ![q] = None]
       /\ UNCHANGED <<task, now, rows, cmd, left, kept, protected>>

----------------------------------------------------------------------------
(* Indexing: the handler's one run with objects, or the operator's scan of *)
(* every run and of the cache, which may add a second pass with objects.   *)

Begin(i, name, c) ==
    /\ cmd[i].op = "idle"
    /\ Spend(IF i = Handler THEN "indexes" ELSE "commands")
    /\ i = Operator => name \in task.ops
    /\ cmd' = [cmd EXCEPT ![i] = c]

Indexing(runs, cas, again) ==
    [op |-> "index", queue |-> runs, run |-> None, todo |-> {}, cas |-> cas, again |-> again]

discover_run_dirs == {r \in Runs : \E p \in PathsOf(r) : Exists(p)}

IndexRun ==
    /\ \E r \in Runs \ Fixtures :
         /\ \A p \in PathsOf(r) : task.arrives[p] # {} => given[p] # None
         /\ Begin(Handler, "index-run", Indexing({r}, TRUE, FALSE))
    /\ UNCHANGED <<task, now, disk, rows, answer, history>>

Scan ==
    /\ \E again \in BOOLEAN :
         Begin(Operator, "scan", Indexing(discover_run_dirs \cup {Cache}, FALSE, again))
    /\ UNCHANGED <<task, now, disk, rows, answer, history>>

(* index_run writes the row of the run first; the cache has none, and is   *)
(* scanned last.  The directories are sorted, so the order is fixed.       *)
NextRun(i) ==
    /\ cmd[i].op = "index" /\ cmd[i].run = None
    /\ LET queue == cmd[i].queue
           r == IF queue \cap Runs # {} THEN CHOOSE r \in Runs : r \in queue ELSE Cache
       IN /\ queue # {}
          /\ cmd' = [cmd EXCEPT ![i].run = r, ![i].queue = @ \ {r},
                                ![i].todo = {p \in PathsOf(r) : Exists(p)}]
          /\ IF r = Cache THEN UNCHANGED rows
             ELSE Put(i, [View(i) EXCEPT !.known = @ \cup {r}])
    /\ UNCHANGED <<task, now, disk, answer, left, history>>

(* register_artifact: the file is hashed, linked to its object if it is to *)
(* have one, and its row is written with the age it had when it was read.  *)
register_artifact(i, p, cas) ==
    LET b == bytes[file[p]]
        linked == cas /\ should_cas(p)
    IN /\ IF linked
          THEN Disk(replace_with_compat_link(p, b.c), object \cup {b.c},
                    ensure_cas_object(b.c, b))
          ELSE UNCHANGED disk
       /\ Put(i, Upsert(View(i), p,
                   [status |-> "ready", sha |-> b.c, obj |-> IF linked THEN b.c ELSE None,
                    made |-> b.made, used |-> b.made, pinned |-> FALSE]))

IndexFile(i, p) ==
    /\ cmd[i].op = "index" /\ p \in cmd[i].todo
    /\ cmd' = [cmd EXCEPT ![i].todo = @ \ {p}]
    /\ IF Exists(p) THEN register_artifact(i, p, cmd[i].cas) ELSE UNCHANGED <<disk, rows>>
    /\ UNCHANGED <<task, now, answer, left, history>>

(* The source references of the run's attachments, then the commit.        *)
index_sources(t, r) ==
    [t EXCEPT !.refs = @ \cup {<<task.key[p], p>> :
                                 p \in {q \in PathsOf(r) : task.key[q] # None /\ Live(t, q)}}]

IndexDone(i) ==
    /\ cmd[i].op = "index" /\ cmd[i].run # None /\ cmd[i].todo = {}
    /\ IF writer = i THEN Commit(i, index_sources(draft, cmd[i].run)) ELSE UNCHANGED rows
    /\ cmd' = [cmd EXCEPT ![i] =
                 IF @.queue # {} THEN [@ EXCEPT !.run = None]
                 ELSE IF @.again /\ discover_run_dirs # {} THEN Indexing(discover_run_dirs, TRUE, FALSE)
                 ELSE Idle]
    /\ UNCHANGED <<task, now, disk, answer, left, history>>

----------------------------------------------------------------------------
(* Cleanup: first what has expired, then, for every kind that is above its *)
(* quota, the rows that were used longest ago.  Its record also keeps, as  *)
(* history, the committed rows when the quotas were checked and how many   *)
(* rows of the kind it found without a file.                               *)

Working(op) == cmd[Operator].op = op
Todo == cmd[Operator].todo
(* The file is dealt with, its row is not.                                 *)
Mark == cmd[Operator].mark
NoMark == [path |-> None, status |-> "none"]

Expired(t, p) == task.ttl[Kind(p)] > 0 /\ t.rows[p].made + task.ttl[Kind(p)] < now
expired_candidate_rows(t) == {p \in Paths : Deletable(t, p) /\ Expired(t, p)}

Size(p) == 1
(* Files with one object count once.                                       *)
StorageKey(t, p) == IF t.rows[p].obj # None THEN t.rows[p].obj ELSE p
effective_kind_bytes(t, k) ==
    Cardinality({StorageKey(t, p) : p \in {q \in Paths : Live(t, q) /\ Kind(q) = k}})
quota_overages(t) ==
    [k \in Kinds |->
       IF task.max_bytes[k] > 0 /\ effective_kind_bytes(t, k) > task.max_bytes[k]
       THEN effective_kind_bytes(t, k) - task.max_bytes[k] ELSE 0]
quota_lru_candidate_rows(t, k) == {p \in Paths : Kind(p) = k /\ Deletable(t, p)}
NoOverage == [k \in Kinds |-> 0]

Cleanup ==
    /\ Begin(Operator, "cleanup", [op |-> "cleanup", todo |-> expired_candidate_rows(db), mark |-> NoMark,
                        phase |-> "ttl", kind |-> None, over |-> NoOverage,
                        got |-> 0, seen |-> {}, counted |-> db, gone |-> 0])
    /\ protected' = {p \in Paths : {p, Run(p)} \cap kept # {} /\ Exists(p)}
    /\ UNCHANGED <<task, now, disk, rows, answer, given, reused, kept>>

(* delete_artifact_path: the file first.                                   *)
Oldest(t, ps) == {p \in ps : \A q \in ps : t.rows[p].used <= t.rows[q].used}
DeleteFile ==
    /\ Working("cleanup") /\ Mark = NoMark
    /\ \E p \in IF cmd[Operator].phase = "quota" THEN Oldest(View(Operator), Todo) ELSE Todo :
         \/ /\ ~Exists(p)
            /\ cmd' = [cmd EXCEPT ![Operator].mark = [path |-> p, status |-> "missing"]]
            /\ UNCHANGED <<disk, left>>
         \/ /\ Exists(p)
            /\ Disk(Unlinked(p), object, bytes)
            /\ cmd' = [cmd EXCEPT ![Operator].mark = [path |-> p, status |-> "deleted"]]
            /\ UNCHANGED left
         \/ /\ Exists(p) /\ Spend("stuck")
            /\ cmd' = [cmd EXCEPT ![Operator].mark = [path |-> p, status |-> "failed"]]
            /\ UNCHANGED disk
    /\ UNCHANGED <<task, now, rows, answer, history>>

(* Then the row, unless the file could not be deleted.                     *)
EnoughAndMore(got, target) == got > target
Enough(got, target) == got >= target
AfterDeleteAlways(t, p, s) == SetStatus(t, p, "deleted")
AfterDelete(t, p, s) == IF s = "failed" THEN t ELSE SetStatus(t, p, "deleted")
DeleteRow ==
    LET c == cmd[Operator]
        got == c.got + IF Mark.status = "deleted" THEN Size(Mark.path) ELSE 0
        done == c.phase = "quota" /\ Enough(got, c.over[c.kind])
    IN /\ Working("cleanup") /\ Mark # NoMark
       /\ Put(Operator, AfterDelete(View(Operator), Mark.path, Mark.status))
       /\ cmd' = [cmd EXCEPT ![Operator].mark = NoMark,
                             ![Operator].seen = @ \cup {Mark.path},
                             ![Operator].todo = IF done THEN {} ELSE @ \ {Mark.path},
                             ![Operator].got = IF c.phase = "quota" THEN got ELSE 0,
                             ![Operator].gone =
                                IF c.phase = "quota" /\ Mark.status = "missing" THEN @ + 1 ELSE @]
       /\ UNCHANGED <<task, now, disk, answer, left, history>>

(* The kinds above their quota are found when the expired rows are gone;   *)
(* they are treated one after another.                                     *)
AboveQuota ==
    LET c == cmd[Operator]
        over == IF c.phase = "ttl" THEN quota_overages(View(Operator))
                ELSE [c.over EXCEPT ![c.kind] = 0]
        kinds == {k \in Kinds : over[k] > 0}
    IN /\ Working("cleanup") /\ Mark = NoMark /\ Todo = {}
       /\ \/ \E k \in kinds :
               /\ cmd' = [cmd EXCEPT ![Operator].phase = "quota", ![Operator].kind = k,
                            ![Operator].over = over, ![Operator].got = 0, ![Operator].gone = 0,
                            ![Operator].counted = IF c.phase = "ttl" THEN db ELSE @,
                            ![Operator].todo = quota_lru_candidate_rows(View(Operator), k) \ c.seen]
               /\ UNCHANGED <<rows, protected>>
          \/ /\ kinds = {}
             /\ CommitIfOpen(Operator)
             /\ cmd' = [cmd EXCEPT ![Operator] = Idle]
             /\ protected' = {}
       /\ UNCHANGED <<task, now, disk, answer, left, given, reused, kept>>

----------------------------------------------------------------------------
(* Dedupe: files whose rows have one digest are linked to one object, the  *)
(* one a row names already or a copy of the keeper's file.                 *)

SameDigest(t, d) == {p \in Paths : Live(t, p) /\ t.rows[p].sha = d}
DuplicateDigests(t) ==
    {d \in Contents : Cardinality({p \in SameDigest(t, d) : ~t.rows[p].pinned}) > 1}

Dedupe ==
    /\ Begin(Operator, "dedupe", [op |-> "dedupe", groups |-> DuplicateDigests(db), todo |-> {},
                        mark |-> NoMark, obj |-> None])
    /\ UNCHANGED <<task, now, disk, rows, answer, history>>

Keepers(t, d) ==
    LET ps == SameDigest(t, d)
        withObject == {p \in ps : t.rows[p].obj # None}
    IN IF withObject # {} THEN withObject ELSE ps

DedupeGroup ==
    /\ Working("dedupe") /\ Todo = {} /\ Mark = NoMark
    /\ LET t == View(Operator)
       IN \E d \in cmd[Operator].groups :
            /\ IF Cardinality(SameDigest(t, d)) < 2
               THEN cmd' = [cmd EXCEPT ![Operator].groups = @ \ {d}] /\ UNCHANGED disk
               ELSE \E keeper \in Keepers(t, d) :
                      LET obj == t.rows[keeper].obj
                          there == IF obj # None THEN obj \in object ELSE Exists(keeper)
                          others == {p \in SameDigest(t, d) \ {keeper} : ~Pinned(t, p)}
                      IN /\ IF there /\ obj = None
                            THEN Disk(file, object \cup {d}, ensure_cas_object(d, bytes[file[keeper]]))
                            ELSE UNCHANGED disk
                         /\ cmd' = [cmd EXCEPT ![Operator].groups = @ \ {d},
                                       ![Operator].obj = IF obj # None THEN obj ELSE d,
                                       ![Operator].todo = IF there THEN others ELSE {}]
    /\ UNCHANGED <<task, now, rows, answer, left, history>>

DedupeLink ==
    /\ Working("dedupe") /\ Mark = NoMark
    /\ \E p \in Todo :
         IF Exists(p) /\ should_cas(p)
         THEN /\ Disk(replace_with_compat_link(p, cmd[Operator].obj), object, bytes)
              /\ cmd' = [cmd EXCEPT ![Operator].mark = [path |-> p, status |-> "linked"]]
         ELSE /\ cmd' = [cmd EXCEPT ![Operator].todo = @ \ {p}]
              /\ UNCHANGED disk
    /\ UNCHANGED <<task, now, rows, answer, left, history>>

DedupeRow ==
    /\ Working("dedupe") /\ Mark # NoMark
    /\ Put(Operator, [View(Operator) EXCEPT !.rows[Mark.path].obj = cmd[Operator].obj,
                                            !.rows[Mark.path].used = now])
    /\ cmd' = [cmd EXCEPT ![Operator].mark = NoMark, ![Operator].todo = @ \ {Mark.path}]
    /\ UNCHANGED <<task, now, disk, answer, left, history>>

DedupeDone ==
    /\ Working("dedupe") /\ Todo = {} /\ Mark = NoMark /\ cmd[Operator].groups = {}
    /\ CommitIfOpen(Operator)
    /\ cmd' = [cmd EXCEPT ![Operator] = Idle]
    /\ UNCHANGED <<task, now, disk, answer, left, history>>

----------------------------------------------------------------------------
(* Quarantine, by digest or for one row: the file and, unless another live *)
(* row needs it, the object are moved away; then the row.                  *)

Quarantine ==
    /\ \E ps \in {SameDigest(db, d) : d \in Contents} \cup {{p} : p \in {q \in Paths : Live(db, q)}} :
         /\ ps # {}
         /\ Begin(Operator, "quarantine",
                  [op |-> "quarantine", todo |-> ps, mark |-> NoMark,
                   selected |-> [p \in ps |-> db.rows[p].obj]])
    /\ UNCHANGED <<task, now, disk, rows, answer, history>>

Selected == cmd[Operator].selected
Shared(t, d) == \E q \in Paths \ DOMAIN Selected : Live(t, q) /\ t.rows[q].obj = d

QuarantineFile ==
    /\ Working("quarantine") /\ Mark = NoMark
    /\ \E p \in Todo :
         /\ Disk(Unlinked(p),
                 IF Shared(View(Operator), Selected[p]) THEN object ELSE object \ {Selected[p]},
                 bytes)
         /\ cmd' = [cmd EXCEPT ![Operator].mark = [path |-> p, status |-> "quarantined"]]
    /\ UNCHANGED <<task, now, rows, answer, left, history>>

QuarantineRow ==
    /\ Working("quarantine") /\ Mark # NoMark
    /\ Put(Operator, SetStatus(View(Operator), Mark.path, Mark.status))
    /\ cmd' = [cmd EXCEPT ![Operator].mark = NoMark, ![Operator].todo = @ \ {Mark.path}]
    /\ UNCHANGED <<task, now, disk, answer, left, history>>

QuarantineDone ==
    /\ Working("quarantine") /\ Todo = {} /\ Mark = NoMark
    /\ CommitIfOpen(Operator)
    /\ cmd' = [cmd EXCEPT ![Operator] = Idle]
    /\ UNCHANGED <<task, now, disk, answer, left, history>>

----------------------------------------------------------------------------
(* put_object: an object for one file, and no row.                         *)
PutObject ==
    /\ cmd[Operator] = Idle /\ "put-object" \in task.ops /\ Spend("commands")
    /\ \E p \in Paths, replace \in BOOLEAN :
         /\ Exists(p)
         /\ Disk(IF replace THEN replace_with_compat_link(p, Content(p)) ELSE file,
                 object \cup {Content(p)}, ensure_cas_object(Content(p), bytes[file[p]]))
    /\ UNCHANGED <<task, now, rows, cmd, answer, history>>

(* set_pin: one statement.  A run that the table does not know stays as it *)
(* is.                                                                     *)
PinRow(t, p, v) == [t EXCEPT !.rows[p].pinned = v]
PinRun(t, r, v) == [t EXCEPT !.pins = IF v THEN @ \cup {r} ELSE @ \ {r}]

Pin ==
    /\ writer = None
    /\ cmd[Operator] = Idle /\ "pin" \in task.ops /\ Spend("commands")
    /\ \E v \in BOOLEAN, x \in db.known \cup {p \in Paths : db.rows[p].status # "none"} :
         /\ db' = IF x \in Runs THEN PinRun(db, x, v) ELSE PinRow(db, x, v)
         /\ kept' = IF v THEN kept \cup {x} ELSE kept \ {x}
    /\ draft' = db'
    /\ UNCHANGED <<task, now, disk, writer, cmd, answer, given, reused, protected>>

(* A command dies: it is killed, or waited too long for the write lock.    *)
Dies(i) ==
    /\ cmd[i] # Idle
    /\ Spend("deaths")
    /\ cmd' = [cmd EXCEPT ![i] = Idle]
    /\ draft' = IF writer = i THEN db ELSE draft
    /\ writer' = IF writer = i THEN None ELSE writer
    /\ protected' = IF i = Operator THEN {} ELSE protected
    /\ UNCHANGED <<task, now, disk, db, answer, given, reused, kept>>

Tick ==
    /\ now < task.time
    /\ now' = now + 1
    /\ UNCHANGED <<task, disk, rows, cmd, answer, left, history>>

----------------------------------------------------------------------------
Init ==
    /\ task \in Scenarios
    /\ now = 0
    /\ file = [p \in Paths |-> None]
    /\ object = {}
    /\ bytes = [x \in Paths \cup Contents |-> NoBytes]
    /\ db = [rows |-> [p \in Paths |-> NoRow], known |-> {}, pins |-> {}, refs |-> {}]
    /\ draft = db
    /\ writer = None
    /\ cmd = [i \in Procs |-> Idle]
    /\ answer = [p \in Paths |-> None]
    /\ left = [indexes |-> task.indexes, commands |-> task.commands, rewrites |-> task.rewrites,
               stuck |-> task.stuck, deaths |-> task.deaths]
    /\ given = [p \in Paths |-> None]
    /\ reused = {}
    /\ kept = {}
    /\ protected = {}

Next ==
    \/ \E p \in Paths : Arrive(p) \/ Rewrite(p) \/ Find(p) \/ Reuse(p)
    \/ IndexRun \/ Scan
    \/ \E i \in Procs : NextRun(i) \/ IndexDone(i) \/ Dies(i)
    \/ \E i \in Procs, p \in Paths : IndexFile(i, p)
    \/ Cleanup \/ DeleteFile \/ DeleteRow \/ AboveQuota
    \/ Dedupe \/ DedupeGroup \/ DedupeLink \/ DedupeRow \/ DedupeDone
    \/ Quarantine \/ QuarantineFile \/ QuarantineRow \/ QuarantineDone
    \/ PutObject \/ Pin \/ Tick

Spec == Init /\ [][Next]_vars

----------------------------------------------------------------------------
(* Properties.                                                             *)

(* What was pinned, itself or through its run, when a cleanup began is     *)
(* still there when it ends, whatever is indexed meanwhile or was before   *)
(* ("Pinned ... content is not deleted by ordinary cleanup").              *)
PinnedSurvives == \A p \in protected : Exists(p)

(* A file that a run takes from the store is the one its file key stands   *)
(* for: never what a fixture put under that key, never half a download.    *)
ReusedIsGenuine == \A p \in reused : given[p] = task.genuine[task.key[p]]

(* An attachment reads as it did when it arrived until it is deleted:      *)
(* linking and quarantining the files of others never changes it, and a    *)
(* row that says it is gone is right.                                      *)
AttachmentsAreKept ==
    \A p \in Paths : Kind(p) = "raw_media" =>
        /\ Exists(p) => Content(p) = given[p]
        /\ db.rows[p].status \in {"deleted", "quarantined"} => ~Exists(p)

(* The quota never costs more than it has to: while a cleanup deletes for  *)
(* a kind, what the rows of the kind still count does not fall below the   *)
(* quota, rows apart that it found without a file (they count for the      *)
(* quota and not for what was reclaimed) and unless an index was committed *)
(* since the quotas were checked (the check is not repeated).              *)
QuotaIsNotOverdone ==
    LET c == cmd[Operator] IN
    Working("cleanup") /\ c.phase = "quota" /\ db = c.counted =>
        effective_kind_bytes(View(Operator), c.kind) + c.gone >= task.max_bytes[c.kind]
=============================================================================
