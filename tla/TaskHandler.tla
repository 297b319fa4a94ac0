---------------------------- MODULE TaskHandler ----------------------------
(***************************************************************************)
(* TaskHandler: the runs of the Feishu task handler                        *)
(* (tools/feishu_agent_task_handler.mjs), from the message to the reply.   *)
(*                                                                         *)
(* One Node process works on all runs; what a run does between two awaits  *)
(* is one step, and the steps of several runs interleave.  They share the  *)
(* cache of attachments, the index of execution ledgers by conversation    *)
(* and the directories of all runs, whose files outlive a crash.  The      *)
(* document worker is a process of its own that rewrites the state file    *)
(* and the ledger of a run the handler is waiting for or has given up.     *)
(* Publishing, the worker's queue and the pipeline itself have modules of  *)
(* their own; here they are their outcomes.                                *)
(***************************************************************************)
EXTENDS Integers, Sequences, FiniteSets, SequencesExt

CONSTANTS
    Runs,         \* runs of the handler, one for each delivered message
    Scenarios,    \* the messages, the options of the process and the runs that ended
                  \* before the process was started
    Names,        \* names of attachments
    Options,      \* choices a ledger may offer
    Documents,    \* of them, those that ask for a document
    Plan,         \* the items of a new ledger: a sequence of sets of options
    CacheSize,    \* entries the cache keeps (200 in the code)
    MaxAttempts   \* download attempts for one identity

File == [key : Nat \ {0}, name : Names, kind : {"audio", "text"}]
Profiles == {"audio", "document", "answer"}
NoChoice == "none"
Message == [id : Nat \ {0}, sender : Nat, chat : Nat, thread : Nat,
            files : Seq(File), linked : Seq(File), refers : BOOLEAN,
            answers : BOOLEAN, embedded : Seq([file : File, src : Nat]),
            parents : Seq([file : File, src : Nat]),
            profile : Profiles, choice : Options \cup {NoChoice}]
Option == [dry : BOOLEAN, mock : BOOLEAN, docker : BOOLEAN, reviewer : BOOLEAN,
           store : BOOLEAN, silent : BOOLEAN]

(* Bounds: failed calls, crashes of the handler, times the cache grows old.  *)
Bound == [faults : Nat, crashes : Nat, ages : Nat]

ASSUME TaskHandlerAssumption ==
    /\ Scenarios \subseteq [message : [Runs -> Message], options : Option, bound : Bound,
                            earlier : SUBSET Runs]
    /\ NoChoice \notin Options /\ Documents \subseteq Options
    /\ Plan \in Seq(SUBSET Options)
    /\ \A n \in {CacheSize, MaxAttempts} : n \in Nat \ {0}
    /\ IsFiniteSet(Runs) /\ IsFiniteSet(Names)

VARIABLES
    message, options,   \* what arrives, and how the process is configured
    bound,              \* bounds of the scenario
    pc,                 \* where each run stands
    atts,               \* attachments of each run
    results,            \* of them, those that have been resolved
    try,                \* identity and attempt of the download under way
    mem,                \* the run's state as the handler remembers it
    output,             \* status of the agent's output
    published,          \* status of publishing
    choice,             \* ledger item this run's message answered
    cache,              \* .feishu-attachment-cache.json
    index,              \* .execution-ledger-thread-index.json
    ledger,             \* planner-envelope.json of each run
    disk,               \* state.json of each run
    task,               \* runs whose task.json is written
    stored,             \* runs the runtime store has indexed
    files,              \* attachment files of each run's directory
    work,               \* what the worker still has to write for each run
    held,               \* what the worker has read of a run and not yet written back
    answer,             \* the worker's answer in Redis
    clock,              \* events received so far, which are the time stamps
    stamp,              \* time stamp of each event
    cutoff,             \* entries up to it are too old
    late,               \* history: runs whose worker the handler gave up
    wrote,              \* history: state steps the worker has written
    faults, crashes, ages

handler == <<pc, atts, results, try, mem, output, published, choice>>
shared == <<cache, index>>
directory == <<ledger, disk, task, files>>
worker == <<work, held, answer, wrote>>
time == <<clock, stamp, cutoff, ages>>
given == <<message, options, bound>>
vars == <<given, handler, shared, directory, stored, worker, time, late, faults, crashes>>

NoPath == <<>>
Own(m, f) == [file |-> f, src |-> m.id, linked |-> FALSE, path |-> NoPath, status |-> "new"]
Linked(m, f) == [Own(m, f) EXCEPT !.linked = TRUE]
Above(m, f) == [Own(m, f.file) EXCEPT !.src = f.src]

(* The members of a list that are in a set, in their order.                 *)
Only(list, set) ==
    LET kept[n \in 0..Len(list)] ==
            IF n = 0 THEN <<>>
            ELSE IF list[n] \in set THEN Append(kept[n - 1], list[n]) ELSE kept[n - 1]
    IN  kept[Len(list)]

NoLedger == <<>>
NewLedger == [i \in DOMAIN Plan |-> [offers |-> Plan[i], by |-> {}]]
NoState == [steps |-> {}, status |-> "none"]
Scope(m) == <<m.chat, m.thread, m.sender>>

(* A finished download in the run's own directory.                          *)
Fetched(r, m, f) == [Own(m, f) EXCEPT !.path = <<r, f.name>>, !.status = "ready"]
CacheEntry(m, when, as) ==
    [id |-> m.id, chat |-> m.chat, sender |-> m.sender, thread |-> m.thread,
     at |-> when, atts |-> as]

Init ==
    /\ \E x \in Scenarios :
          /\ message = x.message /\ options = x.options /\ bound = x.bound
          /\ pc = [r \in Runs |-> IF r \in x.earlier THEN "done" ELSE "new"]
    /\ LET old == {r \in Runs : pc[r] = "done"}
           ready(r) == [i \in DOMAIN message[r].files |->
                           Fetched(r, message[r], message[r].files[i])]
       IN  /\ atts = [r \in Runs |-> <<>>]
           /\ results = [r \in Runs |-> IF r \in old THEN ready(r) ELSE <<>>]
           /\ files = [r \in Runs |-> [n \in Names |->
                          IF r \in old /\ \E a \in ToSet(results[r]) : a.file.name = n
                            THEN (CHOOSE a \in ToSet(results[r]) : a.file.name = n).file.key
                            ELSE 0]]
           /\ task = old
           /\ stored = {}
           /\ ledger = [r \in Runs |-> IF r \in old THEN NewLedger ELSE NoLedger]
           /\ index = SetToSeq({[scope |-> Scope(message[r]), run |-> r] : r \in old})
    /\ try = [r \in Runs |-> <<1, 0>>]
    /\ mem = [r \in Runs |-> NoState] /\ disk = [r \in Runs |-> NoState]
    /\ output = [r \in Runs |-> "none"] /\ published = [r \in Runs |-> "none"]
    /\ choice = [r \in Runs |-> {}]
    /\ cache = <<>>
    /\ work = [r \in Runs |-> <<>>] /\ held = [r \in Runs |-> <<>>]
    /\ answer = [r \in Runs |-> "none"]
    /\ clock = 0 /\ stamp = [r \in Runs |-> 0] /\ cutoff = 0
    /\ late = {} /\ wrote = [r \in Runs |-> {}]
    /\ faults = 0 /\ crashes = 0 /\ ages = 0

-----------------------------------------------------------------------------
(* A file is its key; 0 is no file, and Remnant is what a failed download   *)
(* left behind.  Only audio is looked into before it is used.               *)
Remnant == -1
At(path) == files[path[1]][path[2]]
ThereIs(content, kind) == content # 0
Sound(content, kind) == content # 0 /\ (kind = "audio" => content # Remnant)
Usable(path, kind) == Sound(At(path), kind)

Fault == faults < bound.faults /\ faults' = faults + 1
NoFault == UNCHANGED faults

(* The state of a run: its steps, by name, and its status.                  *)
AddStep(s, name, status) ==
    [steps |-> s.steps \cup {name},
     status |-> IF status \in {"failed", "blocked", "needs_fix"} THEN status ELSE s.status]

MergeNothing(r) == mem[r]
(* Before a step is reported the handler takes over what the worker wrote,  *)
(* if that is longer than what it remembers.                                *)
Merge(r) == IF Cardinality(disk[r].steps) > Cardinality(mem[r].steps) THEN disk[r] ELSE mem[r]
OnStep(r, name, status) ==
    LET s == Merge(r)
    IN  AddStep(IF status = "running" THEN [s EXCEPT !.status = "running"] ELSE s, name, status)

Keep(r, s) == mem' = [mem EXCEPT ![r] = s] /\ disk' = [disk EXCEPT ![r] = s]

-----------------------------------------------------------------------------
(* The cache of attachments. *)

(* An entry replaces the one of the same message; the newest are kept.      *)
Remember(r, when, all) ==
    LET as == Only(all, {a \in ToSet(all) : ~a.linked \/ a.path # NoPath})
    IN  IF as = <<>> THEN cache
    ELSE LET fresh == Append(Only(cache, {e \in ToSet(cache) : e.id # message[r].id}),
                             CacheEntry(message[r], when, as))
             young == Only(fresh, {e \in ToSet(fresh) : e.at > cutoff})
         IN  SubSeq(young, 1 + (IF Len(young) > CacheSize THEN Len(young) - CacheSize ELSE 0),
                    Len(young))

(* What could be fetched is cached with its file; if nothing could, what    *)
(* failed is cached without.                                                *)
Reusable(a) == a.path # NoPath /\ At(a.path) # 0 /\ a.status \notin {"failed", "skipped"}
Failed(a) == a.status = "failed"
RememberedDownloads(as) ==
    LET obtained == {a \in ToSet(as) : Reusable(a)}
        failed == Only(as, {a \in ToSet(as) : Failed(a)})
    IN  IF obtained # {} THEN Only(as, obtained)
        ELSE [i \in DOMAIN failed |-> [failed[i] EXCEPT !.path = NoPath]]

(* The newest entry of the same sender and chat, unless another thread's.   *)
Cached(r) ==
    LET m == message[r]
        fits == {e \in ToSet(cache) :
                    /\ e.chat = m.chat /\ e.sender = m.sender
                    /\ e.at > cutoff
                    /\ m.thread = 0 \/ e.thread = 0 \/ e.thread = m.thread
                    /\ e.atts # <<>>}
    IN  IF fits = {} THEN <<>>
        ELSE (CHOOSE e \in fits : \A d \in fits : d.at <= e.at).atts

-----------------------------------------------------------------------------
(* The conversation's ledger. *)

(* The ledger of the latest run of the conversation that still has one.     *)
PreviousLedger(r) ==
    LET known == Only(index, {e \in ToSet(index) : e.scope = Scope(message[r])
                                                    /\ ledger[e.run] # NoLedger})
    IN  IF known = <<>> THEN {} ELSE {Head(known).run}

PendingAny(item) == TRUE
Pending(item) == item.by = {}

(* The first item that waits for an answer and offers what was chosen.      *)
Selection(r) ==
    {p \in PreviousLedger(r) \X DOMAIN Plan :
        LET waits(i) == Pending(ledger[p[1]][i]) /\ message[r].choice \in ledger[p[1]][i].offers
        IN  waits(p[2]) /\ \A j \in 1..(p[2] - 1) : ~waits(j)}

Answer(r, s) ==
    ledger' = [q \in Runs |-> [i \in DOMAIN ledger[q] |->
                  IF <<q, i>> \in s THEN [ledger[q][i] EXCEPT !.by = {r}] ELSE ledger[q][i]]]

-----------------------------------------------------------------------------
(* From the message to its attachments. *)

Accepted(r, when, as) ==
    /\ atts' = [atts EXCEPT ![r] = as]
    /\ cache' = Remember(r, when, as)
    /\ Keep(r, AddStep(AddStep([steps |-> {}, status |-> "accepted"], "normalized", "completed"),
                       "cached", "completed"))
    /\ pc' = [pc EXCEPT ![r] = "download"]

Sent(m) == [i \in DOMAIN m.files |-> Own(m, m.files[i])]
             \o [i \in DOMAIN m.linked |-> Linked(m, m.linked[i])]

(* The event's own attachments and links come first; a text that refers to  *)
(* a file means one of the message it answers, or else a recent one.  The   *)
(* choice is written into the ledger before there is a run.                 *)
Start(r) ==
    LET m == message[r] IN
    /\ pc[r] = "new"
    /\ clock' = clock + 1 /\ stamp' = [stamp EXCEPT ![r] = clock + 1]
    /\ choice' = [choice EXCEPT ![r] = Selection(r)]
    /\ Answer(r, Selection(r))
    /\ \/ /\ Sent(m) # <<>> \/ ~m.refers
          /\ Accepted(r, clock + 1, Sent(m))
       \/ /\ Sent(m) = <<>> /\ m.refers /\ m.embedded # <<>>
          /\ Accepted(r, clock + 1, [i \in DOMAIN m.embedded |-> Above(m, m.embedded[i])])
       \/ /\ Sent(m) = <<>> /\ m.refers /\ m.embedded = <<>>
          /\ ~m.answers \/ options.dry
          /\ Accepted(r, clock + 1, Cached(r))
       \/ /\ Sent(m) = <<>> /\ m.refers /\ m.embedded = <<>>
          /\ m.answers /\ ~options.dry
          /\ pc' = [pc EXCEPT ![r] = "parent"]
          /\ UNCHANGED <<atts, cache, mem, disk>>
    /\ UNCHANGED <<given, results, try, output, published, index, task, files, stored, worker,
                   cutoff, ages, late, faults, crashes>>

(* The message it answers is fetched; without a file in it, or when the     *)
(* call fails, the cache is asked.                                          *)
FetchParent(r) ==
    LET m == message[r]
        found == [i \in DOMAIN m.parents |-> Above(m, m.parents[i])]
    IN
    /\ pc[r] = "parent"
    /\ \/ NoFault /\ Accepted(r, stamp[r], IF found # <<>> THEN found ELSE Cached(r))
       \/ Fault /\ Accepted(r, stamp[r], Cached(r))
    /\ UNCHANGED <<given, results, try, output, published, choice, index, ledger, task, files,
                   stored, worker, time, late, crashes>>

-----------------------------------------------------------------------------
(* Obtaining the files, one attachment after the other. *)

Reached(r) == Len(results[r]) + 1
Current(r) == atts[r][Reached(r)]
Downloading(r) == pc[r] = "download" /\ Reached(r) <= Len(atts[r])
Target(r) == <<r, Current(r).file.name>>

Put(path, content) == files' = [files EXCEPT ![path[1]][path[2]] = content]

Resolved(r, status, path) ==
    /\ results' = [results EXCEPT ![r] =
                     Append(@, [Current(r) EXCEPT !.status = status, !.path = path])]
    /\ try' = [try EXCEPT ![r] = <<1, 0>>]

Untouched(r) == UNCHANGED <<given, pc, atts, mem, output, published, choice, cache, index, ledger,
                           disk, task, stored, worker, time, late, crashes>>

(* An attachment that comes with a file: it is linked into the run's own    *)
(* directory, unless something of that name is there.                       *)
HasFile(a) == a.path # NoPath /\ a.status # "failed"
Linkable(r) == LET a == Current(r) IN
    IF a.path[1] = r \/ At(Target(r)) # 0 THEN At(Target(r)) ELSE At(a.path)
UsesItsFile(r) ==
    LET a == Current(r)
    IN  HasFile(a) /\ (At(a.path) = 0 \/ Sound(Linkable(r), a.file.kind))

LinkFile(r) ==
    /\ Downloading(r) /\ try[r] = <<1, 0>> /\ UsesItsFile(r)
    /\ IF At(Current(r).path) = 0
         THEN Resolved(r, "failed", Current(r).path) /\ UNCHANGED files
         ELSE Put(Target(r), Linkable(r)) /\ Resolved(r, "ready", Target(r))
    /\ NoFault /\ Untouched(r)

(* A linked document is fetched as text and, if that fails, exported.       *)
FetchLinked(r) ==
    /\ Downloading(r) /\ try[r] = <<1, 0>> /\ ~UsesItsFile(r) /\ Current(r).linked
    /\ IF options.dry
         THEN Resolved(r, "skipped", Target(r)) /\ NoFault /\ UNCHANGED files
         ELSE \/ Put(Target(r), Current(r).file.key) /\ Resolved(r, "ready", Target(r)) /\ NoFault
              \/ Resolved(r, "failed", Target(r)) /\ Fault /\ UNCHANGED files
    /\ Untouched(r)

(* Files other runs obtained, as the runtime store and the task files of    *)
(* those runs know them.                                                    *)
SourceMatches(a, c) ==
    ~c.linked /\ (c.file.key = a.file.key \/ c.src = a.src \/ c.file.name = a.file.name)
Ready(c, kind) == c.file.kind = kind /\ c.status = "ready" /\ Usable(c.path, kind)
FromStore(r) ==
    {c \in UNION {ToSet(results[q]) : q \in stored} :
        /\ c.file.key = Current(r).file.key /\ c.src = Current(r).src
        /\ c.file.name = Current(r).file.name /\ Ready(c, Current(r).file.kind)}
FromRuns(r) ==
    {c \in UNION {ToSet(results[q]) : q \in task \ {r}} :
        SourceMatches(Current(r), c) /\ Ready(c, Current(r).file.kind)}

(* The store's answer, or no answer of it, and then the run directories.    *)
Found(r, c) ==
    \/ NoFault /\ c \in FromStore(r)
    \/ NoFault /\ FromStore(r) = {} /\ c \in FromRuns(r)
    \/ Fault /\ c \in FromRuns(r)
Missed(r) == FromRuns(r) = {} /\ ((NoFault /\ FromStore(r) = {}) \/ Fault)

(* Before a download: what is at the target already, then what others have. *)
HasTarget(r) == Usable(Target(r), Current(r).file.kind)
Search(r) ==
    /\ Downloading(r) /\ try[r] = <<1, 0>> /\ ~UsesItsFile(r) /\ ~Current(r).linked
    /\ \/ HasTarget(r) /\ Resolved(r, "ready", Target(r)) /\ NoFault /\ UNCHANGED files
       \/ /\ ~HasTarget(r)
          /\ \E c \in FromStore(r) \cup FromRuns(r) :
                Found(r, c) /\ Put(Target(r), At(c.path)) /\ Resolved(r, "ready", Target(r))
       \/ /\ ~HasTarget(r) /\ Missed(r)
          /\ Put(Target(r), 0)
          /\ IF options.dry THEN Resolved(r, "skipped", Target(r))
             ELSE try' = [try EXCEPT ![r] = <<1, 1>>] /\ UNCHANGED results
    /\ Untouched(r)

(* The next attempt: again as the same identity, or as the other one.       *)
NextTry(t, retryable) ==
    IF retryable /\ t[2] < MaxAttempts THEN <<t[1], t[2] + 1>>
    ELSE IF t[1] = 1 THEN <<2, 1>> ELSE <<3, 0>>

(* A download; one that fails may leave a remnant, which passes for the     *)
(* file where nothing looks into it.                                        *)
Fetch(r) ==
    /\ Downloading(r) /\ try[r][2] > 0
    /\ \/ Put(Target(r), Current(r).file.key) /\ Resolved(r, "ready", Target(r)) /\ NoFault
       \/ /\ Fault
          /\ \E left \in {At(Target(r)), Remnant} :
                /\ Put(Target(r), left)
                /\ IF Sound(left, Current(r).file.kind) THEN Resolved(r, "ready", Target(r))
                   ELSE /\ \E retryable \in BOOLEAN :
                              try' = [try EXCEPT ![r] = NextTry(@, retryable)]
                        /\ UNCHANGED results
    /\ Untouched(r)

(* When all attempts have failed, the files of others are asked for again;  *)
(* a remnant at the target keeps them from being used.                      *)
SearchAgain(r) ==
    /\ Downloading(r) /\ try[r] = <<3, 0>>
    /\ \/ /\ At(Target(r)) = 0
          /\ \E c \in FromStore(r) \cup FromRuns(r) :
                Found(r, c) /\ Put(Target(r), At(c.path)) /\ Resolved(r, "ready", Target(r))
       \/ /\ At(Target(r)) # 0 \/ FromRuns(r) \cup FromStore(r) = {}
          /\ Resolved(r, "failed", Target(r)) /\ NoFault /\ UNCHANGED files
    /\ Untouched(r)

(* All are resolved: what was obtained is cached for later messages.        *)
Obtained(r) ==
    LET failed == \E a \in ToSet(results[r]) : Failed(a)
    IN
    /\ pc[r] = "download" /\ Reached(r) > Len(atts[r])
    /\ cache' = Remember(r, stamp[r], RememberedDownloads(results[r]))
    /\ Keep(r, AddStep(AddStep(mem[r], "obtained", IF failed THEN "needs_fix" ELSE "completed"),
                       "remembered", "completed"))
    /\ pc' = [pc EXCEPT ![r] = "contexts"]
    /\ UNCHANGED <<given, atts, results, try, output, published, choice, index, ledger, task,
                   files, stored, worker, time, late, faults, crashes>>

-----------------------------------------------------------------------------
(* What is done with the task. *)

(* A choice that asks for a document makes the task one; any other is       *)
(* answered at once.                                                        *)
Profile(r) ==
    IF choice[r] = {} THEN message[r].profile
    ELSE IF message[r].choice \in Documents THEN "document" ELSE "answer"

(* Audio needs one source that can be read.                                 *)
SourceGate(r) ==
    Profile(r) = "audio" => \E a \in ToSet(results[r]) :
        a.file.kind = "audio" /\ a.path # NoPath /\ Usable(a.path, "audio")

Route(r) ==
    IF ~SourceGate(r) THEN "publish"
    ELSE IF choice[r] # {} /\ Profile(r) = "answer" THEN "answer"
    ELSE IF options.mock THEN "answer"
    ELSE IF Profile(r) = "answer" THEN "primary"
    ELSE IF options.docker /\ Profile(r) = "document" THEN "enqueue" ELSE "pipeline"

(* The file contexts are built, task.json is written, the gate reports.     *)
Classify(r) ==
    /\ pc[r] = "contexts"
    /\ task' = task \cup {r}
    /\ LET s == AddStep(AddStep(mem[r], "contexts", "completed"), "task", "completed")
       IN  Keep(r, AddStep(s, "gate", IF SourceGate(r) THEN "completed" ELSE "blocked"))
    /\ output' = [output EXCEPT ![r] = IF SourceGate(r) THEN @ ELSE "blocked"]
    /\ pc' = [pc EXCEPT ![r] = Route(r)]
    /\ UNCHANGED <<given, atts, results, try, published, choice, cache, index, ledger, files,
                   stored, worker, time, late, faults, crashes>>

(* An answer that is known at once, or the mock.                            *)
AnswerNow(r) ==
    /\ pc[r] = "answer"
    /\ output' = [output EXCEPT ![r] = "completed"]
    /\ Keep(r, AddStep(mem[r], "agent", "completed"))
    /\ pc' = [pc EXCEPT ![r] = "publish"]
    /\ UNCHANGED <<given, atts, results, try, published, choice, shared, ledger, task, files,
                   stored, worker, time, late, faults, crashes>>

(* The Pi agent: asked again as the reviewing model only if it was denied   *)
(* and has left no output.                                                  *)
RunAgent(r) ==
    /\ pc[r] \in {"primary", "review"}
    /\ \/ /\ output' = [output EXCEPT ![r] = "completed"] /\ NoFault
          /\ pc' = [pc EXCEPT ![r] = "publish"]
       \/ /\ pc[r] = "primary" /\ options.reviewer /\ Fault
          /\ pc' = [pc EXCEPT ![r] = "review"] /\ UNCHANGED output
       \/ /\ pc[r] = "review" \/ ~options.reviewer
          /\ output' = [output EXCEPT ![r] = "blocked"] /\ Fault
          /\ pc' = [pc EXCEPT ![r] = "publish"]
    /\ IF pc'[r] = "publish"
         THEN Keep(r, AddStep(mem[r], "agent", output'[r])) ELSE UNCHANGED <<mem, disk>>
    /\ UNCHANGED <<given, atts, results, try, published, choice, shared, ledger, task, files,
                   stored, worker, time, late, crashes>>

(* The pipeline in the handler's own process.                               *)
RunPipeline(r) ==
    /\ pc[r] = "pipeline"
    /\ \E o \in {"completed", "blocked"} :
          /\ output' = [output EXCEPT ![r] = o]
          /\ Keep(r, OnStep(r, "pipeline", o))
    /\ ledger' = [ledger EXCEPT ![r] = NewLedger]
    /\ pc' = [pc EXCEPT ![r] = "publish"]
    /\ UNCHANGED <<given, atts, results, try, published, choice, shared, task, files,
                   stored, worker, time, late, faults, crashes>>

(* What the worker writes of a run: a step, the plan, a change of the       *)
(* ledger, a last step.                                                     *)
WorkUnanswered == <<"started", "plan", "ledger">>
Work == <<"started", "plan", "ledger", "ended">>

(* The job is queued, unless the queue is full or cannot be reached; the    *)
(* push may have taken effect although its answer is lost.                  *)
Enqueue(r) ==
    LET queued == OnStep(r, "enqueued", "running") IN
    /\ pc[r] = "enqueue"
    /\ \/ /\ NoFault /\ Keep(r, queued) /\ work' = [work EXCEPT ![r] = Work]
          /\ pc' = [pc EXCEPT ![r] = "waiting"] /\ UNCHANGED <<output, late>>
       \/ /\ Fault /\ UNCHANGED <<mem, disk, work, late>>
          /\ output' = [output EXCEPT ![r] = "blocked"] /\ pc' = [pc EXCEPT ![r] = "publish"]
       \/ /\ Fault /\ Keep(r, queued)
          /\ \/ UNCHANGED <<work, late>>
             \/ work' = [work EXCEPT ![r] = Work] /\ late' = late \cup {r}
          /\ output' = [output EXCEPT ![r] = "blocked"] /\ pc' = [pc EXCEPT ![r] = "publish"]
    /\ UNCHANGED <<given, atts, results, try, published, choice, shared, ledger, task, files,
                   stored, held, answer, wrote, time, crashes>>

TakeAnswer(r) ==
    /\ pc[r] = "waiting" /\ answer[r] # "none"
    /\ output' = [output EXCEPT ![r] = answer[r]]
    /\ Keep(r, OnStep(r, "answered", answer[r]))
    /\ pc' = [pc EXCEPT ![r] = "publish"]
    /\ UNCHANGED <<given, atts, results, try, published, choice, shared, ledger, task, files,
                   stored, worker, time, late, faults, crashes>>

GiveUp(r) ==
    /\ pc[r] = "waiting" /\ answer[r] = "none" /\ Fault
    /\ output' = [output EXCEPT ![r] = "blocked"]
    /\ late' = late \cup {r}
    /\ pc' = [pc EXCEPT ![r] = "publish"]
    /\ UNCHANGED <<given, atts, results, try, mem, published, choice, shared, directory,
                   stored, worker, time, crashes>>

(* The worker reads a file, and writes it back changed a moment later.      *)
WorkerReads(r) ==
    /\ work[r] # <<>> /\ Head(work[r]) # "plan" /\ held[r] = <<>>
    /\ held' = [held EXCEPT ![r] = IF Head(work[r]) = "ledger" THEN <<ledger[r]>> ELSE <<disk[r]>>]
    /\ UNCHANGED <<given, handler, shared, directory, stored, work, answer, wrote, time, late,
                   faults, crashes>>

WorkerWrites(r) ==
    /\ work[r] # <<>>
    /\ Head(work[r]) = "plan" \/ held[r] # <<>>
    /\ work' = [work EXCEPT ![r] = Tail(@)] /\ held' = [held EXCEPT ![r] = <<>>]
    /\ \/ /\ Head(work[r]) = "plan" /\ ledger' = [ledger EXCEPT ![r] = NewLedger]
          /\ UNCHANGED <<disk, answer, wrote>>
       \/ /\ Head(work[r]) = "ledger" /\ ledger' = [ledger EXCEPT ![r] = Head(held[r])]
          /\ UNCHANGED <<disk, answer, wrote>>
       \/ /\ Head(work[r]) \in {"started", "ended"}
          /\ \E o \in {"completed", "blocked"} :
                /\ disk' = [disk EXCEPT ![r] = AddStep(Head(held[r]), Head(work[r]),
                                IF Head(work[r]) = "ended" THEN o ELSE "running")]
                /\ answer' = [answer EXCEPT ![r] = IF Head(work[r]) = "ended" THEN o ELSE @]
          /\ wrote' = [wrote EXCEPT ![r] = @ \cup {Head(work[r])}]
          /\ UNCHANGED ledger
    /\ UNCHANGED <<given, handler, shared, task, files, stored, time, late, faults, crashes>>

-----------------------------------------------------------------------------
(* The end of a run. *)

Publish(r) ==
    /\ pc[r] = "publish"
    /\ \E p \in {"published", "skipped", "blocked"} :
          /\ output[r] = "blocked" => p # "published"
          /\ published' = [published EXCEPT ![r] = p]
          /\ Keep(r, AddStep(mem[r], "published", IF p = "blocked" THEN p ELSE "completed"))
    /\ pc' = [pc EXCEPT ![r] = "reply"]
    /\ UNCHANGED <<given, atts, results, try, output, choice, shared, ledger, task, files,
                   stored, worker, time, late, faults, crashes>>

FinalStatus(r) ==
    IF output[r] = "blocked" \/ published[r] = "blocked" THEN "blocked" ELSE "completed"

(* A run with a ledger becomes the conversation's latest.                   *)
Indexed(r) ==
    IF ledger[r] = NoLedger THEN index
    ELSE <<[scope |-> Scope(message[r]), run |-> r]>>
           \o Only(index, {e \in ToSet(index) : e.scope # Scope(message[r]) /\ e.run # r})

(* The reply is sent (as plain text if need be), fails or is left out; the  *)
(* status of the run no longer depends on it.                               *)
Reply(r) ==
    /\ pc[r] = "reply"
    /\ \E reply \in {"completed", "failed"} :
          /\ IF reply = "failed" THEN ~options.silent /\ Fault ELSE NoFault
          /\ Keep(r, [AddStep(mem[r], "reply", reply) EXCEPT !.status = FinalStatus(r),
                                                              !.steps = @ \cup {"indexed"}])
    /\ index' = Indexed(r)
    /\ pc' = [pc EXCEPT ![r] = "store"]
    /\ UNCHANGED <<given, atts, results, try, output, published, choice, cache, ledger, task,
                   files, stored, worker, time, late, crashes>>

IndexRun(r) ==
    /\ pc[r] = "store"
    /\ \/ NoFault /\ stored' = IF options.store /\ ~options.dry THEN stored \cup {r} ELSE stored
       \/ options.store /\ ~options.dry /\ Fault /\ UNCHANGED stored
    /\ Keep(r, AddStep(mem[r], "stored", "completed"))
    /\ pc' = [pc EXCEPT ![r] = "done"]
    /\ UNCHANGED <<given, atts, results, try, output, published, choice, shared, ledger, task,
                   files, worker, time, late, crashes>>

-----------------------------------------------------------------------------
(* The environment. *)

Active(r) == pc[r] \notin {"new", "done", "lost"}

Crash ==
    /\ crashes < bound.crashes /\ crashes' = crashes + 1
    /\ \E r \in Runs : Active(r)
    /\ pc' = [r \in Runs |-> IF Active(r) THEN "lost" ELSE pc[r]]
    /\ late' = late \cup {r \in Runs : Active(r)}
    /\ UNCHANGED <<given, atts, results, try, mem, output, published, choice, shared, directory,
                   stored, worker, time, faults>>

(* More than thirty minutes without a message.                              *)
TimePasses ==
    /\ cache # <<>> /\ ages < bound.ages /\ ages' = ages + 1
    /\ cutoff' = clock
    /\ UNCHANGED <<given, handler, shared, directory, stored, worker, clock, stamp, late,
                   faults, crashes>>

(* The retention of the runtime store takes a file of a run that ended.     *)
CleanUp(q, n) ==
    /\ pc[q] \in {"done", "lost"} /\ files[q][n] # 0 /\ Fault
    /\ Put(<<q, n>>, 0)
    /\ UNCHANGED <<given, handler, shared, ledger, disk, task, stored, worker, time, late, crashes>>

Handle(r) ==
    \/ FetchParent(r)
    \/ LinkFile(r) \/ FetchLinked(r) \/ Search(r) \/ Fetch(r) \/ SearchAgain(r) \/ Obtained(r)
    \/ Classify(r) \/ AnswerNow(r) \/ RunAgent(r) \/ RunPipeline(r)
    \/ Enqueue(r) \/ TakeAnswer(r) \/ GiveUp(r)
    \/ Publish(r) \/ Reply(r) \/ IndexRun(r)
Worker(r) == WorkerReads(r) \/ WorkerWrites(r)

Next ==
    \/ \E r \in Runs : Start(r) \/ Handle(r) \/ Worker(r)
    \/ Crash \/ TimePasses
    \/ \E q \in Runs, n \in Names : CleanUp(q, n)

(* Node goes on with a run when its call returns, and every call returns:   *)
(* each has a time limit.  The worker works as long as there is work.       *)
Fairness == \A r \in Runs : WF_vars(Handle(r)) /\ WF_vars(Worker(r))
Spec == Init /\ [][Next]_vars /\ Fairness

-----------------------------------------------------------------------------
(* Properties. *)

(* What the messages bring, directly or by one they answer.                 *)
Brought(m) ==
    {[file |-> f, src |-> m.id, linked |-> FALSE] : f \in ToSet(m.files)}
      \cup {[file |-> f, src |-> m.id, linked |-> TRUE] : f \in ToSet(m.linked)}
      \cup {[file |-> f.file, src |-> f.src, linked |-> FALSE] :
                f \in ToSet(m.embedded) \cup ToSet(m.parents)}
AllBrought == UNION {Brought(message[r]) : r \in Runs}

(* The search for files goes by key, by message or by name.  A key cannot   *)
(* be mistaken if no other file has the name or the message of one with it. *)
ToldApart(key) ==
    \A b, c \in AllBrought :
        b.file.key = key /\ (b.file.name = c.file.name \/ (~b.linked /\ ~c.linked /\ b.src = c.src))
            => c.file.key = key /\ c.file.kind = b.file.kind

(* A run works on the file that was sent: whatever an attachment was        *)
(* obtained from - its own download, the cache, another run's directory -   *)
(* its file holds what its key stands for, unless that cannot be told from  *)
(* another.  For text alone it may be what a failed download left.          *)
HoldsItsFile ==
    \A r \in Runs : \A a \in ToSet(results[r]) :
        a.status = "ready" =>
            \/ At(a.path) \in {0, a.file.key} \cup (IF a.file.kind = "audio" THEN {} ELSE {Remnant})
            \/ ~ToldApart(a.file.key)

(* The state file of a run that ended tells all of it, the worker's steps   *)
(* and the handler's, and how it ended, unless its worker was given up and  *)
(* may still write.                                                         *)
StateIsComplete ==
    \A r \in Runs : pc[r] = "done" /\ stamp[r] > 0 /\ r \notin late =>
        /\ wrote[r] \cup {"normalized", "obtained", "task", "gate", "published", "reply"}
             \subseteq disk[r].steps
        /\ disk[r].status = FinalStatus(r)

(* What a message chose stays chosen: a later message or a worker that is   *)
(* still at it does not take the answer back, except a worker given up.     *)
AnswersStay ==
    [][\A q \in Runs \ late : \A i \in DOMAIN ledger[q] :
          ledger[q][i].by # {} => i \in DOMAIN ledger'[q] /\ ledger'[q][i].by = ledger[q][i].by]_vars

(* Every run that was started ends, in "done" or with its process.          *)
RunsEnd == \A r \in Runs : Active(r) ~> pc[r] \in {"done", "lost"}
=============================================================================
