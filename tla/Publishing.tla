----------------------------- MODULE Publishing -----------------------------
(***************************************************************************)
(* Publishing: runs of the task handler that write their documents to the  *)
(* Feishu wiki or, when that fails, to a Drive folder of the project       *)
(* (publishResults in tools/feishu_agent_task_handler.mjs,                 *)
(* publishDocumentsToWiki in tools/feishu_wiki_publish_helpers.mjs), and   *)
(* the command that reorganises what was published                         *)
(* (tools/feishu_publish_organize_cli.mjs), a process of its own.          *)
(*                                                                         *)
(* All share two registry files, which each reads once and afterwards      *)
(* rewrites whole from what it remembers.  Every lark-cli call is awaited; *)
(* what a process does between two calls is one step, taken with the       *)
(* answer of the earlier call.  A call may fail, or take effect while its  *)
(* answer is lost in the timeout.                                          *)
(***************************************************************************)
EXTENDS Naturals, Sequences, FiniteSets, SequencesExt

CONSTANTS
    Runs,         \* runs of the handler that reach publishing
    Projects,     \* project keys of the taxonomy
    Types,        \* document types; each has its category node
    Scenarios,    \* what the runs may bring, under which publishing options, and a
                  \* bound on the invocations of the reorganising command
    Organizer,    \* the reorganising command
    MaxSpaces,    \* bound: wiki spaces that can be created
    MaxFaults     \* bound: failed calls and lost answers

Prompts == {"plain", "publish", "modify", "destructive"}
Input == [docs : Seq(Types), direct : BOOLEAN, qa : BOOLEAN, policy : {"pass", "blocked", "other"},
          prompt : Prompts, token : BOOLEAN, project : Projects]
Option == [target : {"auto", "wiki", "drive"}, mode : {"live", "dry-run"}]

ASSUME PublishingAssumption ==
    /\ Scenarios \subseteq [input : [Runs -> Input], options : Option, applies : Nat]
    /\ \A x \in Scenarios : \A r \in Runs : \A i, j \in DOMAIN x.input[r].docs :
          x.input[r].docs[i] = x.input[r].docs[j] => i = j
    /\ Organizer \notin Runs
    /\ MaxSpaces \in Nat /\ MaxFaults \in Nat
    /\ IsFiniteSet(Runs) /\ IsFiniteSet(Projects) /\ IsFiniteSet(Types)

VARIABLES
    input,      \* what each run brings
    options,    \* options of the handler process
    pc,         \* where each process stands
    mem,        \* the registries as each process remembers them
    space,      \* wiki space each process works in; 0 is the user's own library
    folder,     \* Drive folder of each run; 0 is the default folder
    at,         \* document each run has reached
    doc,        \* Drive document just created, about to be moved into the wiki
    wikiPub,    \* wiki-publish.json: documents the wiki attempt recorded
    pub,        \* publish.json
    org,        \* the command: does it see the local files, and its work list
    applies,    \* invocations of the command that may still come
    wikiReg,    \* feishu-wiki-target-registry.json
    driveReg,   \* feishu-publish-targets.json
    spaces,     \* wiki spaces with the product's name
    nodes,      \* wiki nodes ever created
    folders,    \* Drive folders ever created
    docs,       \* documents ever created, and the files users asked to overwrite
    faults,     \* faults so far
    overlap     \* history: a process began while another was under way

Procs == Runs \cup {Organizer}
memory == <<mem, space, folder, at, doc>>
records == <<wikiPub, pub>>
registries == <<wikiReg, driveReg>>
feishu == <<spaces, nodes, folders, docs>>
command == <<org, applies>>
vars == <<input, options, pc, memory, records, command, registries, feishu, faults, overlap>>

(* Keys of wiki nodes in the registry. *)
RootKey == <<"root">>
ProjectKey(p) == <<"project", p>>
CategoryKey(p, t) == <<"category", p, t>>
Keys == {RootKey} \cup {ProjectKey(p) : p \in Projects}
          \cup {CategoryKey(p, t) : p \in Projects, t \in Types}

NoNode == [token |-> 0, space |-> 0]
EmptyWiki == [space |-> 0, nodes |-> [k \in Keys |-> NoNode], docs |-> {}]
EmptyDrive == [p \in Projects |-> 0]
EmptyMem == [wiki |-> EmptyWiki, drive |-> EmptyDrive]
NoPub == [status |-> "none", docs |-> <<>>, fallback |-> FALSE]
Idle == [local |-> FALSE, work |-> <<>>]

Init ==
    /\ \E x \in Scenarios : input = x.input /\ options = x.options /\ applies = x.applies
    /\ pc = [q \in Procs |-> "start"]
    /\ mem = [q \in Procs |-> EmptyMem]
    /\ space = [q \in Procs |-> 0]
    /\ folder = [r \in Runs |-> 0]
    /\ at = [r \in Runs |-> 1]
    /\ doc = [q \in Procs |-> 0]
    /\ wikiPub = [r \in Runs |-> <<>>]
    /\ pub = [r \in Runs |-> NoPub]
    /\ org = Idle
    /\ wikiReg = EmptyWiki /\ driveReg = EmptyDrive
    /\ spaces = 0 /\ nodes = <<>> /\ folders = <<>>
    /\ docs = SetToSeq({[run |-> r, i |-> 0, place |-> "user", node |-> 0, by |-> "user"] :
                           r \in {x \in Runs : input[x].token}})
    /\ faults = 0 /\ overlap = FALSE

-----------------------------------------------------------------------------
(* The gates. *)

(* The request itself permits the write the policy gate did not pass.       *)
UserWriteAllowed(x) ==
    /\ x.prompt # "destructive"
    /\ x.docs # <<>> \/ x.prompt \in {"publish", "modify"}

PolicyPass(x) == x.policy = "pass" \/ (x.policy # "blocked" /\ UserWriteAllowed(x))

Overwrites(x) == x.token /\ x.prompt = "modify"
ToWiki(r) == ~Overwrites(input[r]) /\ options.target \in {"auto", "wiki"}

(* A call is made and answered ("ok"), fails, or takes effect unheard.      *)
Outcomes == {"ok", "fail", "lost"}
Charge(o) ==
    /\ o # "ok" => faults < MaxFaults
    /\ faults' = IF o = "ok" THEN faults ELSE faults + 1

Put(f, q, v) == [f EXCEPT ![q] = v]
Record(r, status, list, fallback) ==
    pub' = Put(pub, r, [status |-> status, docs |-> list, fallback |-> fallback])

(* What is remembered goes when a process ends. *)
Forget(q) ==
    /\ pc' = Put(pc, q, "done")
    /\ mem' = Put(mem, q, EmptyMem)
    /\ space' = Put(space, q, 0)
    /\ doc' = Put(doc, q, 0)
Reset(r) == folder' = Put(folder, r, 0) /\ at' = Put(at, r, 1)

Busy(q) == pc[q] \notin {"start", "done"}
NoteOverlap(q) == overlap' = (overlap \/ \E other \in Procs \ {q} : Busy(other))

(* The Drive registry is read; a known folder is used, and its entry        *)
(* rewritten, before anything is awaited.                                  *)
EnterDrive(r) ==
    LET known == driveReg[input[r].project] IN
    /\ mem' = Put(mem, r, [EmptyMem EXCEPT !.drive = driveReg])
    /\ folder' = Put(folder, r, known)
    /\ pc' = Put(pc, r, IF known = 0 THEN "folder" ELSE "driveDoc")
    /\ at' = Put(at, r, 1)
    /\ space' = Put(space, r, 0) /\ doc' = Put(doc, r, 0)

(* publishResults up to its first call. *)
Begin(r) ==
    LET x == input[r]
        verdict == IF x.docs = <<>> /\ x.direct THEN "skipped"
                   ELSE IF ~x.qa \/ (~PolicyPass(x) /\ options.mode = "live") THEN "blocked"
                   ELSE IF x.docs = <<>> THEN "skipped"
                   ELSE IF options.mode # "live" THEN "dry_run" ELSE "none"
    IN /\ pc[r] = "start"
       /\ \/ /\ verdict # "none"
             /\ Record(r, verdict, <<>>, FALSE)
             /\ Forget(r) /\ UNCHANGED <<folder, at, overlap>>
          \/ /\ verdict = "none" /\ ToWiki(r)
             /\ pc' = Put(pc, r, "listSpaces")
             /\ NoteOverlap(r)
             /\ UNCHANGED <<memory, pub>>
          \/ /\ verdict = "none" /\ ~ToWiki(r)
             /\ EnterDrive(r)
             /\ NoteOverlap(r)
             /\ UNCHANGED pub
       /\ UNCHANGED <<input, options, wikiPub, command, registries, feishu, faults>>

-----------------------------------------------------------------------------
(* The wiki. *)

PlannedNodes(x, s) ==
    (IF s = 0 THEN <<RootKey>> ELSE <<>>) \o <<ProjectKey(x.project)>>
       \o [i \in DOMAIN x.docs |-> CategoryKey(x.project, x.docs[i])]
(* Positions of the planned nodes a registry has no token for; the first of *)
(* them is created next.                                                   *)
Missing(x, s, wiki) ==
    {n \in DOMAIN PlannedNodes(x, s) : wiki.nodes[PlannedNodes(x, s)[n]].token = 0}
NextNode(x, s, wiki) == PlannedNodes(x, s)[Min(Missing(x, s, wiki))]
ParentToken(k, s, wiki) ==
    IF k[1] = "category" THEN wiki.nodes[ProjectKey(k[2])].token
    ELSE IF k[1] = "project" /\ s = 0 THEN wiki.nodes[RootKey].token
    ELSE 0

WikiFailedUnrecorded(r, list) ==
    IF options.target = "wiki"
    THEN Record(r, "blocked", list, FALSE) /\ Forget(r) /\ Reset(r) /\ UNCHANGED wikiPub
    ELSE EnterDrive(r) /\ UNCHANGED <<pub, wikiPub>>

(* The wiki attempt ended with nothing more to try there: the run is       *)
(* blocked, or goes on in the Drive.                                       *)
WikiFailed(r, list) ==
    /\ wikiPub' = Put(wikiPub, r, list)
    /\ IF options.target = "wiki"
       THEN Record(r, "blocked", list, FALSE) /\ Forget(r) /\ Reset(r)
       ELSE EnterDrive(r) /\ UNCHANGED pub

(* ensureProjectWikiSpace: a failed listing counts as an empty one.         *)
ListSpaces(r) ==
    /\ pc[r] = "listSpaces"
    /\ \E o \in {"ok", "fail"} :
          /\ Charge(o)
          /\ \/ /\ o = "ok"
                /\ \E s \in 1..spaces : space' = Put(space, r, s)
                /\ pc' = Put(pc, r, "checkSpace")
                /\ mem' = [mem EXCEPT ![r].wiki = wikiReg]
             \/ /\ o = "ok" => spaces = 0
                /\ pc' = Put(pc, r, "createSpace")
                /\ UNCHANGED <<space, mem>>
    /\ UNCHANGED <<input, options, folder, at, doc, records, command, registries, feishu, overlap>>

CreateSpace(r) ==
    /\ pc[r] = "createSpace"
    /\ \E o \in Outcomes :
          /\ Charge(o)
          /\ o # "fail" => spaces < MaxSpaces
          /\ spaces' = IF o = "fail" THEN spaces ELSE spaces + 1
          /\ space' = Put(space, r, IF o = "ok" THEN spaces + 1 ELSE 0)
    /\ pc' = Put(pc, r, "checkSpace")
    /\ mem' = [mem EXCEPT ![r].wiki = wikiReg]
    /\ UNCHANGED <<input, options, folder, at, doc, records, command, registries, nodes, folders,
                   docs, overlap>>

AfterNodes(r, wiki) ==
    IF Missing(input[r], space[r], wiki) = {} THEN "wikiDoc" ELSE "wikiNode"

(* The space list is read again, only to see whether the wiki answers.      *)
CheckSpace(r) ==
    /\ pc[r] = "checkSpace"
    /\ \E o \in {"ok", "fail"} :
          /\ Charge(o)
          /\ \/ /\ o = "ok" \/ space[r] = 0
                /\ UNCHANGED <<mem, space, folder, at, doc, records>>
                /\ pc' = Put(pc, r, AfterNodes(r, mem[r].wiki))
             \/ /\ o = "fail" /\ space[r] # 0
                /\ WikiFailed(r, wikiPub[r])
    /\ UNCHANGED <<input, options, command, registries, feishu, overlap>>

(* A node is created below its parent, or at the top of the space, and the *)
(* remembered registry, with the new token in it, replaces the file.       *)
NewNode(k, s, parent, by) ==
    [key |-> k, by |-> by, space |-> IF parent = 0 THEN s ELSE nodes[parent].space]

CreateNode(r) ==
    /\ pc[r] = "wikiNode"
    /\ LET k == NextNode(input[r], space[r], mem[r].wiki)
           node == NewNode(k, space[r], ParentToken(k, space[r], mem[r].wiki), "handler")
       IN \E o \in Outcomes :
          /\ Charge(o)
          /\ nodes' = IF o = "fail" THEN nodes ELSE Append(nodes, node)
          /\ \/ /\ o = "ok"
                /\ wikiReg' = [mem[r].wiki EXCEPT !.nodes[k] = [token |-> Len(nodes) + 1, space |-> 0]]
                /\ mem' = [mem EXCEPT ![r].wiki = wikiReg']
                /\ UNCHANGED <<space, folder, at, doc, records>>
                /\ pc' = Put(pc, r, AfterNodes(r, wikiReg'))
             \/ /\ o # "ok"
                /\ WikiFailed(r, wikiPub[r])
                /\ UNCHANGED wikiReg
    /\ UNCHANGED <<input, options, command, driveReg, spaces, folders, docs, overlap>>

NewDoc(r, i, place, node, by) == [run |-> r, i |-> i, place |-> place, node |-> node, by |-> by]
Listed(i, status, token) == [i |-> i, status |-> status, token |-> token]

(* A document is created in the Drive first, and moved into the wiki by a  *)
(* second call.                                                            *)
CreateWikiDoc(r) ==
    /\ pc[r] = "wikiDoc"
    /\ \E o \in Outcomes :
          /\ Charge(o)
          /\ docs' = IF o = "fail" THEN docs
                     ELSE Append(docs, NewDoc(r, at[r], "loose", 0, "handler"))
          /\ \/ /\ o = "ok"
                /\ doc' = Put(doc, r, Len(docs) + 1)
                /\ pc' = Put(pc, r, "wikiMove")
                /\ UNCHANGED <<mem, space, folder, at, records>>
             \/ /\ o # "ok"
                /\ WikiFailed(r, Append(wikiPub[r], Listed(at[r], "failed", 0)))
    /\ UNCHANGED <<input, options, command, registries, spaces, nodes, folders, overlap>>

DestinationOfFirst(r) ==
    mem[r].wiki.nodes[CategoryKey(input[r].project, input[r].docs[1])].token
Destination(r) ==
    mem[r].wiki.nodes[CategoryKey(input[r].project, input[r].docs[at[r]])].token
MoveTo(d, node) == [docs EXCEPT ![d].place = "wiki", ![d].node = node]

(* The registry notes the document whether or not it could be moved.        *)
MoveWikiDoc(r) ==
    /\ pc[r] = "wikiMove"
    /\ LET x == input[r]
           noted == [mem[r].wiki EXCEPT
                        !.docs = @ \cup {[run |-> r, type |-> x.docs[at[r]], space |-> 0]}]
       IN \E o \in Outcomes :
          /\ Charge(o)
          /\ docs' = IF o = "fail" THEN docs ELSE MoveTo(doc[r], Destination(r))
          /\ wikiReg' = noted
          /\ LET list == Append(wikiPub[r], Listed(at[r], IF o = "ok" THEN "published" ELSE "failed", doc[r]))
             IN \/ /\ o = "ok" /\ at[r] < Len(x.docs)
                   /\ mem' = [mem EXCEPT ![r].wiki = noted]
                   /\ at' = Put(at, r, at[r] + 1)
                   /\ doc' = Put(doc, r, 0)
                   /\ pc' = Put(pc, r, "wikiDoc")
                   /\ wikiPub' = Put(wikiPub, r, list)
                   /\ UNCHANGED <<space, folder, pub>>
                \/ /\ o = "ok" /\ at[r] = Len(x.docs)
                   /\ wikiPub' = Put(wikiPub, r, list)
                   /\ Record(r, "published", list, FALSE)
                   /\ Forget(r) /\ Reset(r)
                \/ /\ o # "ok"
                   /\ WikiFailed(r, list)
    /\ UNCHANGED <<input, options, command, driveReg, spaces, nodes, folders, overlap>>

-----------------------------------------------------------------------------
(* The Drive. *)

(* A folder that cannot be created is replaced by the default one, which   *)
(* the registry does not learn.                                            *)
CreateFolder(r) ==
    LET p == input[r].project IN
    /\ pc[r] = "folder"
    /\ \E o \in Outcomes :
          /\ Charge(o)
          /\ folders' = IF o = "fail" THEN folders ELSE Append(folders, p)
          /\ \/ /\ o = "ok"
                /\ folder' = Put(folder, r, Len(folders) + 1)
                /\ driveReg' = [mem[r].drive EXCEPT ![p] = Len(folders) + 1]
             \/ /\ o # "ok"
                /\ folder' = Put(folder, r, 0)
                /\ UNCHANGED driveReg
    /\ pc' = Put(pc, r, "driveDoc")
    /\ UNCHANGED <<input, options, mem, space, at, doc, records, command, wikiReg, spaces, nodes,
                   docs, overlap>>

UserFile(r) == CHOOSE d \in DOMAIN docs : docs[d].run = r /\ docs[d].by = "user"

VerdictAny(list) ==
    IF \A n \in DOMAIN list : list[n].status = "failed" THEN "blocked" ELSE "published"
Verdict(list) ==
    IF \E n \in DOMAIN list : list[n].status = "failed" THEN "blocked" ELSE "published"

(* A failed document does not stop the ones after it.                       *)
WriteDriveDoc(r) ==
    /\ pc[r] = "driveDoc"
    /\ LET x == input[r]
           new == NewDoc(r, at[r], "drive", folder[r], "handler")
           done == IF Overwrites(x) THEN "overwritten" ELSE "published"
           token == IF Overwrites(x) THEN UserFile(r) ELSE Len(docs) + 1
       IN \E o \in Outcomes :
          /\ Charge(o)
          /\ docs' = IF o = "fail" THEN docs
                     ELSE IF Overwrites(x) THEN [docs EXCEPT ![UserFile(r)].i = at[r]]
                     ELSE Append(docs, new)
          /\ LET list == Append(pub[r].docs,
                                IF o = "ok" THEN Listed(at[r], done, token) ELSE Listed(at[r], "failed", 0))
             IN \/ /\ at[r] < Len(x.docs)
                   /\ Record(r, "none", list, ToWiki(r))
                   /\ at' = Put(at, r, at[r] + 1)
                   /\ UNCHANGED <<pc, mem, space, folder, doc>>
                \/ /\ at[r] = Len(x.docs)
                   /\ Record(r, Verdict(list), list, ToWiki(r))
                   /\ Forget(r) /\ Reset(r)
    /\ UNCHANGED <<input, options, wikiPub, command, registries, spaces, nodes, folders, overlap>>

-----------------------------------------------------------------------------
(* The reorganising command. *)

(* Runs whose publish.json names a document that exists in Feishu; others   *)
(* are left to manual review.                                              *)
Inventory == {r \in Runs : pub[r].status # "none" /\ \E n \in DOMAIN pub[r].docs : pub[r].docs[n].token # 0}
TypeAt(r, n) == input[r].docs[pub[r].docs[n].i]
TypesIn(p) == UNION {{TypeAt(r, n) : n \in DOMAIN pub[r].docs} : r \in {x \in Inventory : input[x].project = p}}
DriveTarget(r) == ~ToWiki(r) \/ pub[r].fallback

WorkOfRun(r) == <<[kind |-> "map", run |-> r]>>
                   \o [n \in DOMAIN pub[r].docs |-> [kind |-> "doc", run |-> r, n |-> n]]
WorkOfProject(p) ==
    <<[kind |-> "node", key |-> ProjectKey(p)]>>
      \o [n \in 1..Cardinality(TypesIn(p)) |->
             [kind |-> "node", key |-> CategoryKey(p, SetToSeq(TypesIn(p))[n])]]
      \o <<[kind |-> "folder", project |-> p]>>
      \o FlattenSeq([n \in 1..Cardinality({r \in Inventory : input[r].project = p}) |->
                        WorkOfRun(SetToSeq({r \in Inventory : input[r].project = p})[n])])
Plan ==
    LET ps == SetToSeq({input[r].project : r \in Inventory})
    IN FlattenSeq([n \in DOMAIN ps |-> WorkOfProject(ps[n])])

Memo == mem[Organizer]
Task == Head(org.work)
Doing(kind) == pc[Organizer] = "work" /\ org.work # <<>> /\ Task.kind = kind
NextTaskSame == org' = org
NextTask == org' = [org EXCEPT !.work = Tail(@)]
(* A remembered node counts only if it was made in the command's space.     *)
TokenHere(k) ==
    IF Memo.wiki.nodes[k].space = space[Organizer] THEN Memo.wiki.nodes[k].token ELSE 0
SaveWiki(wiki) == wikiReg' = wiki /\ mem' = [mem EXCEPT ![Organizer].wiki = wiki]
SaveDriveInMemory(drive) == UNCHANGED driveReg /\ mem' = [mem EXCEPT ![Organizer].drive = drive]
SaveDrive(drive) == driveReg' = drive /\ mem' = [mem EXCEPT ![Organizer].drive = drive]

OrgStart ==
    /\ pc[Organizer] \in {"start", "done"} /\ applies > 0
    /\ applies' = applies - 1
    /\ \E local \in BOOLEAN : org' = [local |-> local, work |-> Plan]
    /\ mem' = Put(mem, Organizer, [wiki |-> wikiReg, drive |-> driveReg])
    /\ space' = Put(space, Organizer, wikiReg.space)
    /\ pc' = Put(pc, Organizer, IF wikiReg.space # 0 THEN "work" ELSE "listSpaces")
    /\ NoteOverlap(Organizer)
    /\ UNCHANGED <<input, options, folder, at, doc, records, registries, feishu, faults>>

OrgListSpaces ==
    /\ pc[Organizer] = "listSpaces"
    /\ \E o \in {"ok", "fail"} :
          /\ Charge(o)
          /\ \/ /\ o = "ok"
                /\ \E s \in 1..spaces :
                      space' = Put(space, Organizer, s) /\ SaveWiki([Memo.wiki EXCEPT !.space = s])
                /\ pc' = Put(pc, Organizer, "work")
             \/ /\ o = "ok" => spaces = 0
                /\ pc' = Put(pc, Organizer, "createSpace")
                /\ UNCHANGED <<space, mem, wikiReg>>
    /\ UNCHANGED <<input, options, folder, at, doc, records, command, driveReg, feishu, overlap>>

OrgCreateSpace ==
    /\ pc[Organizer] = "createSpace"
    /\ \E o \in Outcomes :
          /\ Charge(o)
          /\ o # "fail" => spaces < MaxSpaces
          /\ spaces' = IF o = "fail" THEN spaces ELSE spaces + 1
          /\ \/ /\ o = "ok"
                /\ space' = Put(space, Organizer, spaces + 1)
                /\ SaveWiki([Memo.wiki EXCEPT !.space = spaces + 1])
                /\ pc' = Put(pc, Organizer, "work")
                /\ UNCHANGED <<doc, org>>
             \/ /\ o # "ok"
                /\ Forget(Organizer) /\ org' = Idle
                /\ UNCHANGED wikiReg
    /\ UNCHANGED <<input, options, folder, at, records, applies, driveReg, nodes, folders, docs,
                   overlap>>

OrgNode ==
    /\ Doing("node") /\ NextTask
    /\ LET k == Task.key
           parent == IF k[1] = "category" THEN TokenHere(ProjectKey(k[2])) ELSE 0
           node == NewNode(k, space[Organizer], parent, "organizer")
       IN \/ /\ TokenHere(k) # 0
             /\ UNCHANGED <<nodes, mem, wikiReg, faults>>
          \/ /\ TokenHere(k) = 0
             /\ \E o \in Outcomes :
                   /\ Charge(o)
                   /\ nodes' = IF o = "fail" THEN nodes ELSE Append(nodes, node)
                   /\ IF o = "ok"
                      THEN SaveWiki([Memo.wiki EXCEPT
                              !.nodes[k] = [token |-> Len(nodes) + 1, space |-> space[Organizer]]])
                      ELSE UNCHANGED <<mem, wikiReg>>
    /\ UNCHANGED <<input, options, pc, space, folder, at, doc, records, applies, driveReg, spaces,
                   folders, docs, overlap>>

OrgFolder ==
    /\ Doing("folder") /\ NextTask
    /\ \/ /\ Memo.drive[Task.project] # 0
          /\ UNCHANGED <<folders, mem, driveReg, faults>>
       \/ /\ Memo.drive[Task.project] = 0
          /\ \E o \in Outcomes :
                /\ Charge(o)
                /\ folders' = IF o = "fail" THEN folders ELSE Append(folders, Task.project)
                /\ IF o = "ok" THEN SaveDrive([Memo.drive EXCEPT ![Task.project] = Len(folders) + 1])
                   ELSE UNCHANGED <<mem, driveReg>>
    /\ UNCHANGED <<input, options, pc, space, folder, at, doc, records, applies, wikiReg, spaces, nodes,
                   docs, overlap>>

(* The session of a run published to the Drive is noted with its project:   *)
(* the whole remembered registry is written.                               *)
OrgMap ==
    /\ Doing("map") /\ NextTask
    /\ IF Memo.drive[input[Task.run].project] # 0 /\ DriveTarget(Task.run)
       THEN SaveDrive(Memo.drive) ELSE UNCHANGED <<mem, driveReg>>
    /\ UNCHANGED <<input, options, pc, space, folder, at, doc, records, applies, wikiReg, feishu, faults,
                   overlap>>

TaskType == TypeAt(Task.run, Task.n)
TaskParent == TokenHere(CategoryKey(input[Task.run].project, TaskType))
TaskToken == pub[Task.run].docs[Task.n].token
KnownInWiki == [run |-> Task.run, type |-> TaskType, space |-> space[Organizer]] \in Memo.wiki.docs
NoteDoc(s) ==
    SaveWiki([Memo.wiki EXCEPT !.docs = @ \cup {[run |-> Task.run, type |-> TaskType, space |-> s]}])

OrgSkipDoc ==
    /\ Doing("doc") /\ NextTask
    /\ TaskParent = 0 \/ KnownInWiki \/ (~org.local /\ TaskToken = 0)
    /\ UNCHANGED <<input, options, pc, memory, records, applies, registries, feishu, faults, overlap>>

(* With the local file at hand a second copy is made and put into the wiki. *)
OrgRecreate ==
    /\ Doing("doc") /\ TaskParent # 0 /\ ~KnownInWiki /\ org.local
    /\ \E o \in Outcomes :
          /\ Charge(o)
          /\ docs' = IF o = "fail" THEN docs
                     ELSE Append(docs, NewDoc(Task.run, pub[Task.run].docs[Task.n].i, "loose", 0, "organizer"))
          /\ \/ /\ o = "ok"
                /\ doc' = Put(doc, Organizer, Len(docs) + 1)
                /\ pc' = Put(pc, Organizer, "recreateMove")
                /\ UNCHANGED org
             \/ /\ o # "ok" /\ NextTask
                /\ UNCHANGED <<doc, pc>>
    /\ UNCHANGED <<input, options, mem, space, folder, at, records, applies, registries, spaces, nodes,
                   folders, overlap>>

OrgRecreateMove ==
    /\ pc[Organizer] = "recreateMove" /\ NextTask
    /\ \E o \in Outcomes :
          /\ Charge(o)
          /\ docs' = IF o = "fail" THEN docs ELSE MoveTo(doc[Organizer], TaskParent)
          /\ IF o = "ok" THEN NoteDoc(space[Organizer]) ELSE UNCHANGED <<mem, wikiReg>>
    /\ pc' = Put(pc, Organizer, "work") /\ doc' = Put(doc, Organizer, 0)
    /\ UNCHANGED <<input, options, space, folder, at, records, applies, driveReg, spaces, nodes, folders,
                   overlap>>

(* Without it the document itself is moved, first as a docx, then as a     *)
(* file; the note of a moved document names no space.                      *)
OrgMove ==
    /\ \/ Doing("doc") /\ TaskParent # 0 /\ ~KnownInWiki /\ ~org.local /\ TaskToken # 0
       \/ pc[Organizer] = "moveFile"
    /\ \E o \in Outcomes :
          /\ Charge(o)
          /\ docs' = IF o = "fail" THEN docs ELSE MoveTo(TaskToken, TaskParent)
          /\ \/ /\ o = "ok"
                /\ NoteDoc(0) /\ NextTask /\ pc' = Put(pc, Organizer, "work")
             \/ /\ o # "ok" /\ pc[Organizer] = "work"
                /\ pc' = Put(pc, Organizer, "moveFile")
                /\ UNCHANGED <<org, mem, wikiReg>>
             \/ /\ o # "ok" /\ pc[Organizer] = "moveFile"
                /\ NextTask /\ pc' = Put(pc, Organizer, "work")
                /\ UNCHANGED <<mem, wikiReg>>
    /\ UNCHANGED <<input, options, space, folder, at, doc, records, applies, driveReg, spaces, nodes,
                   folders, overlap>>

OrgEnd ==
    /\ pc[Organizer] = "work" /\ org.work = <<>>
    /\ Forget(Organizer) /\ org' = Idle
    /\ UNCHANGED <<input, options, folder, at, records, applies, registries, feishu, faults, overlap>>

-----------------------------------------------------------------------------
RunStep(r) ==
    \/ Begin(r) \/ ListSpaces(r) \/ CreateSpace(r) \/ CheckSpace(r) \/ CreateNode(r)
    \/ CreateWikiDoc(r) \/ MoveWikiDoc(r) \/ CreateFolder(r) \/ WriteDriveDoc(r)
OrgStep ==
    \/ OrgListSpaces \/ OrgCreateSpace \/ OrgNode \/ OrgFolder \/ OrgMap \/ OrgSkipDoc
    \/ OrgRecreate \/ OrgRecreateMove \/ OrgMove \/ OrgEnd

Next == (\E r \in Runs : RunStep(r)) \/ OrgStart \/ OrgStep

(* Every call has a timeout (120 s unless configured), after which its      *)
(* process goes on.                                                        *)
Fairness == (\A r \in Runs : WF_vars(RunStep(r))) /\ WF_vars(OrgStep)
Spec == Init /\ [][Next]_vars /\ Fairness

-----------------------------------------------------------------------------
(* Properties. *)

GateOpen(x) == x.qa /\ PolicyPass(x)
HandlerDocs(r) == {d \in DOMAIN docs : docs[d].run = r /\ docs[d].by # "organizer"}
(* Documents of a run that can be read somewhere: an overwritten file holds *)
(* only what was written to it last.                                        *)
Visible(r) == {docs[d].i : d \in HandlerDocs(r)} \ {0}
Reported(r) == {pub[r].docs[n].i : n \in {m \in DOMAIN pub[r].docs : pub[r].docs[m].status # "failed"}}

(* Both destinations, with their fallback and their faults, do no more than *)
(* GatedPublishing allows: publishResults writes only for a run whose QA    *)
(* and policy gates are open and in live mode, notes a document as written  *)
(* only in the step that makes it readable or while it is, and reports      *)
(* "published" only when every document was noted.  All of them exist then, *)
(* except for a run that modifies the file its request names: it writes     *)
(* each of its documents over that file, and only the last remains.         *)
Gated == INSTANCE GatedPublishing WITH
    wanted <- [r \in Runs |-> DOMAIN input[r].docs],
    oneFile <- [r \in Runs |-> Overwrites(input[r])],
    open <- [r \in Runs |-> GateOpen(input[r]) /\ options.mode = "live"],
    visible <- [r \in Runs |-> Visible(r)],
    reported <- [r \in Runs |-> Reported(r)],
    verdict <- [r \in Runs |-> pub[r].status]
PublishesOnlyWhole == Gated!Spec

(* What publish.json calls published is where it says, whichever calls      *)
(* failed on the way and whatever other runs and the reorganising command   *)
(* do: each document's own token, moved below the node of its own project   *)
(* and type, or in the Drive; the documents of an overwriting run are all   *)
(* written to the one file the request names, which keeps the last.        *)
PublishedIsPlaced ==
    \A r \in Runs : pub[r].status = "published" =>
        /\ Len(pub[r].docs) = Len(input[r].docs)
        /\ \A n \in DOMAIN pub[r].docs :
              LET d == docs[pub[r].docs[n].token]
              IN /\ pub[r].docs[n].i = n /\ pub[r].docs[n].token # 0
                 /\ d.run = r
                 /\ IF Overwrites(input[r]) THEN d.i = Len(input[r].docs)
                    ELSE /\ d.i = n /\ d.place # "loose"
                         /\ d.place = "wiki" => nodes[d.node].key =
                               CategoryKey(input[r].project, input[r].docs[n])

(* Every document a finished run made, the ones whose answer was lost and   *)
(* the ones left behind by the fallback included, is in wiki-publish.json   *)
(* or publish.json: there are never more copies than entries.              *)
CopiesAreRecorded ==
    \A r \in Runs : pub[r].status # "none" =>
        \A i \in DOMAIN input[r].docs :
            Cardinality({d \in HandlerDocs(r) : docs[d].i = i})
              <= Cardinality({n \in DOMAIN wikiPub[r] : wikiPub[r][n].i = i})
                 + (IF DriveTarget(r) THEN Cardinality({n \in DOMAIN pub[r].docs : pub[r].docs[n].i = i})
                    ELSE 0)

(* The registries do their work: while no two processes overlap and no call *)
(* fails, there is one space, one folder per project, each program makes a  *)
(* node once, and the command copies a document once however often it runs. *)
ReusedWhenAlone ==
    ~overlap /\ faults = 0 =>
        /\ spaces <= 1
        /\ \A f, g \in DOMAIN folders : folders[f] = folders[g] => f = g
        /\ \A m, n \in DOMAIN nodes :
              nodes[m].key = nodes[n].key /\ nodes[m].by = nodes[n].by => m = n
        /\ \A d, e \in DOMAIN docs :
              /\ docs[d].by = "organizer" /\ docs[e].by = "organizer"
              /\ docs[d].run = docs[e].run /\ docs[d].i = docs[e].i
              => d = e

(* Publishing and reorganising end: each call is answered or given up.      *)
PublishEnds == \A q \in Procs : Busy(q) ~> pc[q] = "done"
=============================================================================
