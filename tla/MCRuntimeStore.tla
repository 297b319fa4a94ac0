--------------------------- MODULE MCRuntimeStore ---------------------------
(***************************************************************************)
(* Small instances of RuntimeStore: an attachment that two runs have, a    *)
(* fixture with the same file key, and a cached text.                      *)
(***************************************************************************)
EXTENDS RuntimeStore, TLC

CONSTANTS r1, r2, fx, fileA, fileB, fileF, fileX, good, fake, torn, text

Base == [of |-> (fileA :> r1 @@ fileB :> r2 @@ fileF :> fx @@ fileX :> Cache),
         kind |-> (fileA :> "raw_media" @@ fileB :> "raw_media" @@ fileF :> "raw_media"
                   @@ fileX :> "transcript_evidence"),
         key |-> (fileA :> 1 @@ fileB :> 1 @@ fileF :> 1 @@ fileX :> None),
         arrives |-> (fileA :> {good} @@ fileB :> {good} @@ fileF :> {} @@ fileX :> {}),
         genuine |-> (1 :> good), bad |-> {torn},
         ttl |-> [k \in Kinds |-> 1], max_bytes |-> [k \in Kinds |-> 0],
         time |-> 0, indexes |-> 1, commands |-> 2, rewrites |-> 0, stuck |-> 0, deaths |-> 0,
         ops |-> {"cleanup", "pin"}]

(* Pins, lifetimes and the quota.                                          *)
Kept == [Base EXCEPT !.time = 2, !.commands = 3, !.ops = {"cleanup", "pin", "scan"}]
Quota == [Base EXCEPT !.max_bytes = [k \in Kinds |-> 1], !.indexes = 2, !.commands = 3,
                      !.arrives = (fileA :> {good} @@ fileB :> {torn} @@ fileF :> {fake} @@ fileX :> {}),
                      !.stuck = 1, !.deaths = 1, !.ops = {"cleanup", "pin", "scan"}]
(* A fixture with the file key of a real attachment, and half a download.  *)
Mixed == [Base EXCEPT !.arrives = (fileA :> {good, torn} @@ fileB :> {good} @@ fileF :> {fake} @@ fileX :> {}),
                      !.deaths = 1,
                      !.ops = {"scan", "quarantine"}]
(* Files that are linked to each other, and a text that is written again.  *)
Linked == [Base EXCEPT !.kind[fileB] = "transcript_evidence", !.key[fileB] = None,
                       !.arrives = (fileA :> {good} @@ fileB :> {text} @@ fileF :> {good} @@ fileX :> {text, torn}),
                       !.rewrites = 1,
                       !.ops = {"scan", "dedupe"}]
Dying == [Base EXCEPT !.time = 2, !.deaths = 1, !.stuck = 1, !.indexes = 2,
                      !.ops = {"dedupe", "quarantine", "cleanup", "put-object"}]
MCScenarios == {Kept, Quota, Mixed, Linked, Dying}
=============================================================================
