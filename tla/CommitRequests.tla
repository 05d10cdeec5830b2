--------------------------- MODULE CommitRequests ---------------------------
(***************************************************************************)
(* Pushes, from the moment the client reads the head to the answer: the    *)
(* CLI's push, the web UI's "Create snapshot" and "Restore", and API       *)
(* clients; and the handler of POST .../versions (http.ts), which commits  *)
(* the tree and then copies it into the mutable files and file records     *)
(* ("mirrors" it).                                                         *)
(*                                                                         *)
(* Every await of the handler lets other requests run, so each call on the *)
(* object store or the metadata store is an action of its own.  Validation *)
(* reads every blob before the commit; blobs are never deleted, so the     *)
(* reads together find what one read of all of them finds at the last.     *)
(***************************************************************************)
EXTENDS ObjectStore, FileRecords, RuntimeVersions

CONSTANTS
    Pushers,    \* the pushes that may be made, each at most once
    Origins,    \* which kinds of client push
    PushTrees   \* the trees that CLI and API clients push

ASSUME OriginsAssumption == Origins \subseteq {"cli", "snapshot", "restore", "api"}

ASSUME PushTreesAssumption == PushTrees \subseteq Trees

VARIABLE push   \* the pushes made so far

Phases == {"loaded", "stage", "commit", "mirror", "prune", "answered", "lost"}

PushOutcomes ==
    {"pending", "missing", "conflict", "unchanged", "rejected", "created"}

PushRequests ==
    [phase : Phases, outcome : PushOutcomes, rt : Runtimes, tree : Trees,
     base : Hashes, guarded : BOOLEAN,
     todo : SUBSET Paths,   \* paths still to stage, to mirror or to prune
     half : SUBSET Paths]   \* the path whose file is done and record is not

PushTypeOK ==
    /\ DOMAIN push \subseteq Pushers
    /\ push \in [DOMAIN push -> PushRequests]

PushInit == push = [r \in {} |-> {}]

In(r, phase) == r \in DOMAIN push /\ push[r].phase = phase

NewPush(r, phase, rt, tree, base, guarded, todo) ==
    /\ r \notin DOMAIN push
    /\ push' = [s \in DOMAIN push \cup {r} |->
                  IF s = r
                  THEN [phase |-> phase, outcome |-> "pending", rt |-> rt,
                        tree |-> tree, base |-> base, guarded |-> guarded,
                        todo |-> todo, half |-> {}]
                  ELSE push[s]]
    /\ UNCHANGED <<storeVars, recordVars, versionVars>>

-----------------------------------------------------------------------------
(***************************************************************************)
(* The clients.                                                            *)
(***************************************************************************)

\* dotlocker push: reads the head and sends it, or null, as the expected
\* parent.  It refuses to push an empty tree.
BeginCliPush(r, rt, tree) ==
    /\ "cli" \in Origins
    /\ tree # EmptyTree
    /\ NewPush(r, "stage", rt, tree, heads[rt], TRUE, FilesOf(tree))

\* putRuntimeObject: PUT .../objects/<sha256>, one per file.
StageObject(r, path) ==
    /\ In(r, "stage")
    /\ path \in push[r].todo
    /\ WriteBlob(push[r].tree[path])
    /\ push' = [push EXCEPT ![r].todo = @ \ {path}]
    /\ UNCHANGED <<recordVars, versionVars>>

\* "Create snapshot": the page holds the runtime's file records as it loaded
\* them.  The button needs at least one file.
LoadRecords(r, rt) ==
    /\ "snapshot" \in Origins
    /\ ListFiles(rt) # {}
    /\ NewPush(r, "loaded", rt, records[rt], NoVersion, FALSE, {})

\* A click reads the head; expectedParentHash is head?.hash, which leaves the
\* field out of the request when there is no head.
ReadHead(r) ==
    /\ In(r, "loaded")
    /\ push' = [push EXCEPT ![r].phase = "stage",
                            ![r].base = heads[push[r].rt],
                            ![r].guarded = HasHead(push[r].rt)]
    /\ UNCHANGED <<storeVars, recordVars, versionVars>>

\* "Restore": the tree of an earlier version, and the head read at the click.
BeginRestore(r, rt, hash) ==
    /\ "restore" \in Origins
    /\ hash \in VersionsOf(rt)
    /\ hash # heads[rt]
    /\ NewPush(r, "stage", rt, versions[hash].tree, heads[rt], HasHead(rt), {})

\* An API client: any tree, staged by it or not, the empty one included, with
\* the head it read as expected parent or with none.
BeginApiCommit(r, rt, tree, guarded) ==
    /\ "api" \in Origins
    /\ NewPush(r, "stage", rt, tree, heads[rt], guarded, {})

-----------------------------------------------------------------------------
(***************************************************************************)
(* The handler.                                                            *)
(***************************************************************************)

Answer(r, outcome) ==
    push' = [push EXCEPT ![r].phase = "answered", ![r].outcome = outcome]

\* A bug to catch: the objects are not looked up before the commit.
ValidateManifestSkipped(r) ==
    /\ In(r, "stage")
    /\ push[r].todo = {}
    /\ push' = [push EXCEPT ![r].phase = "commit"]
    /\ UNCHANGED <<storeVars, recordVars, versionVars>>

\* Every object of the manifest must be in the store: 404 otherwise.
ValidateManifest(r) ==
    /\ In(r, "stage")
    /\ push[r].todo = {}
    /\ IF HasBlobs(push[r].tree)
       THEN push' = [push EXCEPT ![r].phase = "commit"]
       ELSE Answer(r, "missing")
    /\ UNCHANGED <<storeVars, recordVars, versionVars>>

\* metadata.commitVersion, one transaction; only a created version is mirrored.
CommitVersion(r) ==
    LET p == push[r] IN
    /\ In(r, "commit")
    /\ \/ CommitConflict(p.rt, p.guarded, p.base) /\ Answer(r, "conflict")
       \/ CommitUnchanged(p.rt, p.tree, p.guarded, p.base) /\ Answer(r, "unchanged")
       \/ CommitRejected(p.rt, p.tree, p.guarded, p.base) /\ Answer(r, "rejected")
       \/ /\ CommitCreated(p.rt, p.tree, p.guarded, p.base)
          /\ push' = [push EXCEPT ![r].phase = "mirror", ![r].outcome = "created",
                                  ![r].todo = FilesOf(p.tree)]
    /\ UNCHANGED <<storeVars, recordVars>>

\* The mirror loop: store.write, then upsertFile, for each file.
MirrorFile(r, path) ==
    /\ In(r, "mirror")
    /\ push[r].half = {}
    /\ path \in push[r].todo
    /\ WriteFile(push[r].rt, path, push[r].tree[path])
    /\ push' = [push EXCEPT ![r].half = {path}]
    /\ UNCHANGED <<recordVars, versionVars>>

\* A bug to catch: the loop never gets past the file it has mirrored.
MirrorRecordAgain(r, path) ==
    /\ In(r, "mirror")
    /\ path \in push[r].half
    /\ UpsertFile(push[r].rt, path, push[r].tree[path])
    /\ push' = [push EXCEPT ![r].half = {}]
    /\ UNCHANGED <<storeVars, versionVars>>

MirrorRecord(r, path) ==
    /\ In(r, "mirror")
    /\ path \in push[r].half
    /\ UpsertFile(push[r].rt, path, push[r].tree[path])
    /\ push' = [push EXCEPT ![r].half = {}, ![r].todo = @ \ {path}]
    /\ UNCHANGED <<storeVars, versionVars>>

\* A bug to catch: files that left the tree stay in the mirror.
ListNothingStale(r) ==
    /\ In(r, "mirror")
    /\ push[r].todo = {}
    /\ push' = [push EXCEPT ![r].phase = "prune"]
    /\ UNCHANGED <<storeVars, recordVars, versionVars>>

\* One read of the live records; those outside the manifest are to go.
ListStale(r) ==
    /\ In(r, "mirror")
    /\ push[r].todo = {}
    /\ push' = [push EXCEPT ![r].phase = "prune",
                            ![r].todo = ListFiles(push[r].rt) \ FilesOf(push[r].tree)]
    /\ UNCHANGED <<storeVars, recordVars, versionVars>>

\* The prune loop: store.delete, then markDeleted, for each of them.
PruneFile(r, path) ==
    /\ In(r, "prune")
    /\ push[r].half = {}
    /\ path \in push[r].todo
    /\ DeleteFile(push[r].rt, path)
    /\ push' = [push EXCEPT ![r].half = {path}]
    /\ UNCHANGED <<recordVars, versionVars>>

PruneRecord(r, path) ==
    /\ In(r, "prune")
    /\ path \in push[r].half
    /\ MarkDeleted(push[r].rt, path)
    /\ push' = [push EXCEPT ![r].half = {}, ![r].todo = @ \ {path}]
    /\ UNCHANGED <<storeVars, versionVars>>

AnswerCreated(r) ==
    /\ In(r, "prune")
    /\ push[r].todo = {}
    /\ Answer(r, "created")
    /\ UNCHANGED <<storeVars, recordVars, versionVars>>

Finished(r) == r \in DOMAIN push /\ push[r].phase \in {"answered", "lost"}

\* The client stops before it commits, the process restarts, or a call on the
\* object store or the database throws: nothing that was done is undone, the
\* rest is never done.  A restart is this action for every request in flight.
LosePush(r) ==
    /\ r \in DOMAIN push
    /\ ~Finished(r) /\ ~In(r, "loaded")
    /\ push' = [push EXCEPT ![r].phase = "lost"]
    /\ UNCHANGED <<storeVars, recordVars, versionVars>>

-----------------------------------------------------------------------------

\* What the server, or the client's loop over its files, does next by itself.
PushProgress(r) ==
    \/ \E path \in Paths : StageObject(r, path)
    \/ ValidateManifest(r)
    \/ CommitVersion(r)
    \/ \E path \in Paths : MirrorFile(r, path)
    \/ \E path \in Paths : MirrorRecord(r, path)
    \/ ListStale(r)
    \/ \E path \in Paths : PruneFile(r, path)
    \/ \E path \in Paths : PruneRecord(r, path)
    \/ AnswerCreated(r)

PushBegins(r) ==
    \/ \E rt \in Runtimes, tree \in PushTrees : BeginCliPush(r, rt, tree)
    \/ \E rt \in Runtimes : LoadRecords(r, rt)
    \/ \E rt \in Runtimes, hash \in DOMAIN versions : BeginRestore(r, rt, hash)
    \/ \E rt \in Runtimes, tree \in PushTrees, guarded \in BOOLEAN :
          BeginApiCommit(r, rt, tree, guarded)

PushNext ==
    \E r \in Pushers : PushBegins(r) \/ ReadHead(r) \/ PushProgress(r) \/ LosePush(r)

=============================================================================
