--------------------------- MODULE RuntimeVersions ---------------------------
(***************************************************************************)
(* The version tables: runtime_versions with its runtime_version_files,    *)
(* and runtime_heads; and the transaction that commits a version, as       *)
(* SQLite runs it (runtime-versions.ts): alone, from BEGIN to COMMIT.      *)
(*                                                                         *)
(* A version's hash is SHA-256 of its tree hash and its parent's hash.     *)
(* SHA-256 is taken to be injective, so a hash is determined by, and       *)
(* determines, the list of trees from the first version to this one: that  *)
(* list is how a hash is written here.  Neither the org, the repo nor the  *)
(* runtime goes into it.                                                   *)
(***************************************************************************)
EXTENDS RuntimeTrees, Sequences

VARIABLES
    heads,      \* runtime_heads: the current version's hash, NoVersion if no row
    versions    \* runtime_versions: a row for every committed hash

versionVars == <<heads, versions>>

Hashes == Seq(Trees)

\* No row: null in the API, an empty list of trees here.
NoVersion == << >>

VersionHash(tree, parent) == Append(parent, tree)

VersionRows == [tree : Trees, parent : Hashes, runtime : Runtimes]

VersionsTypeOK ==
    /\ heads \in [Runtimes -> Hashes]
    /\ DOMAIN versions \subseteq Hashes
    /\ versions \in [DOMAIN versions -> VersionRows]

VersionsInit ==
    /\ heads = [rt \in Runtimes |-> NoVersion]
    /\ versions = [h \in {} |-> {}]

HasHead(rt) == heads[rt] # NoVersion

\* The tree of the head, through runtime_version_files.
HeadTree(rt) == versions[heads[rt]].tree

-----------------------------------------------------------------------------
(***************************************************************************)
(* commitRuntimeVersion.  guarded says whether the request carried an      *)
(* expectedParentHash; base is its value, NoVersion standing for null.     *)
(* The outcomes exclude each other and leave none out.                     *)
(***************************************************************************)

\* A bug to catch: the expected parent is read and never compared.
HeadMovedIgnored(rt, guarded, base) == FALSE

HeadMoved(rt, guarded, base) == guarded /\ base # heads[rt]

\* A bug to catch: pushing the head's tree again appends it again.
SameTreeIgnored(rt, tree) == FALSE

SameTree(rt, tree) == HasHead(rt) /\ HeadTree(rt) = tree

\* A bug to catch: INSERT OR REPLACE takes over another runtime's row.
HashTakenIgnored(rt, tree) == FALSE

\* runtime_versions.hash is a primary key over all runtimes of all orgs.
HashTaken(rt, tree) == VersionHash(tree, heads[rt]) \in DOMAIN versions

\* 409: ConflictError, the transaction rolls back.
CommitConflict(rt, guarded, base) ==
    /\ HeadMoved(rt, guarded, base)
    /\ UNCHANGED versionVars

\* 200, created: false.
CommitUnchanged(rt, tree, guarded, base) ==
    /\ ~HeadMoved(rt, guarded, base)
    /\ SameTree(rt, tree)
    /\ UNCHANGED versionVars

\* 400: the INSERT breaks the primary key and the transaction rolls back.
CommitRejected(rt, tree, guarded, base) ==
    /\ ~HeadMoved(rt, guarded, base)
    /\ ~SameTree(rt, tree)
    /\ HashTaken(rt, tree)
    /\ UNCHANGED versionVars

InsertVersion(rt, tree) ==
    LET hash == VersionHash(tree, heads[rt])
        row  == [tree |-> tree, parent |-> heads[rt], runtime |-> rt]
    IN  versions' = [h \in DOMAIN versions \cup {hash} |->
                        IF h = hash THEN row ELSE versions[h]]

\* A bug to catch: ON CONFLICT DO NOTHING leaves an existing head where it is.
CommitCreatedKeepsHead(rt, tree, guarded, base) ==
    /\ ~HeadMoved(rt, guarded, base)
    /\ ~SameTree(rt, tree)
    /\ ~HashTaken(rt, tree)
    /\ InsertVersion(rt, tree)
    /\ heads' = [heads EXCEPT ![rt] = IF HasHead(rt) THEN @
                                      ELSE VersionHash(tree, @)]

\* 201, created: true.
CommitCreated(rt, tree, guarded, base) ==
    /\ ~HeadMoved(rt, guarded, base)
    /\ ~SameTree(rt, tree)
    /\ ~HashTaken(rt, tree)
    /\ InsertVersion(rt, tree)
    /\ heads' = [heads EXCEPT ![rt] = VersionHash(tree, heads[rt])]

-----------------------------------------------------------------------------

\* The rows listed by GET .../versions for one runtime.
VersionsOf(rt) == {h \in DOMAIN versions : versions[h].runtime = rt}

\* Every stored row carries the tree and the parent its hash was made from.
RowsMatchHashes ==
    \A h \in DOMAIN versions :
        h = VersionHash(versions[h].tree, versions[h].parent)

\* A runtime's head is one of its own versions; with no head it has none.
HeadsOwned ==
    \A rt \in Runtimes :
        IF HasHead(rt) THEN heads[rt] \in VersionsOf(rt)
                       ELSE VersionsOf(rt) = {}

\* A parent is null or an earlier version of the same runtime.
ParentsOwned ==
    \A h \in DOMAIN versions :
        versions[h].parent = NoVersion
            \/ versions[h].parent \in VersionsOf(versions[h].runtime)

\* One first version per runtime, and at most one version after each version.
NoForks ==
    \A g, h \in DOMAIN versions :
        /\ versions[g].runtime = versions[h].runtime
        /\ versions[g].parent = versions[h].parent
        => g = h

\* The head is the one version of its runtime that nothing follows.
HeadsAreLast ==
    \A h \in DOMAIN versions :
        h # heads[versions[h].runtime] <=>
            \E g \in VersionsOf(versions[h].runtime) : versions[g].parent = h

(***************************************************************************)
(* Linear history (README, "Sync model"): the versions of a runtime form   *)
(* one chain from its first version to its head, whatever the order in     *)
(* which pushes to it and to other runtimes commit.                        *)
(***************************************************************************)
LinearHistory == HeadsOwned /\ ParentsOwned /\ NoForks /\ HeadsAreLast

=============================================================================
