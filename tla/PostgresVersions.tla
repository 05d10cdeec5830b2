--------------------------- MODULE PostgresVersions ---------------------------
(***************************************************************************)
(* The commit transaction as PostgresMetadataStore runs it: four commands, *)
(* each awaited, in a READ COMMITTED transaction beside others.            *)
(*                                                                         *)
(* What PostgreSQL does is modelled as the code relies on it:              *)
(*   - a command sees the rows committed when it starts;                   *)
(*   - SELECT ... FOR UPDATE waits for the lock on each row it has seen.   *)
(*     When the head row has changed meanwhile, the new row is joined to   *)
(*     the version row seen before, which does not match any more: no row  *)
(*     is returned, and the head row stays locked.  With no row to see     *)
(*     nothing is locked;                                                  *)
(*   - INSERT waits for a running transaction that has inserted the same   *)
(*     key, and then fails if that one committed;                          *)
(*   - INSERT ... ON CONFLICT DO UPDATE waits for whoever holds the row.   *)
(***************************************************************************)
EXTENDS RuntimeVersions

CONSTANTS
    Pushers,    \* the pushes that may be made, each at most once
    PushTrees   \* the trees they push

ASSUME PushTreesAssumption == PushTrees \subseteq Trees

VARIABLE tx     \* the transactions of the pushes made so far

vars == <<versionVars, tx>>

Running == {"begun", "selecting", "selected", "inserted", "moved"}

Phases == Running \cup {"created", "unchanged", "conflict", "rejected", "lost"}

Transactions ==
    [phase : Phases, rt : Runtimes, tree : Trees, guarded : BOOLEAN,
     base : Hashes,      \* the head the client saw
     seen : Hashes,      \* the head when the SELECT started
     current : Hashes,   \* currentHash, NoVersion for null
     locked : BOOLEAN]   \* the SELECT locked the head row

TypeOK ==
    /\ VersionsTypeOK
    /\ DOMAIN tx \subseteq Pushers
    /\ tx \in [DOMAIN tx -> Transactions]

Init == VersionsInit /\ tx = [r \in {} |-> {}]

In(r, phase) == r \in DOMAIN tx /\ tx[r].phase = phase

IsRunning(r) == r \in DOMAIN tx /\ tx[r].phase \in Running

\* The row of runtime_heads is locked by, or an uncommitted write of, r.
HoldsHead(r, rt) ==
    /\ IsRunning(r)
    /\ tx[r].rt = rt
    /\ tx[r].locked \/ tx[r].phase = "moved"

HeadFree(r) == \A s \in DOMAIN tx \ {r} : ~HoldsHead(s, tx[r].rt)

Hash(r) == VersionHash(tx[r].tree, tx[r].current)

\* r has an uncommitted row in runtime_versions.
HasInserted(r) == tx[r].phase \in {"inserted", "moved"}

\* A bug to catch: the key is not checked against uncommitted rows.
KeyFreeIgnored(r) == TRUE

KeyFree(r) == \A s \in DOMAIN tx \ {r} : HasInserted(s) => Hash(s) # Hash(r)

Finish(r, phase) == tx' = [tx EXCEPT ![r].phase = phase]

-----------------------------------------------------------------------------

\* The client reads the head and pushes, later, with it or, unguarded, without.
Begin(r, rt, tree, guarded) ==
    /\ r \notin DOMAIN tx
    /\ tx' = [s \in DOMAIN tx \cup {r} |->
                IF s = r
                THEN [phase |-> "begun", rt |-> rt, tree |-> tree,
                      guarded |-> guarded, base |-> heads[rt],
                      seen |-> NoVersion, current |-> NoVersion, locked |-> FALSE]
                ELSE tx[s]]
    /\ UNCHANGED versionVars

\* BEGIN, and the snapshot of the SELECT.
StartSelect(r) ==
    /\ In(r, "begun")
    /\ tx' = [tx EXCEPT ![r].phase = "selecting", ![r].seen = heads[tx[r].rt]]
    /\ UNCHANGED versionVars

\* A bug to catch: the SELECT does not lock the row.
SelectWithoutLock(r) ==
    /\ In(r, "selecting")
    /\ tx' = [tx EXCEPT ![r].phase = "selected", ![r].current = tx[r].seen]
    /\ UNCHANGED versionVars

\* A bug to catch: the SELECT skips a row that it would have to wait for.
SelectSkipLocked(r) ==
    /\ In(r, "selecting")
    /\ tx' = [tx EXCEPT
            ![r].phase = "selected",
            ![r].current = IF HeadFree(r) THEN heads[tx[r].rt] ELSE NoVersion,
            ![r].locked = HeadFree(r) /\ tx[r].seen # NoVersion]
    /\ UNCHANGED versionVars

\* The SELECT returns: the locked row, or none.
SelectHead(r) ==
    LET seen == tx[r].seen IN
    /\ In(r, "selecting")
    /\ seen # NoVersion => HeadFree(r)
    /\ tx' = [tx EXCEPT
            ![r].phase = "selected",
            ![r].current = IF heads[tx[r].rt] = seen THEN seen ELSE NoVersion,
            ![r].locked = seen # NoVersion]
    /\ UNCHANGED versionVars

BaseMoved(r) == tx[r].guarded /\ tx[r].base # tx[r].current

SameTreeAsCurrent(r) ==
    tx[r].current # NoVersion /\ versions[tx[r].current].tree = tx[r].tree

\* ConflictError, ROLLBACK: 409.
Conflict(r) ==
    /\ In(r, "selected")
    /\ BaseMoved(r)
    /\ Finish(r, "conflict")
    /\ UNCHANGED versionVars

Unchanged(r) ==
    /\ In(r, "selected")
    /\ ~BaseMoved(r)
    /\ SameTreeAsCurrent(r)
    /\ Finish(r, "unchanged")
    /\ UNCHANGED versionVars

\* INSERT INTO runtime_versions: a second row with the hash is an error, 400.
InsertRow(r) ==
    /\ In(r, "selected")
    /\ ~BaseMoved(r)
    /\ ~SameTreeAsCurrent(r)
    /\ KeyFree(r)
    /\ Finish(r, IF Hash(r) \in DOMAIN versions THEN "rejected" ELSE "inserted")
    /\ UNCHANGED versionVars

\* INSERT INTO runtime_heads ... ON CONFLICT DO UPDATE.
MoveHead(r) ==
    /\ In(r, "inserted")
    /\ HeadFree(r)
    /\ Finish(r, "moved")
    /\ UNCHANGED versionVars

\* A bug to catch: a row that belongs to no runtime.
NewRowWithoutRuntime(r) == [tree |-> tx[r].tree, parent |-> tx[r].current]

NewRow(r) == [tree |-> tx[r].tree, parent |-> tx[r].current, runtime |-> tx[r].rt]

\* COMMIT: 201.
Commit(r) ==
    /\ In(r, "moved")
    /\ versions' = [h \in DOMAIN versions \cup {Hash(r)} |->
                      IF h = Hash(r) THEN NewRow(r) ELSE versions[h]]
    /\ heads' = [heads EXCEPT ![tx[r].rt] = Hash(r)]
    /\ Finish(r, "created")

\* The server stops, the connection breaks, or PostgreSQL picks the
\* transaction to resolve a deadlock: ROLLBACK.
LoseTransaction(r) ==
    /\ IsRunning(r)
    /\ Finish(r, "lost")
    /\ UNCHANGED versionVars

Next ==
    \E r \in Pushers :
        \/ \E rt \in Runtimes, tree \in PushTrees, guarded \in BOOLEAN :
              Begin(r, rt, tree, guarded)
        \/ StartSelect(r)
        \/ SelectHead(r)
        \/ Conflict(r)
        \/ Unchanged(r)
        \/ InsertRow(r)
        \/ MoveHead(r)
        \/ Commit(r)
        \/ LoseTransaction(r)

Spec == Init /\ [][Next]_vars

-----------------------------------------------------------------------------

\* A guarded push that saw a head creates a version only while that head is
\* still the head: the lock holds from the comparison to the commit.
SwapsFromBase ==
    [][\A r \in DOMAIN tx :
            /\ tx[r].guarded /\ tx[r].base # NoVersion
            /\ tx[r].phase # "created" /\ tx'[r].phase = "created"
            => heads[tx[r].rt] = tx[r].base]_vars

\* Whatever waits, overtakes and is rolled back, no version of a runtime is
\* followed by two.  (It may have several first versions: see OneWinner.)
NoForkAfterVersion ==
    \A g, h \in DOMAIN versions :
        /\ versions[g].runtime = versions[h].runtime
        /\ versions[g].parent = versions[h].parent
        /\ versions[g].parent # NoVersion
        => g = h

\* A push is told 409 only if the head is not the one it saw, also when the
\* SELECT returned no row because it had to wait.
ConflictsAreReal ==
    \A r \in DOMAIN tx : tx[r].phase = "conflict" => heads[tx[r].rt] # tx[r].base

\* No transaction removes or changes a row that another one committed, also
\* not when both insert the same hash for different runtimes.
RowsImmutable ==
    [][\A h \in DOMAIN versions :
            h \in DOMAIN versions' /\ versions'[h] = versions[h]]_vars

\* What README, "Sync model", says of concurrent pushes: "A concurrent head
\* change returns 409 instead of overwriting another push."
OneWinner ==
    \A r, s \in DOMAIN tx :
        /\ tx[r].phase = "created" /\ tx[s].phase = "created"
        /\ tx[r].guarded /\ tx[s].guarded
        /\ tx[r].rt = tx[s].rt /\ tx[r].base = tx[s].base
        => r = s

=============================================================================
