----------------------- MODULE PostgresVersions_proofs -----------------------
(***************************************************************************)
(* Theorems about the commit transaction in PostgreSQL: what the lock on   *)
(* the head row guarantees, for any number of transactions, runtimes and   *)
(* trees.                                                                  *)
(***************************************************************************)
EXTENDS PostgresVersions, RuntimeVersions_proofs

\* A step of a transaction that has begun.
Step(r) ==
    \/ StartSelect(r) \/ SelectHead(r) \/ Conflict(r) \/ Unchanged(r)
    \/ InsertRow(r) \/ MoveHead(r) \/ Commit(r) \/ LoseTransaction(r)

Begins(r) ==
    \E rt \in Runtimes, tree \in PushTrees, guarded \in BOOLEAN :
        Begin(r, rt, tree, guarded)

-----------------------------------------------------------------------------
(***************************************************************************)
(* The inductive invariant.                                                *)
(***************************************************************************)

\* Heads and parents are committed versions, or null.
Committed(h) == h = NoVersion \/ h \in DOMAIN versions

Referenced ==
    /\ \A rt \in Runtimes : Committed(heads[rt])
    /\ \A h \in DOMAIN versions : Committed(versions[h].parent)

\* A version that another follows is no longer the head.
ParentsLeft ==
    \A h \in DOMAIN versions :
        versions[h].parent # NoVersion =>
            heads[versions[h].runtime] # versions[h].parent

\* The head row of a runtime has one holder at most.
OneHolder ==
    \A r, s \in DOMAIN tx :
        HoldsHead(r, tx[r].rt) /\ HoldsHead(s, tx[s].rt) /\ tx[r].rt = tx[s].rt
        => r = s

\* Uncommitted rows have keys of their own.
OwnKeys ==
    /\ \A r \in DOMAIN tx : HasInserted(r) => Hash(r) \notin DOMAIN versions
    /\ \A r, s \in DOMAIN tx :
          HasInserted(r) /\ HasInserted(s) /\ Hash(r) = Hash(s) => r = s

\* A transaction that works with a head has locked it.
CurrentIsHead ==
    \A r \in DOMAIN tx :
        tx[r].phase \in {"selected", "inserted", "moved"} /\ tx[r].current # NoVersion
        => tx[r].locked /\ heads[tx[r].rt] = tx[r].current

\* What the client saw was committed, and if it still is the head then the
\* transaction has seen the same.
BaseKnown ==
    \A r \in DOMAIN tx :
        /\ Committed(tx[r].base)
        /\ tx[r].phase = "selecting" /\ heads[tx[r].rt] = tx[r].base
              => tx[r].seen = tx[r].base
        /\ tx[r].phase = "selected" /\ heads[tx[r].rt] = tx[r].base
              => tx[r].current = tx[r].base

\* Only a push whose base is the current head inserts a row, if it has a base.
BaseCompared ==
    \A r \in DOMAIN tx :
        HasInserted(r) /\ tx[r].guarded => tx[r].current = tx[r].base

PgInv ==
    /\ TypeOK
    /\ Referenced
    /\ ParentsLeft
    /\ OneHolder
    /\ OwnKeys
    /\ CurrentIsHead
    /\ BaseKnown
    /\ BaseCompared
    /\ NoForkAfterVersion
    /\ ConflictsAreReal

-----------------------------------------------------------------------------
(***************************************************************************)
(* What the steps have in common.                                          *)
(***************************************************************************)

LEMMA PgNextCases ==
    ASSUME [Next]_vars
    PROVE  \/ \E r \in Pushers : Begins(r)
           \/ \E r \in Pushers : Step(r)
           \/ UNCHANGED vars
  BY DEF Next, Begins, Step

\* A step changes its own transaction, and of it never who pushes what where.
LEMMA StepFrame ==
    ASSUME TypeOK, NEW r, Step(r)
    PROVE  /\ r \in DOMAIN tx
           /\ DOMAIN tx' = DOMAIN tx
           /\ \A s \in DOMAIN tx \ {r} : tx'[s] = tx[s]
           /\ \A s \in DOMAIN tx :
                 /\ tx'[s].rt = tx[s].rt /\ tx'[s].tree = tx[s].tree
                 /\ tx'[s].base = tx[s].base /\ tx'[s].guarded = tx[s].guarded
  BY DEF TypeOK, Transactions, Step, StartSelect, SelectHead, Conflict, Unchanged,
         InsertRow, MoveHead, Commit, LoseTransaction, Finish, In, IsRunning

\* The SELECT fills in the head it found; no other step does.
LEMMA SelectFrame ==
    ASSUME TypeOK, NEW r, Step(r)
    PROVE  /\ SelectHead(r) =>
                 /\ tx[r].phase = "selecting" /\ tx'[r].phase = "selected"
                 /\ tx'[r].current = IF heads[tx[r].rt] = tx[r].seen
                                     THEN tx[r].seen ELSE NoVersion
                 /\ tx'[r].locked = (tx[r].seen # NoVersion)
           /\ ~SelectHead(r) =>
                 /\ tx'[r].phase # "selected"
                 /\ tx'[r].current = tx[r].current
                 /\ tx'[r].locked = tx[r].locked
                 /\ tx'[r].phase \in {"inserted", "moved"} =>
                       tx[r].phase \in {"selected", "inserted"}
           /\ tx'[r].phase = "selecting" => tx'[r].seen = heads[tx[r].rt]
  <1>1. r \in DOMAIN tx /\ tx[r] \in Transactions
    BY StepFrame DEF TypeOK
  <1>2. CASE SelectHead(r)
    BY <1>1, <1>2 DEF SelectHead, In, Transactions
  <1>3. CASE StartSelect(r)
    BY <1>1, <1>3 DEF StartSelect, SelectHead, In, Transactions
  <1>4. CASE ~SelectHead(r) /\ ~StartSelect(r)
    <2>1. PICK phase : Finish(r, phase) /\ phase \notin {"selecting", "selected"}
                       /\ (phase \in {"inserted", "moved"} =>
                             tx[r].phase \in {"selected", "inserted"})
      BY <1>4 DEF Step, Conflict, Unchanged, InsertRow, MoveHead, Commit,
         LoseTransaction, In
    <2> QED
      BY <1>1, <1>4, <2>1 DEF Finish, Transactions
  <1> QED
    BY <1>2, <1>3, <1>4

\* Only the commit writes the tables.
LEMMA TablesFrame ==
    ASSUME NEW r, Step(r), ~Commit(r)
    PROVE  UNCHANGED versionVars
  BY DEF Step, StartSelect, SelectHead, Conflict, Unchanged, InsertRow, MoveHead,
         LoseTransaction

LEMMA BeginFrame ==
    ASSUME TypeOK, NEW r \in Pushers, Begins(r)
    PROVE  /\ r \notin DOMAIN tx
           /\ DOMAIN tx' = DOMAIN tx \cup {r}
           /\ \A s \in DOMAIN tx : tx'[s] = tx[s]
           /\ tx'[r].phase = "begun" /\ tx'[r].rt \in Runtimes
           /\ tx'[r].base = heads[tx'[r].rt]
           /\ tx'[r].locked = FALSE
           /\ tx'[r] \in Transactions
           /\ UNCHANGED versionVars
  <1>1. PICK rt \in Runtimes, tree \in PushTrees, guarded \in BOOLEAN :
            Begin(r, rt, tree, guarded)
    BY DEF Begins
  <1>2. tree \in Trees /\ heads[rt] \in Hashes /\ NoVersion \in Hashes
    BY PushTreesAssumption DEF TypeOK, VersionsTypeOK, NoVersion, Hashes
  <1> QED
    BY <1>1, <1>2 DEF Begin, Transactions, Phases, Running

\* The commit adds the transaction's row and makes it the head.
LEMMA CommitFrame ==
    ASSUME TypeOK, OwnKeys, NEW r \in Pushers, Commit(r)
    PROVE  /\ tx[r].phase = "moved" /\ tx'[r].phase = "created" /\ HasInserted(r)
           /\ tx[r] \in Transactions
           /\ Hash(r) \in Hashes /\ Hash(r) # NoVersion /\ Hash(r) # tx[r].current
           /\ Hash(r) \notin DOMAIN versions
           /\ DOMAIN versions' = DOMAIN versions \cup {Hash(r)}
           /\ \A h \in DOMAIN versions : versions'[h] = versions[h]
           /\ versions'[Hash(r)] = NewRow(r)
           /\ heads'[tx[r].rt] = Hash(r)
           /\ \A rt \in Runtimes \ {tx[r].rt} : heads'[rt] = heads[rt]
  <1>1. r \in DOMAIN tx /\ tx[r].phase = "moved" /\ tx[r] \in Transactions
    BY DEF Commit, In, TypeOK
  <1>2. tx[r].tree \in Trees /\ tx[r].current \in Hashes /\ tx[r].rt \in Runtimes
    BY <1>1 DEF Transactions
  <1>3. Hash(r) \in Hashes /\ Hash(r) # NoVersion /\ Hash(r) # tx[r].current
    <2>1. Len(Hash(r)) = Len(tx[r].current) + 1 /\ Len(tx[r].current) \in Nat
      BY <1>2, HashOfVersion DEF Hash, Hashes
    <2> QED
      BY <1>2, <2>1, HashOfVersion DEF Hash
  <1>4. HasInserted(r) /\ Hash(r) \notin DOMAIN versions
    BY <1>1 DEF HasInserted, OwnKeys
  <1>5. tx'[r].phase = "created"
    BY <1>1 DEF Commit, Finish, TypeOK, Transactions
  <1> QED
    BY <1>1, <1>2, <1>3, <1>4, <1>5 DEF Commit, TypeOK, VersionsTypeOK

LEMMA PgInitial == Init => PgInv
  BY DEF Init, VersionsInit, PgInv, TypeOK, VersionsTypeOK, Referenced, Committed,
         ParentsLeft, OneHolder, OwnKeys, CurrentIsHead, BaseKnown, BaseCompared,
         NoForkAfterVersion, ConflictsAreReal, Hashes, NoVersion

-----------------------------------------------------------------------------
(***************************************************************************)
(* The steps preserve each part.                                           *)
(***************************************************************************)

LEMMA PgTypeStep ==
    ASSUME PgInv, [Next]_vars
    PROVE  TypeOK'
  <1> USE DEF PgInv
  <1>1. CASE UNCHANGED vars
    BY <1>1 DEF vars, versionVars, TypeOK, VersionsTypeOK
  <1>2. ASSUME NEW r \in Pushers, Begins(r) PROVE TypeOK'
    <2>1. VersionsTypeOK'
      BY <1>2, BeginFrame DEF TypeOK, VersionsTypeOK, versionVars
    <2>2. tx' \in [DOMAIN tx' -> Transactions]
      <3>1. tx' = [s \in DOMAIN tx' |-> tx'[s]]
        BY <1>2 DEF Begins, Begin
      <3> QED
        BY <1>2, <3>1, BeginFrame DEF TypeOK
    <2> QED
      BY <1>2, <2>1, <2>2, BeginFrame DEF TypeOK
  <1>3. ASSUME NEW r \in Pushers, Step(r) PROVE TypeOK'
    <2>1. r \in DOMAIN tx /\ tx[r] \in Transactions /\ heads[tx[r].rt] \in Hashes
      BY <1>3, StepFrame DEF TypeOK, VersionsTypeOK, Transactions
    <2>2. NoVersion \in Hashes
      BY DEF NoVersion, Hashes
    <2>3. tx' \in [DOMAIN tx -> Transactions]
      <3>1. CASE StartSelect(r) \/ SelectHead(r)
        BY <2>1, <2>2, <3>1
        DEF StartSelect, SelectHead, TypeOK, Transactions, Phases, Running
      <3>2. CASE ~(StartSelect(r) \/ SelectHead(r))
        BY <1>3, <2>1, <3>2
        DEF Step, Conflict, Unchanged, InsertRow, MoveHead, Commit, LoseTransaction,
            Finish, TypeOK, Transactions, Phases, Running
      <3> QED
        BY <3>1, <3>2
    <2>4. DOMAIN tx' = DOMAIN tx
      BY <1>3, StepFrame
    <2>5. VersionsTypeOK'
      <3>1. CASE ~Commit(r)
        BY <1>3, <3>1, TablesFrame DEF TypeOK, VersionsTypeOK, versionVars
      <3>2. CASE Commit(r)
        <4>1. NewRow(r) \in VersionRows
          BY <2>1 DEF NewRow, VersionRows, Transactions
        <4>2. versions' \in [DOMAIN versions' -> VersionRows]
          BY <3>2, <4>1 DEF Commit, TypeOK, VersionsTypeOK
        <4>3. DOMAIN versions' \subseteq Hashes /\ heads' \in [Runtimes -> Hashes]
          BY <3>2, CommitFrame DEF Commit, TypeOK, VersionsTypeOK
        <4> QED
          BY <4>2, <4>3 DEF VersionsTypeOK
      <3> QED
        BY <3>1, <3>2
    <2> QED
      BY <2>3, <2>4, <2>5 DEF TypeOK
  <1> QED
    BY <1>1, <1>2, <1>3, PgNextCases

(***************************************************************************)
(* A commit makes a head of a hash that was not in the table, so no head   *)
(* ever returns to a version that was the head, the base of a push or the  *)
(* parent of a version before.                                             *)
(***************************************************************************)
LEMMA HeadsAreNew ==
    ASSUME PgInv, NEW r \in Pushers, Step(r), NEW rt \in Runtimes
    PROVE  \/ heads'[rt] = heads[rt]
           \/ /\ Commit(r) /\ tx[r].rt = rt
              /\ heads'[rt] # NoVersion /\ heads'[rt] \notin DOMAIN versions
  <1>1. CASE ~Commit(r)
    BY <1>1, TablesFrame DEF versionVars
  <1>2. CASE Commit(r)
    BY <1>2, CommitFrame DEF PgInv
  <1> QED
    BY <1>1, <1>2

\* Who holds a head row after a step: who held it, or the transaction that
\* stepped, if nobody else did.
LEMMA HoldersStep ==
    ASSUME PgInv, NEW r \in Pushers, Step(r)
    PROVE  /\ \A s \in DOMAIN tx \ {r} :
                 HoldsHead(s, tx[s].rt)' <=> HoldsHead(s, tx[s].rt)
           /\ HoldsHead(r, tx[r].rt)' => HoldsHead(r, tx[r].rt) \/ HeadFree(r)
  <1>1. /\ r \in DOMAIN tx /\ DOMAIN tx' = DOMAIN tx
        /\ \A s \in DOMAIN tx \ {r} : tx'[s] = tx[s]
    BY StepFrame DEF PgInv
  <1>2. \A s \in DOMAIN tx \ {r} :
            HoldsHead(s, tx[s].rt)' <=> HoldsHead(s, tx[s].rt)
    BY <1>1 DEF HoldsHead, IsRunning
  <1>3. HoldsHead(r, tx[r].rt)' => HoldsHead(r, tx[r].rt) \/ HeadFree(r)
    BY <1>1 DEF PgInv, TypeOK, Transactions, HoldsHead, IsRunning, Running, Step,
       StartSelect, SelectHead, Conflict, Unchanged, InsertRow, MoveHead, Commit,
       LoseTransaction, Finish, In
  <1> QED
    BY <1>2, <1>3

LEMMA PgHolderStep ==
    ASSUME PgInv, NEW r \in Pushers, Step(r)
    PROVE  OneHolder'
  <1>1. /\ r \in DOMAIN tx /\ DOMAIN tx' = DOMAIN tx
        /\ \A s \in DOMAIN tx : tx'[s].rt = tx[s].rt
    BY StepFrame DEF PgInv
  <1>2. \A s, t \in DOMAIN tx :
            HoldsHead(s, tx[s].rt) /\ HoldsHead(t, tx[t].rt) /\ tx[s].rt = tx[t].rt
            => s = t
    BY DEF PgInv, OneHolder
  <1>3. HeadFree(r) => \A s \in DOMAIN tx \ {r} :
                          HoldsHead(s, tx[s].rt) => tx[s].rt # tx[r].rt
    BY DEF HeadFree
  <1> QED
    BY <1>1, <1>2, <1>3, HoldersStep DEF OneHolder

\* What a step does to the transaction's own key, and to those of the others.
LEMMA KeysStep ==
    ASSUME PgInv, NEW r \in Pushers, Step(r)
    PROVE  /\ \A s \in DOMAIN tx \ {r} :
                 /\ HasInserted(s)' <=> HasInserted(s)
                 /\ Hash(s)' = Hash(s)
           /\ HasInserted(r)' =>
                 /\ Hash(r)' = Hash(r)
                 /\ \/ HasInserted(r)
                    \/ KeyFree(r) /\ Hash(r) \notin DOMAIN versions /\ ~Commit(r)
  <1>1. /\ r \in DOMAIN tx /\ DOMAIN tx' = DOMAIN tx
        /\ \A s \in DOMAIN tx \ {r} : tx'[s] = tx[s]
    BY StepFrame DEF PgInv
  <1>2. \A s \in DOMAIN tx \ {r} :
            (HasInserted(s)' <=> HasInserted(s)) /\ Hash(s)' = Hash(s)
    BY <1>1 DEF HasInserted, Hash
  <1>3. HasInserted(r)' =>
            /\ Hash(r)' = Hash(r)
            /\ \/ HasInserted(r)
               \/ KeyFree(r) /\ Hash(r) \notin DOMAIN versions /\ ~Commit(r)
    BY <1>1 DEF PgInv, TypeOK, Transactions, HasInserted, Hash, Step, StartSelect,
       SelectHead, Conflict, Unchanged, InsertRow, MoveHead, Commit,
       LoseTransaction, Finish, In
  <1> QED
    BY <1>2, <1>3

LEMMA PgKeysStep ==
    ASSUME PgInv, NEW r \in Pushers, Step(r)
    PROVE  OwnKeys'
  <1>1. r \in DOMAIN tx /\ DOMAIN tx' = DOMAIN tx
    BY StepFrame DEF PgInv
  <1>2. /\ \A s \in DOMAIN tx : HasInserted(s) => Hash(s) \notin DOMAIN versions
        /\ \A s, t \in DOMAIN tx :
              HasInserted(s) /\ HasInserted(t) /\ Hash(s) = Hash(t) => s = t
    BY DEF PgInv, OwnKeys
  <1>3. \A s, t \in DOMAIN tx :
            HasInserted(s)' /\ HasInserted(t)' /\ Hash(s)' = Hash(t)' => s = t
    BY <1>1, <1>2, KeysStep DEF KeyFree
  <1>4. \A s \in DOMAIN tx : HasInserted(s)' => Hash(s)' \notin DOMAIN versions'
    <2>1. CASE ~Commit(r)
      BY <1>1, <1>2, <2>1, KeysStep, TablesFrame DEF versionVars
    <2>2. CASE Commit(r)
      <3>1. /\ HasInserted(r)
            /\ DOMAIN versions' = DOMAIN versions \cup {Hash(r)}
            /\ tx'[r].phase = "created"
        BY <2>2, CommitFrame DEF PgInv
      <3>2. ~HasInserted(r)'
        BY <3>1 DEF HasInserted
      <3> QED
        BY <1>1, <1>2, <3>1, <3>2, KeysStep
    <2> QED
      BY <2>1, <2>2
  <1> QED
    BY <1>1, <1>3, <1>4 DEF OwnKeys

LEMMA PgReferencedStep ==
    ASSUME PgInv, NEW r \in Pushers, Step(r)
    PROVE  Referenced'
  <1>1. CASE ~Commit(r)
    BY <1>1, TablesFrame DEF PgInv, Referenced, Committed, versionVars
  <1>2. CASE Commit(r)
    <2>1. /\ DOMAIN versions' = DOMAIN versions \cup {Hash(r)}
          /\ \A h \in DOMAIN versions : versions'[h] = versions[h]
          /\ versions'[Hash(r)].parent = tx[r].current
          /\ heads'[tx[r].rt] = Hash(r)
          /\ \A rt \in Runtimes \ {tx[r].rt} : heads'[rt] = heads[rt]
          /\ r \in DOMAIN tx /\ tx[r].phase = "moved" /\ tx[r].rt \in Runtimes
      BY <1>2, CommitFrame DEF PgInv, NewRow, Transactions, HasInserted, Commit, In
    <2>2. Committed(tx[r].current)
      BY <2>1 DEF PgInv, CurrentIsHead, Referenced, Committed
    <2> QED
      BY <2>1, <2>2 DEF PgInv, Referenced, Committed
  <1> QED
    BY <1>1, <1>2

\* A transaction that works with a head keeps it: who commits to that runtime
\* holds the head row, and so does this one.
LEMMA PgCurrentStep ==
    ASSUME PgInv, NEW r \in Pushers, Step(r)
    PROVE  CurrentIsHead'
  <1>1. /\ r \in DOMAIN tx /\ DOMAIN tx' = DOMAIN tx
        /\ \A s \in DOMAIN tx \ {r} : tx'[s] = tx[s]
        /\ \A s \in DOMAIN tx : tx'[s].rt = tx[s].rt /\ tx[s].rt \in Runtimes
    BY StepFrame DEF PgInv, TypeOK, Transactions
  <1>2. SUFFICES ASSUME NEW s \in DOMAIN tx,
                        tx'[s].phase \in {"selected", "inserted", "moved"},
                        tx'[s].current # NoVersion
                 PROVE  tx'[s].locked /\ heads'[tx[s].rt] = tx'[s].current
    BY <1>1, <1>2 DEF CurrentIsHead
  <1>3. CASE s = r
    <2>1. ~Commit(r)
      BY <1>2, <1>3, CommitFrame DEF PgInv
    <2>2. UNCHANGED versionVars
      BY <2>1, TablesFrame
    <2>3. tx'[r].locked /\ heads[tx[r].rt] = tx'[r].current
      BY <1>1, <1>2, <1>3, SelectFrame DEF PgInv, CurrentIsHead
    <2> QED
      BY <1>3, <2>2, <2>3 DEF versionVars
  <1>4. CASE s # r
    <2>1. tx[s].locked /\ heads[tx[s].rt] = tx[s].current
      BY <1>1, <1>2, <1>4 DEF PgInv, CurrentIsHead
    <2>2. HoldsHead(s, tx[s].rt)
      BY <1>1, <1>2, <1>4, <2>1 DEF HoldsHead, IsRunning, Running
    <2>3. ~(Commit(r) /\ tx[r].rt = tx[s].rt)
      <3>1. Commit(r) => HoldsHead(r, tx[r].rt)
        BY <1>1 DEF Commit, In, HoldsHead, IsRunning, Running
      <3> QED
        BY <1>1, <1>4, <2>2, <3>1 DEF PgInv, OneHolder
    <2>4. heads'[tx[s].rt] = heads[tx[s].rt]
      BY <1>1, <2>3, HeadsAreNew
    <2> QED
      BY <1>1, <1>4, <2>1, <2>4
  <1> QED
    BY <1>3, <1>4

\* If a head is the base of a transaction after a step, it was before.
LEMMA BasesLeft ==
    ASSUME PgInv, NEW r \in Pushers, Step(r), NEW s \in DOMAIN tx,
           heads'[tx[s].rt] = tx[s].base
    PROVE  heads[tx[s].rt] = tx[s].base
  <1>1. tx[s].rt \in Runtimes
    BY DEF PgInv, TypeOK, Transactions
  <1>2. Committed(tx[s].base)
    BY DEF PgInv, BaseKnown
  <1> QED
    BY <1>1, <1>2, HeadsAreNew DEF Committed

LEMMA PgBaseStep ==
    ASSUME PgInv, NEW r \in Pushers, Step(r)
    PROVE  BaseKnown'
  <1>1. /\ r \in DOMAIN tx /\ DOMAIN tx' = DOMAIN tx
        /\ \A s \in DOMAIN tx \ {r} : tx'[s] = tx[s]
        /\ \A s \in DOMAIN tx : tx'[s].rt = tx[s].rt /\ tx'[s].base = tx[s].base
    BY StepFrame DEF PgInv
  <1>2. \A s \in DOMAIN tx : Committed(tx[s].base)'
    <2>1. DOMAIN versions \subseteq DOMAIN versions'
      <3>1. CASE Commit(r)
        BY <3>1, CommitFrame DEF PgInv
      <3>2. CASE ~Commit(r)
        BY <3>2, TablesFrame DEF versionVars
      <3> QED
        BY <3>1, <3>2
    <2> QED
      BY <1>1, <2>1 DEF PgInv, BaseKnown, Committed
  <1>3. ASSUME NEW s \in DOMAIN tx, heads'[tx[s].rt] = tx[s].base
        PROVE  /\ tx'[s].phase = "selecting" => tx'[s].seen = tx[s].base
               /\ tx'[s].phase = "selected" => tx'[s].current = tx[s].base
    <2>1. heads[tx[s].rt] = tx[s].base
      BY <1>3, BasesLeft
    <2>2. CASE s # r
      BY <1>1, <2>1, <2>2 DEF PgInv, BaseKnown
    <2>3. CASE s = r
      BY <1>1, <2>1, <2>3, SelectFrame DEF PgInv, BaseKnown
    <2> QED
      BY <2>2, <2>3
  <1>4. \A s \in DOMAIN tx :
            /\ tx'[s].phase = "selecting" /\ heads'[tx'[s].rt] = tx'[s].base
                  => tx'[s].seen = tx'[s].base
            /\ tx'[s].phase = "selected" /\ heads'[tx'[s].rt] = tx'[s].base
                  => tx'[s].current = tx'[s].base
    BY <1>1, <1>3
  <1> QED
    BY <1>1, <1>2, <1>4 DEF BaseKnown

LEMMA PgComparedStep ==
    ASSUME PgInv, NEW r \in Pushers, Step(r)
    PROVE  BaseCompared'
  <1>1. /\ r \in DOMAIN tx /\ DOMAIN tx' = DOMAIN tx
        /\ \A s \in DOMAIN tx \ {r} : tx'[s] = tx[s]
    BY StepFrame DEF PgInv
  <1>2. HasInserted(r)' /\ tx'[r].guarded => tx'[r].current = tx'[r].base
    BY <1>1
    DEF PgInv, BaseCompared, BaseMoved, HasInserted, TypeOK, Transactions, Step,
        StartSelect, SelectHead, Conflict, Unchanged, InsertRow, MoveHead, Commit,
        LoseTransaction, Finish, In
  <1> QED
    BY <1>1, <1>2 DEF PgInv, BaseCompared, HasInserted

LEMMA PgConflictStep ==
    ASSUME PgInv, NEW r \in Pushers, Step(r)
    PROVE  ConflictsAreReal'
  <1>1. /\ r \in DOMAIN tx /\ DOMAIN tx' = DOMAIN tx
        /\ \A s \in DOMAIN tx \ {r} : tx'[s] = tx[s]
        /\ \A s \in DOMAIN tx : tx'[s].rt = tx[s].rt /\ tx'[s].base = tx[s].base
    BY StepFrame DEF PgInv
  <1>2. SUFFICES ASSUME NEW s \in DOMAIN tx, tx'[s].phase = "conflict",
                        heads'[tx[s].rt] = tx[s].base
                 PROVE  FALSE
    BY <1>1, <1>2 DEF ConflictsAreReal
  <1>3. heads[tx[s].rt] = tx[s].base
    BY <1>2, BasesLeft
  <1>4. tx[s].phase # "conflict"
    BY <1>3 DEF PgInv, ConflictsAreReal
  <1>5. s = r /\ Conflict(r)
    BY <1>1, <1>2, <1>4
    DEF PgInv, TypeOK, Transactions, Step, StartSelect, SelectHead, Unchanged,
        InsertRow, MoveHead, Commit, LoseTransaction, Finish, In
  <1> QED
    BY <1>1, <1>3, <1>5 DEF PgInv, BaseKnown, Conflict, BaseMoved, In

(***************************************************************************)
(* The chain: a version that follows another is committed while that one   *)
(* is the head, so nothing else follows it, and nothing will.              *)
(***************************************************************************)
LEMMA PgChainStep ==
    ASSUME PgInv, NEW r \in Pushers, Step(r)
    PROVE  ParentsLeft' /\ NoForkAfterVersion'
  <1>1. CASE ~Commit(r)
    BY <1>1, TablesFrame DEF PgInv, ParentsLeft, NoForkAfterVersion, versionVars
  <1>2. CASE Commit(r)
    <2> DEFINE hash == Hash(r)
               rt == tx[r].rt
               current == tx[r].current
    <2>1. /\ hash # NoVersion /\ hash # current /\ hash \notin DOMAIN versions
          /\ DOMAIN versions' = DOMAIN versions \cup {hash}
          /\ \A h \in DOMAIN versions : versions'[h] = versions[h]
          /\ versions'[hash].parent = current /\ versions'[hash].runtime = rt
          /\ heads'[rt] = hash
          /\ \A s \in Runtimes \ {rt} : heads'[s] = heads[s]
          /\ r \in DOMAIN tx /\ tx[r].phase = "moved"
      BY <1>2, CommitFrame DEF PgInv, NewRow, Commit, In
    <2>2. current # NoVersion => heads[rt] = current
      BY <2>1 DEF PgInv, CurrentIsHead
    <2>3. \A h \in DOMAIN versions :
            /\ versions[h].runtime \in Runtimes
            /\ versions[h].parent = NoVersion \/ versions[h].parent \in DOMAIN versions
            /\ versions[h].parent # NoVersion =>
                  heads[versions[h].runtime] # versions[h].parent
      BY DEF PgInv, Referenced, Committed, ParentsLeft, TypeOK, VersionsTypeOK,
         VersionRows
    <2>4. \A g, h \in DOMAIN versions :
            /\ versions[g].runtime = versions[h].runtime
            /\ versions[g].parent = versions[h].parent
            /\ versions[g].parent # NoVersion
            => g = h
      BY DEF PgInv, NoForkAfterVersion
    <2> HIDE DEF hash, rt, current
    <2>5. ParentsLeft'
      BY <2>1, <2>3 DEF ParentsLeft
    <2>6. NoForkAfterVersion'
      BY <2>1, <2>2, <2>3, <2>4 DEF NoForkAfterVersion
    <2> QED
      BY <2>5, <2>6
  <1> QED
    BY <1>1, <1>2

\* A push that begins holds nothing and is at its base.
LEMMA PgBeginStep ==
    ASSUME PgInv, NEW r \in Pushers, Begins(r)
    PROVE  PgInv'
  <1>1. /\ r \notin DOMAIN tx
        /\ DOMAIN tx' = DOMAIN tx \cup {r}
        /\ \A s \in DOMAIN tx : tx'[s] = tx[s]
        /\ tx'[r].phase = "begun" /\ tx'[r].locked = FALSE
        /\ tx'[r].rt \in Runtimes /\ tx'[r].base = heads[tx'[r].rt]
        /\ heads' = heads /\ versions' = versions
    BY BeginFrame DEF PgInv, versionVars
  <1>2. TypeOK'
    BY PgTypeStep DEF Next, Begins
  <1>3. Referenced' /\ ParentsLeft' /\ NoForkAfterVersion'
    BY <1>1 DEF PgInv, Referenced, Committed, ParentsLeft, NoForkAfterVersion
  <1>4. OneHolder'
    <2>1. ~HoldsHead(r, tx[r].rt)'
      BY <1>1 DEF HoldsHead
    <2>2. \A s \in DOMAIN tx : HoldsHead(s, tx[s].rt)' <=> HoldsHead(s, tx[s].rt)
      BY <1>1 DEF HoldsHead, IsRunning
    <2> QED
      BY <1>1, <2>1, <2>2 DEF PgInv, OneHolder
  <1>5. OwnKeys' /\ BaseCompared'
    BY <1>1 DEF PgInv, OwnKeys, BaseCompared, HasInserted, Hash
  <1>6. CurrentIsHead' /\ ConflictsAreReal'
    BY <1>1 DEF PgInv, CurrentIsHead, ConflictsAreReal
  <1>7. BaseKnown'
    BY <1>1 DEF PgInv, BaseKnown, Committed, Referenced
  <1> QED
    BY <1>2, <1>3, <1>4, <1>5, <1>6, <1>7 DEF PgInv

LEMMA PgStep ==
    ASSUME PgInv, [Next]_vars
    PROVE  PgInv'
  <1>1. CASE UNCHANGED vars
    BY <1>1 DEF vars, versionVars, PgInv, TypeOK, VersionsTypeOK, Referenced,
       Committed, ParentsLeft, OneHolder, HoldsHead, IsRunning, OwnKeys, HasInserted,
       Hash, CurrentIsHead, BaseKnown, BaseCompared, NoForkAfterVersion,
       ConflictsAreReal
  <1>2. ASSUME NEW r \in Pushers, Begins(r) PROVE PgInv'
    BY <1>2, PgBeginStep
  <1>3. ASSUME NEW r \in Pushers, Step(r) PROVE PgInv'
    BY <1>3, PgTypeStep, PgReferencedStep, PgChainStep, PgHolderStep, PgKeysStep,
       PgCurrentStep, PgBaseStep, PgComparedStep, PgConflictStep DEF PgInv
  <1> QED
    BY <1>1, <1>2, <1>3, PgNextCases

-----------------------------------------------------------------------------
(***************************************************************************)
(* The theorems.                                                           *)
(***************************************************************************)

\* The tables keep their types whatever the transactions do.
THEOREM PostgresTypes == Spec => []TypeOK
  <1>1. PgInv => TypeOK
    BY DEF PgInv
  <1> QED
    BY <1>1, PgInitial, PgStep, PTL DEF Spec

\* No version is followed by two, however many servers commit to PostgreSQL:
\* FOR UPDATE in commitVersion.
THEOREM PostgresNoFork == Spec => []NoForkAfterVersion
  <1>1. PgInv => NoForkAfterVersion
    BY DEF PgInv
  <1> QED
    BY <1>1, PgInitial, PgStep, PTL DEF Spec

\* A 409 from commitVersion is never wrong: a head that has moved away from a
\* push's base does not come back to it.
THEOREM PostgresConflicts == Spec => []ConflictsAreReal
  <1>1. PgInv => ConflictsAreReal
    BY DEF PgInv
  <1> QED
    BY <1>1, PgInitial, PgStep, PTL DEF Spec

\* A commit that names a base replaces exactly that head.
THEOREM PostgresSwaps == Spec => SwapsFromBase
  <1> DEFINE Swap == \A r \in DOMAIN tx :
                        /\ tx[r].guarded /\ tx[r].base # NoVersion
                        /\ tx[r].phase # "created" /\ tx'[r].phase = "created"
                        => heads[tx[r].rt] = tx[r].base
  <1>1. ASSUME PgInv, [Next]_vars PROVE [Swap]_vars
    <2>1. SUFFICES ASSUME NEW s \in DOMAIN tx,
                          tx[s].guarded, tx[s].base # NoVersion,
                          tx[s].phase # "created", tx'[s].phase = "created"
                   PROVE  heads[tx[s].rt] = tx[s].base
      OBVIOUS
    <2>2. ~UNCHANGED vars
      BY <2>1 DEF vars
    <2>3. ASSUME NEW r \in Pushers, Begins(r) PROVE FALSE
      BY <1>1, <2>1, <2>3, BeginFrame DEF PgInv
    <2>4. ASSUME NEW r \in Pushers, Step(r)
          PROVE  heads[tx[s].rt] = tx[s].base
      <3>1. s = r
        BY <1>1, <2>1, <2>4, StepFrame DEF PgInv
      <3>2. Commit(r)
        BY <1>1, <2>1, <2>4, <3>1
        DEF PgInv, TypeOK, Transactions, Step, StartSelect, SelectHead, Conflict,
            Unchanged, InsertRow, MoveHead, LoseTransaction, Finish, In
      <3>3. tx[r].phase = "moved" /\ HasInserted(r)
        BY <3>2 DEF Commit, In, HasInserted
      <3>4. tx[r].current = tx[r].base
        BY <1>1, <2>1, <3>1, <3>3 DEF PgInv, BaseCompared
      <3> QED
        BY <1>1, <2>1, <3>1, <3>3, <3>4 DEF PgInv, CurrentIsHead
    <2> QED
      BY <1>1, <2>2, <2>3, <2>4, PgNextCases
  <1> QED
    BY <1>1, PgInitial, PgStep, PTL DEF Spec, SwapsFromBase

\* No commit removes or replaces another one's row: the primary key, waited for.
THEOREM PostgresRows == Spec => RowsImmutable
  <1> DEFINE Keep == \A h \in DOMAIN versions :
                        h \in DOMAIN versions' /\ versions'[h] = versions[h]
  <1>1. ASSUME PgInv, [Next]_vars PROVE [Keep]_vars
    <2>1. CASE UNCHANGED vars
      BY <2>1
    <2>2. ASSUME NEW r \in Pushers, Begins(r) PROVE Keep
      BY <1>1, <2>2, BeginFrame DEF PgInv, versionVars
    <2>3. ASSUME NEW r \in Pushers, Step(r) PROVE Keep
      <3>1. CASE Commit(r)
        BY <1>1, <3>1, CommitFrame DEF PgInv
      <3>2. CASE ~Commit(r)
        BY <2>3, <3>2, TablesFrame DEF versionVars
      <3> QED
        BY <3>1, <3>2
    <2> QED
      BY <1>1, <2>1, <2>2, <2>3, PgNextCases
  <1> QED
    BY <1>1, PgInitial, PgStep, PTL DEF Spec, RowsImmutable

=============================================================================
