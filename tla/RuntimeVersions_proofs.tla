----------------------- MODULE RuntimeVersions_proofs -----------------------
(***************************************************************************)
(* What one commit transaction does to the version tables, for any         *)
(* runtimes, paths and contents.  The theorems about the server rest on    *)
(* these lemmas.                                                           *)
(***************************************************************************)
EXTENDS RuntimeVersions, Integers, TLAPS

\* A version's hash is longer than its parent's and ends in its tree.
LEMMA HashOfVersion ==
    ASSUME NEW tree \in Trees, NEW parent \in Hashes
    PROVE  LET hash == VersionHash(tree, parent) IN
           /\ hash \in Hashes
           /\ hash # NoVersion
           /\ Len(hash) = Len(parent) + 1
           /\ hash[Len(hash)] = tree
  BY DEF VersionHash, Hashes, NoVersion

\* A commit that changes nothing.
LEMMA CommitKeeps ==
    ASSUME NEW rt, NEW tree, NEW guarded, NEW base,
           \/ CommitConflict(rt, guarded, base)
           \/ CommitUnchanged(rt, tree, guarded, base)
           \/ CommitRejected(rt, tree, guarded, base)
    PROVE  UNCHANGED versionVars
  BY DEF CommitConflict, CommitUnchanged, CommitRejected

\* A commit that creates a version: one new row, nothing else but its head.
LEMMA CommitAdds ==
    ASSUME VersionsTypeOK, NEW rt \in Runtimes, NEW tree \in Trees,
           NEW guarded, NEW base, CommitCreated(rt, tree, guarded, base)
    PROVE  LET hash == VersionHash(tree, heads[rt]) IN
           /\ hash \in Hashes /\ hash # NoVersion /\ hash \notin DOMAIN versions
           /\ DOMAIN versions' = DOMAIN versions \cup {hash}
           /\ versions'[hash].tree = tree
           /\ versions'[hash].parent = heads[rt]
           /\ versions'[hash].runtime = rt
           /\ \A h \in DOMAIN versions : versions'[h] = versions[h]
           /\ DOMAIN heads' = Runtimes
           /\ heads'[rt] = hash
           /\ \A s \in Runtimes \ {rt} : heads'[s] = heads[s]
  <1>1. heads[rt] \in Hashes
    BY DEF VersionsTypeOK
  <1> QED
    BY <1>1, HashOfVersion
    DEF CommitCreated, InsertVersion, HashTaken, VersionsTypeOK

LEMMA CommitAddsTyped ==
    ASSUME VersionsTypeOK, NEW rt \in Runtimes, NEW tree \in Trees,
           NEW guarded, NEW base, CommitCreated(rt, tree, guarded, base)
    PROVE  VersionsTypeOK'
  <1> DEFINE hash == VersionHash(tree, heads[rt])
  <1>1. heads[rt] \in Hashes /\ hash \in Hashes
    BY HashOfVersion DEF VersionsTypeOK
  <1>2. heads' \in [Runtimes -> Hashes]
    BY <1>1 DEF CommitCreated, VersionsTypeOK
  <1>3. DOMAIN versions' = DOMAIN versions \cup {hash}
    BY CommitAdds
  <1>4. versions' \in [DOMAIN versions' -> VersionRows]
    BY <1>1 DEF CommitCreated, InsertVersion, VersionsTypeOK, VersionRows
  <1> QED
    BY <1>1, <1>2, <1>3, <1>4 DEF VersionsTypeOK

LEMMA CommitAddsMatching ==
    ASSUME VersionsTypeOK, RowsMatchHashes, NEW rt \in Runtimes, NEW tree \in Trees,
           NEW guarded, NEW base, CommitCreated(rt, tree, guarded, base)
    PROVE  RowsMatchHashes'
  <1> DEFINE hash == VersionHash(tree, heads[rt])
  <1>1. /\ DOMAIN versions' = DOMAIN versions \cup {hash}
        /\ versions'[hash].tree = tree
        /\ versions'[hash].parent = heads[rt]
        /\ \A h \in DOMAIN versions : versions'[h] = versions[h]
    BY CommitAdds
  <1>2. hash = VersionHash(versions'[hash].tree, versions'[hash].parent)
    BY <1>1
  <1> HIDE DEF hash
  <1> QED
    BY <1>1, <1>2 DEF RowsMatchHashes

(***************************************************************************)
(* A commit keeps every runtime's history linear.  HeadsAreLast says that  *)
(* nothing follows the current head, so the new version forks nothing;     *)
(* the new hash was not in the table, so nothing follows it yet.           *)
(***************************************************************************)
LEMMA CommitKeepsLinear ==
    ASSUME VersionsTypeOK, LinearHistory, NEW rt \in Runtimes, NEW tree \in Trees,
           NEW guarded, NEW base, CommitCreated(rt, tree, guarded, base)
    PROVE  LinearHistory'
  <1> DEFINE hash == VersionHash(tree, heads[rt])
  <1>1. /\ hash \in Hashes /\ hash # NoVersion /\ hash \notin DOMAIN versions
        /\ DOMAIN versions' = DOMAIN versions \cup {hash}
        /\ versions'[hash].parent = heads[rt]
        /\ versions'[hash].runtime = rt
        /\ \A h \in DOMAIN versions : versions'[h] = versions[h]
        /\ heads'[rt] = hash
        /\ \A s \in Runtimes \ {rt} : heads'[s] = heads[s]
    BY CommitAdds
  <1>2. \A h \in DOMAIN versions : versions[h].runtime \in Runtimes
    BY DEF VersionsTypeOK, VersionRows
  <1>3. heads[rt] # hash
    BY HashOfVersion DEF VersionsTypeOK, Hashes
  <1> HIDE DEF hash
  <1>4. HeadsOwned'
    BY <1>1, <1>2 DEF LinearHistory, HeadsOwned, VersionsOf, HasHead
  <1>5. heads[rt] = NoVersion \/ heads[rt] \in VersionsOf(rt)
    BY DEF LinearHistory, HeadsOwned, HasHead
  <1>6. ParentsOwned'
    BY <1>1, <1>2, <1>5 DEF LinearHistory, ParentsOwned, VersionsOf
  <1>7. \A h \in VersionsOf(rt) : versions[h].parent # heads[rt]
    BY <1>5 DEF LinearHistory, HeadsOwned, HeadsAreLast, VersionsOf, HasHead
  <1>8. NoForks'
    BY <1>1, <1>7 DEF LinearHistory, NoForks, VersionsOf
  <1>9. \A h \in DOMAIN versions : versions[h].parent # hash
    BY <1>1 DEF LinearHistory, ParentsOwned, VersionsOf
  <1>10. HeadsAreLast'
    <2> DEFINE Followed(h, rows) ==
                 \E g \in DOMAIN rows : rows[g].runtime = rows[h].runtime
                                       /\ rows[g].parent = h
    <2>1. \A h \in DOMAIN versions :
            h # heads[versions[h].runtime] <=> Followed(h, versions)
      BY DEF LinearHistory, HeadsAreLast, VersionsOf
    <2>2. SUFFICES ASSUME NEW h \in DOMAIN versions'
                   PROVE  h # heads'[versions'[h].runtime] <=> Followed(h, versions')
      BY <2>2 DEF HeadsAreLast, VersionsOf
    <2>3. CASE h = hash
      <3>1. ~Followed(h, versions')
        BY <1>1, <1>3, <1>9, <2>3
      <3> QED
        BY <1>1, <2>3, <3>1
    <2>4. CASE h # hash /\ h = heads[rt] /\ versions[h].runtime = rt
      <3>1. Followed(h, versions')
        BY <1>1, <2>4
      <3> QED
        BY <1>1, <2>4, <3>1
    <2>5. CASE h # hash /\ ~(h = heads[rt] /\ versions[h].runtime = rt)
      <3>1. h \in DOMAIN versions
        BY <1>1, <2>5
      <3>2. Followed(h, versions') <=> Followed(h, versions)
        BY <1>1, <2>5, <3>1
      <3>3. h # heads'[versions'[h].runtime] <=> h # heads[versions[h].runtime]
        BY <1>1, <1>2, <2>5, <3>1
      <3> QED
        BY <2>1, <3>1, <3>2, <3>3
    <2> QED
      BY <2>3, <2>4, <2>5
  <1> QED
    BY <1>4, <1>6, <1>8, <1>10 DEF LinearHistory

=============================================================================
