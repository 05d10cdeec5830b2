------------------------ MODULE RuntimeServer_proofs ------------------------
(***************************************************************************)
(* Theorems about RuntimeServer, for any number of runtimes, paths,        *)
(* contents, pushes and file requests: types and linear histories; a       *)
(* version never changes, a head has one guarded winner, and the server    *)
(* implements VersionHistory; and what the version tables and the file     *)
(* records name is in the object store at every moment.                    *)
(***************************************************************************)
EXTENDS RuntimeServer, RuntimeVersions_proofs

-----------------------------------------------------------------------------
(***************************************************************************)
(* Type correctness and linear history, proved together: the tree a GET    *)
(* reads is a tree because its runtime's head is one of its versions.      *)
(* The rest of the invariant: a push stages files of its tree only, an     *)
(* upload has a body (without that a write could store NoContent), and a   *)
(* GET goes to the head only in a runtime that has one.                    *)
(***************************************************************************)

StagesItsTree ==
    \A r \in DOMAIN push :
        push[r].phase \in {"loaded", "stage"} =>
            push[r].todo \subseteq FilesOf(push[r].tree)

UploadsHaveBodies ==
    \A f \in DOMAIN fileReq :
        fileReq[f].kind = "put" => fileReq[f].body \in Contents

HeadReadsHaveHead ==
    \A f \in DOMAIN fileReq :
        fileReq[f].step = "headFile" => HasHead(fileReq[f].rt)

TypeInv ==
    /\ TypeOK
    /\ LinearHistory
    /\ RowsMatchHashes
    /\ StagesItsTree
    /\ UploadsHaveBodies
    /\ HeadReadsHaveHead

PushInv == PushTypeOK /\ StagesItsTree

FileReqInv == FileReqTypeOK /\ UploadsHaveBodies

\* The stores keep their types whatever is written to them.
LEMMA WriteBlobTyped ==
    ASSUME StoreTypeOK, NEW content \in Contents, WriteBlob(content)
    PROVE  StoreTypeOK'
  BY DEF StoreTypeOK, WriteBlob

LEMMA WriteFileTyped ==
    ASSUME StoreTypeOK, NEW rt \in Runtimes, NEW path \in Paths,
           NEW content \in MaybeContent, WriteFile(rt, path, content)
    PROVE  StoreTypeOK'
  BY DEF StoreTypeOK, WriteFile, Trees

LEMMA DeleteFileTyped ==
    ASSUME StoreTypeOK, NEW rt \in Runtimes, NEW path \in Paths, DeleteFile(rt, path)
    PROVE  StoreTypeOK'
  BY DEF StoreTypeOK, DeleteFile, Trees, MaybeContent

LEMMA UpsertFileTyped ==
    ASSUME RecordsTypeOK, NEW rt \in Runtimes, NEW path \in Paths,
           NEW content \in MaybeContent, UpsertFile(rt, path, content)
    PROVE  RecordsTypeOK'
  BY DEF RecordsTypeOK, UpsertFile, Trees

LEMMA MarkDeletedTyped ==
    ASSUME RecordsTypeOK, NEW rt \in Runtimes, NEW path \in Paths, MarkDeleted(rt, path)
    PROVE  RecordsTypeOK'
  BY DEF RecordsTypeOK, MarkDeleted, Trees, MaybeContent

LEMMA InsertPublicTyped ==
    ASSUME RecordsTypeOK, NEW rt \in Runtimes, NEW path \in Paths, InsertPublic(rt, path)
    PROVE  RecordsTypeOK'
  BY DEF RecordsTypeOK, InsertPublic

LEMMA DeletePublicTyped ==
    ASSUME RecordsTypeOK, NEW rt \in Runtimes, NEW path \in Paths, DeletePublic(rt, path)
    PROVE  RecordsTypeOK'
  BY DEF RecordsTypeOK, DeletePublic

\* A request is typed when it is made ...
LEMMA NewPushTyped ==
    ASSUME PushInv, NEW r \in Pushers, NEW phase \in {"loaded", "stage"},
           NEW rt \in Runtimes, NEW tree \in Trees, NEW base \in Hashes,
           NEW guarded \in BOOLEAN, NEW todo \in SUBSET FilesOf(tree),
           NewPush(r, phase, rt, tree, base, guarded, todo)
    PROVE  PushInv'
  <1>1. FilesOf(tree) \subseteq Paths
    BY DEF FilesOf
  <1>2. DOMAIN push' = DOMAIN push \cup {r} /\ push' \in [DOMAIN push' -> PushRequests]
    BY <1>1 DEF PushInv, NewPush, PushTypeOK, PushRequests, Phases, PushOutcomes
  <1>3. StagesItsTree'
    BY DEF PushInv, NewPush, StagesItsTree
  <1> QED
    BY <1>2, <1>3 DEF PushInv, PushTypeOK

\* ... and is no less so when it has staged its objects and moves on.
LEMMA MovedOnTyped ==
    ASSUME PushInv, NEW r \in DOMAIN push,
           push' \in [DOMAIN push -> PushRequests],
           push'[r].phase \notin {"loaded", "stage"},
           \A s \in DOMAIN push \ {r} : push'[s] = push[s]
    PROVE  PushInv'
  BY DEF PushInv, PushTypeOK, StagesItsTree

LEMMA PushFields ==
    ASSUME PushInv, NEW r \in DOMAIN push
    PROVE  /\ push[r] \in PushRequests
           /\ r \in Pushers
           /\ push[r].phase \in Phases
           /\ push[r].outcome \in PushOutcomes
           /\ push[r].rt \in Runtimes
           /\ push[r].tree \in Trees
           /\ push[r].base \in Hashes
           /\ push[r].guarded \in BOOLEAN
           /\ push[r].todo \in SUBSET Paths
           /\ push[r].half \in SUBSET Paths
  BY DEF PushInv, PushTypeOK, PushRequests

LEMMA FileReqFields ==
    ASSUME FileReqInv, NEW f \in DOMAIN fileReq
    PROVE  /\ fileReq[f] \in FileReqs
           /\ f \in FileRequestIds
           /\ fileReq[f].step \in FileSteps
           /\ fileReq[f].rt \in Runtimes
           /\ fileReq[f].path \in Paths
           /\ fileReq[f].body \in MaybeContent
  BY DEF FileReqInv, FileReqTypeOK, FileReqs

LEMMA ArriveTyped ==
    ASSUME FileReqInv, NEW f \in FileRequestIds, NEW kind, NEW step \in FileSteps,
           NEW rt \in Runtimes, NEW path \in Paths, NEW body \in MaybeContent,
           kind = "put" => body \in Contents,
           Arrive(f, kind, step, rt, path, body)
    PROVE  FileReqInv'
  <1>1. kind \in {"put", "delete", "get", "publish", "unpublish"}
    BY FileKindsAssumption DEF Arrive
  <1>2. DOMAIN fileReq' = DOMAIN fileReq \cup {f} /\ fileReq' \in [DOMAIN fileReq' -> FileReqs]
    BY <1>1 DEF FileReqInv, FileReqTypeOK, FileReqs, Arrive
  <1>3. UploadsHaveBodies'
    BY DEF FileReqInv, UploadsHaveBodies, Arrive
  <1> QED
    BY <1>2, <1>3 DEF FileReqInv, FileReqTypeOK

LEMMA AnsweredTyped ==
    ASSUME FileReqInv, NEW f \in DOMAIN fileReq, fileReq[f].kind = "get",
           NEW step \in FileSteps, NEW body \in MaybeContent,
           fileReq' = [fileReq EXCEPT ![f].step = step, ![f].body = body]
    PROVE  FileReqInv'
  <1>1. DOMAIN fileReq' = DOMAIN fileReq /\ fileReq' \in [DOMAIN fileReq' -> FileReqs]
    BY DEF FileReqInv, FileReqTypeOK, FileReqs
  <1>2. UploadsHaveBodies'
    BY DEF FileReqInv, FileReqTypeOK, FileReqs, UploadsHaveBodies
  <1> QED
    BY <1>1, <1>2 DEF FileReqInv, FileReqTypeOK

LEMMA GoTyped ==
    ASSUME FileReqInv, NEW f \in DOMAIN fileReq, NEW step \in FileSteps, Go(f, step)
    PROVE  FileReqInv'
  <1>1. DOMAIN fileReq' = DOMAIN fileReq /\ fileReq' \in [DOMAIN fileReq' -> FileReqs]
    BY DEF FileReqInv, FileReqTypeOK, FileReqs, Go
  <1>2. UploadsHaveBodies'
    BY DEF FileReqInv, FileReqTypeOK, FileReqs, UploadsHaveBodies, Go
  <1> QED
    BY <1>1, <1>2 DEF FileReqInv, FileReqTypeOK

LEMMA TypeInitial == Init => TypeInv
  <1> SUFFICES ASSUME Init PROVE TypeInv
    OBVIOUS
  <1>1. EmptyTree \in Trees
    BY DEF EmptyTree, Trees, MaybeContent
  <1>2. StoreTypeOK /\ RecordsTypeOK
    BY <1>1 DEF Init, StoreInit, StoreTypeOK, RecordsInit, RecordsTypeOK
  <1>3. VersionsTypeOK
    BY DEF Init, VersionsInit, VersionsTypeOK, Hashes, NoVersion
  <1>4. PushTypeOK /\ StagesItsTree
    BY DEF Init, PushInit, PushTypeOK, StagesItsTree
  <1>5. FileReqTypeOK /\ UploadsHaveBodies
    BY DEF Init, FileReqInit, FileReqTypeOK, UploadsHaveBodies
  <1>6. LinearHistory /\ RowsMatchHashes
    BY DEF Init, VersionsInit, LinearHistory, HeadsOwned, ParentsOwned, NoForks,
           HeadsAreLast, RowsMatchHashes, HasHead, VersionsOf
  <1>7. HeadReadsHaveHead
    BY DEF Init, FileReqInit, HeadReadsHaveHead
  <1> QED
    BY <1>2, <1>3, <1>4, <1>5, <1>6, <1>7 DEF TypeInv, TypeOK

\* One step of a push, action by action.
LEMMA PushTyped ==
    ASSUME TypeInv, PushNext
    PROVE  StoreTypeOK' /\ RecordsTypeOK' /\ VersionsTypeOK' /\ PushInv'
  <1> USE DEF storeVars, recordVars, versionVars
  <1>1. StoreTypeOK /\ RecordsTypeOK /\ VersionsTypeOK /\ PushInv
    BY DEF TypeInv, TypeOK, PushInv
  <1>2. PICK r \in Pushers : PushBegins(r) \/ ReadHead(r) \/ PushProgress(r) \/ LosePush(r)
    BY DEF PushNext
  <1>3. \A rt \in Runtimes : heads[rt] \in Hashes /\ records[rt] \in Trees
    BY <1>1 DEF VersionsTypeOK, RecordsTypeOK
  <1>4. UNCHANGED storeVars => StoreTypeOK'
    BY <1>1 DEF StoreTypeOK
  <1>5. UNCHANGED recordVars => RecordsTypeOK'
    BY <1>1 DEF RecordsTypeOK
  <1>6. UNCHANGED versionVars => VersionsTypeOK'
    BY <1>1 DEF VersionsTypeOK
  <1> HIDE DEF storeVars, recordVars, versionVars
  <1>7. ASSUME NEW rt \in Runtimes, NEW tree \in PushTrees, BeginCliPush(r, rt, tree)
        PROVE  PushInv' /\ UNCHANGED <<storeVars, recordVars, versionVars>>
    <2>1. tree \in Trees /\ heads[rt] \in Hashes
      BY <1>3, PushTreesAssumption
    <2>2. NewPush(r, "stage", rt, tree, heads[rt], TRUE, FilesOf(tree))
      BY <1>7 DEF BeginCliPush
    <2> QED
      BY <1>1, <2>1, <2>2, NewPushTyped DEF NewPush
  <1>8. ASSUME NEW rt \in Runtimes, LoadRecords(r, rt)
        PROVE  PushInv' /\ UNCHANGED <<storeVars, recordVars, versionVars>>
    <2>1. NoVersion \in Hashes
      BY DEF NoVersion, Hashes
    <2>2. PICK tree \in Trees, base \in Hashes, guarded \in BOOLEAN :
            NewPush(r, "loaded", rt, tree, base, guarded, {})
      BY <1>3, <1>8, <2>1 DEF LoadRecords
    <2>3. PushInv'
      BY <1>1, <2>2, NewPushTyped
    <2> QED
      BY <2>2, <2>3 DEF NewPush
  <1>9. ASSUME NEW rt \in Runtimes, NEW hash \in DOMAIN versions, BeginRestore(r, rt, hash)
        PROVE  PushInv' /\ UNCHANGED <<storeVars, recordVars, versionVars>>
    <2>1. versions[hash].tree \in Trees /\ HasHead(rt) \in BOOLEAN
      BY <1>1 DEF VersionsTypeOK, VersionRows, HasHead
    <2>2. PICK tree \in Trees, base \in Hashes, guarded \in BOOLEAN :
            NewPush(r, "stage", rt, tree, base, guarded, {})
      BY <1>3, <1>9, <2>1 DEF BeginRestore
    <2>3. PushInv'
      BY <1>1, <2>2, NewPushTyped
    <2> QED
      BY <2>2, <2>3 DEF NewPush
  <1>10. ASSUME NEW rt \in Runtimes, NEW tree \in PushTrees, NEW guarded \in BOOLEAN,
                BeginApiCommit(r, rt, tree, guarded)
         PROVE  PushInv' /\ UNCHANGED <<storeVars, recordVars, versionVars>>
    <2>1. tree \in Trees /\ heads[rt] \in Hashes
      BY <1>3, PushTreesAssumption
    <2>2. NewPush(r, "stage", rt, tree, heads[rt], guarded, {})
      BY <1>10 DEF BeginApiCommit
    <2> QED
      BY <1>1, <2>1, <2>2, NewPushTyped DEF NewPush
  <1>11. ASSUME ReadHead(r)
         PROVE  PushInv' /\ UNCHANGED <<storeVars, recordVars, versionVars>>
    <2>1. r \in DOMAIN push /\ push[r].phase = "loaded"
      BY <1>11 DEF ReadHead, In
    <2>2. heads[push[r].rt] \in Hashes /\ HasHead(push[r].rt) \in BOOLEAN
      BY <1>1, <1>3, <2>1, PushFields DEF HasHead
    <2>3. push' \in [DOMAIN push -> PushRequests]
      BY <1>1, <1>11, <2>1, <2>2 DEF ReadHead, PushInv, PushTypeOK, PushRequests, Phases
    <2> QED
      BY <1>1, <1>11, <2>1, <2>3 DEF ReadHead, PushInv, PushTypeOK, StagesItsTree
  <1>12. ASSUME NEW path \in Paths, StageObject(r, path)
         PROVE  PushInv' /\ StoreTypeOK' /\ UNCHANGED <<recordVars, versionVars>>
    <2>1. r \in DOMAIN push /\ push[r].phase = "stage" /\ path \in push[r].todo
      BY <1>12 DEF StageObject, In
    <2>2. push[r].tree[path] \in Contents
      BY <1>1, <2>1, PushFields DEF PushInv, StagesItsTree, FilesOf, Trees, MaybeContent
    <2>3. push' \in [DOMAIN push -> PushRequests]
      BY <1>1, <1>12, <2>1 DEF StageObject, PushInv, PushTypeOK, PushRequests
    <2>4. PushInv'
      BY <1>1, <1>12, <2>3 DEF StageObject, PushInv, PushTypeOK, StagesItsTree
    <2> QED
      BY <1>1, <1>12, <2>2, <2>4, WriteBlobTyped DEF StageObject
  <1>13. ASSUME ValidateManifest(r)
         PROVE  PushInv' /\ UNCHANGED <<storeVars, recordVars, versionVars>>
    <2>1. push' \in [DOMAIN push -> PushRequests]
      BY <1>1, <1>13 DEF ValidateManifest, In, Answer, PushInv, PushTypeOK,
                         PushRequests, Phases, PushOutcomes
    <2>2. /\ r \in DOMAIN push
          /\ push'[r].phase \in {"commit", "answered"}
          /\ \A s \in DOMAIN push \ {r} : push'[s] = push[s]
      BY <1>1, <1>13 DEF ValidateManifest, In, Answer, PushInv, PushTypeOK, PushRequests
    <2>3. PushInv'
      BY <1>1, <2>1, <2>2, MovedOnTyped
    <2> QED
      BY <1>13, <2>3 DEF ValidateManifest
  <1>14. ASSUME CommitVersion(r)
         PROVE  PushInv' /\ VersionsTypeOK' /\ UNCHANGED <<storeVars, recordVars>>
    <2> DEFINE p == push[r]
    <2>1. r \in DOMAIN push /\ p.rt \in Runtimes /\ p.tree \in Trees
      BY <1>1, <1>14, PushFields DEF CommitVersion, In
    <2>2. FilesOf(p.tree) \subseteq Paths
      BY DEF FilesOf
    <2>3. \/ \E outcome \in PushOutcomes : Answer(r, outcome)
          \/ push' = [push EXCEPT ![r].phase = "mirror", ![r].outcome = "created",
                                 ![r].todo = FilesOf(p.tree)]
      BY <1>14 DEF CommitVersion, PushOutcomes
    <2>4. push' \in [DOMAIN push -> PushRequests]
      BY <1>1, <2>1, <2>2, <2>3
      DEF Answer, PushInv, PushTypeOK, PushRequests, Phases, PushOutcomes
    <2>5. PushInv'
      <3>1. /\ push'[r].phase \in {"mirror", "answered"}
            /\ \A s \in DOMAIN push \ {r} : push'[s] = push[s]
        BY <1>1, <2>1, <2>3 DEF Answer, PushInv, PushTypeOK, PushRequests
      <3> QED
        BY <1>1, <2>1, <2>4, <3>1, MovedOnTyped
    <2>6. CASE CommitCreated(p.rt, p.tree, p.guarded, p.base)
      BY <1>1, <1>14, <2>1, <2>5, <2>6, CommitAddsTyped DEF CommitVersion
    <2>7. CASE ~CommitCreated(p.rt, p.tree, p.guarded, p.base)
      <3>1. UNCHANGED versionVars
        BY <1>14, <2>7, CommitKeeps DEF CommitVersion
      <3> QED
        BY <1>6, <1>14, <2>5, <3>1 DEF CommitVersion
    <2> QED
      BY <2>6, <2>7
  <1>15. ASSUME NEW path \in Paths, MirrorFile(r, path)
         PROVE  PushInv' /\ StoreTypeOK' /\ UNCHANGED <<recordVars, versionVars>>
    <2>1. r \in DOMAIN push /\ push[r].rt \in Runtimes /\ push[r].tree[path] \in MaybeContent
      BY <1>1, <1>15, PushFields DEF MirrorFile, In, Trees
    <2>2. push' \in [DOMAIN push -> PushRequests]
      BY <1>1, <1>15 DEF MirrorFile, PushInv, PushTypeOK, PushRequests
    <2>3. PushInv'
      BY <1>1, <1>15, <2>2 DEF MirrorFile, PushInv, PushTypeOK, StagesItsTree
    <2> QED
      BY <1>1, <1>15, <2>1, <2>3, WriteFileTyped DEF MirrorFile
  <1>16. ASSUME NEW path \in Paths, MirrorRecord(r, path)
         PROVE  PushInv' /\ RecordsTypeOK' /\ UNCHANGED <<storeVars, versionVars>>
    <2>1. r \in DOMAIN push /\ push[r].rt \in Runtimes /\ push[r].tree[path] \in MaybeContent
      BY <1>1, <1>16, PushFields DEF MirrorRecord, In, Trees
    <2>2. push' \in [DOMAIN push -> PushRequests]
      BY <1>1, <1>16 DEF MirrorRecord, PushInv, PushTypeOK, PushRequests
    <2>3. PushInv'
      BY <1>1, <1>16, <2>2 DEF MirrorRecord, In, PushInv, PushTypeOK, StagesItsTree
    <2> QED
      BY <1>1, <1>16, <2>1, <2>3, UpsertFileTyped DEF MirrorRecord
  <1>17. ASSUME ListStale(r)
         PROVE  PushInv' /\ UNCHANGED <<storeVars, recordVars, versionVars>>
    <2>1. r \in DOMAIN push
      BY <1>17 DEF ListStale, In
    <2>2. PICK stale \in SUBSET Paths :
            push' = [push EXCEPT ![r].phase = "prune", ![r].todo = stale]
      BY <1>17 DEF ListStale, ListFiles, FilesOf
    <2>3. push' \in [DOMAIN push -> PushRequests]
      BY <1>1, <2>2 DEF PushInv, PushTypeOK, PushRequests, Phases
    <2>4. push'[r].phase = "prune" /\ \A s \in DOMAIN push \ {r} : push'[s] = push[s]
      BY <1>1, <2>1, <2>2 DEF PushInv, PushTypeOK, PushRequests
    <2>5. PushInv'
      BY <1>1, <2>1, <2>3, <2>4, MovedOnTyped
    <2> QED
      BY <1>17, <2>5 DEF ListStale
  <1>18. ASSUME NEW path \in Paths, PruneFile(r, path)
         PROVE  PushInv' /\ StoreTypeOK' /\ UNCHANGED <<recordVars, versionVars>>
    <2>1. r \in DOMAIN push /\ push[r].rt \in Runtimes
      BY <1>1, <1>18, PushFields DEF PruneFile, In
    <2>2. push' \in [DOMAIN push -> PushRequests]
      BY <1>1, <1>18 DEF PruneFile, PushInv, PushTypeOK, PushRequests
    <2>3. PushInv'
      BY <1>1, <1>18, <2>2 DEF PruneFile, PushInv, PushTypeOK, StagesItsTree
    <2> QED
      BY <1>1, <1>18, <2>1, <2>3, DeleteFileTyped DEF PruneFile
  <1>19. ASSUME NEW path \in Paths, PruneRecord(r, path)
         PROVE  PushInv' /\ RecordsTypeOK' /\ UNCHANGED <<storeVars, versionVars>>
    <2>1. r \in DOMAIN push /\ push[r].rt \in Runtimes
      BY <1>1, <1>19, PushFields DEF PruneRecord, In
    <2>2. push' \in [DOMAIN push -> PushRequests]
      BY <1>1, <1>19 DEF PruneRecord, PushInv, PushTypeOK, PushRequests
    <2>3. PushInv'
      BY <1>1, <1>19, <2>2 DEF PruneRecord, In, PushInv, PushTypeOK, StagesItsTree
    <2> QED
      BY <1>1, <1>19, <2>1, <2>3, MarkDeletedTyped DEF PruneRecord
  <1>20. ASSUME AnswerCreated(r) \/ LosePush(r)
         PROVE  PushInv' /\ UNCHANGED <<storeVars, recordVars, versionVars>>
    <2>1. push' \in [DOMAIN push -> PushRequests]
      BY <1>1, <1>20 DEF AnswerCreated, LosePush, Answer, PushInv, PushTypeOK,
                         PushRequests, Phases, PushOutcomes
    <2>2. /\ r \in DOMAIN push
          /\ push'[r].phase \in {"lost", "answered"}
          /\ \A s \in DOMAIN push \ {r} : push'[s] = push[s]
      BY <1>1, <1>20
      DEF AnswerCreated, LosePush, In, Answer, PushInv, PushTypeOK, PushRequests
    <2>3. PushInv'
      BY <1>1, <2>1, <2>2, MovedOnTyped
    <2> QED
      BY <1>20, <2>3 DEF AnswerCreated, LosePush
  <1> QED
    BY <1>1, <1>2, <1>4, <1>5, <1>6, <1>7, <1>8, <1>9, <1>10, <1>11, <1>12, <1>13,
       <1>14, <1>15, <1>16, <1>17, <1>18, <1>19, <1>20
    DEF PushBegins, PushProgress

\* One step of a file request, action by action.
LEMMA FileTyped ==
    ASSUME TypeInv, FileNext
    PROVE  StoreTypeOK' /\ RecordsTypeOK' /\ VersionsTypeOK' /\ FileReqInv'
  <1>1. StoreTypeOK /\ RecordsTypeOK /\ VersionsTypeOK /\ FileReqInv
    BY DEF TypeInv, TypeOK, FileReqInv
  <1>2. PICK f \in FileRequestIds :
          FileArrives(f) \/ FileProgress(f) \/ LoseFileRequest(f)
    BY DEF FileNext
  <1>3. UNCHANGED storeVars => StoreTypeOK'
    BY <1>1 DEF storeVars, StoreTypeOK
  <1>4. UNCHANGED recordVars => RecordsTypeOK'
    BY <1>1 DEF recordVars, RecordsTypeOK
  <1>5. UNCHANGED versionVars => VersionsTypeOK'
    BY <1>1 DEF versionVars, VersionsTypeOK
  <1>6. NoContent \in MaybeContent /\ Contents \subseteq MaybeContent
    BY DEF MaybeContent
  <1>7. ASSUME NEW rt \in Runtimes, NEW path \in Paths, NEW body \in Contents,
               PutFile(f, rt, path, body)
        PROVE  FileReqInv' /\ StoreTypeOK' /\ UNCHANGED <<recordVars, versionVars>>
    <2>1. FileReqInv'
      BY <1>1, <1>6, <1>7, ArriveTyped DEF PutFile, FileSteps
    <2> QED
      BY <1>1, <1>6, <1>7, <2>1, WriteFileTyped DEF PutFile
  <1>8. ASSUME PutBlob(f)
        PROVE  FileReqInv' /\ StoreTypeOK' /\ UNCHANGED <<recordVars, versionVars>>
    <2>1. f \in DOMAIN fileReq /\ fileReq[f].body \in Contents
      BY <1>1, <1>8 DEF PutBlob, At, FileReqInv, UploadsHaveBodies
    <2>2. FileReqInv'
      BY <1>1, <1>8, <2>1, GoTyped DEF PutBlob, FileSteps
    <2> QED
      BY <1>1, <1>8, <2>1, <2>2, WriteBlobTyped DEF PutBlob
  <1>9. ASSUME PutRecord(f)
        PROVE  FileReqInv' /\ RecordsTypeOK' /\ UNCHANGED <<storeVars, versionVars>>
    <2>1. f \in DOMAIN fileReq
      BY <1>9 DEF PutRecord, At
    <2>2. FileReqInv'
      BY <1>1, <1>9, <2>1, GoTyped DEF PutRecord, FileSteps
    <2> QED
      BY <1>1, <1>9, <2>1, <2>2, FileReqFields, UpsertFileTyped DEF PutRecord
  <1>10. ASSUME NEW rt \in Runtimes, NEW path \in Paths, RemoveFile(f, rt, path)
         PROVE  FileReqInv' /\ StoreTypeOK' /\ UNCHANGED <<recordVars, versionVars>>
    <2>1. FileReqInv'
      BY <1>1, <1>6, <1>10, ArriveTyped DEF RemoveFile, FileSteps
    <2> QED
      BY <1>1, <1>10, <2>1, DeleteFileTyped DEF RemoveFile
  <1>11. ASSUME RemoveRecord(f)
         PROVE  FileReqInv' /\ RecordsTypeOK' /\ UNCHANGED <<storeVars, versionVars>>
    <2>1. f \in DOMAIN fileReq
      BY <1>11 DEF RemoveRecord, At
    <2>2. FileReqInv'
      BY <1>1, <1>11, <2>1, GoTyped DEF RemoveRecord, FileSteps
    <2> QED
      BY <1>1, <1>11, <2>1, <2>2, FileReqFields, MarkDeletedTyped DEF RemoveRecord
  <1>12. ASSUME RemovePublic(f)
         PROVE  FileReqInv' /\ RecordsTypeOK' /\ UNCHANGED <<storeVars, versionVars>>
    <2>1. f \in DOMAIN fileReq
      BY <1>12 DEF RemovePublic, At
    <2>2. FileReqInv'
      BY <1>1, <1>12, <2>1, GoTyped DEF RemovePublic, FileSteps
    <2> QED
      BY <1>1, <1>12, <2>1, <2>2, FileReqFields, DeletePublicTyped DEF RemovePublic
  <1>13. ASSUME NEW rt \in Runtimes, NEW path \in Paths, GetFile(f, rt, path)
         PROVE  FileReqInv' /\ UNCHANGED <<storeVars, recordVars, versionVars>>
    <2>1. PICK step \in FileSteps : Arrive(f, "get", step, rt, path, NoContent)
      BY <1>13 DEF GetFile, FileSteps
    <2>2. FileReqInv'
      BY <1>1, <1>6, <2>1, ArriveTyped
    <2> QED
      BY <1>13, <2>2 DEF GetFile
  <1>14. ASSUME GetHeadFile(f)
         PROVE  FileReqInv' /\ UNCHANGED <<storeVars, recordVars, versionVars>>
    <2>1. f \in DOMAIN fileReq /\ fileReq[f].kind = "get" /\ fileReq[f].rt \in Runtimes
      BY <1>1, <1>14, FileReqFields DEF GetHeadFile, At
    <2>2. heads[fileReq[f].rt] \in DOMAIN versions
      BY <1>14, <2>1 DEF GetHeadFile, At, TypeInv, HeadReadsHaveHead, LinearHistory,
                         HeadsOwned, VersionsOf
    <2>3. HeadTree(fileReq[f].rt) \in Trees
      BY <1>1, <2>2 DEF HeadTree, VersionsTypeOK, VersionRows
    <2>4. HeadTree(fileReq[f].rt)[fileReq[f].path] \in MaybeContent
      BY <1>1, <2>1, <2>3, FileReqFields DEF Trees
    <2>5. PICK body \in MaybeContent :
            fileReq' = [fileReq EXCEPT ![f].step = "recheck", ![f].body = body]
      BY <1>14, <2>4 DEF GetHeadFile
    <2>6. FileReqInv'
      BY <1>1, <2>1, <2>5, AnsweredTyped DEF FileSteps
    <2> QED
      BY <1>14, <2>6 DEF GetHeadFile
  <1>15. ASSUME GetRecheck(f)
         PROVE  FileReqInv' /\ UNCHANGED <<storeVars, recordVars, versionVars>>
    <2>1. f \in DOMAIN fileReq
      BY <1>15 DEF GetRecheck, At
    <2>2. PICK step \in FileSteps : Go(f, step)
      BY <1>15 DEF GetRecheck, FileSteps
    <2>3. FileReqInv'
      BY <1>1, <2>1, <2>2, GoTyped
    <2> QED
      BY <1>15, <2>3 DEF GetRecheck
  <1>16. ASSUME GetBody(f)
         PROVE  FileReqInv' /\ UNCHANGED <<storeVars, recordVars, versionVars>>
    <2>1. f \in DOMAIN fileReq /\ fileReq[f].kind = "get"
      BY <1>16 DEF GetBody, At
    <2>2. ReadBody(f) \in MaybeContent
      BY <1>1, <1>6, <2>1, FileReqFields DEF ReadBody, StoreTypeOK, Trees
    <2>3. PICK body \in MaybeContent :
            fileReq' = [fileReq EXCEPT ![f].step = "answered", ![f].body = body]
      BY <1>16, <2>2 DEF GetBody
    <2>4. FileReqInv'
      BY <1>1, <2>1, <2>3, AnsweredTyped DEF FileSteps
    <2> QED
      BY <1>16, <2>4 DEF GetBody
  <1>17. ASSUME NEW rt \in Runtimes, NEW path \in Paths, PublishFile(f, rt, path)
         PROVE  FileReqInv' /\ UNCHANGED <<storeVars, recordVars, versionVars>>
    <2>1. PICK step \in FileSteps : Arrive(f, "publish", step, rt, path, NoContent)
      BY <1>17 DEF PublishFile, FileSteps
    <2>2. FileReqInv'
      BY <1>1, <1>6, <2>1, ArriveTyped
    <2> QED
      BY <1>17, <2>2 DEF PublishFile
  <1>18. ASSUME PublishInsert(f)
         PROVE  FileReqInv' /\ RecordsTypeOK' /\ UNCHANGED <<storeVars, versionVars>>
    <2>1. f \in DOMAIN fileReq
      BY <1>18 DEF PublishInsert, At
    <2>2. FileReqInv'
      BY <1>1, <1>18, <2>1, GoTyped DEF PublishInsert, FileSteps
    <2> QED
      BY <1>1, <1>18, <2>1, <2>2, FileReqFields, InsertPublicTyped DEF PublishInsert
  <1>19. ASSUME NEW rt \in Runtimes, NEW path \in Paths, UnpublishFile(f, rt, path)
         PROVE  FileReqInv' /\ RecordsTypeOK' /\ UNCHANGED <<storeVars, versionVars>>
    <2>1. FileReqInv'
      BY <1>1, <1>6, <1>19, ArriveTyped DEF UnpublishFile, FileSteps
    <2> QED
      BY <1>1, <1>19, <2>1, DeletePublicTyped DEF UnpublishFile
  <1>20. ASSUME LoseFileRequest(f)
         PROVE  FileReqInv' /\ UNCHANGED <<storeVars, recordVars, versionVars>>
    <2>1. FileReqInv'
      BY <1>1, <1>20, GoTyped DEF LoseFileRequest, FileSteps
    <2> QED
      BY <1>20, <2>1 DEF LoseFileRequest
  <1> QED
    BY <1>1, <1>2, <1>3, <1>4, <1>5, <1>7, <1>8, <1>9, <1>10, <1>11, <1>12, <1>13,
       <1>14, <1>15, <1>16, <1>17, <1>18, <1>19, <1>20
    DEF FileArrives, FileProgress

\* Only a commit that creates a version touches the version tables.
LEMMA VersionStep ==
    ASSUME TypeInv, [Next]_vars
    PROVE  \/ UNCHANGED versionVars
           \/ \E r \in DOMAIN push :
                 /\ CommitVersion(r)
                 /\ CommitCreated(push[r].rt, push[r].tree, push[r].guarded, push[r].base)
                 /\ UNCHANGED fileReq
  <1>1. CASE PushNext /\ UNCHANGED fileReq
    <2>1. PICK r \in Pushers : UNCHANGED versionVars \/ CommitVersion(r)
      BY <1>1
      DEF PushNext, PushBegins, PushProgress, BeginCliPush, LoadRecords, BeginRestore,
          BeginApiCommit, NewPush, ReadHead, StageObject, ValidateManifest, MirrorFile,
          MirrorRecord, ListStale, PruneFile, PruneRecord, AnswerCreated, LosePush
    <2>2. CASE CommitVersion(r)
      BY <1>1, <2>2, CommitKeeps DEF CommitVersion, In
    <2> QED
      BY <2>1, <2>2
  <1>2. CASE FileNext /\ UNCHANGED push
    BY <1>2
    DEF FileNext, FileArrives, FileProgress, PutFile, PutBlob, PutRecord, RemoveFile, RemoveRecord,
        RemovePublic, GetFile, GetHeadFile, GetRecheck, GetBody, PublishFile,
        PublishInsert, UnpublishFile, LoseFileRequest
  <1>3. CASE UNCHANGED vars
    BY <1>3 DEF vars
  <1> QED
    BY <1>1, <1>2, <1>3 DEF Next

LEMMA LinearStep ==
    ASSUME TypeInv, [Next]_vars
    PROVE  /\ LinearHistory' /\ RowsMatchHashes'
           /\ \A rt \in Runtimes : HasHead(rt) => HasHead(rt)'
  <1>1. CASE UNCHANGED versionVars
    <2>1. LinearHistory'
      BY <1>1 DEF TypeInv, versionVars, LinearHistory, HeadsOwned, ParentsOwned,
                  NoForks, HeadsAreLast, HasHead, VersionsOf
    <2> QED
      BY <1>1, <2>1 DEF TypeInv, versionVars, RowsMatchHashes, HasHead
  <1>2. ASSUME NEW r \in DOMAIN push,
               CommitCreated(push[r].rt, push[r].tree, push[r].guarded, push[r].base)
        PROVE  /\ LinearHistory' /\ RowsMatchHashes'
               /\ \A rt \in Runtimes : HasHead(rt) => HasHead(rt)'
    <2>1. /\ VersionsTypeOK /\ LinearHistory /\ RowsMatchHashes
          /\ push[r].rt \in Runtimes /\ push[r].tree \in Trees
      BY PushFields DEF TypeInv, TypeOK, PushInv
    <2>2. LinearHistory' /\ RowsMatchHashes'
      BY <1>2, <2>1, CommitKeepsLinear, CommitAddsMatching
    <2>3. \A rt \in Runtimes : HasHead(rt) => HasHead(rt)'
      BY <1>2, <2>1, CommitAdds DEF HasHead
    <2> QED
      BY <2>2, <2>3
  <1> QED
    BY <1>1, <1>2, VersionStep

LEMMA HeadReadStep ==
    ASSUME TypeInv, [Next]_vars, FileReqInv'
    PROVE  HeadReadsHaveHead'
  <1>1. SUFFICES ASSUME NEW f \in DOMAIN fileReq', fileReq'[f].step = "headFile"
                 PROVE  heads'[fileReq'[f].rt] # NoVersion
    BY <1>1 DEF HeadReadsHaveHead, HasHead
  <1>2. FileReqInv
    BY DEF TypeInv, TypeOK, FileReqInv
  <1>3. fileReq'[f].rt \in Runtimes
    BY DEF FileReqInv, FileReqTypeOK, FileReqs
  <1>4. ASSUME f \in DOMAIN fileReq, fileReq'[f] = fileReq[f]
        PROVE  heads'[fileReq'[f].rt] # NoVersion
    <2>1. HasHead(fileReq[f].rt)
      BY <1>1, <1>4 DEF TypeInv, HeadReadsHaveHead
    <2> QED
      BY <1>3, <1>4, <2>1, LinearStep DEF HasHead
  <1>5. ASSUME NEW g, NEW rt \in Runtimes, NEW path, GetFile(g, rt, path)
        PROVE  heads'[fileReq'[f].rt] # NoVersion
    <2>1. CASE f = g
      <3>1. fileReq'[f].rt = rt /\ HasHead(rt)
        BY <1>1, <1>5, <2>1 DEF GetFile, Arrive
      <3> QED
        BY <3>1, LinearStep DEF HasHead
    <2>2. CASE f # g
      BY <1>4, <1>5, <2>2 DEF GetFile, Arrive
    <2> QED
      BY <2>1, <2>2
  <1>6. ASSUME NEW g, NEW kind, NEW step, NEW rt, NEW path, NEW body,
               step # "headFile", Arrive(g, kind, step, rt, path, body)
        PROVE  heads'[fileReq'[f].rt] # NoVersion
    <2>1. f # g
      BY <1>1, <1>6 DEF Arrive
    <2> QED
      BY <1>4, <1>6, <2>1 DEF Arrive
  <1>7. ASSUME NEW g \in DOMAIN fileReq, fileReq'[g].step # "headFile",
               DOMAIN fileReq' = DOMAIN fileReq,
               \A h \in DOMAIN fileReq \ {g} : fileReq'[h] = fileReq[h]
        PROVE  heads'[fileReq'[f].rt] # NoVersion
    BY <1>1, <1>4, <1>7
  <1>8. CASE FileNext
    <2>1. PICK g \in FileRequestIds :
            FileArrives(g) \/ FileProgress(g) \/ LoseFileRequest(g)
      BY <1>8 DEF FileNext
    <2>2. CASE FileArrives(g)
      <3>1. PICK rt \in Runtimes, path \in Paths :
              \/ \E body \in Contents : PutFile(g, rt, path, body)
              \/ RemoveFile(g, rt, path)
              \/ GetFile(g, rt, path)
              \/ PublishFile(g, rt, path)
              \/ UnpublishFile(g, rt, path)
        BY <2>2 DEF FileArrives
      <3>2. CASE GetFile(g, rt, path)
        BY <1>5, <3>2
      <3>3. CASE ~GetFile(g, rt, path)
        <4>1. PICK kind, step, body :
                step # "headFile" /\ Arrive(g, kind, step, rt, path, body)
          BY <3>1, <3>3 DEF PutFile, RemoveFile, PublishFile, UnpublishFile
        <4> QED
          BY <1>6, <4>1
      <3> QED
        BY <3>2, <3>3
    <2>3. CASE FileProgress(g) \/ LoseFileRequest(g)
      <3>1. g \in DOMAIN fileReq /\ fileReq'[g].step # "headFile"
        BY <1>2, <2>3
        DEF FileProgress, PutBlob, PutRecord, RemoveRecord, RemovePublic, GetHeadFile,
            GetRecheck, GetBody, PublishInsert, LoseFileRequest, At, Go,
            FileReqInv, FileReqTypeOK, FileReqs
      <3>2. /\ DOMAIN fileReq' = DOMAIN fileReq
            /\ \A h \in DOMAIN fileReq \ {g} : fileReq'[h] = fileReq[h]
        BY <1>2, <2>3
        DEF FileProgress, PutBlob, PutRecord, RemoveRecord, RemovePublic, GetHeadFile,
            GetRecheck, GetBody, PublishInsert, LoseFileRequest, Go,
            FileReqInv, FileReqTypeOK
      <3> QED
        BY <1>7, <3>1, <3>2
    <2> QED
      BY <2>1, <2>2, <2>3
  <1> QED
    BY <1>1, <1>4, <1>8 DEF Next, vars

LEMMA TypeStep == TypeInv /\ [Next]_vars => TypeInv'
  <1> SUFFICES ASSUME TypeInv, [Next]_vars PROVE TypeInv'
    OBVIOUS
  <1>1. PushInv /\ FileReqInv
    BY DEF TypeInv, TypeOK, PushInv, FileReqInv
  <1>2. StoreTypeOK' /\ RecordsTypeOK' /\ VersionsTypeOK' /\ PushInv' /\ FileReqInv'
    <2>1. UNCHANGED push => PushInv'
      BY <1>1 DEF PushInv, PushTypeOK, StagesItsTree
    <2>2. UNCHANGED fileReq => FileReqInv'
      BY <1>1 DEF FileReqInv, FileReqTypeOK, UploadsHaveBodies
    <2>3. CASE UNCHANGED vars
      BY <2>1, <2>2, <2>3
      DEF TypeInv, TypeOK, vars, storeVars, recordVars, versionVars, StoreTypeOK,
          RecordsTypeOK, VersionsTypeOK
    <2> QED
      BY <2>1, <2>2, <2>3, PushTyped, FileTyped DEF Next
  <1>3. LinearHistory' /\ RowsMatchHashes' /\ HeadReadsHaveHead'
    BY <1>2, LinearStep, HeadReadStep
  <1> QED
    BY <1>2, <1>3 DEF TypeInv, TypeOK, PushInv, FileReqInv

LEMMA TypeInvariant == Spec => []TypeInv
  BY TypeInitial, TypeStep, PTL DEF Spec

(***************************************************************************)
(* The state keeps its type: every tree in the tables, the store and the   *)
(* requests maps the paths of one runtime to contents or to nothing.       *)
(***************************************************************************)
THEOREM TypeCorrect == Spec => []TypeOK
  <1>1. TypeInv => TypeOK
    BY DEF TypeInv
  <1> QED
    BY <1>1, TypeInvariant, PTL

(***************************************************************************)
(* Each runtime's versions form one chain that ends in its head, for any   *)
(* number of runtimes and pushes and every order of their commits          *)
(* (commitRuntimeVersion in runtime-versions.ts).                          *)
(***************************************************************************)
THEOREM HistoryIsLinear == Spec => []LinearHistory
  <1>1. TypeInv => LinearHistory
    BY DEF TypeInv
  <1> QED
    BY <1>1, TypeInvariant, PTL

-----------------------------------------------------------------------------
(***************************************************************************)
(* Which push a step changes, and which part of it.                        *)
(***************************************************************************)

\* A push that is under way changes no other push, nor what it pushes.
LEMMA PushFrame ==
    ASSUME TypeInv, NEW r, ReadHead(r) \/ PushProgress(r) \/ LosePush(r)
    PROVE  /\ r \in DOMAIN push /\ DOMAIN push' = DOMAIN push
           /\ \A s \in DOMAIN push \ {r} : push'[s] = push[s]
           /\ push'[r].tree = push[r].tree
           /\ push'[r].rt = push[r].rt
  <1> USE DEF PushTypeOK, PushRequests, In, Answer
  <1>1. PushTypeOK
    BY DEF TypeInv, TypeOK
  <1>2. CASE ReadHead(r)
    BY <1>1, <1>2 DEF ReadHead
  <1>3. CASE \E path \in Paths : StageObject(r, path)
    BY <1>1, <1>3 DEF StageObject
  <1>4. CASE ValidateManifest(r)
    BY <1>1, <1>4 DEF ValidateManifest
  <1>5. CASE CommitVersion(r)
    BY <1>1, <1>5 DEF CommitVersion
  <1>6. CASE \E path \in Paths : MirrorFile(r, path) \/ MirrorRecord(r, path)
    BY <1>1, <1>6 DEF MirrorFile, MirrorRecord
  <1>7. CASE ListStale(r)
    BY <1>1, <1>7 DEF ListStale
  <1>8. CASE \E path \in Paths : PruneFile(r, path) \/ PruneRecord(r, path)
    BY <1>1, <1>8 DEF PruneFile, PruneRecord
  <1>9. CASE AnswerCreated(r) \/ LosePush(r)
    BY <1>1, <1>9 DEF AnswerCreated, LosePush
  <1> QED
    BY <1>2, <1>3, <1>4, <1>5, <1>6, <1>7, <1>8, <1>9 DEF PushProgress

\* A new push changes no other push, and starts at the client.
LEMMA NewPushFrame ==
    ASSUME NEW r \in Pushers,
           PushBegins(r)
    PROVE  /\ r \notin DOMAIN push /\ DOMAIN push' = DOMAIN push \cup {r}
           /\ \A s \in DOMAIN push : push'[s] = push[s]
           /\ push'[r].phase \in {"loaded", "stage"}
           /\ push'[r].outcome = "pending"
  <1>1. CASE \E rt \in Runtimes, tree \in PushTrees : BeginCliPush(r, rt, tree)
    BY <1>1 DEF BeginCliPush, NewPush
  <1>2. CASE \E rt \in Runtimes : LoadRecords(r, rt)
    BY <1>2 DEF LoadRecords, NewPush
  <1>3. CASE \E rt \in Runtimes, hash \in DOMAIN versions : BeginRestore(r, rt, hash)
    BY <1>3 DEF BeginRestore, NewPush
  <1>4. CASE \E rt \in Runtimes, tree \in PushTrees, guarded \in BOOLEAN :
               BeginApiCommit(r, rt, tree, guarded)
    BY <1>4 DEF BeginApiCommit, NewPush
  <1> QED
    BY <1>1, <1>2, <1>3, <1>4 DEF PushBegins

-----------------------------------------------------------------------------
\* A commit adds one row under a hash that was not in the table.
LEMMA VersionsKept ==
    ASSUME TypeInv, [Next]_vars, NEW h \in DOMAIN versions
    PROVE  h \in DOMAIN versions' /\ versions'[h] = versions[h]
  <1>1. CASE UNCHANGED versionVars
    BY <1>1 DEF versionVars
  <1>2. ASSUME NEW r \in DOMAIN push,
               CommitCreated(push[r].rt, push[r].tree, push[r].guarded, push[r].base)
        PROVE  h \in DOMAIN versions' /\ versions'[h] = versions[h]
    <2>1. VersionsTypeOK /\ push[r].rt \in Runtimes /\ push[r].tree \in Trees
      BY PushFields DEF TypeInv, TypeOK, PushInv
    <2> QED
      BY <1>2, <2>1, CommitAdds
  <1> QED
    BY <1>1, <1>2, VersionStep

(***************************************************************************)
(* Versions are immutable: nothing but the insert of a commit writes to    *)
(* the table (runtime-versions.ts has no UPDATE or DELETE of               *)
(* runtime_versions).                                                      *)
(***************************************************************************)
THEOREM VersionsNeverChange == Spec => VersionsImmutable
  <1>1. TypeInv /\ [Next]_vars => \A h \in DOMAIN versions :
                                    h \in DOMAIN versions' /\ versions'[h] = versions[h]
    BY VersionsKept
  <1> QED
    BY <1>1, TypeInvariant, PTL DEF Spec, VersionsImmutable

-----------------------------------------------------------------------------
(***************************************************************************)
(* The outcome of a push is open until its commit, and settled after it.   *)
(***************************************************************************)

OutcomesFit ==
    \A r \in DOMAIN push :
        /\ push[r].phase \in {"loaded", "stage", "commit"} => push[r].outcome = "pending"
        /\ push[r].phase \in {"mirror", "prune"} => push[r].outcome = "created"

LEMMA OutcomesStep ==
    ASSUME TypeInv, OutcomesFit, [Next]_vars
    PROVE  OutcomesFit'
  <1> DEFINE Fits(p) == /\ p.phase \in {"loaded", "stage", "commit"} => p.outcome = "pending"
                        /\ p.phase \in {"mirror", "prune"} => p.outcome = "created"
  <1>1. SUFFICES ASSUME NEW r \in DOMAIN push' PROVE Fits(push'[r])
    BY <1>1 DEF OutcomesFit
  <1>2. r \in DOMAIN push /\ push'[r] = push[r] => Fits(push'[r])
    BY DEF OutcomesFit
  <1>3. ASSUME NEW s \in Pushers, PushBegins(s)
        PROVE  Fits(push'[r])
    BY <1>1, <1>2, <1>3, NewPushFrame
  <1>4. ASSUME NEW s \in Pushers, ReadHead(s) \/ PushProgress(s) \/ LosePush(s), r # s
        PROVE  Fits(push'[r])
    BY <1>1, <1>2, <1>4, PushFrame
  <1>5. ASSUME ReadHead(r) \/ PushProgress(r) \/ LosePush(r)
        PROVE  Fits(push'[r])
    <2>1. r \in DOMAIN push /\ Fits(push[r])
      BY <1>5, PushFrame DEF OutcomesFit
    <2> USE DEF TypeInv, TypeOK, PushTypeOK, PushRequests, In, Answer
    <2>2. CASE ReadHead(r) \/ \E path \in Paths : StageObject(r, path)
      BY <2>1, <2>2 DEF ReadHead, StageObject
    <2>3. CASE ValidateManifest(r)
      BY <2>1, <2>3 DEF ValidateManifest
    <2>4. CASE CommitVersion(r)
      <3>1. \/ push'[r].phase = "answered"
            \/ push'[r].phase = "mirror" /\ push'[r].outcome = "created"
        BY <2>1, <2>4 DEF CommitVersion
      <3> QED
        BY <3>1
    <2>5. CASE ListStale(r)
      <3>1. push[r].phase = "mirror" /\ push'[r].outcome = push[r].outcome
        BY <2>1, <2>5 DEF ListStale
      <3>2. push'[r].phase = "prune"
        BY <2>1, <2>5 DEF ListStale
      <3> QED
        BY <2>1, <3>1, <3>2
    <2>6. CASE AnswerCreated(r) \/ LosePush(r)
      BY <2>1, <2>6 DEF AnswerCreated, LosePush
    <2>7. CASE \E path \in Paths : MirrorFile(r, path) \/ MirrorRecord(r, path)
      BY <2>1, <2>7 DEF MirrorFile, MirrorRecord
    <2>8. CASE \E path \in Paths : PruneFile(r, path) \/ PruneRecord(r, path)
      BY <2>1, <2>8 DEF PruneFile, PruneRecord
    <2> QED
      BY <1>5, <2>2, <2>3, <2>4, <2>5, <2>6, <2>7, <2>8 DEF PushProgress
  <1> QED
    BY <1>1, <1>2, <1>3, <1>4, <1>5 DEF Next, PushNext, vars

LEMMA OutcomesInvariant == Spec => []OutcomesFit
  <1>1. Init => OutcomesFit
    BY DEF Init, PushInit, OutcomesFit
  <1> QED
    BY <1>1, OutcomesStep, TypeInvariant, PTL DEF Spec

-----------------------------------------------------------------------------
(***************************************************************************)
(* One winner per head.  A guarded push that created a version left its    *)
(* base behind: the head has been longer ever since, so no later push can  *)
(* find the same base again.                                               *)
(***************************************************************************)

WinnersMovedHead ==
    \A r \in DOMAIN push :
        push[r].outcome = "created" /\ push[r].guarded =>
            Len(push[r].base) < Len(heads[push[r].rt])

LEMMA HeadsGrow ==
    ASSUME TypeInv, [Next]_vars, NEW rt \in Runtimes
    PROVE  Len(heads[rt]) \in Nat /\ Len(heads'[rt]) \in Nat
           /\ Len(heads[rt]) <= Len(heads'[rt])
  <1>1. heads[rt] \in Hashes
    BY DEF TypeInv, TypeOK, VersionsTypeOK
  <1>2. CASE UNCHANGED versionVars
    BY <1>1, <1>2 DEF versionVars, Hashes
  <1>3. ASSUME NEW r \in DOMAIN push,
               CommitCreated(push[r].rt, push[r].tree, push[r].guarded, push[r].base)
        PROVE  Len(heads'[rt]) \in Nat /\ Len(heads[rt]) <= Len(heads'[rt])
    <2>1. VersionsTypeOK /\ push[r].rt \in Runtimes /\ push[r].tree \in Trees
      BY PushFields DEF TypeInv, TypeOK, PushInv
    <2>2. CASE rt = push[r].rt
      <3>1. heads'[rt] = VersionHash(push[r].tree, heads[rt])
        BY <1>3, <2>1, <2>2, CommitAdds
      <3>2. Len(heads'[rt]) = Len(heads[rt]) + 1
        BY <1>1, <2>1, <3>1, HashOfVersion
      <3> QED
        BY <1>1, <3>2 DEF Hashes
    <2>3. CASE rt # push[r].rt
      <3>1. heads'[rt] = heads[rt]
        BY <1>3, <2>1, <2>3, CommitAdds
      <3> QED
        BY <1>1, <3>1 DEF Hashes
    <2> QED
      BY <2>2, <2>3
  <1>4. Len(heads[rt]) \in Nat
    BY <1>1 DEF Hashes
  <1> QED
    BY <1>2, <1>3, <1>4, VersionStep

\* A push either keeps its outcome and its base, or is still open and does not
\* create a version, or has just created one.
LEMMA WhoCreates ==
    ASSUME TypeInv, OutcomesFit, [Next]_vars, NEW r \in DOMAIN push',
           push'[r].outcome = "created"
    PROVE  /\ r \in DOMAIN push
           /\ push'[r].rt = push[r].rt
           /\ push'[r].base = push[r].base
           /\ push'[r].guarded = push[r].guarded
           /\ \/ push[r].outcome = "created"
              \/ /\ CommitVersion(r)
                 /\ CommitCreated(push[r].rt, push[r].tree, push[r].guarded, push[r].base)
  <1>1. ~(\E s \in Pushers : PushBegins(s)) \/ (r \in DOMAIN push /\ push'[r] = push[r])
    BY NewPushFrame
  <1>2. ASSUME NEW s \in Pushers, ReadHead(s) \/ PushProgress(s) \/ LosePush(s), r # s
        PROVE  r \in DOMAIN push /\ push'[r] = push[r]
    BY <1>2, PushFrame
  <1>3. ASSUME ReadHead(r) \/ PushProgress(r) \/ LosePush(r)
        PROVE  /\ r \in DOMAIN push
               /\ push'[r].rt = push[r].rt
               /\ push'[r].base = push[r].base
               /\ push'[r].guarded = push[r].guarded
               /\ \/ push[r].outcome = "created"
                  \/ /\ CommitVersion(r)
                     /\ CommitCreated(push[r].rt, push[r].tree,
                                      push[r].guarded, push[r].base)
    <2>1. r \in DOMAIN push
      BY <1>3, PushFrame
    <2> USE DEF TypeInv, TypeOK, PushTypeOK, PushRequests, In, Answer
    <2>2. ~ReadHead(r)
      BY <2>1 DEF ReadHead, OutcomesFit
    <2>3. CASE \E path \in Paths : StageObject(r, path)
      BY <2>1, <2>3 DEF StageObject
    <2>4. CASE ValidateManifest(r)
      BY <2>1, <2>4 DEF ValidateManifest, OutcomesFit
    <2>5. CASE CommitVersion(r)
      BY <2>1, <2>5 DEF CommitVersion, OutcomesFit
    <2>6. CASE ListStale(r)
      BY <2>1, <2>6 DEF ListStale
    <2>7. CASE AnswerCreated(r)
      BY <2>1, <2>7 DEF AnswerCreated, OutcomesFit
    <2>8. CASE LosePush(r)
      BY <2>1, <2>8 DEF LosePush
    <2>9. CASE \E path \in Paths : MirrorFile(r, path) \/ MirrorRecord(r, path)
      BY <2>1, <2>9 DEF MirrorFile, MirrorRecord
    <2>10. CASE \E path \in Paths : PruneFile(r, path) \/ PruneRecord(r, path)
      BY <2>1, <2>10 DEF PruneFile, PruneRecord
    <2> QED
      BY <1>3, <2>2, <2>3, <2>4, <2>5, <2>6, <2>7, <2>8, <2>9, <2>10 DEF PushProgress
  <1> QED
    BY <1>1, <1>2, <1>3 DEF Next, PushNext, vars

LEMMA WinnerStep ==
    ASSUME TypeInv, OutcomesFit, WinnersMovedHead, OneWinnerPerHead, [Next]_vars
    PROVE  WinnersMovedHead' /\ OneWinnerPerHead'
  <1> DEFINE Won(r) == push[r].outcome = "created" /\ push[r].guarded
             Wins(r) == CommitVersion(r) /\ CommitCreated(push[r].rt, push[r].tree,
                                                push[r].guarded, push[r].base)
  <1>1. \A r \in DOMAIN push' :
            push'[r].outcome = "created" /\ push'[r].guarded =>
                /\ r \in DOMAIN push
                /\ push'[r].rt = push[r].rt /\ push'[r].base = push[r].base
                /\ Won(r) \/ (push[r].guarded /\ Wins(r))
    BY WhoCreates
  <1>2. \A r \in DOMAIN push : push[r].rt \in Runtimes /\ push[r].tree \in Trees
                               /\ Len(push[r].base) \in Nat
    BY PushFields DEF TypeInv, TypeOK, PushInv, Hashes
  <1>3. \A r \in DOMAIN push : push[r].guarded /\ Wins(r) =>
            /\ push[r].base = heads[push[r].rt]
            /\ Len(push[r].base) < Len(heads'[push[r].rt])
    <2> SUFFICES ASSUME NEW r \in DOMAIN push, push[r].guarded, Wins(r)
                 PROVE  /\ push[r].base = heads[push[r].rt]
                        /\ Len(push[r].base) < Len(heads'[push[r].rt])
      OBVIOUS
    <2>1. push[r].base = heads[push[r].rt]
      BY DEF CommitCreated, HeadMoved
    <2>2. VersionsTypeOK /\ heads[push[r].rt] \in Hashes
      BY <1>2 DEF TypeInv, TypeOK, VersionsTypeOK
    <2>3. heads'[push[r].rt] = VersionHash(push[r].tree, heads[push[r].rt])
      BY <1>2, <2>2, CommitAdds
    <2>4. Len(heads'[push[r].rt]) = Len(heads[push[r].rt]) + 1
      BY <1>2, <2>2, <2>3, HashOfVersion
    <2> QED
      BY <1>2, <2>1, <2>4
  <1>4. \A r \in DOMAIN push : Won(r) => /\ Len(push[r].base) < Len(heads[push[r].rt])
                                       /\ Len(push[r].base) < Len(heads'[push[r].rt])
    BY <1>2, HeadsGrow DEF WinnersMovedHead
  <1>5. WinnersMovedHead'
    BY <1>1, <1>3, <1>4 DEF WinnersMovedHead
  <1>6. \A r, s \in DOMAIN push : Wins(r) /\ Wins(s) => r = s
    <2> SUFFICES ASSUME NEW r \in DOMAIN push, NEW s \in DOMAIN push,
                        Wins(r), Wins(s), r # s
                 PROVE  FALSE
      OBVIOUS
    <2>1. push'[s] = push[s]
      BY PushFrame DEF PushProgress
    <2>2. push[s].phase = "commit" /\ push'[s].phase # "commit"
      BY DEF CommitVersion, In, Answer, TypeInv, TypeOK, PushTypeOK, PushRequests
    <2> QED
      BY <2>1, <2>2
  <1>7. OneWinnerPerHead'
    BY <1>1, <1>2, <1>3, <1>4, <1>6 DEF OneWinnerPerHead
  <1> QED
    BY <1>5, <1>7

(***************************************************************************)
(* Of the guarded pushes that started from one head of one runtime, at     *)
(* most one creates a version, however many there are and however long     *)
(* they take between reading the head and committing.                      *)
(***************************************************************************)
THEOREM HeadHasOneWinner == Spec => []OneWinnerPerHead
  <1>1. Init => WinnersMovedHead /\ OneWinnerPerHead
    BY DEF Init, PushInit, WinnersMovedHead, OneWinnerPerHead
  <1> QED
    BY <1>1, WinnerStep, TypeInvariant, OutcomesInvariant, PTL DEF Spec

-----------------------------------------------------------------------------
(***************************************************************************)
(* The server implements VersionHistory.                                   *)
(***************************************************************************)

\* A step that keeps what the abstract specification sees of a push.
LEMMA SameAbstractPushes ==
    ASSUME NEW r \in DOMAIN push, DOMAIN push' = DOMAIN push,
           \A s \in DOMAIN push \ {r} : push'[s] = push[s],
           push[r].phase # "loaded", push'[r].phase # "loaded",
           AbstractPush(push'[r]) = AbstractPush(push[r])
    PROVE  AbstractPushes' = AbstractPushes
  <1> HIDE DEF AbstractPush
  <1> QED
    BY DEF AbstractPushes

\* A step that settles the outcome of a push.
LEMMA SettledAbstractPush ==
    ASSUME NEW r \in DOMAIN push, DOMAIN push' = DOMAIN push,
           \A s \in DOMAIN push \ {r} : push'[s] = push[s],
           push[r].phase # "loaded", push'[r].phase # "loaded",
           NEW outcome, AbstractOutcome(push'[r].outcome) = outcome,
           push'[r].rt = push[r].rt, push'[r].tree = push[r].tree,
           push'[r].base = push[r].base, push'[r].guarded = push[r].guarded
    PROVE  AbstractPushes' = [AbstractPushes EXCEPT ![r].outcome = outcome]
  <1>1. AbstractPush(push'[r]) = [AbstractPush(push[r]) EXCEPT !.outcome = outcome]
    BY DEF AbstractPush
  <1> HIDE DEF AbstractPush
  <1> QED
    BY <1>1 DEF AbstractPushes

\* A push that starts, here and there.
LEMMA StartRefined ==
    ASSUME NEW r, r \notin DOMAIN push \/ push[r].phase = "loaded",
           DOMAIN push' = DOMAIN push \cup {r},
           \A s \in DOMAIN push \ {r} : push'[s] = push[s],
           push'[r].phase = "stage", push'[r].outcome = "pending",
           push'[r].base = heads[push'[r].rt],
           UNCHANGED heads
    PROVE  History!Start(r, push'[r].rt, push'[r].tree, push'[r].guarded)
  <1>1. AbstractPush(push'[r]) =
            [rt |-> push'[r].rt, tree |-> push'[r].tree, base |-> heads[push'[r].rt],
             guarded |-> push'[r].guarded, outcome |-> "pending"]
    BY DEF AbstractPush, AbstractOutcome
  <1>2. AbstractPushes' = [s \in DOMAIN AbstractPushes \cup {r} |->
                              IF s = r THEN AbstractPush(push'[r])
                              ELSE AbstractPushes[s]]
    <2> HIDE DEF AbstractPush
    <2> QED
      BY DEF AbstractPushes
  <1>3. r \notin DOMAIN AbstractPushes
    BY DEF AbstractPushes
  <1> QED
    BY <1>1, <1>2, <1>3 DEF History!Start

LEMMA CommitRefined ==
    ASSUME TypeInv, OutcomesFit, NEW r \in Pushers, CommitVersion(r)
    PROVE  History!Create(r) \/ History!Keep(r) \/ History!Conflict(r) \/ History!Fail(r)
  <1> DEFINE p == push[r]
  <1>1. /\ r \in DOMAIN push /\ DOMAIN push' = DOMAIN push
        /\ \A s \in DOMAIN push \ {r} : push'[s] = push[s]
        /\ p.phase = "commit" /\ p.outcome = "pending"
        /\ p.rt \in Runtimes /\ p.tree \in Trees
    BY PushFrame, PushFields DEF PushProgress, CommitVersion, In, OutcomesFit, TypeInv, TypeOK, PushInv
  <1>2. /\ push'[r].phase \in {"answered", "mirror"}
        /\ push'[r].rt = p.rt /\ push'[r].tree = p.tree
        /\ push'[r].base = p.base /\ push'[r].guarded = p.guarded
    BY <1>1 DEF CommitVersion, Answer, TypeInv, TypeOK, PushTypeOK, PushRequests
  <1>3. /\ r \in DOMAIN AbstractPushes
        /\ AbstractPushes[r].rt = p.rt /\ AbstractPushes[r].tree = p.tree
        /\ AbstractPushes[r].base = p.base /\ AbstractPushes[r].guarded = p.guarded
        /\ AbstractPushes[r].outcome = "pending"
    BY <1>1 DEF AbstractPushes, AbstractPush, AbstractOutcome
  <1>4. History!Current(r) <=> ~HeadMoved(p.rt, p.guarded, p.base)
    BY <1>3 DEF History!Current, History!Latest, HeadMoved
  <1>5. History!SameTree(r) <=> SameTree(p.rt, p.tree)
    <2>1. CASE heads[p.rt] = NoVersion
      BY <1>3, <2>1 DEF History!SameTree, History!Latest, SameTree, HasHead, NoVersion
    <2>2. CASE heads[p.rt] # NoVersion
      <3>1. heads[p.rt] \in DOMAIN versions
        BY <1>1, <2>2 DEF TypeInv, LinearHistory, HeadsOwned, HasHead, VersionsOf
      <3>2. /\ versions[heads[p.rt]].tree \in Trees
            /\ versions[heads[p.rt]].parent \in Hashes
            /\ heads[p.rt] = VersionHash(versions[heads[p.rt]].tree,
                                         versions[heads[p.rt]].parent)
        BY <3>1 DEF TypeInv, TypeOK, VersionsTypeOK, VersionRows, RowsMatchHashes
      <3>3. heads[p.rt][Len(heads[p.rt])] = versions[heads[p.rt]].tree
        BY <3>2, HashOfVersion
      <3> QED
        BY <1>3, <2>2, <3>3
        DEF History!SameTree, History!Latest, SameTree, HasHead, HeadTree, NoVersion
    <2> QED
      BY <2>1, <2>2
  <1>6. ASSUME NEW outcome, AbstractOutcome(push'[r].outcome) = outcome
        PROVE  AbstractPushes' = [AbstractPushes EXCEPT ![r].outcome = outcome]
    BY <1>1, <1>2, <1>6, SettledAbstractPush
  <1>7. CASE CommitConflict(p.rt, p.guarded, p.base) /\ Answer(r, "conflict")
    <2>1. push'[r].outcome = "conflict"
      BY <1>1, <1>7 DEF Answer, TypeInv, TypeOK, PushTypeOK, PushRequests
    <2>2. AbstractPushes' = [AbstractPushes EXCEPT ![r].outcome = "conflict"]
      BY <1>6, <2>1 DEF AbstractOutcome
    <2> QED
      BY <1>3, <1>4, <1>7, <2>2
      DEF CommitConflict, versionVars, History!Conflict, History!Pending, History!Finish
  <1>8. CASE CommitUnchanged(p.rt, p.tree, p.guarded, p.base) /\ Answer(r, "unchanged")
    <2>1. push'[r].outcome = "unchanged"
      BY <1>1, <1>8 DEF Answer, TypeInv, TypeOK, PushTypeOK, PushRequests
    <2>2. AbstractPushes' = [AbstractPushes EXCEPT ![r].outcome = "unchanged"]
      BY <1>6, <2>1 DEF AbstractOutcome
    <2> QED
      BY <1>3, <1>4, <1>5, <1>8, <2>2
      DEF CommitUnchanged, versionVars, History!Keep, History!Pending, History!Finish
  <1>9. CASE CommitRejected(p.rt, p.tree, p.guarded, p.base) /\ Answer(r, "rejected")
    <2>1. push'[r].outcome = "rejected"
      BY <1>1, <1>9 DEF Answer, TypeInv, TypeOK, PushTypeOK, PushRequests
    <2>2. AbstractPushes' = [AbstractPushes EXCEPT ![r].outcome = "failed"]
      BY <1>6, <2>1 DEF AbstractOutcome
    <2> QED
      BY <1>3, <1>9, <2>2
      DEF CommitRejected, versionVars, History!Fail, History!Pending, History!Finish
  <1>10. CASE /\ CommitCreated(p.rt, p.tree, p.guarded, p.base)
              /\ push' = [push EXCEPT ![r].phase = "mirror", ![r].outcome = "created",
                                     ![r].todo = FilesOf(p.tree)]
    <2>1. push'[r].outcome = "created"
      <3>1. push[r] \in PushRequests /\ push \in [DOMAIN push -> PushRequests]
        BY <1>1 DEF TypeInv, TypeOK, PushTypeOK
      <3>2. PICK todo : push' = [push EXCEPT ![r] = [push[r] EXCEPT
                                   !.phase = "mirror", !.outcome = "created", !.todo = todo]]
        BY <1>1, <1>10
      <3>3. push'[r] = [push[r] EXCEPT !.phase = "mirror", !.outcome = "created",
                                       !.todo = push'[r].todo]
        BY <1>1, <3>1, <3>2 DEF PushRequests
      <3> QED
        BY <3>1, <3>3 DEF PushRequests
    <2>2. AbstractPushes' = [AbstractPushes EXCEPT ![r].outcome = "created"]
      BY <1>6, <2>1 DEF AbstractOutcome
    <2>3. ~HeadMoved(p.rt, p.guarded, p.base) /\ ~SameTree(p.rt, p.tree)
      BY <1>10 DEF CommitCreated
    <2>4. heads' = [heads EXCEPT ![p.rt] = Append(@, p.tree)]
      BY <1>10 DEF CommitCreated, VersionHash
    <2> QED
      BY <1>3, <1>4, <1>5, <2>2, <2>3, <2>4
      DEF History!Create, History!Pending, History!Finish
  <1> QED
    BY <1>7, <1>8, <1>9, <1>10 DEF CommitVersion

LEMMA PushRefined ==
    ASSUME TypeInv, OutcomesFit, PushNext
    PROVE  [History!Next]_(History!vars)
  <1>1. PushTypeOK
    BY DEF TypeInv, TypeOK
  <1>2. PICK r \in Pushers : PushBegins(r) \/ ReadHead(r) \/ PushProgress(r) \/ LosePush(r)
    BY DEF PushNext
  <1>3. ASSUME NEW rt \in Runtimes, NEW tree \in Trees, NEW guarded \in BOOLEAN,
               History!Start(r, rt, tree, guarded)
        PROVE  History!Next
    BY <1>3 DEF History!Next
  <1>4. CASE PushBegins(r)
    <2>1. /\ r \notin DOMAIN push /\ DOMAIN push' = DOMAIN push \cup {r}
          /\ \A s \in DOMAIN push : push'[s] = push[s]
          /\ push'[r].phase \in {"loaded", "stage"} /\ push'[r].outcome = "pending"
      BY <1>4, NewPushFrame
    <2>2. UNCHANGED heads
      BY <1>4
      DEF PushBegins, BeginCliPush, LoadRecords, BeginRestore, BeginApiCommit, NewPush,
          versionVars
    <2>3. CASE push'[r].phase = "loaded"
      <3>1. AbstractPushes' = AbstractPushes
        BY <2>1, <2>3 DEF AbstractPushes
      <3> QED
        BY <2>2, <3>1 DEF History!vars
    <2>4. CASE push'[r].phase = "stage"
      <3>1. push'[r].base = heads[push'[r].rt]
        BY <1>4, <2>4
        DEF PushBegins, BeginCliPush, LoadRecords, BeginRestore, BeginApiCommit, NewPush
      <3>2. /\ push'[r].rt \in Runtimes /\ push'[r].tree \in Trees
            /\ push'[r].guarded \in BOOLEAN
        BY PushTyped, <2>1 DEF PushInv, PushTypeOK, PushRequests
      <3>3. History!Start(r, push'[r].rt, push'[r].tree, push'[r].guarded)
        BY <2>1, <2>2, <2>4, <3>1, StartRefined
      <3> QED
        BY <1>3, <3>2, <3>3
    <2> QED
      BY <2>1, <2>3, <2>4
  <1>5. CASE ReadHead(r)
    <2>1. /\ r \in DOMAIN push /\ DOMAIN push' = DOMAIN push
          /\ \A s \in DOMAIN push \ {r} : push'[s] = push[s]
          /\ push'[r].rt = push[r].rt
      BY <1>5, PushFrame
    <2>2. /\ push[r].phase = "loaded" /\ push[r].outcome = "pending"
          /\ UNCHANGED heads
      BY <1>5 DEF ReadHead, In, OutcomesFit, versionVars
    <2>3. /\ push'[r].phase = "stage" /\ push'[r].outcome = "pending"
          /\ push'[r].base = heads[push'[r].rt]
      <3>1. push'[r].phase = "stage"
        BY <1>1, <1>5, <2>1 DEF ReadHead, PushTypeOK, PushRequests
      <3>2. push'[r].outcome = push[r].outcome
        BY <1>1, <1>5, <2>1 DEF ReadHead, PushTypeOK, PushRequests
      <3>3. push'[r].base = heads[push[r].rt]
        <4>1. PICK base, guarded :
                /\ base = heads[push[r].rt]
                /\ push' = [push EXCEPT ![r] = [push[r] EXCEPT
                               !.phase = "stage", !.base = base, !.guarded = guarded]]
          BY <1>5 DEF ReadHead
        <4>2. push'[r] = [push[r] EXCEPT !.phase = "stage", !.base = base,
                                         !.guarded = guarded]
          BY <1>1, <2>1, <4>1 DEF PushTypeOK
        <4>3. push[r] \in PushRequests
          BY <1>1, <2>1 DEF PushTypeOK
        <4>4. push'[r].base = base
          BY <4>2, <4>3 DEF PushRequests
        <4> QED
          BY <4>1, <4>4
      <3> QED
        BY <2>1, <2>2, <3>1, <3>2, <3>3
    <2>4. /\ push'[r].rt \in Runtimes /\ push'[r].tree \in Trees
          /\ push'[r].guarded \in BOOLEAN
      BY PushTyped, <2>1 DEF PushInv, PushTypeOK, PushRequests
    <2>5. History!Start(r, push'[r].rt, push'[r].tree, push'[r].guarded)
      BY <2>1, <2>2, <2>3, StartRefined
    <2> QED
      BY <1>3, <2>4, <2>5
  <1>6. CASE CommitVersion(r)
    BY <1>6, CommitRefined DEF History!Next
  <1>7. CASE ValidateManifest(r) /\ ~HasBlobs(push[r].tree)
    <2>1. /\ r \in DOMAIN push /\ DOMAIN push' = DOMAIN push
          /\ \A s \in DOMAIN push \ {r} : push'[s] = push[s]
          /\ push[r].phase = "stage" /\ push[r].outcome = "pending"
          /\ UNCHANGED heads
      <3>1. PushProgress(r)
        BY <1>7 DEF PushProgress
      <3>2. In(r, "stage") /\ UNCHANGED heads
        BY <1>7 DEF ValidateManifest, versionVars
      <3> QED
        BY <3>1, <3>2, PushFrame DEF In, OutcomesFit
    <2>2. /\ push'[r].phase = "answered" /\ push'[r].outcome = "missing"
          /\ push'[r].rt = push[r].rt /\ push'[r].tree = push[r].tree
          /\ push'[r].base = push[r].base /\ push'[r].guarded = push[r].guarded
      BY <1>1, <1>7, <2>1 DEF ValidateManifest, Answer, PushTypeOK, PushRequests
    <2>3. AbstractOutcome(push'[r].outcome) = "failed"
      BY <2>2 DEF AbstractOutcome
    <2>4. AbstractPushes' = [AbstractPushes EXCEPT ![r].outcome = "failed"]
      BY <2>1, <2>2, <2>3, SettledAbstractPush
    <2>5. r \in DOMAIN AbstractPushes /\ AbstractPushes[r].outcome = "pending"
      BY <2>1 DEF AbstractPushes, AbstractPush, AbstractOutcome
    <2>6. History!Fail(r)
      BY <2>1, <2>4, <2>5 DEF History!Fail, History!Pending, History!Finish
    <2> QED
      BY <2>6 DEF History!Next
  <1>8. CASE \/ ValidateManifest(r) /\ HasBlobs(push[r].tree)
             \/ PushProgress(r) /\ ~ValidateManifest(r) /\ ~CommitVersion(r)
             \/ LosePush(r)
    <2>1. /\ r \in DOMAIN push /\ DOMAIN push' = DOMAIN push
          /\ \A s \in DOMAIN push \ {r} : push'[s] = push[s]
      BY <1>8, PushFrame DEF PushProgress
    <2>2. /\ push[r].phase # "loaded" /\ push'[r].phase # "loaded"
          /\ AbstractPush(push'[r]) = AbstractPush(push[r])
          /\ UNCHANGED heads
      <3> USE <1>1, <2>1 DEF PushTypeOK, PushRequests, In, Answer, AbstractPush, versionVars
      <3>1. CASE ValidateManifest(r) /\ HasBlobs(push[r].tree)
        BY <3>1 DEF ValidateManifest
      <3>2. CASE \E path \in Paths : StageObject(r, path)
        BY <3>2 DEF StageObject
      <3>3. CASE \E path \in Paths : MirrorFile(r, path) \/ MirrorRecord(r, path)
        BY <3>3 DEF MirrorFile, MirrorRecord
      <3>4. CASE ListStale(r)
        BY <3>4 DEF ListStale
      <3>5. CASE \E path \in Paths : PruneFile(r, path) \/ PruneRecord(r, path)
        BY <3>5 DEF PruneFile, PruneRecord
      <3>6. CASE AnswerCreated(r)
        BY <3>6 DEF AnswerCreated, OutcomesFit
      <3>7. CASE LosePush(r)
        BY <3>7 DEF LosePush
      <3> QED
        BY <1>8, <3>1, <3>2, <3>3, <3>4, <3>5, <3>6, <3>7 DEF PushProgress
    <2>3. AbstractPushes' = AbstractPushes
      BY <2>1, <2>2, SameAbstractPushes
    <2> QED
      BY <2>2, <2>3 DEF History!vars
  <1> QED
    BY <1>2, <1>4, <1>5, <1>6, <1>7, <1>8

(***************************************************************************)
(* Pushes compare and swap (README, "Sync model"): through staging,        *)
(* validation, mirroring, interruptions and everything the single-file     *)
(* routes do meanwhile, the heads and the answers are those of             *)
(* VersionHistory.                                                         *)
(***************************************************************************)
THEOREM ServerRefinesHistory == Spec => CompareAndSwap
  <1>1. Init => History!Init
    BY DEF Init, VersionsInit, PushInit, NoVersion, AbstractPushes, History!Init
  <1>2. TypeInv /\ OutcomesFit /\ [Next]_vars => [History!Next]_(History!vars)
    <2> SUFFICES ASSUME TypeInv, OutcomesFit, [Next]_vars
                 PROVE  [History!Next]_(History!vars)
      OBVIOUS
    <2>1. CASE PushNext
      BY <2>1, PushRefined
    <2>2. CASE FileNext /\ UNCHANGED push
      <3>1. UNCHANGED heads
        BY <2>2
        DEF FileNext, FileArrives, FileProgress, PutFile, PutBlob, PutRecord, RemoveFile,
            RemoveRecord, RemovePublic, GetFile, GetHeadFile, GetRecheck, GetBody,
            PublishFile, PublishInsert, UnpublishFile, LoseFileRequest, versionVars
      <3> QED
        BY <2>2, <3>1 DEF History!vars, AbstractPushes
    <2>3. CASE UNCHANGED vars
      BY <2>3 DEF vars, versionVars, History!vars, AbstractPushes
    <2> QED
      BY <2>1, <2>2, <2>3 DEF Next
  <1> QED
    BY <1>1, <1>2, TypeInvariant, OutcomesInvariant, PTL
    DEF Spec, CompareAndSwap, History!Spec

-----------------------------------------------------------------------------
(***************************************************************************)
(* Blobs: what is named is stored.                                         *)
(***************************************************************************)

\* A push past validation: the objects of its tree are stored.
ValidatedPushes ==
    \A r \in DOMAIN push :
        push[r].phase \in {"commit", "mirror", "prune"} => HasBlobs(push[r].tree)

\* A PUT that is about to write the record has stored the blob.
StoredUploads ==
    \A f \in DOMAIN fileReq :
        fileReq[f].kind = "put" /\ fileReq[f].step = "record" =>
            fileReq[f].body \in blobs

ObjectInv ==
    /\ CommittedObjectsExist
    /\ RecordedObjectsExist
    /\ ValidatedPushes
    /\ StoredUploads

\* No step removes a blob.
LEMMA BlobsGrow ==
    ASSUME [Next]_vars
    PROVE  blobs \subseteq blobs'
  <1>1. CASE PushNext
    BY <1>1
    DEF PushNext, PushBegins, PushProgress, BeginCliPush, LoadRecords, BeginRestore, BeginApiCommit,
        NewPush, ReadHead, StageObject, ValidateManifest, CommitVersion, MirrorFile,
        MirrorRecord, ListStale, PruneFile, PruneRecord, AnswerCreated, LosePush,
        storeVars, WriteBlob, WriteFile, DeleteFile
  <1>2. CASE FileNext
    BY <1>2
    DEF FileNext, FileArrives, FileProgress, PutFile, PutBlob, PutRecord, RemoveFile, RemoveRecord,
        RemovePublic, GetFile, GetHeadFile, GetRecheck, GetBody, PublishFile,
        PublishInsert, UnpublishFile, LoseFileRequest,
        storeVars, WriteBlob, WriteFile, DeleteFile
  <1>3. CASE UNCHANGED vars
    BY <1>3 DEF vars, storeVars
  <1> QED
    BY <1>1, <1>2, <1>3 DEF Next

LEMMA ObjectsInitial == Init => ObjectInv
  BY DEF Init, StoreInit, RecordsInit, VersionsInit, PushInit, FileReqInit, ObjectInv,
         CommittedObjectsExist, RecordedObjectsExist, ValidatedPushes, StoredUploads,
         HasBlobs, ContentsOf, FilesOf, EmptyTree

\* A validation that lets a push through has just found its objects; nothing
\* removes one afterwards.
LEMMA ValidatedStep ==
    ASSUME TypeInv, ObjectInv, [Next]_vars
    PROVE  ValidatedPushes'
  <1>1. SUFFICES ASSUME NEW r \in DOMAIN push',
                        push'[r].phase \in {"commit", "mirror", "prune"}
                 PROVE  ContentsOf(push'[r].tree) \subseteq blobs'
    BY <1>1 DEF ValidatedPushes, HasBlobs
  <1>2. ASSUME r \in DOMAIN push, push'[r].tree = push[r].tree,
               \/ push[r].phase \in {"commit", "mirror", "prune"}
               \/ HasBlobs(push[r].tree)
        PROVE  ContentsOf(push'[r].tree) \subseteq blobs'
    BY <1>2, BlobsGrow DEF ObjectInv, ValidatedPushes, HasBlobs
  <1>3. CASE UNCHANGED push
    BY <1>1, <1>2, <1>3
  <1>4. CASE PushNext
    <2>1. PICK s \in Pushers : PushBegins(s) \/ ReadHead(s) \/ PushProgress(s) \/ LosePush(s)
      BY <1>4 DEF PushNext
    <2>2. CASE PushBegins(s)
      <3>1. r # s /\ r \in DOMAIN push /\ push'[r] = push[r]
        BY <1>1, <2>2, NewPushFrame
      <3> QED
        BY <1>1, <1>2, <3>1
    <2>3. CASE r # s /\ (ReadHead(s) \/ PushProgress(s) \/ LosePush(s))
      <3>1. r \in DOMAIN push /\ push'[r] = push[r]
        BY <2>3, PushFrame
      <3> QED
        BY <1>1, <1>2, <3>1
    <2>4. CASE r = s /\ (ReadHead(s) \/ PushProgress(s) \/ LosePush(s))
      <3>1. r \in DOMAIN push /\ push'[r].tree = push[r].tree
        BY <2>4, PushFrame
      <3>2. push[r].phase \in {"commit", "mirror", "prune"} \/ HasBlobs(push[r].tree)
        <4> USE DEF TypeInv, TypeOK, PushTypeOK, PushRequests, In, Answer
        <4>1. CASE ReadHead(r) \/ \E path \in Paths : StageObject(r, path)
          BY <1>1, <4>1 DEF ReadHead, StageObject
        <4>2. CASE ValidateManifest(r)
          BY <1>1, <4>2 DEF ValidateManifest
        <4>3. CASE CommitVersion(r)
          BY <4>3 DEF CommitVersion
        <4>4. CASE LosePush(r) \/ AnswerCreated(r)
          BY <1>1, <4>4 DEF LosePush, AnswerCreated
        <4>5. CASE ListStale(r) \/ \E path \in Paths : \/ MirrorFile(r, path)
                                                     \/ MirrorRecord(r, path)
                                                     \/ PruneFile(r, path)
                                                     \/ PruneRecord(r, path)
          BY <4>5 DEF ListStale, MirrorFile, MirrorRecord, PruneFile, PruneRecord
        <4> QED
          BY <2>4, <4>1, <4>2, <4>3, <4>4, <4>5 DEF PushProgress
      <3> QED
        BY <1>2, <3>1, <3>2
    <2> QED
      BY <2>1, <2>2, <2>3, <2>4
  <1> QED
    BY <1>3, <1>4 DEF Next, vars

\* A file request that is under way changes no other one.
LEMMA FileFrame ==
    ASSUME TypeInv, NEW f, FileProgress(f) \/ LoseFileRequest(f)
    PROVE  /\ f \in DOMAIN fileReq /\ DOMAIN fileReq' = DOMAIN fileReq
           /\ \A g \in DOMAIN fileReq \ {f} : fileReq'[g] = fileReq[g]
  BY DEF FileProgress, PutBlob, PutRecord, RemoveRecord, RemovePublic, GetHeadFile,
         GetRecheck, GetBody, PublishInsert, LoseFileRequest, At, Go,
         TypeInv, TypeOK, FileReqTypeOK

\* PUT writes the record only after store.writeBlob.
LEMMA UploadStep ==
    ASSUME TypeInv, ObjectInv, [Next]_vars
    PROVE  StoredUploads'
  <1>1. SUFFICES ASSUME NEW f \in DOMAIN fileReq',
                        fileReq'[f].kind = "put", fileReq'[f].step = "record"
                 PROVE  fileReq'[f].body \in blobs'
    BY <1>1 DEF StoredUploads
  <1>2. ASSUME f \in DOMAIN fileReq, fileReq'[f] = fileReq[f]
        PROVE  fileReq'[f].body \in blobs'
    BY <1>1, <1>2, BlobsGrow DEF ObjectInv, StoredUploads
  <1>3. ASSUME NEW g \in FileRequestIds, FileArrives(g)
        PROVE  fileReq'[f].body \in blobs'
    <2>1. PICK rt \in Runtimes, path \in Paths :
            \/ \E body \in Contents : PutFile(g, rt, path, body)
            \/ RemoveFile(g, rt, path)
            \/ GetFile(g, rt, path)
            \/ PublishFile(g, rt, path)
            \/ UnpublishFile(g, rt, path)
      BY <1>3 DEF FileArrives
    <2>2. PICK kind, step, body :
            step # "record" /\ Arrive(g, kind, step, rt, path, body)
      BY <2>1 DEF PutFile, RemoveFile, GetFile, PublishFile, UnpublishFile
    <2>3. f \in DOMAIN fileReq /\ fileReq'[f] = fileReq[f]
      BY <1>1, <2>2 DEF Arrive
    <2> QED
      BY <1>2, <2>3
  <1>4. ASSUME NEW g \in FileRequestIds, FileProgress(g) \/ LoseFileRequest(g), f # g
        PROVE  fileReq'[f].body \in blobs'
    BY <1>1, <1>2, <1>4, FileFrame
  <1>5. ASSUME FileProgress(f) \/ LoseFileRequest(f)
        PROVE  fileReq'[f].body \in blobs'
    <2>1. PutBlob(f)
      BY <1>1, <1>5
      DEF FileProgress, PutBlob, PutRecord, RemoveRecord, RemovePublic, GetHeadFile,
          GetRecheck, GetBody, PublishInsert, LoseFileRequest, At, Go,
          TypeInv, TypeOK, FileReqTypeOK, FileReqs
    <2> QED
      BY <2>1 DEF PutBlob, At, Go, WriteBlob, TypeInv, TypeOK, FileReqTypeOK, FileReqs
  <1> QED
    BY <1>1, <1>2, <1>3, <1>4, <1>5 DEF Next, FileNext, vars

\* The version tables take in the tree of a validated push only.
LEMMA CommittedStep ==
    ASSUME TypeInv, ObjectInv, [Next]_vars
    PROVE  CommittedObjectsExist'
  <1>1. SUFFICES ASSUME NEW h \in DOMAIN versions'
                 PROVE  ContentsOf(versions'[h].tree) \subseteq blobs'
    BY <1>1 DEF CommittedObjectsExist, HasBlobs
  <1>2. CASE h \in DOMAIN versions /\ versions'[h] = versions[h]
    BY <1>2, BlobsGrow DEF ObjectInv, CommittedObjectsExist, HasBlobs
  <1>3. ASSUME NEW r \in DOMAIN push, CommitVersion(r),
               CommitCreated(push[r].rt, push[r].tree, push[r].guarded, push[r].base)
        PROVE  \/ h \in DOMAIN versions /\ versions'[h] = versions[h]
               \/ ContentsOf(versions'[h].tree) \subseteq blobs'
    <2>1. VersionsTypeOK /\ push[r].rt \in Runtimes /\ push[r].tree \in Trees
      BY PushFields DEF TypeInv, TypeOK, PushInv
    <2> DEFINE hash == VersionHash(push[r].tree, heads[push[r].rt])
    <2>2. /\ DOMAIN versions' = DOMAIN versions \cup {hash}
          /\ versions'[hash].tree = push[r].tree
          /\ \A g \in DOMAIN versions : versions'[g] = versions[g]
      BY <1>3, <2>1, CommitAdds
    <2> HIDE DEF hash
    <2>3. ContentsOf(push[r].tree) \subseteq blobs
      BY <1>3 DEF CommitVersion, In, ObjectInv, ValidatedPushes, HasBlobs
    <2> QED
      BY <1>1, <2>2, <2>3, BlobsGrow
  <1> QED
    BY <1>1, <1>2, <1>3, VersionStep DEF versionVars

\* Records are written by PUT and by the mirror loop only, both with a stored
\* blob's content.
LEMMA RecordStep ==
    ASSUME TypeInv, ObjectInv, [Next]_vars
    PROVE  \/ UNCHANGED records
           \/ \E rt \in Runtimes, path \in Paths, content \in MaybeContent :
                 /\ content # NoContent => content \in blobs
                 /\ records' = [records EXCEPT ![rt][path] = content]
  <1>1. ASSUME NEW r \in DOMAIN push, NEW path \in Paths, MirrorRecord(r, path)
        PROVE  \E rt \in Runtimes, content \in MaybeContent :
                  /\ content # NoContent => content \in blobs
                  /\ records' = [records EXCEPT ![rt][path] = content]
    <2>1. push[r].rt \in Runtimes /\ push[r].tree[path] \in MaybeContent
      BY PushFields DEF TypeInv, TypeOK, PushInv, Trees
    <2>2. push[r].tree[path] # NoContent => push[r].tree[path] \in blobs
      BY <1>1 DEF MirrorRecord, In, ObjectInv, ValidatedPushes, HasBlobs, ContentsOf, FilesOf
    <2> QED
      BY <1>1, <2>1, <2>2 DEF MirrorRecord, UpsertFile
  <1>2. ASSUME NEW r \in DOMAIN push, NEW path \in Paths, PruneRecord(r, path)
        PROVE  \E rt \in Runtimes : records' = [records EXCEPT ![rt][path] = NoContent]
    BY <1>2, PushFields DEF PruneRecord, MarkDeleted, TypeInv, TypeOK, PushInv
  <1>3. ASSUME NEW f \in DOMAIN fileReq, PutRecord(f)
        PROVE  \E rt \in Runtimes, path \in Paths, content \in MaybeContent :
                  /\ content \in blobs
                  /\ records' = [records EXCEPT ![rt][path] = content]
    <2>1. fileReq[f].body \in blobs
      BY <1>3 DEF PutRecord, At, ObjectInv, StoredUploads
    <2> QED
      BY <1>3, <2>1, FileReqFields DEF PutRecord, UpsertFile, TypeInv, TypeOK, FileReqInv
  <1>4. ASSUME NEW f \in DOMAIN fileReq, RemoveRecord(f)
        PROVE  \E rt \in Runtimes, path \in Paths :
                  records' = [records EXCEPT ![rt][path] = NoContent]
    BY <1>4, FileReqFields DEF RemoveRecord, MarkDeleted, TypeInv, TypeOK, FileReqInv
  <1>5. CASE PushNext
    <2>1. \/ UNCHANGED records
          \/ \E r \in DOMAIN push, path \in Paths : MirrorRecord(r, path) \/ PruneRecord(r, path)
      BY <1>5
      DEF PushNext, PushBegins, PushProgress, BeginCliPush, LoadRecords, BeginRestore,
          BeginApiCommit, NewPush, ReadHead, StageObject, ValidateManifest, CommitVersion,
          MirrorFile, MirrorRecord, ListStale, PruneFile, PruneRecord, AnswerCreated,
          LosePush, recordVars, In
    <2>2. NoContent \in MaybeContent
      BY DEF MaybeContent
    <2> QED
      BY <1>1, <1>2, <2>1, <2>2
  <1>6. CASE FileNext
    <2>1. \/ UNCHANGED records
          \/ \E f \in DOMAIN fileReq : PutRecord(f) \/ RemoveRecord(f)
      BY <1>6
      DEF FileNext, FileArrives, FileProgress, PutFile, PutBlob, PutRecord, RemoveFile,
          RemoveRecord, RemovePublic, GetFile, GetHeadFile, GetRecheck, GetBody,
          PublishFile, PublishInsert, UnpublishFile, LoseFileRequest,
          recordVars, InsertPublic, DeletePublic, At
    <2>2. NoContent \in MaybeContent
      BY DEF MaybeContent
    <2> QED
      BY <1>3, <1>4, <2>1, <2>2
  <1> QED
    BY <1>5, <1>6 DEF Next, vars, recordVars

LEMMA RecordedStep ==
    ASSUME TypeInv, ObjectInv, [Next]_vars
    PROVE  RecordedObjectsExist'
  <1>1. SUFFICES ASSUME NEW rt \in Runtimes
                 PROVE  ContentsOf(records'[rt]) \subseteq blobs'
    BY <1>1 DEF RecordedObjectsExist, HasBlobs
  <1>2. records \in [Runtimes -> Trees] /\ ContentsOf(records[rt]) \subseteq blobs
    BY DEF TypeInv, TypeOK, RecordsTypeOK, ObjectInv, RecordedObjectsExist, HasBlobs
  <1>3. CASE UNCHANGED records
    BY <1>2, <1>3, BlobsGrow
  <1>4. ASSUME NEW s \in Runtimes, NEW path \in Paths, NEW content \in MaybeContent,
               content # NoContent => content \in blobs,
               records' = [records EXCEPT ![s][path] = content]
        PROVE  ContentsOf(records'[rt]) \subseteq blobs'
    <2>1. \A p \in Paths : records'[rt][p] = records[rt][p] \/ records'[rt][p] = content
      BY <1>2, <1>4 DEF Trees
    <2> QED
      BY <1>2, <1>4, <2>1, BlobsGrow DEF ContentsOf, FilesOf
  <1> QED
    BY <1>3, <1>4, RecordStep

LEMMA ObjectInvariant == Spec => []ObjectInv
  <1>1. TypeInv /\ ObjectInv /\ [Next]_vars => ObjectInv'
    BY ValidatedStep, UploadStep, CommittedStep, RecordedStep DEF ObjectInv
  <1> QED
    BY <1>1, ObjectsInitial, TypeInvariant, PTL DEF Spec

(***************************************************************************)
(* Whatever is committed can be read: a version's objects were found by    *)
(* the validation of its push (http.ts, POST .../versions), and no request *)
(* of any kind, finished or interrupted, removes one.                      *)
(***************************************************************************)
THEOREM CommittedIsReadable == Spec => []CommittedObjectsExist
  <1>1. ObjectInv => CommittedObjectsExist
    BY DEF ObjectInv
  <1> QED
    BY <1>1, ObjectInvariant, PTL

\* Every live file record names a stored object: PUT and the mirror loop store
\* it before they write the record.
THEOREM RecordedIsReadable == Spec => []RecordedObjectsExist
  <1>1. ObjectInv => RecordedObjectsExist
    BY DEF ObjectInv
  <1> QED
    BY <1>1, ObjectInvariant, PTL

-----------------------------------------------------------------------------
(***************************************************************************)
(* The project's own clients, API clients aside: every object of a tree    *)
(* that is not left to stage is already stored.                            *)
(***************************************************************************)

StagedObjects ==
    \A r \in DOMAIN push :
        push[r].phase \in {"loaded", "stage"} =>
            \A p \in FilesOf(push[r].tree) \ push[r].todo : push[r].tree[p] \in blobs

LEMMA StagedStep ==
    ASSUME "api" \notin Origins, TypeInv, ObjectInv, StagedObjects, [Next]_vars
    PROVE  StagedObjects'
  <1>1. SUFFICES ASSUME NEW r \in DOMAIN push', push'[r].phase \in {"loaded", "stage"},
                        NEW p \in FilesOf(push'[r].tree) \ push'[r].todo
                 PROVE  push'[r].tree[p] \in blobs'
    BY <1>1 DEF StagedObjects
  <1>2. ASSUME r \in DOMAIN push, push'[r] = push[r]
        PROVE  push'[r].tree[p] \in blobs'
    BY <1>1, <1>2, BlobsGrow DEF StagedObjects
  <1>3. ASSUME NEW s \in Pushers, PushBegins(s)
        PROVE  push'[r].tree[p] \in blobs'
    <2>1. CASE r # s
      BY <1>1, <1>2, <1>3, <2>1, PushFrame, NewPushFrame
    <2>2. CASE r = s
      <3>1. ASSUME NEW rt \in Runtimes, NEW tree \in PushTrees, BeginCliPush(r, rt, tree)
            PROVE  FALSE
        BY <1>1, <3>1 DEF BeginCliPush, NewPush
      <3>2. ASSUME NEW rt \in Runtimes, LoadRecords(r, rt)
            PROVE  push'[r].tree[p] \in blobs'
        <4>1. push'[r].tree = records[rt]
          BY <3>2 DEF LoadRecords, NewPush
        <4>2. ContentsOf(records[rt]) \subseteq blobs
          BY DEF ObjectInv, RecordedObjectsExist, HasBlobs
        <4> QED
          BY <1>1, <4>1, <4>2, BlobsGrow DEF ContentsOf
      <3>3. ASSUME NEW rt \in Runtimes, NEW hash \in DOMAIN versions,
                   BeginRestore(r, rt, hash)
            PROVE  push'[r].tree[p] \in blobs'
        <4>1. push'[r].tree = versions[hash].tree
          BY <3>3 DEF BeginRestore, NewPush
        <4>2. ContentsOf(versions[hash].tree) \subseteq blobs
          BY DEF ObjectInv, CommittedObjectsExist, HasBlobs
        <4> QED
          BY <1>1, <4>1, <4>2, BlobsGrow DEF ContentsOf
      <3> QED
        BY <1>3, <2>2, <3>1, <3>2, <3>3 DEF PushBegins, BeginApiCommit
    <2> QED
      BY <2>1, <2>2
  <1>4. ASSUME NEW s \in Pushers, ReadHead(s) \/ PushProgress(s) \/ LosePush(s), r # s
        PROVE  push'[r].tree[p] \in blobs'
    BY <1>1, <1>2, <1>4, PushFrame
  <1>5. ASSUME ReadHead(r) \/ PushProgress(r) \/ LosePush(r)
        PROVE  push'[r].tree[p] \in blobs'
    <2>1. r \in DOMAIN push /\ push'[r].tree = push[r].tree
      BY <1>5, PushFrame
    <2>2. ReadHead(r) \/ \E path \in Paths : StageObject(r, path)
      <3> USE DEF TypeInv, TypeOK, PushTypeOK, PushRequests, In, Answer
      <3>1. ~ValidateManifest(r) /\ ~CommitVersion(r)
        BY <1>1 DEF ValidateManifest, CommitVersion
      <3>2. ~ListStale(r) /\ ~AnswerCreated(r) /\ ~LosePush(r)
        BY <1>1 DEF ListStale, AnswerCreated, LosePush
      <3>3. \A path \in Paths : ~MirrorFile(r, path) /\ ~MirrorRecord(r, path)
        BY <1>1 DEF MirrorFile, MirrorRecord
      <3>4. \A path \in Paths : ~PruneFile(r, path) /\ ~PruneRecord(r, path)
        BY <1>1 DEF PruneFile, PruneRecord
      <3> QED
        BY <1>5, <3>1, <3>2, <3>3, <3>4 DEF PushProgress
    <2>3. CASE ReadHead(r)
      <3>1. push[r].phase = "loaded" /\ push'[r].todo = push[r].todo
        BY <2>3 DEF ReadHead, In, TypeInv, TypeOK, PushTypeOK, PushRequests
      <3> QED
        BY <1>1, <2>1, <3>1, BlobsGrow DEF StagedObjects
    <2>4. ASSUME NEW path \in Paths, StageObject(r, path)
          PROVE  push'[r].tree[p] \in blobs'
      <3>1. /\ push[r].phase = "stage"
            /\ push'[r].todo = push[r].todo \ {path}
            /\ push[r].tree[path] \in blobs'
        BY <2>4 DEF StageObject, WriteBlob, In, TypeInv, TypeOK, PushTypeOK, PushRequests
      <3> QED
        BY <1>1, <2>1, <3>1, BlobsGrow DEF StagedObjects
    <2> QED
      BY <2>2, <2>3, <2>4
  <1> QED
    BY <1>1, <1>2, <1>3, <1>4, <1>5 DEF Next, PushNext, vars

LEMMA NoneMissingStep ==
    ASSUME TypeInv, StagedObjects, NoObjectMissing, [Next]_vars
    PROVE  NoObjectMissing'
  <1>1. SUFFICES ASSUME NEW r \in DOMAIN push', push'[r].outcome = "missing"
                 PROVE  FALSE
    BY <1>1 DEF NoObjectMissing
  <1>2. ~(r \in DOMAIN push /\ push'[r] = push[r])
    BY <1>1 DEF NoObjectMissing
  <1>3. ASSUME NEW s \in Pushers, PushBegins(s)
        PROVE  FALSE
    BY <1>1, <1>2, <1>3, NewPushFrame
  <1>4. ASSUME NEW s \in Pushers, ReadHead(s) \/ PushProgress(s) \/ LosePush(s), r # s
        PROVE  FALSE
    BY <1>1, <1>2, <1>4, PushFrame
  <1>5. ASSUME ReadHead(r) \/ PushProgress(r) \/ LosePush(r)
        PROVE  FALSE
    <2>1. r \in DOMAIN push /\ push[r].outcome # "missing"
      BY <1>5, PushFrame DEF NoObjectMissing
    <2> USE DEF TypeInv, TypeOK, PushTypeOK, PushRequests, In, Answer
    <2>2. ~ValidateManifest(r)
      <3>1. SUFFICES ASSUME ValidateManifest(r) PROVE HasBlobs(push[r].tree)
        BY <1>1, <2>1, <3>1 DEF ValidateManifest
      <3>2. push[r].phase = "stage" /\ push[r].todo = {}
        BY <3>1 DEF ValidateManifest
      <3> QED
        BY <2>1, <3>2 DEF StagedObjects, HasBlobs, ContentsOf
    <2>3. ~CommitVersion(r)
      BY <1>1, <2>1 DEF CommitVersion
    <2>4. ~ReadHead(r) /\ \A path \in Paths : ~StageObject(r, path)
      BY <1>1, <2>1 DEF ReadHead, StageObject
    <2>5. ~ListStale(r) /\ ~AnswerCreated(r) /\ ~LosePush(r)
      BY <1>1, <2>1 DEF ListStale, AnswerCreated, LosePush
    <2>6. \A path \in Paths : ~MirrorFile(r, path) /\ ~MirrorRecord(r, path)
      BY <1>1, <2>1 DEF MirrorFile, MirrorRecord
    <2>7. \A path \in Paths : ~PruneFile(r, path) /\ ~PruneRecord(r, path)
      BY <1>1, <2>1 DEF PruneFile, PruneRecord
    <2> QED
      BY <1>5, <2>2, <2>3, <2>4, <2>5, <2>6, <2>7 DEF PushProgress
  <1> QED
    BY <1>1, <1>2, <1>3, <1>4, <1>5 DEF Next, PushNext, vars

(***************************************************************************)
(* A push by the CLI, a snapshot and a restore never fail for a missing    *)
(* object, although the last two upload nothing: what they name was in the *)
(* file records or in a version when they read it.                         *)
(***************************************************************************)
THEOREM ClientsMissNothing ==
    ASSUME "api" \notin Origins
    PROVE  Spec => []NoObjectMissing
  <1>1. Init => StagedObjects /\ NoObjectMissing
    BY DEF Init, PushInit, StagedObjects, NoObjectMissing
  <1>2. TypeInv /\ ObjectInv /\ StagedObjects /\ NoObjectMissing /\ [Next]_vars
            => StagedObjects' /\ NoObjectMissing'
    BY StagedStep, NoneMissingStep
  <1> QED
    BY <1>1, <1>2, TypeInvariant, ObjectInvariant, PTL DEF Spec

=============================================================================
