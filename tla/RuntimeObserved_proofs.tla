------------------------ MODULE RuntimeObserved_proofs ------------------------
(***************************************************************************)
(* Theorems about what a GET answers and what a mirror leaves behind, for  *)
(* any number of runtimes, paths, contents, pushes and file requests.      *)
(***************************************************************************)
EXTENDS RuntimeObserved, RuntimeServer_proofs

\* What RuntimeServer does, whatever the history variables record.
ServerInv == TypeInv /\ ObjectInv

LEMMA ServerInvariant == ObservedSpec => []ServerInv
  <1>1. ObservedInit => Init
    BY DEF ObservedInit
  <1>2. [ObservedNext]_observedVars => [Next]_vars
    BY DEF ObservedNext, observedVars
  <1>3. ObservedSpec => Spec
    BY <1>1, <1>2, PTL DEF ObservedSpec, Spec
  <1>4. TypeInv /\ ObjectInv => ServerInv
    BY DEF ServerInv
  <1> QED
    BY <1>3, <1>4, TypeInvariant, ObjectInvariant, PTL

-----------------------------------------------------------------------------
(***************************************************************************)
(* What a GET has found.                                                   *)
(***************************************************************************)

\* What GET f has found out, as q says.  vis is visible at its path now, shown
\* was so at some moment of it; hash is the head of its runtime.
Knows(f, q, vis, shown, hash, across, stored) ==
    /\ q.step \notin {"answered", "lost"} => vis \in shown
    /\ q.step \in {"recheck", "read"} /\ q.body # NoContent => q.body \in shown \cap stored
    /\ q.step = "recheck" /\ q.body = NoContent /\ hash # NoVersion =>
          NoContent \in shown \/ f \in across
    /\ q.step = "read" /\ q.body = NoContent => hash = NoVersion \/ f \in across
    /\ q.step = "answered" => q.body \in shown \/ f \in across

ReadInv ==
    \A f \in DOMAIN fileReq :
        fileReq[f].kind = "get" =>
            Knows(f, fileReq[f], Visible(fileReq[f].rt, fileReq[f].path), seen[f],
                  heads[fileReq[f].rt], crossed, blobs)

\* Later a request knows no less: what its path held stays seen, blobs stay,
\* and when its runtime gets a head it is among the crossed.
LEMMA KnowsMore ==
    ASSUME NEW f, NEW q, NEW vis, NEW vis2, NEW shown, NEW shown2, NEW hash, NEW hash2,
           NEW across, NEW across2, NEW stored, NEW stored2,
           Knows(f, q, vis, shown, hash, across, stored),
           shown \subseteq shown2, stored \subseteq stored2, across \subseteq across2,
           q.step \notin {"answered", "lost"} =>
               vis2 \in shown2 /\ (hash = NoVersion => hash2 = NoVersion \/ f \in across2)
    PROVE  Knows(f, q, vis2, shown2, hash2, across2, stored2)
  BY DEF Knows

\* What the history variables record in a step.
LEMMA Recorded ==
    ASSUME ObservedNext, NEW f \in FileRequestIds
    PROVE  /\ seen[f] \subseteq seen'[f] /\ crossed \subseteq crossed'
           /\ f \in DOMAIN fileReq' /\ fileReq'[f].kind = "get"
              /\ fileReq'[f].step \notin {"answered", "lost"} =>
                 Visible(fileReq[f].rt, fileReq[f].path)' \in seen'[f]
           /\ f \in DOMAIN fileReq /\ fileReq[f].kind = "get"
              /\ fileReq[f].step \notin {"answered", "lost"}
              /\ heads[fileReq[f].rt] = NoVersion /\ heads'[fileReq'[f].rt] # NoVersion =>
                 f \in crossed'
  BY DEF ObservedNext, Reading, FileDone, HasHead

\* A step in which the request does nothing.
LEMMA ReadKept ==
    ASSUME ServerInv, ReadInv, ObservedNext, NEW f \in DOMAIN fileReq,
           fileReq[f].kind = "get", fileReq'[f] = fileReq[f], f \in DOMAIN fileReq'
    PROVE  Knows(f, fileReq'[f], Visible(fileReq[f].rt, fileReq[f].path)', seen'[f],
                 heads'[fileReq'[f].rt], crossed', blobs')
  <1>1. f \in FileRequestIds /\ fileReq[f].rt \in Runtimes /\ [Next]_vars
    BY FileReqFields DEF ServerInv, TypeInv, TypeOK, FileReqInv, ObservedNext
  <1>2. Knows(f, fileReq[f], Visible(fileReq[f].rt, fileReq[f].path), seen[f],
              heads[fileReq[f].rt], crossed, blobs)
    BY DEF ReadInv
  <1>3. blobs \subseteq blobs'
    BY <1>1, BlobsGrow
  <1>4. PICK vis2 : vis2 = Visible(fileReq[f].rt, fileReq[f].path)'
    OBVIOUS
  <1>5. fileReq[f].step \notin {"answered", "lost"} =>
            /\ vis2 \in seen'[f]
            /\ heads[fileReq[f].rt] = NoVersion =>
                  heads'[fileReq[f].rt] = NoVersion \/ f \in crossed'
    BY <1>1, <1>4, Recorded
  <1>6. seen[f] \subseteq seen'[f] /\ crossed \subseteq crossed'
    BY <1>1, Recorded
  <1>7. Knows(f, fileReq[f], vis2, seen'[f], heads'[fileReq[f].rt], crossed', blobs')
    BY <1>2, <1>3, <1>5, <1>6, KnowsMore
  <1> QED
    BY <1>4, <1>7

\* A GET arrives: it goes to the head only in a runtime that has one.
LEMMA ReadArrives ==
    ASSUME ObservedNext, NEW f \in FileRequestIds, NEW rt \in Runtimes, NEW path \in Paths,
           GetFile(f, rt, path)
    PROVE  Knows(f, fileReq'[f], Visible(fileReq[f].rt, fileReq[f].path)', seen'[f],
                 heads'[fileReq'[f].rt], crossed', blobs')
  <1>1. /\ f \in DOMAIN fileReq' /\ fileReq'[f].kind = "get" /\ fileReq'[f].rt = rt
        /\ fileReq'[f].step = (IF heads[rt] # NoVersion THEN "headFile" ELSE "recheck")
        /\ fileReq'[f].body = NoContent
        /\ heads' = heads
    BY DEF GetFile, Arrive, HasHead, versionVars
  <1>2. PICK vis2 : vis2 = Visible(fileReq[f].rt, fileReq[f].path)'
    OBVIOUS
  <1>3. vis2 \in seen'[f]
    BY <1>1, <1>2, Recorded
  <1>4. Knows(f, fileReq'[f], vis2, seen'[f], heads'[fileReq'[f].rt], crossed', blobs')
    BY <1>1, <1>3 DEF Knows
  <1> QED
    BY <1>2, <1>4

\* headFile: what the head holds is visible now, and its blob is stored.
LEMMA ReadHeadFile ==
    ASSUME ServerInv, ReadInv, ObservedNext, NEW f, GetHeadFile(f)
    PROVE  Knows(f, fileReq'[f], Visible(fileReq[f].rt, fileReq[f].path)', seen'[f],
                 heads'[fileReq'[f].rt], crossed', blobs')
  <1> DEFINE q == fileReq[f]
             found == HeadTree(q.rt)[q.path]
  <1>1. /\ f \in DOMAIN fileReq /\ q.kind = "get" /\ q.step = "headFile"
        /\ f \in FileRequestIds /\ q.rt \in Runtimes /\ q.path \in Paths
    BY FileReqFields DEF GetHeadFile, At, ServerInv, TypeInv, TypeOK, FileReqInv
  <1>2. /\ f \in DOMAIN fileReq' /\ fileReq'[f] = [q EXCEPT !.step = "recheck", !.body = found]
        /\ q \in FileReqs /\ blobs' = blobs
    BY <1>1, FileReqFields
    DEF GetHeadFile, storeVars, ServerInv, TypeInv, TypeOK, FileReqInv, FileReqTypeOK
  <1>3. HasHead(q.rt) /\ heads[q.rt] \in DOMAIN versions
    BY <1>1 DEF ServerInv, TypeInv, HeadReadsHaveHead, LinearHistory, HeadsOwned, VersionsOf
  <1>4. found # NoContent => found \in blobs
    BY <1>1, <1>3
    DEF HeadTree, ServerInv, ObjectInv, CommittedObjectsExist, HasBlobs, ContentsOf, FilesOf
  <1>5. found \in seen[f]
    BY <1>1, <1>3 DEF ReadInv, Knows, Visible
  <1>6. PICK vis2 : vis2 = Visible(fileReq[f].rt, fileReq[f].path)'
    OBVIOUS
  <1> HIDE DEF found
  <1>7. /\ fileReq'[f].step = "recheck" /\ fileReq'[f].body = found /\ fileReq'[f].kind = "get"
    BY <1>1, <1>2 DEF FileReqs
  <1>8. vis2 \in seen'[f] /\ found \in seen'[f]
    BY <1>1, <1>2, <1>5, <1>6, <1>7, Recorded
  <1>9. Knows(f, fileReq'[f], vis2, seen'[f], heads'[fileReq'[f].rt], crossed', blobs')
    BY <1>2, <1>4, <1>7, <1>8 DEF Knows
  <1> QED
    BY <1>6, <1>9

\* The second hasHead: a 404 only in a runtime that has a head.
LEMMA ReadRecheck ==
    ASSUME ServerInv, ReadInv, ObservedNext, NEW f, GetRecheck(f)
    PROVE  Knows(f, fileReq'[f], Visible(fileReq[f].rt, fileReq[f].path)', seen'[f],
                 heads'[fileReq'[f].rt], crossed', blobs')
  <1> DEFINE q == fileReq[f]
  <1>1. /\ f \in DOMAIN fileReq /\ q.kind = "get" /\ q.step = "recheck"
        /\ f \in FileRequestIds
    BY FileReqFields DEF GetRecheck, At, ServerInv, TypeInv, TypeOK, FileReqInv
  <1>2. /\ fileReq \in [DOMAIN fileReq -> FileReqs]
        /\ UNCHANGED <<blobs, heads>>
    BY DEF GetRecheck, storeVars, versionVars, ServerInv, TypeInv, TypeOK, FileReqTypeOK
  <1>3. /\ f \in DOMAIN fileReq' /\ fileReq'[f].kind = "get"
        /\ fileReq'[f].rt = q.rt /\ fileReq'[f].body = q.body
        /\ \/ /\ fileReq'[f].step = "answered" /\ q.body = NoContent
              /\ heads[q.rt] # NoVersion
           \/ /\ fileReq'[f].step = "read"
              /\ ~(q.body = NoContent /\ heads[q.rt] # NoVersion)
    BY <1>1, <1>2 DEF GetRecheck, Go, HasHead, FileReqs
  <1>4. Knows(f, q, Visible(q.rt, q.path), seen[f], heads[q.rt], crossed, blobs)
    BY <1>1 DEF ReadInv
  <1>5. PICK vis2 : vis2 = Visible(fileReq[f].rt, fileReq[f].path)'
    OBVIOUS
  <1>6. /\ seen[f] \subseteq seen'[f] /\ crossed \subseteq crossed'
        /\ fileReq'[f].step = "read" => vis2 \in seen'[f]
    BY <1>1, <1>3, <1>5, Recorded
  <1>7. Knows(f, fileReq'[f], vis2, seen'[f], heads'[fileReq'[f].rt], crossed', blobs')
    BY <1>1, <1>2, <1>3, <1>4, <1>6 DEF Knows
  <1> QED
    BY <1>5, <1>7

\* The last read: a committed blob is there, and without a head the stored
\* file is what the path shows.
LEMMA ReadAnswer ==
    ASSUME ServerInv, ReadInv, ObservedNext, NEW f, GetBody(f)
    PROVE  Knows(f, fileReq'[f], Visible(fileReq[f].rt, fileReq[f].path)', seen'[f],
                 heads'[fileReq'[f].rt], crossed', blobs')
  <1> DEFINE q == fileReq[f]
  <1>1. /\ f \in DOMAIN fileReq /\ q.kind = "get" /\ q.step = "read"
        /\ f \in FileRequestIds
    BY FileReqFields DEF GetBody, At, ServerInv, TypeInv, TypeOK, FileReqInv
  <1>2. fileReq \in [DOMAIN fileReq -> FileReqs]
    BY DEF ServerInv, TypeInv, TypeOK, FileReqTypeOK
  <1>3. fileReq'[f].step = "answered" /\ fileReq'[f].body = ReadBody(f)
    BY <1>1, <1>2 DEF GetBody, FileReqs
  <1>4. Knows(f, q, Visible(q.rt, q.path), seen[f], heads[q.rt], crossed, blobs)
    BY <1>1 DEF ReadInv
  <1>5. ReadBody(f) \in seen[f] \/ f \in crossed
    <2>1. CASE q.body = NoContent
      BY <1>1, <1>4, <2>1 DEF Knows, ReadBody, Visible, HasHead
    <2>2. CASE q.body # NoContent
      BY <1>1, <1>4, <2>2 DEF Knows, ReadBody
    <2> QED
      BY <2>1, <2>2
  <1>6. PICK vis2 : vis2 = Visible(fileReq[f].rt, fileReq[f].path)'
    OBVIOUS
  <1>7. seen[f] \subseteq seen'[f] /\ crossed \subseteq crossed'
    BY <1>1, Recorded
  <1>8. Knows(f, fileReq'[f], vis2, seen'[f], heads'[fileReq'[f].rt], crossed', blobs')
    BY <1>3, <1>5, <1>7 DEF Knows
  <1> QED
    BY <1>6, <1>8

LEMMA ReadStep ==
    ASSUME ServerInv, ReadInv, [ObservedNext]_observedVars
    PROVE  ReadInv'
  <1>1. CASE UNCHANGED observedVars
    BY <1>1
    DEF ReadInv, observedVars, vars, storeVars, recordVars, versionVars, Visible, HasHead, HeadTree
  <1>2. CASE ObservedNext
    <2>1. SUFFICES ASSUME NEW f \in DOMAIN fileReq', fileReq'[f].kind = "get"
                   PROVE  Knows(f, fileReq'[f], Visible(fileReq[f].rt, fileReq[f].path)',
                                seen'[f], heads'[fileReq'[f].rt], crossed', blobs')
      BY <2>1 DEF ReadInv
    <2> DEFINE Goal == Knows(f, fileReq'[f], Visible(fileReq[f].rt, fileReq[f].path)',
                             seen'[f], heads'[fileReq'[f].rt], crossed', blobs')
    <2>2. ASSUME f \in DOMAIN fileReq, fileReq'[f] = fileReq[f] PROVE Goal
      BY <1>2, <2>1, <2>2, ReadKept
    <2>3. ASSUME NEW g, NEW kind, NEW step, NEW rt, NEW path, NEW body,
                 Arrive(g, kind, step, rt, path, body), f # g
          PROVE  Goal
      BY <2>1, <2>2, <2>3 DEF Arrive
    <2>4. ASSUME NEW g \in FileRequestIds, FileArrives(g) PROVE Goal
      <3>1. PICK rt \in Runtimes, path \in Paths :
              \/ \E body \in Contents : PutFile(g, rt, path, body)
              \/ RemoveFile(g, rt, path)
              \/ GetFile(g, rt, path)
              \/ PublishFile(g, rt, path)
              \/ UnpublishFile(g, rt, path)
        BY <2>4 DEF FileArrives
      <3>2. PICK kind, step, body : /\ Arrive(g, kind, step, rt, path, body)
                                    /\ kind # "get" \/ GetFile(g, rt, path)
        BY <3>1 DEF PutFile, RemoveFile, GetFile, PublishFile, UnpublishFile
      <3>3. CASE f = g
        <4>1. GetFile(f, rt, path)
          BY <2>1, <3>2, <3>3 DEF Arrive
        <4> QED
          BY <1>2, <2>4, <3>3, <4>1, ReadArrives
      <3> QED
        BY <2>3, <3>2, <3>3
    <2>5. ASSUME NEW g \in FileRequestIds, FileProgress(g) \/ LoseFileRequest(g) PROVE Goal
      <3>1. CASE f # g
        BY <2>1, <2>2, <2>5, <3>1, FileFrame DEF ServerInv
      <3>2. CASE f = g
        <4>1. fileReq \in [DOMAIN fileReq -> FileReqs] /\ f \in DOMAIN fileReq
          BY <2>1, <2>5, <3>2, FileFrame DEF ServerInv, TypeInv, TypeOK, FileReqTypeOK
        <4>2. fileReq[f].kind = "get"
          BY <2>1, <2>5, <3>2, <4>1
          DEF FileProgress, PutBlob, PutRecord, RemoveRecord, RemovePublic, GetHeadFile,
              GetRecheck, GetBody, PublishInsert, LoseFileRequest, At, Go, FileReqs
        <4>3. \/ GetHeadFile(f) \/ GetRecheck(f) \/ GetBody(f) \/ LoseFileRequest(f)
          BY <2>5, <3>2, <4>2
          DEF FileProgress, PutBlob, PutRecord, RemoveRecord, RemovePublic, PublishInsert, At
        <4>4. CASE LoseFileRequest(f)
          <5>1. fileReq'[f].step = "lost"
            BY <4>1, <4>4 DEF LoseFileRequest, Go, FileReqs
          <5>2. PICK vis2 : vis2 = Visible(fileReq[f].rt, fileReq[f].path)'
            OBVIOUS
          <5>3. Knows(f, fileReq'[f], vis2, seen'[f], heads'[fileReq'[f].rt], crossed', blobs')
            BY <5>1 DEF Knows
          <5> QED
            BY <5>2, <5>3
        <4> QED
          BY <1>2, <4>3, <4>4, ReadHeadFile, ReadRecheck, ReadAnswer
      <3> QED
        BY <3>1, <3>2
    <2>6. CASE UNCHANGED fileReq
      BY <2>1, <2>2, <2>6
    <2> QED
      BY <1>2, <2>4, <2>5, <2>6 DEF ObservedNext, Next, FileNext
  <1> QED
    BY <1>1, <1>2

(***************************************************************************)
(* A GET answers what its path visibly held at some moment of it, whatever *)
(* pushes and file requests run beside it, unless its runtime got its      *)
(* first version meanwhile (GET /v1/files in http.ts).                     *)
(***************************************************************************)
THEOREM ReadsSeeCommitted == ObservedSpec => []GetSeesCommitted
  <1>1. ObservedInit => ReadInv
    BY DEF ObservedInit, Init, FileReqInit, ReadInv
  <1>2. ReadInv => GetSeesCommitted
    BY DEF ReadInv, GetSeesCommitted, Knows, At
  <1> QED
    BY <1>1, <1>2, ReadStep, ServerInvariant, PTL DEF ObservedSpec

-----------------------------------------------------------------------------
(***************************************************************************)
(* How far the mirror of a push is.                                        *)
(***************************************************************************)

\* No file is half done before the mirror starts.
NothingHalf ==
    \A r \in DOMAIN push : push[r].phase \in {"loaded", "stage", "commit"} => push[r].half = {}

Copied(tree, paths, stored) == \A q \in paths : stored[q] = tree[q]

\* The files and records of push p's runtime are stored and live.
Mirrored(p, stored, live) ==
    /\ p.half \subseteq p.todo
    /\ p.phase = "mirror" =>
          /\ p.todo \subseteq FilesOf(p.tree)
          /\ Copied(p.tree, (FilesOf(p.tree) \ p.todo) \cup p.half, stored)
          /\ Copied(p.tree, FilesOf(p.tree) \ p.todo, live)
    /\ p.phase = "prune" =>
          /\ p.todo \cap FilesOf(p.tree) = {}
          /\ Copied(p.tree, FilesOf(p.tree), stored)
          /\ Copied(p.tree, FilesOf(p.tree), live)
          /\ FilesOf(live) \subseteq FilesOf(p.tree) \cup p.todo

MirrorInv ==
    /\ NothingHalf
    /\ alone \subseteq DOMAIN push
    /\ \A r \in alone :
          /\ push[r].phase \in {"mirror", "prune"}
          /\ HasHead(push[r].rt) /\ HeadTree(push[r].rt) = push[r].tree
          /\ Mirrored(push[r], files[push[r].rt], records[push[r].rt])

\* store.write and upsertFile of one file ...
LEMMA FileMirrored ==
    ASSUME NEW p, NEW path \in p.todo, p.phase = "mirror",
           NEW q, q.phase = "mirror", q.tree = p.tree, q.todo = p.todo, q.half = {path},
           NEW stored, NEW live, Mirrored(p, stored, live),
           NEW now, now[path] = p.tree[path], \A x \in Paths \ {path} : now[x] = stored[x]
    PROVE  Mirrored(q, now, live)
  BY DEF Mirrored, Copied, FilesOf

LEMMA RecordMirrored ==
    ASSUME NEW p, NEW path \in p.half, p.phase = "mirror",
           NEW q, q.phase = "mirror", q.tree = p.tree, q.todo = p.todo \ {path}, q.half = {},
           NEW stored, NEW live, Mirrored(p, stored, live),
           NEW now, now[path] = p.tree[path], \A x \in Paths \ {path} : now[x] = live[x]
    PROVE  Mirrored(q, stored, now)
  BY DEF Mirrored, Copied, FilesOf

\* ... the list of what is stale, once all files are copied ...
LEMMA StaleListed ==
    ASSUME NEW p, p.phase = "mirror", p.todo = {},
           NEW stored, NEW live, Mirrored(p, stored, live),
           NEW q, q.phase = "prune", q.tree = p.tree, q.half = p.half,
           q.todo = FilesOf(live) \ FilesOf(p.tree)
    PROVE  Mirrored(q, stored, live)
  BY DEF Mirrored, Copied

\* ... and store.delete and markDeleted of what is.
LEMMA FilePruned ==
    ASSUME NEW p, NEW path \in p.todo, p.phase = "prune",
           NEW q, q.phase = "prune", q.tree = p.tree, q.todo = p.todo, q.half = {path},
           NEW stored, NEW live, Mirrored(p, stored, live),
           NEW now, \A x \in Paths \ {path} : now[x] = stored[x]
    PROVE  Mirrored(q, now, live)
  BY DEF Mirrored, Copied, FilesOf

LEMMA RecordPruned ==
    ASSUME NEW p, NEW path \in p.half, p.phase = "prune",
           NEW q, q.phase = "prune", q.tree = p.tree, q.todo = p.todo \ {path}, q.half = {},
           NEW stored, NEW live, Mirrored(p, stored, live),
           NEW now, now[path] = NoContent, \A x \in Paths \ {path} : now[x] = live[x]
    PROVE  Mirrored(q, stored, now)
  BY DEF Mirrored, Copied, FilesOf

\* A push that changes is the one that moves.
LEMMA WhoMoves ==
    ASSUME TypeInv, [Next]_vars, NEW r \in DOMAIN push, push'[r] # push[r]
    PROVE  ReadHead(r) \/ PushProgress(r) \/ LosePush(r)
  BY PushFrame, NewPushFrame DEF Next, PushNext, vars

\* One step of the mirror, for the push that takes it.
LEMMA MirrorMoves ==
    ASSUME ServerInv, MirrorInv, [Next]_vars, NEW r \in alone, push'[r] # push[r],
           push'[r].phase \in {"mirror", "prune"}
    PROVE  /\ UNCHANGED versionVars
           /\ push'[r].rt = push[r].rt /\ push'[r].tree = push[r].tree
           /\ Mirrored(push'[r], files'[push[r].rt], records'[push[r].rt])
  <1> DEFINE p == push[r]
             rt == push[r].rt
             tree == push[r].tree
  <1>1. /\ r \in DOMAIN push /\ p \in PushRequests /\ rt \in Runtimes
        /\ p.phase \in {"mirror", "prune"}
        /\ Mirrored(p, files[rt], records[rt])
    BY PushFields DEF MirrorInv, ServerInv, TypeInv, TypeOK, PushInv
  <1>2. /\ files \in [Runtimes -> Trees] /\ records \in [Runtimes -> Trees]
        /\ push \in [DOMAIN push -> PushRequests]
    BY DEF ServerInv, TypeInv, TypeOK, StoreTypeOK, RecordsTypeOK, PushTypeOK
  <1>3. ReadHead(r) \/ PushProgress(r) \/ LosePush(r)
    BY <1>1, WhoMoves DEF ServerInv
  <1>4. push'[r].rt = rt /\ push'[r].tree = tree
    BY <1>3, PushFrame DEF ServerInv
  <1>5. ~ReadHead(r) /\ ~CommitVersion(r) /\ ~ValidateManifest(r)
        /\ \A path \in Paths : ~StageObject(r, path)
    BY <1>1 DEF ReadHead, CommitVersion, ValidateManifest, StageObject, In
  <1>6. ~LosePush(r) /\ ~AnswerCreated(r)
    BY <1>1, <1>2 DEF LosePush, AnswerCreated, Answer, PushRequests
  <1>7. \/ ListStale(r)
        \/ \E path \in Paths : \/ MirrorFile(r, path) \/ MirrorRecord(r, path)
                               \/ PruneFile(r, path) \/ PruneRecord(r, path)
    BY <1>3, <1>5, <1>6 DEF PushProgress
  <1>8. UNCHANGED versionVars
    BY <1>7 DEF ListStale, MirrorFile, MirrorRecord, PruneFile, PruneRecord
  <1>9. Mirrored(push'[r], files'[rt], records'[rt])
    <2>1. CASE ListStale(r)
      <3>1. /\ p.phase = "mirror" /\ p.todo = {} /\ push'[r].phase = "prune"
            /\ push'[r].todo = FilesOf(records[rt]) \ FilesOf(tree)
            /\ push'[r].half = p.half
        BY <1>1, <1>2, <2>1 DEF ListStale, ListFiles, In, PushRequests
      <3>2. files' = files /\ records' = records
        BY <2>1 DEF ListStale, storeVars, recordVars
      <3> QED
        BY <1>1, <1>4, <3>1, <3>2, StaleListed
    <2>2. ASSUME NEW path \in Paths, MirrorFile(r, path)
          PROVE  Mirrored(push'[r], files'[rt], records'[rt])
      <3>1. /\ p.phase = "mirror" /\ path \in p.todo /\ push'[r].phase = "mirror"
            /\ push'[r].todo = p.todo /\ push'[r].half = {path}
        BY <1>1, <1>2, <2>2 DEF MirrorFile, In, PushRequests
      <3>2. /\ records' = records /\ files'[rt][path] = tree[path]
            /\ \A x \in Paths \ {path} : files'[rt][x] = files[rt][x]
        BY <1>1, <1>2, <2>2 DEF MirrorFile, WriteFile, recordVars, Trees
      <3> QED
        BY <1>1, <1>4, <3>1, <3>2, FileMirrored
    <2>3. ASSUME NEW path \in Paths, MirrorRecord(r, path)
          PROVE  Mirrored(push'[r], files'[rt], records'[rt])
      <3>1. /\ p.phase = "mirror" /\ path \in p.half /\ push'[r].phase = "mirror"
            /\ push'[r].todo = p.todo \ {path} /\ push'[r].half = {}
        BY <1>1, <1>2, <2>3 DEF MirrorRecord, In, PushRequests
      <3>2. /\ files' = files /\ records'[rt][path] = tree[path]
            /\ \A x \in Paths \ {path} : records'[rt][x] = records[rt][x]
        BY <1>1, <1>2, <2>3 DEF MirrorRecord, UpsertFile, storeVars, Trees
      <3> QED
        BY <1>1, <1>4, <3>1, <3>2, RecordMirrored
    <2>4. ASSUME NEW path \in Paths, PruneFile(r, path)
          PROVE  Mirrored(push'[r], files'[rt], records'[rt])
      <3>1. /\ p.phase = "prune" /\ path \in p.todo /\ push'[r].phase = "prune"
            /\ push'[r].todo = p.todo /\ push'[r].half = {path}
        BY <1>1, <1>2, <2>4 DEF PruneFile, In, PushRequests
      <3>2. /\ records' = records /\ files'[rt][path] = NoContent
            /\ \A x \in Paths \ {path} : files'[rt][x] = files[rt][x]
        BY <1>1, <1>2, <2>4 DEF PruneFile, DeleteFile, recordVars, Trees
      <3> QED
        BY <1>1, <1>4, <3>1, <3>2, FilePruned
    <2>5. ASSUME NEW path \in Paths, PruneRecord(r, path)
          PROVE  Mirrored(push'[r], files'[rt], records'[rt])
      <3>1. /\ p.phase = "prune" /\ path \in p.half /\ push'[r].phase = "prune"
            /\ push'[r].todo = p.todo \ {path} /\ push'[r].half = {}
        BY <1>1, <1>2, <2>5 DEF PruneRecord, In, PushRequests
      <3>2. /\ files' = files /\ records'[rt][path] = NoContent
            /\ \A x \in Paths \ {path} : records'[rt][x] = records[rt][x]
        BY <1>1, <1>2, <2>5 DEF PruneRecord, MarkDeleted, storeVars, Trees
      <3> QED
        BY <1>1, <1>4, <3>1, <3>2, RecordPruned
    <2> QED
      BY <1>7, <2>1, <2>2, <2>3, <2>4, <2>5
  <1> QED
    BY <1>4, <1>8, <1>9

LEMMA NothingHalfStep ==
    ASSUME TypeInv, NothingHalf, [Next]_vars
    PROVE  NothingHalf'
  <1>1. SUFFICES ASSUME NEW r \in DOMAIN push', push'[r].phase \in {"loaded", "stage", "commit"}
                 PROVE  push'[r].half = {}
    BY <1>1 DEF NothingHalf
  <1>2. CASE r \in DOMAIN push /\ push'[r] = push[r]
    BY <1>1, <1>2 DEF NothingHalf
  <1>3. CASE r \notin DOMAIN push
    <2>1. PICK s \in Pushers : PushBegins(s)
      BY <1>3, PushFrame DEF Next, PushNext, vars
    <2>2. r = s
      BY <1>3, <2>1, NewPushFrame
    <2> QED
      BY <1>3, <2>1, <2>2
      DEF PushBegins, BeginCliPush, LoadRecords, BeginRestore, BeginApiCommit, NewPush
  <1>4. CASE r \in DOMAIN push /\ push'[r] # push[r]
    <2>1. ReadHead(r) \/ PushProgress(r) \/ LosePush(r)
      BY <1>4, WhoMoves
    <2> USE DEF TypeInv, TypeOK, PushTypeOK, PushRequests, In, Answer
    <2>2. ~ListStale(r) /\ ~AnswerCreated(r) /\ ~LosePush(r)
      BY <1>1 DEF ListStale, AnswerCreated, LosePush
    <2>3. \A path \in Paths : ~MirrorFile(r, path) /\ ~MirrorRecord(r, path)
      BY <1>1 DEF MirrorFile, MirrorRecord
    <2>4. \A path \in Paths : ~PruneFile(r, path) /\ ~PruneRecord(r, path)
      BY <1>1 DEF PruneFile, PruneRecord
    <2>5. ~CommitVersion(r)
      BY <1>1 DEF CommitVersion
    <2>6. ReadHead(r) \/ ValidateManifest(r) \/ \E path \in Paths : StageObject(r, path)
      BY <2>1, <2>2, <2>3, <2>4, <2>5 DEF PushProgress
    <2>7. push[r].phase \in {"loaded", "stage"} /\ push'[r].half = push[r].half
      BY <2>6 DEF ReadHead, ValidateManifest, StageObject
    <2> QED
      BY <1>4, <2>7 DEF NothingHalf
  <1> QED
    BY <1>2, <1>3, <1>4

\* The commit that starts a mirror has made the push's tree that of the head.
LEMMA MirrorStarts ==
    ASSUME ServerInv, NothingHalf, [Next]_vars, NEW r, In(r, "commit"), push'[r].phase = "mirror"
    PROVE  /\ push'[r].rt \in Runtimes
           /\ heads'[push'[r].rt] # NoVersion
           /\ versions'[heads'[push'[r].rt]].tree = push'[r].tree
           /\ \A stored, live : Mirrored(push'[r], stored, live)
  <1> DEFINE p == push[r]
  <1>1. /\ r \in DOMAIN push /\ p.phase = "commit" /\ p \in PushRequests
        /\ push \in [DOMAIN push -> PushRequests]
        /\ p.rt \in Runtimes /\ p.tree \in Trees /\ p.half = {}
        /\ TypeInv /\ VersionsTypeOK
    BY PushFields DEF In, ServerInv, TypeInv, TypeOK, PushInv, PushTypeOK, NothingHalf
  <1>2. ReadHead(r) \/ PushProgress(r) \/ LosePush(r)
    BY <1>1, WhoMoves
  <1>3. CommitVersion(r)
    <2>1. ~ReadHead(r) /\ ~ValidateManifest(r) /\ \A path \in Paths : ~StageObject(r, path)
      BY <1>1 DEF ReadHead, ValidateManifest, StageObject, In
    <2>2. ~ListStale(r) /\ ~AnswerCreated(r) /\ \A path \in Paths :
            /\ ~MirrorFile(r, path) /\ ~MirrorRecord(r, path)
            /\ ~PruneFile(r, path) /\ ~PruneRecord(r, path)
      BY <1>1
      DEF ListStale, AnswerCreated, MirrorFile, MirrorRecord, PruneFile, PruneRecord, In
    <2>3. ~LosePush(r)
      BY <1>1 DEF LosePush, PushRequests
    <2> QED
      BY <1>2, <2>1, <2>2, <2>3 DEF PushProgress
  <1>4. /\ CommitCreated(p.rt, p.tree, p.guarded, p.base)
        /\ push' = [push EXCEPT ![r].phase = "mirror", ![r].outcome = "created",
                                ![r].todo = FilesOf(p.tree)]
    BY <1>1, <1>3 DEF CommitVersion, Answer, PushRequests
  <1>5. /\ heads'[p.rt] # NoVersion
        /\ versions'[heads'[p.rt]].tree = p.tree
    <2>1. CommitCreated(push[r].rt, push[r].tree, push[r].guarded, push[r].base)
      BY <1>4
    <2>2. /\ VersionHash(p.tree, heads[p.rt]) # NoVersion
          /\ versions'[VersionHash(p.tree, heads[p.rt])].tree = p.tree
          /\ heads'[p.rt] = VersionHash(p.tree, heads[p.rt])
      BY <1>1, <2>1, CommitAdds
    <2> QED
      BY <2>2
  <1>6. /\ push'[r].rt = p.rt /\ push'[r].tree = p.tree /\ push'[r].half = {}
        /\ push'[r].todo = FilesOf(p.tree)
    BY <1>1, <1>4 DEF PushRequests
  <1>7. \A stored, live : Mirrored(push'[r], stored, live)
    BY <1>6 DEF Mirrored, Copied
  <1> QED
    BY <1>1, <1>5, <1>6, <1>7

LEMMA MirrorStep ==
    ASSUME ServerInv, ServerInv', MirrorInv, [ObservedNext]_observedVars
    PROVE  MirrorInv'
  <1>1. [Next]_vars
    BY DEF ObservedNext, observedVars
  <1>2. NothingHalf'
    BY <1>1, NothingHalfStep DEF ServerInv, MirrorInv
  <1>3. CASE UNCHANGED observedVars
    BY <1>2, <1>3
    DEF MirrorInv, observedVars, vars, storeVars, recordVars, versionVars, HasHead, HeadTree
  <1>4. CASE ObservedNext
    <2>1. DOMAIN push \subseteq DOMAIN push'
      BY <1>1, PushFrame, NewPushFrame DEF ServerInv, Next, PushNext, vars
    <2>2. alone' \subseteq DOMAIN push'
      BY <1>4, <2>1 DEF ObservedNext
    <2>3. SUFFICES ASSUME NEW r \in alone'
                   PROVE  /\ push'[r].phase \in {"mirror", "prune"}
                          /\ heads'[push'[r].rt] # NoVersion
                          /\ versions'[heads'[push'[r].rt]].tree = push'[r].tree
                          /\ Mirrored(push'[r], files'[push'[r].rt], records'[push'[r].rt])
      BY <1>2, <2>2, <2>3 DEF MirrorInv, HasHead, HeadTree
    <2>4. r \in DOMAIN push /\ StillAlone(r)
      BY <1>4 DEF ObservedNext
    <2>5. CASE In(r, "commit") /\ push'[r].phase = "mirror"
      BY <1>1, <2>5, MirrorStarts DEF MirrorInv
    <2>6. CASE r \in alone /\ push'[r].phase \in {"mirror", "prune"} /\ push'[r] # push[r]
      <3>1. HasHead(push[r].rt) /\ HeadTree(push[r].rt) = push[r].tree
        BY <2>6 DEF MirrorInv
      <3> QED
        BY <1>1, <2>6, <3>1, MirrorMoves DEF HasHead, HeadTree, versionVars
    <2>7. CASE /\ r \in alone /\ push'[r].phase \in {"mirror", "prune"}
               /\ push'[r] = push[r] /\ Untouched(push[r].rt)
      <3>1. /\ HasHead(push[r].rt) /\ HeadTree(push[r].rt) = push[r].tree
            /\ Mirrored(push[r], files[push[r].rt], records[push[r].rt])
            /\ push[r].rt \in Runtimes
        BY <2>4, <2>7, PushFields DEF MirrorInv, ServerInv, TypeInv, TypeOK, PushInv
      <3>2. heads[push[r].rt] \in DOMAIN versions
        BY <3>1 DEF ServerInv, TypeInv, LinearHistory, HeadsOwned, VersionsOf
      <3>3. versions'[heads[push[r].rt]] = versions[heads[push[r].rt]]
        BY <1>1, <3>2, VersionsKept DEF ServerInv
      <3> QED
        BY <2>7, <3>1, <3>3 DEF Untouched, HasHead, HeadTree
    <2> QED
      BY <2>4, <2>5, <2>6, <2>7 DEF StillAlone
  <1> QED
    BY <1>3, <1>4

(***************************************************************************)
(* A mirror that no other request disturbs ends with the head's tree in    *)
(* the records and in the stored files of that tree, whatever was there    *)
(* before (the two loops after commitVersion in http.ts).                  *)
(***************************************************************************)
THEOREM MirrorsCopyTheHead == ObservedSpec => []MirrorCopiesHead
  <1>1. ObservedInit => MirrorInv
    BY DEF ObservedInit, Init, PushInit, MirrorInv, NothingHalf
  <1>2. ServerInv /\ MirrorInv => MirrorCopiesHead
    <2>1. SUFFICES ASSUME ServerInv, MirrorInv, NEW r \in alone,
                          In(r, "prune"), push[r].todo = {}
                   PROVE  /\ HeadTree(push[r].rt) = push[r].tree
                          /\ records[push[r].rt] = push[r].tree
                          /\ \A p \in FilesOf(push[r].tree) :
                                files[push[r].rt][p] = push[r].tree[p]
      BY <2>1 DEF MirrorCopiesHead
    <2>2. /\ HeadTree(push[r].rt) = push[r].tree
          /\ Mirrored(push[r], files[push[r].rt], records[push[r].rt])
      BY <2>1 DEF MirrorInv
    <2>3. push[r].tree \in Trees /\ records[push[r].rt] \in Trees
      BY <2>1, PushFields DEF In, ServerInv, TypeInv, TypeOK, PushInv, RecordsTypeOK
    <2>4. /\ Copied(push[r].tree, FilesOf(push[r].tree), files[push[r].rt])
          /\ Copied(push[r].tree, FilesOf(push[r].tree), records[push[r].rt])
          /\ FilesOf(records[push[r].rt]) \subseteq FilesOf(push[r].tree)
      BY <2>1, <2>2 DEF Mirrored, In
    <2>5. \A p \in Paths : records[push[r].rt][p] = push[r].tree[p]
      BY <2>4 DEF Copied, FilesOf
    <2>6. records[push[r].rt] = push[r].tree
      BY <2>3, <2>5 DEF Trees
    <2> QED
      BY <2>2, <2>4, <2>6 DEF Copied
  <1> QED
    BY <1>1, <1>2, MirrorStep, ServerInvariant, PTL DEF ObservedSpec

=============================================================================
