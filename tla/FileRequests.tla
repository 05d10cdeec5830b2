---------------------------- MODULE FileRequests ----------------------------
(***************************************************************************)
(* The single-file routes of http.ts, which the web UI and API clients use *)
(* and which do not go through versions: PUT, DELETE and GET /v1/files, and *)
(* POST and DELETE /v1/public-files.                                        *)
(*                                                                         *)
(* One action per call on the object store or the metadata store: between  *)
(* two of them other requests run.  A request's first call and its arrival *)
(* are one action.                                                         *)
(***************************************************************************)
EXTENDS ObjectStore, FileRecords, RuntimeVersions

CONSTANTS
    FileRequestIds,  \* the file requests that may be made, each at most once
    FileKinds        \* which kinds of them are made

ASSUME FileKindsAssumption ==
    FileKinds \subseteq {"put", "delete", "get", "publish", "unpublish"}

VARIABLE fileReq   \* the file requests made so far

\* The call a request makes next; "answered" and "lost" make none.
FileSteps ==
    {"blob", "record",                \* PUT, after store.write
     "mark", "public",                \* DELETE, after store.delete
     "headFile", "recheck", "read",   \* GET, after the first hasHead
     "insert",                        \* publish, after getFile
     "answered", "lost"}

FileReqs ==
    [kind : {"put", "delete", "get", "publish", "unpublish"}, step : FileSteps,
     rt : Runtimes, path : Paths,
     body : MaybeContent]   \* PUT: the upload; GET: what was found so far

FileReqTypeOK ==
    /\ DOMAIN fileReq \subseteq FileRequestIds
    /\ fileReq \in [DOMAIN fileReq -> FileReqs]

FileReqInit == fileReq = [f \in {} |-> {}]

At(f, kind, step) ==
    /\ f \in DOMAIN fileReq
    /\ fileReq[f].kind = kind
    /\ fileReq[f].step = step

Arrive(f, kind, step, rt, path, body) ==
    /\ kind \in FileKinds
    /\ f \notin DOMAIN fileReq
    /\ fileReq' = [g \in DOMAIN fileReq \cup {f} |->
                     IF g = f
                     THEN [kind |-> kind, step |-> step, rt |-> rt,
                           path |-> path, body |-> body]
                     ELSE fileReq[g]]

Go(f, step) == fileReq' = [fileReq EXCEPT ![f].step = step]

-----------------------------------------------------------------------------
(***************************************************************************)
(* PUT: store.write, store.writeBlob, metadata.upsertFile.  The head, if   *)
(* the runtime has one, is not touched.                                    *)
(***************************************************************************)

PutFile(f, rt, path, body) ==
    /\ Arrive(f, "put", "blob", rt, path, body)
    /\ WriteFile(rt, path, body)
    /\ UNCHANGED <<recordVars, versionVars>>

\* A bug to catch: an upload is stored under its path only.
PutNoBlob(f) ==
    /\ At(f, "put", "blob")
    /\ Go(f, "record")
    /\ UNCHANGED <<storeVars, recordVars, versionVars>>

PutBlob(f) ==
    /\ At(f, "put", "blob")
    /\ WriteBlob(fileReq[f].body)
    /\ Go(f, "record")
    /\ UNCHANGED <<recordVars, versionVars>>

PutRecord(f) ==
    /\ At(f, "put", "record")
    /\ UpsertFile(fileReq[f].rt, fileReq[f].path, fileReq[f].body)
    /\ Go(f, "answered")
    /\ UNCHANGED <<storeVars, versionVars>>

(***************************************************************************)
(* DELETE: store.delete, metadata.markDeleted, the public_files row.       *)
(***************************************************************************)

RemoveFile(f, rt, path) ==
    /\ Arrive(f, "delete", "mark", rt, path, NoContent)
    /\ DeleteFile(rt, path)
    /\ UNCHANGED <<recordVars, versionVars>>

RemoveRecord(f) ==
    /\ At(f, "delete", "mark")
    /\ MarkDeleted(fileReq[f].rt, fileReq[f].path)
    /\ Go(f, "public")
    /\ UNCHANGED <<storeVars, versionVars>>

RemovePublic(f) ==
    /\ At(f, "delete", "public")
    /\ DeletePublic(fileReq[f].rt, fileReq[f].path)
    /\ Go(f, "answered")
    /\ UNCHANGED <<storeVars, versionVars>>

(***************************************************************************)
(* GET: hasHead, headFile if there is a head, hasHead again, then the blob *)
(* of the committed file or, in a runtime that had no head, the stored     *)
(* file.  body = NoContent in an answered request stands for 404.          *)
(***************************************************************************)

GetFile(f, rt, path) ==
    /\ Arrive(f, "get", IF HasHead(rt) THEN "headFile" ELSE "recheck",
              rt, path, NoContent)
    /\ UNCHANGED <<storeVars, recordVars, versionVars>>

GetHeadFile(f) ==
    /\ At(f, "get", "headFile")
    /\ fileReq' = [fileReq EXCEPT
            ![f].step = "recheck",
            ![f].body = HeadTree(fileReq[f].rt)[fileReq[f].path]]
    /\ UNCHANGED <<storeVars, recordVars, versionVars>>

\* A bug to catch: a path the head does not have is read from the store.
GetNoRecheck(f) ==
    /\ At(f, "get", "recheck")
    /\ Go(f, "read")
    /\ UNCHANGED <<storeVars, recordVars, versionVars>>

GetRecheck(f) ==
    /\ At(f, "get", "recheck")
    /\ IF HasHead(fileReq[f].rt) /\ fileReq[f].body = NoContent
       THEN Go(f, "answered")
       ELSE Go(f, "read")
    /\ UNCHANGED <<storeVars, recordVars, versionVars>>

\* What store.readBlob or store.read returns.
ReadBody(f) ==
    LET q == fileReq[f] IN
    IF q.body = NoContent THEN files[q.rt][q.path]
    ELSE IF q.body \in blobs THEN q.body ELSE NoContent

GetBody(f) ==
    /\ At(f, "get", "read")
    /\ fileReq' = [fileReq EXCEPT ![f].step = "answered", ![f].body = ReadBody(f)]
    /\ UNCHANGED <<storeVars, recordVars, versionVars>>

(***************************************************************************)
(* Publishing: the record must be live when it is looked up; the row is    *)
(* inserted by a second call.  Unpublishing is one DELETE.                 *)
(***************************************************************************)

PublishFile(f, rt, path) ==
    /\ Arrive(f, "publish", IF path \in ListFiles(rt) THEN "insert" ELSE "answered",
              rt, path, NoContent)
    /\ UNCHANGED <<storeVars, recordVars, versionVars>>

PublishInsert(f) ==
    /\ At(f, "publish", "insert")
    /\ InsertPublic(fileReq[f].rt, fileReq[f].path)
    /\ Go(f, "answered")
    /\ UNCHANGED <<storeVars, versionVars>>

UnpublishFile(f, rt, path) ==
    /\ Arrive(f, "unpublish", "answered", rt, path, NoContent)
    /\ DeletePublic(rt, path)
    /\ UNCHANGED <<storeVars, versionVars>>

-----------------------------------------------------------------------------

FileDone(f) == f \in DOMAIN fileReq /\ fileReq[f].step \in {"answered", "lost"}

\* The process restarts or a call throws: see LosePush.
LoseFileRequest(f) ==
    /\ f \in DOMAIN fileReq
    /\ ~FileDone(f)
    /\ Go(f, "lost")
    /\ UNCHANGED <<storeVars, recordVars, versionVars>>

FileProgress(f) ==
    \/ PutBlob(f) \/ PutRecord(f)
    \/ RemoveRecord(f) \/ RemovePublic(f)
    \/ GetHeadFile(f) \/ GetRecheck(f) \/ GetBody(f)
    \/ PublishInsert(f)

FileArrives(f) ==
    \E rt \in Runtimes, path \in Paths :
        \/ \E body \in Contents : PutFile(f, rt, path, body)
        \/ RemoveFile(f, rt, path)
        \/ GetFile(f, rt, path)
        \/ PublishFile(f, rt, path)
        \/ UnpublishFile(f, rt, path)

FileNext ==
    \E f \in FileRequestIds : FileArrives(f) \/ FileProgress(f) \/ LoseFileRequest(f)

=============================================================================
