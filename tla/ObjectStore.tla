----------------------------- MODULE ObjectStore -----------------------------
(***************************************************************************)
(* The object store behind the HTTP server: ObjectStore in object-store.ts *)
(* over a directory tree (FileStore) or an S3 bucket.  It keeps two kinds   *)
(* of objects: immutable blobs named by the hash of their body, which      *)
(* nothing ever deletes, and mutable files named by org/repo/runtime/path. *)
(*                                                                         *)
(* Every call is one atomic action: a write lands whole, under its final   *)
(* name, or not at all (rename of a temporary file, or one PutObject).     *)
(***************************************************************************)
EXTENDS RuntimeTrees

VARIABLES
    blobs,   \* contents stored under .pluto-objects/ or objects/
    files    \* per runtime, the tree of files stored under its prefix

storeVars == <<blobs, files>>

StoreTypeOK ==
    /\ blobs \subseteq Contents
    /\ files \in [Runtimes -> Trees]

StoreInit ==
    /\ blobs = {}
    /\ files = [rt \in Runtimes |-> EmptyTree]

\* writeBlob: content-addressed, so writing an existing blob changes nothing.
WriteBlob(content) ==
    /\ blobs' = blobs \cup {content}
    /\ UNCHANGED files

\* readBlob finds every content of the tree.
HasBlobs(tree) == ContentsOf(tree) \subseteq blobs

\* write: create or replace the file.
WriteFile(rt, path, content) ==
    /\ files' = [files EXCEPT ![rt][path] = content]
    /\ UNCHANGED blobs

\* A bug to catch: the blob goes with the file that was written from it.
DeleteFileAndBlob(rt, path) ==
    /\ files' = [files EXCEPT ![rt][path] = NoContent]
    /\ blobs' = blobs \ {files[rt][path]}

\* delete: its callers ignore NotFoundError, so a missing file stays missing.
DeleteFile(rt, path) ==
    /\ files' = [files EXCEPT ![rt][path] = NoContent]
    /\ UNCHANGED blobs

=============================================================================
