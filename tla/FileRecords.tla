----------------------------- MODULE FileRecords -----------------------------
(***************************************************************************)
(* The file_records and public_files tables (file-records.ts, the queries  *)
(* of PostgresMetadataStore, the public-files statements of http.ts).      *)
(*                                                                         *)
(* A record with a deleted_at is a tombstone: the readers modelled here    *)
(* treat it like a path that has no record, and so does this module.       *)
(***************************************************************************)
EXTENDS RuntimeTrees

VARIABLES
    records,   \* per runtime, the tree the live records describe
    published  \* per runtime, the paths that have a public_files row

recordVars == <<records, published>>

RecordsTypeOK ==
    /\ records \in [Runtimes -> Trees]
    /\ published \in [Runtimes -> SUBSET Paths]

RecordsInit ==
    /\ records = [rt \in Runtimes |-> EmptyTree]
    /\ published = [rt \in Runtimes |-> {}]

\* upsertFile: INSERT ... ON CONFLICT(path) DO UPDATE, clears deleted_at.
UpsertFile(rt, path, content) ==
    /\ records' = [records EXCEPT ![rt][path] = content]
    /\ UNCHANGED published

\* A bug to catch: the row is dropped, so the record has no state at all.
MarkDeletedDropsRow(rt, path) ==
    /\ records' = [records EXCEPT ![rt] = [p \in Paths \ {path} |-> @[p]]]
    /\ UNCHANGED published

\* markDeleted: sets deleted_at; the public_files row, if any, stays.
MarkDeleted(rt, path) ==
    /\ records' = [records EXCEPT ![rt][path] = NoContent]
    /\ UNCHANGED published

\* listFiles(org, repo, runtime): the live records of one runtime.
ListFiles(rt) == FilesOf(records[rt])

\* INSERT INTO public_files ... ON CONFLICT(path) keeps the existing row.
InsertPublic(rt, path) ==
    /\ published' = [published EXCEPT ![rt] = @ \cup {path}]
    /\ UNCHANGED records

DeletePublic(rt, path) ==
    /\ published' = [published EXCEPT ![rt] = @ \ {path}]
    /\ UNCHANGED records

=============================================================================
