---------------------------- MODULE RuntimeServer ----------------------------
(***************************************************************************)
(* The server's runtime storage as a whole: pushes (CommitRequests) and    *)
(* file requests (FileRequests) interleave, call by call, over one object  *)
(* store, one table of file records and the version tables.                *)
(***************************************************************************)
EXTENDS CommitRequests, FileRequests

vars == <<storeVars, recordVars, versionVars, push, fileReq>>

Init ==
    /\ StoreInit
    /\ RecordsInit
    /\ VersionsInit
    /\ PushInit
    /\ FileReqInit

Next ==
    \/ PushNext /\ UNCHANGED fileReq
    \/ FileNext /\ UNCHANGED push

Spec == Init /\ [][Next]_vars

\* The event loop gets to every request whose next call can be made.
Fairness ==
    /\ \A r \in Pushers : WF_vars(PushProgress(r) /\ UNCHANGED fileReq)
    /\ \A f \in FileRequestIds : WF_vars(FileProgress(f) /\ UNCHANGED push)

FairSpec == Spec /\ Fairness

TypeOK ==
    /\ StoreTypeOK
    /\ RecordsTypeOK
    /\ VersionsTypeOK
    /\ PushTypeOK
    /\ FileReqTypeOK

-----------------------------------------------------------------------------
(***************************************************************************)
(* Blobs.                                                                  *)
(***************************************************************************)

\* Every file of every committed version can be read, at every moment, also
\* while its push is being mirrored and after a restart in the middle of it.
CommittedObjectsExist == \A h \in DOMAIN versions : HasBlobs(versions[h].tree)

\* Every live file record names a stored blob.
RecordedObjectsExist == \A rt \in Runtimes : HasBlobs(records[rt])

\* A snapshot of the file records and a restore upload nothing, and still
\* never miss an object, whatever was deleted or overwritten meanwhile.
NoObjectMissing == \A r \in DOMAIN push : push[r].outcome # "missing"

-----------------------------------------------------------------------------
(***************************************************************************)
(* Versions.                                                               *)
(***************************************************************************)

\* Versions are immutable: no step removes one or changes its tree, parent
\* or runtime.
VersionsImmutable ==
    [][\A h \in DOMAIN versions :
            h \in DOMAIN versions' /\ versions'[h] = versions[h]]_vars

\* Of the guarded pushes that started from the same head of the same runtime
\* at most one creates a version.
OneWinnerPerHead ==
    \A r, s \in DOMAIN push :
        /\ push[r].outcome = "created" /\ push[s].outcome = "created"
        /\ push[r].guarded /\ push[s].guarded
        /\ push[r].rt = push[s].rt /\ push[r].base = push[s].base
        => r = s

\* What README, "Sync model", says of every push: "A concurrent head change
\* returns 409 instead of overwriting another push."  All the project's own
\* clients read the head first; two of them never build on the same one.
ConcurrentHeadChangeConflicts ==
    \A r, s \in DOMAIN push :
        /\ push[r].outcome = "created" /\ push[s].outcome = "created"
        /\ push[r].rt = push[s].rt /\ push[r].base = push[s].base
        => r = s

(***************************************************************************)
(* The server implements VersionHistory.  A version's hash stands for the  *)
(* trees up to it, so the abstract history of a runtime is its head's.     *)
(* The answer a push is entitled to is settled by the commit transaction:  *)
(* losing the request afterwards changes nothing.                          *)
(***************************************************************************)

AbstractOutcome(outcome) ==
    IF outcome \in {"missing", "rejected"} THEN "failed" ELSE outcome

AbstractPush(p) ==
    [rt |-> p.rt, tree |-> p.tree, base |-> p.base, guarded |-> p.guarded,
     outcome |-> AbstractOutcome(p.outcome)]

\* A snapshot starts when the click reads the head.
AbstractPushes ==
    [r \in {s \in DOMAIN push : push[s].phase # "loaded"} |-> AbstractPush(push[r])]

History == INSTANCE VersionHistory WITH history <- heads, pushes <- AbstractPushes

\* Pushes compare and swap the head (README, "Sync model").
CompareAndSwap == History!Spec

\* What README, "Sync model", says of a current push: "changing, adding, or
\* removing a file appends a version".  It is not turned away because of what
\* another runtime holds.
CurrentPushAccepted == \A r \in DOMAIN push : push[r].outcome # "rejected"

-----------------------------------------------------------------------------

\* Every request in flight is answered or lost: no call of a handler waits for
\* another request.
RequestsEnd ==
    /\ \A r \in Pushers :
          (r \in DOMAIN push /\ ~In(r, "loaded")) ~> Finished(r)
    /\ \A f \in FileRequestIds : (f \in DOMAIN fileReq) ~> FileDone(f)

=============================================================================
