--------------------------- MODULE RuntimeObserved ---------------------------
(***************************************************************************)
(* RuntimeServer with history variables.  They record what a GET could     *)
(* have seen while it ran and which pushes have mirrored undisturbed since *)
(* they committed; no step of the server depends on them.                  *)
(***************************************************************************)
EXTENDS RuntimeServer

VARIABLES
    alone,    \* pushes whose runtime nobody else has touched since the commit
    seen,     \* per GET, what its path visibly held at some moment of it
    crossed   \* GETs during which their runtime got its first version

observedVars == <<vars, alone, seen, crossed>>

ObservedInit ==
    /\ Init
    /\ alone = {}
    /\ seen = [f \in FileRequestIds |-> {}]
    /\ crossed = {}

Untouched(rt) ==
    /\ files'[rt] = files[rt]
    /\ records'[rt] = records[rt]
    /\ heads'[rt] = heads[rt]

StillAlone(r) ==
    \/ In(r, "commit") /\ push'[r].phase = "mirror"
    \/ /\ r \in alone
       /\ push'[r].phase \in {"mirror", "prune"}
       /\ push'[r] # push[r] \/ Untouched(push[r].rt)

\* What a runtime shows at a path: its head's file, or the stored file of a
\* runtime that has no version yet.
Visible(rt, path) ==
    IF HasHead(rt) THEN HeadTree(rt)[path] ELSE files[rt][path]

Reading(f) == f \in DOMAIN fileReq /\ fileReq[f].kind = "get" /\ ~FileDone(f)

ObservedNext ==
    /\ Next
    /\ alone' = {r \in DOMAIN push : StillAlone(r)}
    /\ seen' = [f \in FileRequestIds |->
                  IF ~Reading(f)' THEN seen[f]
                  ELSE seen[f] \cup {Visible(fileReq[f].rt, fileReq[f].path)'}]
    /\ crossed' = crossed \cup
                  {f \in FileRequestIds :
                      /\ Reading(f)
                      /\ ~HasHead(fileReq[f].rt) /\ HasHead(fileReq[f].rt)'}

ObservedSpec == ObservedInit /\ [][ObservedNext]_observedVars

(***************************************************************************)
(* A push whose mirror runs undisturbed leaves the file records and the    *)
(* stored files of its tree exactly as the head says when it answers,      *)
(* whatever interrupted mirrors, PUTs and DELETEs left behind before.      *)
(***************************************************************************)
MirrorCopiesHead ==
    \A r \in alone :
        In(r, "prune") /\ push[r].todo = {} =>
            LET rt == push[r].rt IN
            /\ HeadTree(rt) = push[r].tree
            /\ records[rt] = push[r].tree
            /\ \A p \in FilesOf(push[r].tree) : files[rt][p] = push[r].tree[p]

(***************************************************************************)
(* GET /v1/files answers, with the body or with 404, what the path visibly *)
(* held at some moment of the request: never a staged object, never a file *)
(* that was PUT beside a committed tree, never half of a mirror.  The one  *)
(* exception is a GET during which its runtime got its first version: its  *)
(* second hasHead disagrees with the first.                                *)
(***************************************************************************)
GetSeesCommitted ==
    \A f \in DOMAIN fileReq :
        /\ At(f, "get", "answered")
        /\ f \notin crossed
        => fileReq[f].body \in seen[f]

=============================================================================
