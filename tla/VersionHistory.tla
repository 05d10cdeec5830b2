--------------------------- MODULE VersionHistory ---------------------------
(***************************************************************************)
(* What a runtime promises to those who push to it (README, "Sync model"): *)
(* every runtime has one linear history of trees; a guarded push that      *)
(* finds another history than the one it started from changes nothing and  *)
(* is told so; any other push appends its tree or, when the last tree is   *)
(* the same, leaves the history.  Staging, storage, file records and the   *)
(* steps of a request do not appear.                                       *)
(***************************************************************************)
EXTENDS Sequences

CONSTANTS Runtimes, Trees, Pushers

VARIABLES
    history,  \* per runtime, its trees from the first version to the head
    pushes    \* the pushes started so far

vars == <<history, pushes>>

Outcomes == {"pending", "created", "unchanged", "conflict", "failed"}

Init ==
    /\ history = [rt \in Runtimes |-> << >>]
    /\ pushes = [r \in {} |-> {}]

\* A push observes the history before it uploads anything.
Start(r, rt, tree, guarded) ==
    /\ r \notin DOMAIN pushes
    /\ pushes' = [s \in DOMAIN pushes \cup {r} |->
                    IF s = r
                    THEN [rt |-> rt, tree |-> tree, base |-> history[rt],
                          guarded |-> guarded, outcome |-> "pending"]
                    ELSE pushes[s]]
    /\ UNCHANGED history

Pending(r) == r \in DOMAIN pushes /\ pushes[r].outcome = "pending"

Finish(r, outcome) == pushes' = [pushes EXCEPT ![r].outcome = outcome]

Latest(r) == history[pushes[r].rt]

\* An unguarded push takes whatever history it finds.
Current(r) == pushes[r].guarded => Latest(r) = pushes[r].base

SameTree(r) ==
    /\ Latest(r) # << >>
    /\ Latest(r)[Len(Latest(r))] = pushes[r].tree

Create(r) ==
    /\ Pending(r) /\ Current(r) /\ ~SameTree(r)
    /\ history' = [history EXCEPT ![pushes[r].rt] = Append(@, pushes[r].tree)]
    /\ Finish(r, "created")

Keep(r) ==
    /\ Pending(r) /\ Current(r) /\ SameTree(r)
    /\ Finish(r, "unchanged")
    /\ UNCHANGED history

Conflict(r) ==
    /\ Pending(r) /\ ~Current(r)
    /\ Finish(r, "conflict")
    /\ UNCHANGED history

\* The push ends before it had any effect.
Fail(r) ==
    /\ Pending(r)
    /\ Finish(r, "failed")
    /\ UNCHANGED history

Next ==
    \E r \in Pushers :
        \/ \E rt \in Runtimes, tree \in Trees, guarded \in BOOLEAN :
              Start(r, rt, tree, guarded)
        \/ Create(r)
        \/ Keep(r)
        \/ Conflict(r)
        \/ Fail(r)

Spec == Init /\ [][Next]_vars

=============================================================================
