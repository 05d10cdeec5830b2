-------------------------- MODULE MCRuntimeServer --------------------------
(***************************************************************************)
(* RuntimeServer for TLC.                                                  *)
(***************************************************************************)
EXTENDS RuntimeServer, TLC

CONSTANTS a, b, x, y

\* The trees that CLI and API clients push: one file, or both.
JustA == [p \in Paths |-> IF p = a THEN x ELSE NoContent]
Both == [p \in Paths |-> IF p = a THEN y ELSE x]

MCPushTrees == {JustA, Both}

PusherSymmetry == Permutations(Pushers)

Symmetry == Permutations(Pushers) \cup Permutations(Runtimes)

=============================================================================
