-------------------------- MODULE MCPostgresVersions --------------------------
(***************************************************************************)
(* PostgresVersions for TLC.                                               *)
(***************************************************************************)
EXTENDS PostgresVersions, TLC

CONSTANTS a, x, y, z

JustX == [p \in Paths |-> x]
JustY == [p \in Paths |-> y]
JustZ == [p \in Paths |-> z]

MCPushTrees == {JustX, JustY, JustZ}

Symmetry == Permutations(Pushers) \cup Permutations(Runtimes) \cup Permutations(Contents)

=============================================================================
