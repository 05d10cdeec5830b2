---------------------------- MODULE MCServerFiles ----------------------------
(***************************************************************************)
(* RuntimeObserved for TLC: pushes and single-file requests on one runtime.*)
(***************************************************************************)
EXTENDS MCRuntimeServer, RuntimeObserved

=============================================================================
