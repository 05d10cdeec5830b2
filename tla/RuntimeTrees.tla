---------------------------- MODULE RuntimeTrees ----------------------------
(***************************************************************************)
(* The data the server stores: contents (a body, named by its SHA-256),    *)
(* paths inside a runtime, and trees.                                      *)
(*                                                                         *)
(* A tree is what one runtime holds at one moment: for every path the      *)
(* content stored there, or NoContent.  A validated manifest (no duplicate *)
(* path, every hash well formed), the object store's files under one       *)
(* runtime prefix and the live file records of one runtime all have this   *)
(* shape, so the three can be compared.                                    *)
(***************************************************************************)

CONSTANTS
    Runtimes,   \* org/repo/runtime prefixes
    Paths,      \* relative paths inside a runtime
    Contents,   \* file bodies; SHA-256 is injective, so a body is its hash
    NoContent   \* "no file at this path"

ASSUME NoContentAssumption == NoContent \notin Contents

MaybeContent == Contents \cup {NoContent}

Trees == [Paths -> MaybeContent]

EmptyTree == [p \in Paths |-> NoContent]

\* The paths a tree names: the rows of its manifest.
FilesOf(tree) == {p \in Paths : tree[p] # NoContent}

\* The contents a tree refers to.
ContentsOf(tree) == {tree[p] : p \in FilesOf(tree)}

=============================================================================
