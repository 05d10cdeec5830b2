----------------------------- MODULE RuntimeFiles -----------------------------
(***************************************************************************)
(* Which files of a local directory belong to a runtime, and under which   *)
(* path the server keeps them (client/src/cli.ts, listRuntimeFiles).  A    *)
(* path is the sequence of its names; a name is the sequence of its labels,*)
(* what stands between its dots: "dev.env" is <<"dev", "env">>.            *)
(***************************************************************************)
EXTENDS Naturals, Sequences, SequencesExt

DetailsFile == <<<<"locker-details", "json">>>>

Starts(name, rt) == Len(name) > 1 /\ Head(name) = rt
EndsWith(name, rt) == Len(name) > 1 /\ Last(name) = rt

\* A file that is named for a runtime: it lies in its directory, or it is a
\* top-level file with the runtime as prefix or suffix.
InDirectoryOf(path, rt) == path[1] = <<rt>>
NamedFor(path, rt) == Len(path) = 1 /\ (Starts(path[1], rt) \/ EndsWith(path[1], rt))

\* A bug to catch: names with the mark of another runtime are common files.
BelongsUnmarked(path, rt, known) ==
    \/ InDirectoryOf(path, rt) /\ Len(path) > 1
    \/ ~InDirectoryOf(path, rt)
         /\ \A other \in known \ {rt} : ~InDirectoryOf(path, other)

\* runtimeRelativeForLocal answers null for a file that is named for another
\* known runtime, and for a file named like the runtime's own directory.
Belongs(path, rt, known) ==
    \/ InDirectoryOf(path, rt) /\ Len(path) > 1
    \/ ~InDirectoryOf(path, rt) /\ NamedFor(path, rt)
    \/ \A other \in known \cup {rt} : ~InDirectoryOf(path, other) /\ ~NamedFor(path, other)

\* ... and otherwise the remote path: without the directory, the prefix or,
\* failing that, the suffix.
RemotePath(path, rt) ==
    IF InDirectoryOf(path, rt) THEN Tail(path)
    ELSE IF Len(path) = 1 /\ Starts(path[1], rt) THEN <<Tail(path[1])>>
    ELSE IF Len(path) = 1 /\ EndsWith(path[1], rt) THEN <<Front(path[1])>>
    ELSE path

\* Of two files with one remote path, the one named for the runtime wins.
Specific(path, rt) == InDirectoryOf(path, rt) \/ NamedFor(path, rt)

\* The files of a directory that map to a remote path.
Candidates(paths, remote, rt, known) ==
    {p \in paths \ {DetailsFile} : Belongs(p, rt, known) /\ RemotePath(p, rt) = remote}

\* Two files named for the runtime collide: the command fails.
Collides(paths, rt, known) ==
    \E p, q \in paths \ {DetailsFile} :
        /\ p # q /\ Specific(p, rt) /\ Specific(q, rt)
        /\ Belongs(p, rt, known) /\ Belongs(q, rt, known)
        /\ RemotePath(p, rt) = RemotePath(q, rt)

\* A bug to catch: the details file is a file like any other.
RuntimeFileMapAll(paths, rt, known) ==
    [remote \in {RemotePath(p, rt) : p \in {q \in paths : Belongs(q, rt, known)}} |->
        CHOOSE p \in paths : Belongs(p, rt, known) /\ RemotePath(p, rt) = remote]

\* listRuntimeFiles: from remote path to local file.
RuntimeFileMap(paths, rt, known) ==
    LET remotes == {RemotePath(p, rt) : p \in {q \in paths \ {DetailsFile} : Belongs(q, rt, known)}}
    IN  [remote \in remotes |->
            LET found == Candidates(paths, remote, rt, known) IN
            IF \E p \in found : Specific(p, rt) THEN CHOOSE p \in found : Specific(p, rt)
            ELSE CHOOSE p \in found : TRUE]

\* A remote path that a push would find again after a pull: nothing in it
\* reads as the name of a runtime.
Plain(path, known) == \A rt \in known : ~InDirectoryOf(path, rt) /\ ~NamedFor(path, rt)

=============================================================================
