---------------------------- MODULE ClientWorkspace ----------------------------
(***************************************************************************)
(* The client's commands (client/src/cli.ts) over a working directory and  *)
(* its target directories: pull, sync, push, stage, exec and init, file by *)
(* file, and the commands that only ask: status, versions, capabilities,   *)
(* login.  Between two files somebody may edit the directory, a            *)
(* colleague may push, and the command may be stopped.                     *)
(*                                                                         *)
(* The server is what its answers say (client/src/http.ts): of every       *)
(* runtime the tree of its head and how many versions it has.              *)
(***************************************************************************)
EXTENDS RuntimeFiles, ClientConfig

CONSTANTS
    Runtimes,       \* the runtimes of the repo
    Dirs,           \* target directories
    Contents,       \* what files hold
    EditPaths,      \* local files that somebody writes
    RemoteTrees,    \* trees a colleague may push
    Workspaces,     \* what to start from, by name: the local files, the remote
                    \* trees, the commands that may be given, and the bounds
                    \* on how many commands and how many changes by others
    DetailsText,    \* what a locker-details.json holds
    None

\* A tree gives some paths their contents.
IsTree(tree) ==
    tree = [p \in DOMAIN tree |-> tree[p]] /\ DOMAIN tree \subseteq Seq(Seq(STRING)) \ {<<>>}

CommandKinds ==
    {"pull", "sync", "exec", "push", "stage", "init", "status", "versions", "capabilities", "login"}

\* Who pushes has a runtime of the repo, which may be new.
IsCommand(c) ==
    /\ c.kind \in CommandKinds /\ {c.dir, c.out} \subseteq Dirs
    /\ LET s == c.situation IN
       /\ s = [values |-> s.values, dirs |-> s.dirs, explicit |-> s.explicit,
               config |-> s.config, nodeEnv |-> s.nodeEnv, cwd |-> s.cwd,
               answer |-> s.answer, force |-> s.force]
       /\ s.dirs \in Seq(SUBSET STRING) \ {<<>>} /\ s.cwd # Unset
    /\ c.kind = "push" => Resolved(c.situation, TRUE)["runtime"].value \in Runtimes

ASSUME ClientAssumption ==
    /\ Runtimes \subseteq STRING \ BadNames
    /\ EditPaths \cup {DetailsFile} \subseteq Seq(Seq(STRING)) \ {<<>>}
    /\ \A tree \in RemoteTrees : IsTree(tree)
    /\ \A w \in DOMAIN Workspaces :
          LET space == Workspaces[w] IN
          /\ space.local = [dir \in Dirs |-> space.local[dir]]
          /\ space.remote = [rt \in Runtimes |-> space.remote[rt]]
          /\ \A dir \in Dirs : IsTree(space.local[dir])
          /\ \A rt \in Runtimes : IsTree(space.remote[rt])
          /\ \A c \in space.commands : IsCommand(c)

VARIABLES
    start,      \* the workspace that everything started from
    local,      \* Dirs -> path -> content
    details,    \* Dirs -> what the last locker-details.json said, or None
    remote,     \* Runtimes -> the head's tree
    versions,   \* Runtimes -> number of versions
    written,    \* the config file that init wrote, or None
    cmd,        \* the command at work or the last one, or None
    commands, changes   \* how many there were: commands, and edits and pushes by others

vars == <<start, local, details, remote, versions, written, cmd, commands, changes>>

bounds == <<start, commands, changes>>
Limit == Workspaces[start].limit
server == <<remote, versions>>

Running(kinds, phase) == cmd # None /\ cmd.kind \in kinds /\ cmd.phase = phase

Done == cmd # None => cmd.phase \in {"done", "stopped"}

Put(f, x, y) == [z \in DOMAIN f \cup {x} |-> IF z = x THEN y ELSE f[z]]

End(outcome) == cmd' = [cmd EXCEPT !.phase = "done", !.outcome = outcome]

Cloud(kind) == kind # "stage"

FirstPhase(kind) ==
    CASE kind \in {"pull", "sync", "exec"} -> "resolve"
      [] kind \in {"push", "stage"} -> "list"
      [] kind = "init" -> "write"
      [] OTHER -> "ask"

\* init keeps an existing dotlocker.config.json, unless --force is given.
KeepsConfig(c) ==
    c.kind = "init" /\ "dotlocker.config.json" \in c.situation.dirs[1] /\ ~c.situation.force

Accepted(c) ==
    IF c.kind = "login" THEN LoginResolves(c.situation)
    ELSE ~KeepsConfig(c) /\ Resolves(c.situation, Cloud(c.kind))

\* Every command first resolves its settings.
Begin ==
    /\ Done /\ commands < Limit.commands /\ commands' = commands + 1
    /\ \E c \in Workspaces[start].commands :
          LET r == Resolved(c.situation, Cloud(c.kind))
              ok == Accepted(c)
          IN  cmd' = [kind |-> c.kind, dir |-> c.dir, out |-> c.out, situation |-> c.situation,
                      runtime |-> r["runtime"].value,
                      known |-> KnownRuntimes(ConfigOf(c.situation), r["runtime"].value),
                      phase |-> IF ok THEN FirstPhase(c.kind) ELSE "done",
                      outcome |-> IF ok THEN "pending"
                                  ELSE IF KeepsConfig(c) THEN "exists" ELSE "misconfigured",
                      todo |-> {}, made |-> <<>>, head |-> 0, quiet |-> TRUE,
                      before |-> DOMAIN local[c.out]]
    /\ UNCHANGED <<start, local, details, server, written, changes>>

-----------------------------------------------------------------------------
(***************************************************************************)
(* pull, sync and exec.  A file to fetch is its runtime, its path there    *)
(* and its path in the target directory.                                   *)
(***************************************************************************)

Fetches(rt, prefix) == {[rt |-> rt, path |-> p, to |-> prefix \o p] : p \in DOMAIN remote[rt]}

\* GET /v1/resolve: pull and exec ask for the one runtime, and its prefix goes;
\* sync asks for all, and each keeps its own.
PulledFiles == UNION {Fetches(rt, <<>>) : rt \in {cmd.runtime} \cap Runtimes}
SyncedFiles == UNION {Fetches(rt, <<<<rt>>>>) : rt \in Runtimes}

ResolveFiles ==
    /\ Running({"pull", "sync", "exec"}, "resolve")
    /\ cmd' = [cmd EXCEPT !.phase = "files",
                          !.todo = IF cmd.kind = "sync" THEN SyncedFiles ELSE PulledFiles]
    /\ UNCHANGED <<local, details, server, written, bounds>>

\* A bug to catch: a path that is gone is asked for again and again.
FetchFileAgain ==
    /\ Running({"pull", "sync", "exec"}, "files")
    /\ \E f \in cmd.todo :
          /\ f.path \in DOMAIN remote[f.rt]
          /\ local' = [local EXCEPT ![cmd.out] = Put(@, f.to, remote[f.rt][f.path])]
          /\ cmd' = [cmd EXCEPT !.todo = @ \ {f}, !.made = Put(@, f.to, remote[f.rt][f.path])]
    /\ UNCHANGED <<details, server, written, bounds>>

\* getFile, and the file is written; a path that is gone ends the command.
\* (The model takes the files in any order.)
FetchFile ==
    /\ Running({"pull", "sync", "exec"}, "files")
    /\ \E f \in cmd.todo :
          IF f.path \in DOMAIN remote[f.rt]
          THEN /\ local' = [local EXCEPT ![cmd.out] = Put(@, f.to, remote[f.rt][f.path])]
               /\ cmd' = [cmd EXCEPT !.todo = @ \ {f}, !.made = Put(@, f.to, remote[f.rt][f.path])]
          ELSE End("missing") /\ UNCHANGED local
    /\ UNCHANGED <<details, server, written, bounds>>

Details == [mode |-> IF cmd.kind = "exec" THEN "pull" ELSE cmd.kind,
            runtime |-> cmd.runtime, files |-> cmd.made]

\* A bug to catch: exec starts the command as soon as the first file is there.
WriteDetailsEarly ==
    /\ cmd # None /\ cmd.phase = "files"
    /\ details' = [details EXCEPT ![cmd.out] = Details]
    /\ local' = [local EXCEPT ![cmd.out] = Put(@, DetailsFile, DetailsText)]
    /\ IF cmd.kind = "exec" THEN cmd' = [cmd EXCEPT !.phase = "child"] ELSE End("ok")
    /\ UNCHANGED <<server, written, bounds>>

\* writeDetails comes last; exec then starts its command.
WriteDetails ==
    /\ cmd # None /\ cmd.phase = "files" /\ cmd.todo = {}
    /\ details' = [details EXCEPT ![cmd.out] = Details]
    /\ local' = [local EXCEPT ![cmd.out] = Put(@, DetailsFile, DetailsText)]
    /\ IF cmd.kind = "exec" THEN cmd' = [cmd EXCEPT !.phase = "child"] ELSE End("ok")
    /\ UNCHANGED <<server, written, bounds>>

ChildExits ==
    /\ Running({"exec"}, "child")
    /\ End("ok")
    /\ UNCHANGED <<local, details, server, written, bounds>>

-----------------------------------------------------------------------------
(***************************************************************************)
(* push and stage                                                          *)
(***************************************************************************)

\* The files of the runtime, each with the path it goes to.
ListFiles ==
    LET paths == DOMAIN local[cmd.dir]
        map == RuntimeFileMap(paths, cmd.runtime, cmd.known)
    IN  /\ Running({"push", "stage"}, "list")
        /\ IF Collides(paths, cmd.runtime, cmd.known) THEN End("collision")
           ELSE IF map = <<>> /\ cmd.kind = "push" THEN End("nothing")
           ELSE cmd' = [cmd EXCEPT !.phase = IF cmd.kind = "push" THEN "head" ELSE "files",
                                   !.todo = {[from |-> map[p], to |-> p] : p \in DOMAIN map}]
        /\ UNCHANGED <<local, details, server, written, bounds>>

StageFile ==
    /\ Running({"stage"}, "files")
    /\ \E f \in cmd.todo :
          LET body == local[cmd.dir][f.from] IN
          /\ local' = [local EXCEPT ![cmd.out] = Put(@, f.to, body)]
          /\ cmd' = [cmd EXCEPT !.todo = @ \ {f}, !.made = Put(@, f.to, body)]
    /\ UNCHANGED <<details, server, written, bounds>>

RuntimeHead ==
    /\ Running({"push"}, "head")
    /\ cmd' = [cmd EXCEPT !.phase = "objects", !.head = versions[cmd.runtime]]
    /\ UNCHANGED <<local, details, server, written, bounds>>

\* Each file is read, and its object is put, before the next one is read.
PutObject ==
    /\ Running({"push"}, "objects")
    /\ \E f \in cmd.todo :
          cmd' = [cmd EXCEPT !.todo = @ \ {f}, !.made = Put(@, f.to, local[cmd.dir][f.from])]
    /\ UNCHANGED <<local, details, server, written, bounds>>

\* The manifest is committed on the head that push began with.
CommitRuntime ==
    /\ Running({"push"}, "objects") /\ cmd.todo = {}
    /\ \/ /\ versions[cmd.runtime] # cmd.head
          /\ End("conflict") /\ UNCHANGED server
       \/ /\ versions[cmd.runtime] = cmd.head
          /\ versions[cmd.runtime] > 0 /\ remote[cmd.runtime] = cmd.made
          /\ End("unchanged") /\ UNCHANGED server
       \/ /\ versions[cmd.runtime] = cmd.head
          /\ versions[cmd.runtime] = 0 \/ remote[cmd.runtime] # cmd.made
          /\ remote' = [remote EXCEPT ![cmd.runtime] = cmd.made]
          /\ versions' = [versions EXCEPT ![cmd.runtime] = @ + 1]
          /\ End("created")
    /\ UNCHANGED <<local, details, written, bounds>>

-----------------------------------------------------------------------------
(***************************************************************************)
(* init, and the commands that only ask                                    *)
(***************************************************************************)

InitFields == {"server", "org", "repo", "runtime", "targetDir"}

\* A bug to catch: what follows from the flags is left out of the file.
WriteConfigWithoutFlags ==
    LET r == Resolved(cmd.situation, TRUE) IN
    /\ Running({"init"}, "write")
    /\ written' = [field \in InitFields |->
                      IF r[field].source = "flag" THEN Unset ELSE r[field].value]
    /\ End("ok")
    /\ UNCHANGED <<local, details, server, bounds>>

\* The token is never written.
WriteConfig ==
    LET r == Resolved(cmd.situation, TRUE) IN
    /\ Running({"init"}, "write")
    /\ written' = [field \in InitFields |-> r[field].value]
    /\ End("ok")
    /\ UNCHANGED <<local, details, server, bounds>>

Health ==
    /\ Running({"status"}, "ask")
    /\ End("ok")
    /\ UNCHANGED <<local, details, server, written, bounds>>

Capabilities ==
    /\ Running({"capabilities"}, "ask")
    /\ End("ok")
    /\ UNCHANGED <<local, details, server, written, bounds>>

\* The versions of the runtime, none of them being an answer as well.
Versions ==
    /\ Running({"versions"}, "ask")
    /\ End(IF versions[cmd.runtime] = 0 THEN "nothing" ELSE "ok")
    /\ UNCHANGED <<local, details, server, written, bounds>>

\* The server takes the password or not; the token is printed, never kept.
Login ==
    /\ Running({"login"}, "ask")
    /\ \E outcome \in {"ok", "unauthorized"} : End(outcome)
    /\ UNCHANGED <<local, details, server, written, bounds>>

-----------------------------------------------------------------------------
(***************************************************************************)
(* Everybody else                                                          *)
(***************************************************************************)

Disturb == IF cmd = None THEN UNCHANGED cmd ELSE cmd' = [cmd EXCEPT !.quiet = FALSE]

Edit ==
    /\ changes < Limit.changes /\ changes' = changes + 1
    /\ \E dir \in Dirs, path \in EditPaths, content \in Contents :
          local' = [local EXCEPT ![dir] = Put(@, path, content)]
    /\ Disturb
    /\ UNCHANGED <<start, details, server, written, commands>>

ColleaguePushes ==
    /\ changes < Limit.changes /\ changes' = changes + 1
    /\ \E rt \in Runtimes, tree \in RemoteTrees :
          /\ tree # remote[rt]
          /\ remote' = [remote EXCEPT ![rt] = tree]
          /\ versions' = [versions EXCEPT ![rt] = @ + 1]
    /\ Disturb
    /\ UNCHANGED <<start, local, details, written, commands>>

\* Interrupted, or a call that failed.
Stop ==
    /\ ~Done
    /\ cmd' = [cmd EXCEPT !.phase = "stopped"]
    /\ UNCHANGED <<local, details, server, written, bounds>>

Init ==
    /\ start \in DOMAIN Workspaces
    /\ local = Workspaces[start].local /\ remote = Workspaces[start].remote
    /\ versions = [rt \in Runtimes |-> IF remote[rt] = <<>> THEN 0 ELSE 1]
    /\ details = [dir \in Dirs |-> None]
    /\ written = None /\ cmd = None
    /\ commands = 0 /\ changes = 0

\* What the client and the server do; when a child exits is its own affair.
ClientGoesOn ==
    \/ ResolveFiles \/ FetchFile \/ WriteDetails
    \/ ListFiles \/ StageFile \/ RuntimeHead \/ PutObject \/ CommitRuntime
    \/ WriteConfig \/ Health \/ Capabilities \/ Versions \/ Login

Next == Begin \/ ClientGoesOn \/ ChildExits \/ Edit \/ ColleaguePushes \/ Stop

Spec == Init /\ [][Next]_vars

\* A command goes on while the server answers; a child may run for ever.
FairSpec == Spec /\ WF_vars(ClientGoesOn)

-----------------------------------------------------------------------------

Ended(kinds, outcomes) ==
    cmd # None /\ cmd.kind \in kinds /\ cmd.phase = "done" /\ cmd.outcome \in outcomes

\* README, "Sync model": pull writes the files of the runtime without prefix.
\* A pull or exec that nobody disturbed leaves every file of the head where it
\* belongs, and every other file as it was.  (A remote file that is called
\* locker-details.json is fetched, and lost to the client's own.)
PullCopiesHead ==
    Running({"exec"}, "child") \/ Ended({"pull"}, {"ok"}) =>
        \/ ~cmd.quiet
        \/ /\ cmd.runtime \notin Runtimes \/ cmd.made = remote[cmd.runtime]
           /\ \A p \in DOMAIN cmd.made \ {DetailsFile} : local[cmd.out][p] = cmd.made[p]
           /\ DOMAIN local[cmd.out] = cmd.before \cup DOMAIN cmd.made \cup {DetailsFile}

\* README, "Sync model": the rules by which push selects files.  What an
\* undisturbed push has made of its directory: every file named for the runtime
\* under its remote path, every common file without such a file at its own, and
\* nothing else -- no file named for another known runtime.
PushFollowsRules ==
    LET rt == cmd.runtime
        others == cmd.known \ {rt}
        paths == DOMAIN local[cmd.dir] \ {DetailsFile}
        own == {p \in paths : Specific(p, rt) /\ p # <<<<rt>>>>}
        common == {p \in paths : \A other \in others \cup {rt} :
                                     ~InDirectoryOf(p, other) /\ ~NamedFor(p, other)}
        replaced == {RemotePath(p, rt) : p \in own}
    IN  Ended({"push"}, {"created", "unchanged"}) /\ cmd.quiet =>
            /\ DOMAIN remote[rt] = replaced \cup common
            /\ \A p \in own : remote[rt][RemotePath(p, rt)] = local[cmd.dir][p]
            /\ \A p \in common \ replaced : remote[rt][p] = local[cmd.dir][p]

\* A pull into a directory that holds nothing else, pushed again, changes
\* nothing -- as long as no remote path reads like the name of a runtime: such
\* a file would be ignored or renamed by the push.
PullThenPushUnchanged ==
    LET rt == cmd.runtime
        map == RuntimeFileMap(DOMAIN local[cmd.out], rt, cmd.known)
    IN  /\ Ended({"pull"}, {"ok"}) /\ cmd.quiet /\ cmd.before \subseteq {DetailsFile}
        /\ rt \in Runtimes /\ DetailsFile \notin DOMAIN remote[rt]
        /\ \A p \in DOMAIN remote[rt] : Plain(p, cmd.known)
        => [p \in DOMAIN map |-> local[cmd.out][map[p]]] = remote[rt]

-----------------------------------------------------------------------------

SourceName(layer) ==
    CASE layer = "flag" -> "flag" [] layer \in {"env", "older"} -> "env" [] OTHER -> "config"

\* What status prints as the source of a setting is where its value is from;
\* for runtime and targetDir, as long as no layer sets them to nothing.
SourcesAreTrue ==
    cmd # None /\ cmd.kind # "login" /\ Resolves(cmd.situation, Cloud(cmd.kind)) =>
        \A field \in Fields :
            LET setting == Resolved(cmd.situation, Cloud(cmd.kind))[field]
                given == Given(cmd.situation, field)
            IN  /\ field \in {"runtime", "targetDir"} =>
                       \A layer \in Layers : given[layer] # Empty
                /\ setting.source \in {"flag", "env", "config"}
                => \/ \E layer \in Layers :
                         given[layer] = setting.value /\ SourceName(layer) = setting.source
                   \/ /\ field = "runtime" /\ setting.source = "config"
                      /\ setting.value = Detected(ConfigOf(cmd.situation), cmd.situation.nodeEnv)

\* The situation of the next command in the same directory, without flags and
\* variables: the file that init wrote, the local secrets, NODE_ENV and what
\* lies in the directories above are still there.
AfterInit(situation) ==
    [situation EXCEPT
        !.dirs[1] = @ \cup {"dotlocker.config.json"}, !.explicit = Unset, !.config = NoConfig,
        !.values = [field \in Fields |-> [layer \in Layers |->
                       CASE layer = "config" /\ field \in InitFields -> written[field]
                         [] layer = "local" -> situation.values[field]["local"]
                         [] OTHER -> Unset]]]

\* init writes org, repo and runtime as they are, though the schema asks for
\* more of them than flags, variables, secrets and the directory's name are
\* asked for.  When all three fit, every later command that gets no flag and
\* no variable goes by what init resolved, whichever layers that came from and
\* whatever other files there are; when one does not, every later command
\* refuses the file.  (A dotlocker.config.ts beside it comes first.)
InitIsRemembered ==
    LET before == Resolved(cmd.situation, TRUE)
        next == AfterInit(cmd.situation)
        after == Resolved(next, FALSE)
        fits == before["org"].value \notin BadOrgs
                   /\ {before["repo"].value, before["runtime"].value} \cap BadNames = {}
    IN  Ended({"init"}, {"ok"}) /\ ConfigNames[1] \notin cmd.situation.dirs[1] =>
            /\ Resolves(next, FALSE) <=> fits
            /\ fits => \A field \in InitFields : after[field].value = before[field].value

\* Every command ends, unless it is stopped, or its child runs on.
CommandsEnd == (cmd # None) ~> (Done \/ Running({"exec"}, "child"))

=============================================================================
