-------------------------- MODULE MCClientWorkspace --------------------------
(* Model values, situations and starting points for ClientWorkspace. *)
EXTENDS ClientWorkspace, TLC

Env == <<<<"env">>>>
DevEnv == <<<<"dev", "env">>>>
ProdEnv == <<<<"env", "prod">>>>
InDev == <<<<"dev">>, <<"env">>>>
InProd == <<<<"prod">>, <<"app">>>>
App == <<<<"app">>>>

MCEditPaths == {Env, DevEnv, InProd}

MCRemoteTrees == {Env :> "x" @@ App :> "y", App :> "x", ProdEnv :> "x",
                  DetailsFile :> "x" @@ App :> "y"}

MCBadOrgs == {Empty, "older"}
MCBadNames == {Empty, "older", "MyApp"}

NoValues == [field \in Fields |-> [layer \in Layers |-> Unset]]

Cloudy == [NoValues EXCEPT !["server"]["flag"] = "flag", !["token"]["env"] = "env"]

Situation(values, dirs, config) ==
    [values |-> values, dirs |-> dirs, explicit |-> Unset, config |-> config,
     nodeEnv |-> Unset, cwd |-> "app", answer |-> Unset, force |-> FALSE]

\* For the commands that touch files: the runtime is named by a flag, by
\* NODE_ENV and the runtimeMap, or not at all.
ForRuntime(rt) == Situation([Cloudy EXCEPT !["runtime"]["flag"] = rt], <<{}>>, NoConfig)

ByNodeEnv ==
    [Situation(Cloudy, <<{}, {"dotlocker.config.json"}>>,
               [NoConfig EXCEPT !.runtimeMap = "production" :> "dev" @@ "qa" :> "env"])
       EXCEPT !.nodeEnv = "production"]

\* For status and init: every way to give one field, the others by flags.
\* The older names of the variables say what the rules for names refuse, and so
\* does the name of one working directory.
Flags == [field \in Fields |-> [layer \in Layers |-> IF layer = "flag" THEN "flag" ELSE Unset]]

Values(layer) == {Unset, layer} \cup (IF layer = "older" THEN {} ELSE {Empty})

Given5 ==
    {g \in [Layers -> {Unset, Empty} \cup Layers] : \A layer \in Layers : g[layer] \in Values(layer)}

Ways(field) == {[Flags EXCEPT ![field] = g] : g \in Given5}

FileSets ==
    {<<{}>>, <<{"dotlocker.config.json", ".locker"}>>, <<{}, {".locker.json", ".pluto"}>>}

AllSituations ==
    {[Situation(values, dirs, NoConfig) EXCEPT !.nodeEnv = "production", !.answer = answer] :
        values \in UNION {Ways(field) : field \in Fields}, dirs \in FileSets,
        answer \in {Unset, "answer"}}
    \cup {[Situation(values, dirs, NoConfig) EXCEPT !.cwd = "MyApp"] :
            values \in Ways("repo"), dirs \in FileSets}

Command(kind, dir, out, situation) ==
    [kind |-> kind, dir |-> dir, out |-> out, situation |-> situation]

MCCommands ==
    {Command(kind, "w", "w", ForRuntime(rt)) : kind \in {"pull", "push", "stage"}, rt \in {"dev", "prod"}}
    \cup {Command(kind, "w", "o", ForRuntime("dev")) : kind \in {"stage", "sync"}}
    \cup {Command("pull", "o", "o", ForRuntime("dev")), Command("push", "o", "o", ForRuntime("dev")),
          Command("exec", "w", "w", ByNodeEnv), Command("versions", "w", "w", ForRuntime("dev"))}

\* An existing config file; --config for a file that is there and one that is
\* not; config files that cannot be read, that hold a token or a name that the
\* rules refuse; no detection.
OddSituations ==
    LET here == Situation(Cloudy, <<{"dotlocker.config.json"}>>, NoConfig)
        both == [Situation([Cloudy EXCEPT !["runtime"]["config"] = "config"],
                           <<{"custom.json"}, {"dotlocker.config.ts"}>>, NoConfig)
                   EXCEPT !.nodeEnv = "qa"]
    IN  {[here EXCEPT !.force = TRUE], here,
         [here EXCEPT !.config.valid = FALSE],
         [here EXCEPT !.values["token"]["config"] = "config", !.force = TRUE],
         [here EXCEPT !.values["repo"]["config"] = "MyApp", !.force = TRUE],
         [here EXCEPT !.config.autoDetect = FALSE, !.nodeEnv = "production"],
         [both EXCEPT !.explicit = <<1, "custom.json">>],
         [both EXCEPT !.explicit = <<2, "custom.json">>], both}

MCSettings ==
    {Command(kind, "w", "w", s) : kind \in {"status", "init"}, s \in AllSituations \cup OddSituations}
    \cup {Command("capabilities", "w", "w", s) : s \in OddSituations}
    \cup {Command("login", "w", "w", Situation(values, <<{}>>, NoConfig)) :
            values \in Ways("server") \cup Ways("org")}

Workspace(w, o, dev, prod) ==
    [local |-> [dir \in Dirs |-> IF dir = "w" THEN w ELSE o],
     remote |-> [rt \in Runtimes |-> IF rt = "dev" THEN dev ELSE prod],
     commands |-> MCCommands,
     limit |-> [commands |-> 2, changes |-> 1]]

\* Everything at once with nothing remote; a collision; an empty directory and
\* a remote path that reads like a runtime; and, with no files at all, every
\* way to find the settings.
MCWorkspaces ==
    "mixed" :> Workspace(Env :> "x" @@ DevEnv :> "y" @@ ProdEnv :> "x" @@ InProd :> "y", <<>>,
                         <<>>, App :> "x") @@
    "collides" :> Workspace(DevEnv :> "x" @@ InDev :> "y", <<>>, Env :> "x" @@ App :> "y", <<>>) @@
    "pulls" :> Workspace(<<>>, Env :> "y", ProdEnv :> "x" @@ App :> "y", Env :> "y") @@
    "settings" :> [Workspace(<<>>, <<>>, <<>>, <<>>)
                     EXCEPT !.commands = MCSettings,
                            !.limit = [commands |-> 1, changes |-> 0]]

=============================================================================
