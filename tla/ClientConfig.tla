----------------------------- MODULE ClientConfig -----------------------------
(***************************************************************************)
(* How the client finds its settings (client/src/config.ts): flags, the    *)
(* environment and its older names, the config file and the file of local  *)
(* secrets, each found by walking up from the working directory.           *)
(*                                                                         *)
(* A layer gives a field a value, Empty (a variable or an option set to    *)
(* nothing) or Unset.  Which value it is, is told by where it comes from.  *)
(***************************************************************************)
EXTENDS Naturals, Sequences, FiniteSets

CONSTANTS
    Unset, Empty,
    BadOrgs, BadNames   \* what the rules for the names of orgs, and of repos
                        \* and runtimes (NAME_RE), refuse

Fields == {"server", "token", "org", "repo", "runtime", "targetDir"}

Layers == {"flag", "env", "older", "config", "local"}

\* What a directory may hold, the names in the order they are tried; .ts, .mjs
\* and .js stand for one another, and so do the names of Pluto times.
ConfigNames == <<"dotlocker.config.ts", "dotlocker.config.json", ".locker.json", "pluto.config.json">>
SecretNames == <<".locker.local.json", ".locker", ".pluto.local.json", ".pluto">>

\* What is not set is neither the name of a source nor a file that was found.
ASSUME LayersAssumption ==
    /\ Unset # Empty
    /\ {Unset, Empty} \cap {"flag", "env", "config", "default", "missing"} = {}
    /\ Empty \in BadOrgs \cap BadNames
    /\ Unset \notin Nat \X {ConfigNames[n] : n \in DOMAIN ConfigNames}

\* discoverConfigFile, discoverLocalSecretFile: the nearest directory that has
\* one of the names, and of its names the first.  dirs lists the directories
\* from the working directory up, each as the set of files it has.
Nearest(dirs, names) ==
    LET has == {i \in DOMAIN dirs : \E n \in DOMAIN names : names[n] \in dirs[i]} IN
    IF has = {} THEN Unset
    ELSE LET i == CHOOSE j \in has : \A k \in has : j <= k
             n == CHOOSE m \in DOMAIN names :
                      /\ names[m] \in dirs[i]
                      /\ \A k \in 1 .. m - 1 : names[k] \notin dirs[i]
         IN  <<i, names[n]>>

\* --config names a file; one that is not there counts as no config file.
ConfigFile(dirs, explicit) ==
    IF explicit = Unset THEN Nearest(dirs, ConfigNames)
    ELSE IF \E i \in DOMAIN dirs : explicit = <<i, "custom.json">> /\ "custom.json" \in dirs[i]
         THEN explicit ELSE Unset

Falsy == {Unset, Empty}

Truthy(value) == value \notin Falsy

\* clientConfigSchema: what a config file may say of a field.  Nothing else is
\* held to these rules: no flag, no variable, no secret, no default.
Accepts(field, value) ==
    \/ value = Unset
    \/ field \in {"server", "targetDir"}
    \/ field = "org" /\ value \notin BadOrgs
    \/ field \in {"repo", "runtime"} /\ value \notin BadNames

\* env[DOTLOCKER_X] ?? env[PLUTO_X]: an empty variable hides the older one.
FromEnv(given) == IF given["env"] = Unset THEN given["older"] ELSE given["env"]

\* server, token, org and repo, in order of precedence, with the names of the
\* sources.  A token is never read from a config file.
LayersOf(field, given) ==
    <<<<"flag", given["flag"]>>, <<"env", FromEnv(given)>>,
      <<"config", IF field = "token" THEN Unset ELSE given["config"]>>,
      <<"config", given["local"]>>>>

\* The first layer with a value other than those passed over; 0 when none has.
FirstLayer(layers, passed) ==
    IF \E i \in DOMAIN layers : layers[i][2] \notin passed
    THEN CHOOSE i \in DOMAIN layers :
             layers[i][2] \notin passed /\ \A j \in 1 .. i - 1 : layers[j][2] \in passed
    ELSE 0

\* The loop over server, token, org and repo: org and repo have a default (the
\* repo's is the name of the working directory); server and token are asked
\* for, when a command needs the server.
Required(field, given, default, cloud, answer) ==
    LET i == FirstLayer(LayersOf(field, given), Falsy) IN
    IF i # 0 THEN [value |-> LayersOf(field, given)[i][2], source |-> LayersOf(field, given)[i][1]]
    ELSE IF field \in {"org", "repo"} THEN [value |-> default, source |-> "default"]
    ELSE IF ~cloud THEN [value |-> Unset, source |-> Unset]
    ELSE IF Truthy(answer) THEN [value |-> answer, source |-> "prompt"]
    ELSE [value |-> Unset, source |-> "missing"]

\* A bug to catch: the source forgets the older name of the variable.
OptionalForgetful(given, detected) ==
    LET layers == <<<<"flag", given["flag"]>>, <<"env", given["env"]>>, <<"env", given["older"]>>,
                    <<"config", given["config"]>>, <<"config", given["local"]>>,
                    <<"config", detected>>>>
        i == FirstLayer(layers, {Unset})
        j == FirstLayer(SelectSeq(layers, LAMBDA l : l[2] # given["older"]), Falsy)
    IN  [value |-> IF i = 0 THEN "default" ELSE layers[i][2],
         source |-> IF j = 0 THEN "default"
                    ELSE SelectSeq(layers, LAMBDA l : l[2] # given["older"])[j][1]]

\* runtime and targetDir: the value is the first that is set, be it empty; the
\* source is the first that is not empty.  detected is what NODE_ENV says.
Optional(given, detected) ==
    LET layers == <<<<"flag", given["flag"]>>, <<"env", given["env"]>>, <<"env", given["older"]>>,
                    <<"config", given["config"]>>, <<"config", given["local"]>>,
                    <<"config", detected>>>>
        i == FirstLayer(layers, {Unset})
        j == FirstLayer(layers, Falsy)
    IN  [value |-> IF i = 0 THEN "default" ELSE layers[i][2],
         source |-> IF j = 0 THEN "default" ELSE layers[j][1]]

\* detectRuntime: NODE_ENV, or what takes its place, through the runtimeMap of
\* the config file, if that does not switch detection off.
Detected(config, nodeEnv) ==
    LET mapped == IF nodeEnv \in DOMAIN config.runtimeMap THEN config.runtimeMap[nodeEnv]
                  ELSE CASE nodeEnv = "production" -> "prod"
                         [] nodeEnv = "development" -> "dev"
                         [] OTHER -> nodeEnv
    IN  IF config.autoDetect /\ Truthy(nodeEnv) /\ mapped \notin BadNames THEN mapped ELSE Unset

\* runtimeNames
KnownRuntimes(config, current) ==
    ({"default", "dev", "prod", "local", "preview", current}
        \cup {config.runtimeMap[n] : n \in DOMAIN config.runtimeMap}) \ BadNames

-----------------------------------------------------------------------------
(***************************************************************************)
(* A situation in which a command starts: the files found on the way up,   *)
(* the value each layer gives to each field (what a file that is not read  *)
(* would give counts for nothing), whether the config file can be read and *)
(* what else it says, NODE_ENV, the name of the working directory, and     *)
(* what the user answers when asked.                                       *)
(***************************************************************************)

NoConfig == [valid |-> TRUE, autoDetect |-> TRUE, runtimeMap |-> <<>>]

Given(situation, field) ==
    [layer \in Layers |->
        CASE layer = "config" /\ ConfigFile(situation.dirs, situation.explicit) = Unset -> Unset
          [] layer = "local" /\ Nearest(situation.dirs, SecretNames) = Unset -> Unset
          [] OTHER -> situation.values[field][layer]]

ConfigOf(situation) ==
    IF ConfigFile(situation.dirs, situation.explicit) = Unset THEN NoConfig ELSE situation.config

\* resolveFramework; for commands that need the server, resolveClient.
Resolved(situation, cloud) ==
    [field \in Fields |->
        CASE field = "runtime" ->
                Optional(Given(situation, field), Detected(ConfigOf(situation), situation.nodeEnv))
          [] field = "targetDir" -> Optional(Given(situation, field), Unset)
          [] OTHER -> Required(field, Given(situation, field),
                               IF field = "repo" THEN situation.cwd ELSE "default",
                               cloud, situation.answer)]

\* It throws for a config file it cannot read or that the schema does not
\* accept, and for a field it lacks.
Resolves(situation, cloud) ==
    /\ ConfigOf(situation).valid
    /\ \A field \in Fields : Accepts(field, Given(situation, field)["config"])
    /\ \A field \in Fields : Resolved(situation, cloud)[field].source # "missing"

\* login looks by itself, at flags and variables only and at no config file;
\* the email and the password are found in the same way.
LoginResolves(situation) ==
    \A field \in {"server", "org"} :
        LET given == situation.values[field] IN
        Truthy(IF given["flag"] = Unset THEN FromEnv(given) ELSE given["flag"])

=============================================================================
