------------------------ MODULE ClientWorkspace_proofs ------------------------
(***************************************************************************)
(* Theorems about the client's commands, for any runtimes, directories,    *)
(* files and situations: what pull leaves in the directory, what push      *)
(* makes of it, and where the settings come from.                          *)
(***************************************************************************)
EXTENDS ClientWorkspace, WellFoundedInduction, SequenceTheorems, TLAPS

Paths == Seq(Seq(STRING)) \ {<<>>}

\* The form of a command at work.
IsCmd(c) ==
    c = [kind |-> c.kind, dir |-> c.dir, out |-> c.out, situation |-> c.situation,
         runtime |-> c.runtime, known |-> c.known, phase |-> c.phase, outcome |-> c.outcome,
         todo |-> c.todo, made |-> c.made, head |-> c.head, quiet |-> c.quiet,
         before |-> c.before]

\* Directories and heads hold trees.
TreesInv ==
    /\ local = [dir \in Dirs |-> local[dir]] /\ remote = [rt \in Runtimes |-> remote[rt]]
    /\ \A dir \in Dirs : IsTree(local[dir])
    /\ \A rt \in Runtimes : IsTree(remote[rt])

\* What a command was asked for, and the settings it goes by.
Asked(c) ==
    /\ c.kind \in CommandKinds /\ c.dir \in Dirs /\ c.out \in Dirs
    /\ IsCommand([kind |-> c.kind, dir |-> c.dir, out |-> c.out, situation |-> c.situation])
    /\ c.runtime = Resolved(c.situation, Cloud(c.kind))["runtime"].value
    /\ c.known = KnownRuntimes(ConfigOf(c.situation), c.runtime)

\* How far it is, and the files it has still to do.
Phased(c) ==
    /\ c.phase = "files" => c.kind \in {"pull", "sync", "exec", "stage"}
    /\ c.phase = "child" => c.kind = "exec"
    /\ c.phase \notin {"done", "stopped"} => c.outcome = "pending"

FilesTyped(c) ==
    /\ IsTree(c.made)
    /\ c.phase \in {"files", "objects", "head"} =>
          \A f \in c.todo :
              /\ f.to \in Paths
              /\ c.kind \in {"pull", "sync", "exec"} => f.rt \in Runtimes /\ f.path \in Paths

\* A pull on its way: what it has made is what the head holds, and lies in the
\* directory beside what was there before.
Agrees(made, tree) == \A p \in DOMAIN made : made[p] = tree[p]

Pulling(c) ==
    /\ c.phase = "resolve" => c.made = <<>> /\ c.before = DOMAIN local[c.out]
    /\ c.phase = "files" =>
          /\ \A f \in c.todo : f.rt = c.runtime /\ f.to = f.path
          /\ c.runtime \in Runtimes =>
                /\ DOMAIN remote[c.runtime] = DOMAIN c.made \cup {f.path : f \in c.todo}
                /\ Agrees(c.made, remote[c.runtime])
          /\ Agrees(c.made, local[c.out])
          /\ DOMAIN local[c.out] = c.before \cup DOMAIN c.made
    /\ c.phase = "child" \/ (c.phase = "done" /\ c.outcome = "ok") =>
          /\ c.runtime \in Runtimes => c.made = remote[c.runtime]
          /\ \A p \in DOMAIN c.made \ {DetailsFile} : local[c.out][p] = c.made[p]
          /\ DOMAIN local[c.out] = c.before \cup DOMAIN c.made \cup {DetailsFile}

\* A push on its way: what it has read is what the files hold that it listed.
FileMap(c) == RuntimeFileMap(DOMAIN local[c.dir], c.runtime, c.known)

Reads(c, tree) == \A p \in DOMAIN tree : tree[p] = local[c.dir][FileMap(c)[p]]

Pushing(c) ==
    /\ c.runtime \in Runtimes
    /\ c.phase = "list" => c.made = <<>>
    /\ c.phase \in {"head", "objects"} =>
          /\ ~Collides(DOMAIN local[c.dir], c.runtime, c.known)
          /\ \A f \in c.todo : f.from = FileMap(c)[f.to]
          /\ DOMAIN FileMap(c) = DOMAIN c.made \cup {f.to : f \in c.todo}
          /\ Reads(c, c.made)
    /\ c.phase = "done" /\ c.outcome \in {"created", "unchanged"} =>
          /\ ~Collides(DOMAIN local[c.dir], c.runtime, c.known)
          /\ DOMAIN remote[c.runtime] = DOMAIN FileMap(c)
          /\ Reads(c, remote[c.runtime])

\* init has settings to write, and has written them.
Initing(c) ==
    /\ c.phase \in {"write", "done", "stopped"}
    /\ c.phase = "write" => Resolves(c.situation, TRUE)
    /\ c.phase = "done" /\ c.outcome = "ok" =>
          /\ Resolves(c.situation, TRUE)
          /\ written = [field \in InitFields |-> Resolved(c.situation, TRUE)[field].value]

CmdInv(c) ==
    /\ IsCmd(c) /\ Asked(c) /\ Phased(c) /\ FilesTyped(c)
    /\ c.kind \in {"pull", "exec"} /\ c.quiet => Pulling(c)
    /\ c.kind = "push" /\ c.quiet => Pushing(c)
    /\ c.kind = "init" => Initing(c)

ClientInv ==
    /\ start \in DOMAIN Workspaces
    /\ TreesInv
    /\ cmd # None => CmdInv(cmd)

-----------------------------------------------------------------------------
(***************************************************************************)
(* The settings.                                                           *)
(***************************************************************************)

\* A layer found is the first that was not passed over; none is found only
\* when all of them were.
LEMMA FirstLayerFound ==
    ASSUME NEW layers, NEW n \in Nat, DOMAIN layers = 1 .. n, NEW passed
    PROVE  LET i == FirstLayer(layers, passed) IN
           /\ i = 0 => \A k \in 1 .. n : layers[k][2] \in passed
           /\ i # 0 => /\ i \in 1 .. n /\ layers[i][2] \notin passed
                       /\ \A j \in 1 .. i - 1 : layers[j][2] \in passed
  <1> DEFINE Left == {i \in 1 .. n : layers[i][2] \notin passed}
             IsFirst(i) == layers[i][2] \notin passed /\ \A j \in 1 .. i - 1 : layers[j][2] \in passed
  <1>1. CASE Left = {}
    BY <1>1 DEF FirstLayer
  <1>2. CASE Left # {}
    <2>1. Left \subseteq Nat
      <3>1. \A i \in 1 .. n : i \in Nat
        OBVIOUS
      <3> QED
        BY <3>1
    <2>2. PICK i \in Left : \A j \in Left : ~(<<j, i>> \in OpToRel(<, Nat))
      BY <1>2, <2>1, NatLessThanWellFounded, WFMin
    <2>3. \A j \in Left : ~(j < i)
      BY <2>1, <2>2 DEF OpToRel
    <2>4. \A j \in 1 .. i - 1 : j \in 1 .. n /\ j < i
      BY i \in 1 .. n
    <2>5. i \in DOMAIN layers /\ IsFirst(i)
      BY <2>3, <2>4
    <2>6. FirstLayer(layers, passed) = CHOOSE k \in DOMAIN layers : IsFirst(k)
      BY <2>5 DEF FirstLayer
    <2>7. FirstLayer(layers, passed) \in DOMAIN layers /\ IsFirst(FirstLayer(layers, passed))
      BY <2>5, <2>6
    <2> QED
      BY <2>7
  <1> QED
    BY <1>1, <1>2

\* What server, token, org and repo are set to comes from where they say.
LEMMA RequiredSource ==
    ASSUME NEW given, NEW field, NEW default, NEW cloud, NEW answer,
           Required(field, given, default, cloud, answer).source \in {"flag", "env", "config"}
    PROVE  \E layer \in Layers :
              /\ given[layer] = Required(field, given, default, cloud, answer).value
              /\ SourceName(layer) = Required(field, given, default, cloud, answer).source
  <1> DEFINE layers == LayersOf(field, given)
             i == FirstLayer(layers, Falsy)
             r == Required(field, given, default, cloud, answer)
  <1>1. /\ DOMAIN layers = 1 .. 4
        /\ layers[1][1] = "flag" /\ layers[1][2] = given["flag"]
        /\ layers[2][1] = "env" /\ layers[2][2] = FromEnv(given)
        /\ layers[3][1] = "config"
        /\ layers[3][2] = IF field = "token" THEN Unset ELSE given["config"]
        /\ layers[4][1] = "config" /\ layers[4][2] = given["local"]
    BY DEF LayersOf
  <1>2. i # 0 /\ r.value = layers[i][2] /\ r.source = layers[i][1]
    BY LayersAssumption DEF Required
  <1> HIDE DEF layers
  <1>3. /\ i = 0 => \A k \in 1 .. 4 : layers[k][2] \in Falsy
        /\ i # 0 => /\ i \in 1 .. 4 /\ layers[i][2] \notin Falsy
                    /\ \A k \in 1 .. i - 1 : layers[k][2] \in Falsy
    BY <1>1, FirstLayerFound
  <1> HIDE DEF i, r
  <1>4. i = 1 \/ i = 2 \/ i = 3 \/ i = 4
    BY <1>2, <1>3
  <1>5. /\ SourceName("flag") = "flag" /\ SourceName("env") = "env" /\ SourceName("older") = "env"
        /\ SourceName("config") = "config" /\ SourceName("local") = "config"
    BY DEF SourceName
  <1>6. FromEnv(given) = given["env"] \/ FromEnv(given) = given["older"]
    BY DEF FromEnv
  <1>7. i = 3 => field # "token"
    BY <1>1, <1>2, <1>3 DEF Falsy
  <1>8. \E layer \in Layers : given[layer] = r.value /\ SourceName(layer) = r.source
    BY <1>1, <1>2, <1>4, <1>5, <1>6, <1>7 DEF Layers
  <1> QED
    BY <1>8 DEF r

\* What runtime and targetDir are set to as well, when no layer is empty.
LEMMA OptionalSource ==
    ASSUME NEW given, NEW detected, detected # Empty,
           \A layer \in Layers : given[layer] # Empty,
           Optional(given, detected).source \in {"flag", "env", "config"}
    PROVE  \/ \E layer \in Layers :
                 /\ given[layer] = Optional(given, detected).value
                 /\ SourceName(layer) = Optional(given, detected).source
           \/ /\ detected # Unset /\ Optional(given, detected).value = detected
              /\ Optional(given, detected).source = "config"
  <1> DEFINE layers == <<<<"flag", given["flag"]>>, <<"env", given["env"]>>,
                         <<"env", given["older"]>>, <<"config", given["config"]>>,
                         <<"config", given["local"]>>, <<"config", detected>>>>
             i == FirstLayer(layers, {Unset})
             j == FirstLayer(layers, Falsy)
             r == Optional(given, detected)
  <1>1. /\ DOMAIN layers = 1 .. 6
        /\ layers[1][1] = "flag" /\ layers[1][2] = given["flag"]
        /\ layers[2][1] = "env" /\ layers[2][2] = given["env"]
        /\ layers[3][1] = "env" /\ layers[3][2] = given["older"]
        /\ layers[4][1] = "config" /\ layers[4][2] = given["config"]
        /\ layers[5][1] = "config" /\ layers[5][2] = given["local"]
        /\ layers[6][1] = "config" /\ layers[6][2] = detected
    OBVIOUS
  <1>2. /\ r.value = IF i = 0 THEN "default" ELSE layers[i][2]
        /\ r.source = IF j = 0 THEN "default" ELSE layers[j][1]
    BY DEF Optional
  <1>3. /\ i = 0 => \A k \in 1 .. 6 : layers[k][2] \in {Unset}
        /\ i # 0 => /\ i \in 1 .. 6 /\ layers[i][2] \notin {Unset}
                    /\ \A k \in 1 .. i - 1 : layers[k][2] \in {Unset}
    BY <1>1, FirstLayerFound
  <1>4. /\ j = 0 => \A k \in 1 .. 6 : layers[k][2] \in Falsy
        /\ j # 0 => /\ j \in 1 .. 6 /\ layers[j][2] \notin Falsy
                    /\ \A k \in 1 .. j - 1 : layers[k][2] \in Falsy
    BY <1>1, FirstLayerFound
  <1> HIDE DEF layers, i, j, r
  <1>5. \A k \in 1 .. 6 : layers[k][2] # Empty
    <2> SUFFICES ASSUME NEW k \in 1 .. 6 PROVE layers[k][2] # Empty
      OBVIOUS
    <2>1. k = 1 \/ k = 2 \/ k = 3 \/ k = 4 \/ k = 5 \/ k = 6
      OBVIOUS
    <2> QED
      BY <1>1, <2>1 DEF Layers
  <1>6. \A k \in 1 .. 6 : layers[k][2] \in Falsy <=> layers[k][2] \in {Unset}
    BY <1>5 DEF Falsy
  <1>7. j # 0
    BY <1>2, LayersAssumption DEF r
  <1>8. i # 0
    BY <1>3, <1>4, <1>6, <1>7
  <1>9. i = j
    <2>1. ~(i < j)
      BY <1>3, <1>4, <1>6, <1>7, <1>8
    <2>2. ~(j < i)
      BY <1>3, <1>4, <1>6, <1>7, <1>8
    <2> QED
      BY <1>3, <1>4, <1>7, <1>8, <2>1, <2>2
  <1>10. i = 1 \/ i = 2 \/ i = 3 \/ i = 4 \/ i = 5 \/ i = 6
    BY <1>3, <1>8
  <1>11. /\ SourceName("flag") = "flag" /\ SourceName("env") = "env"
         /\ SourceName("older") = "env"
         /\ SourceName("config") = "config" /\ SourceName("local") = "config"
    BY DEF SourceName
  <1>12. i # 6 => \E layer \in Layers : given[layer] = r.value /\ SourceName(layer) = r.source
    BY <1>1, <1>2, <1>7, <1>8, <1>9, <1>10, <1>11 DEF Layers
  <1>13. i = 6 => detected # Unset /\ r.value = detected /\ r.source = "config"
    BY <1>1, <1>2, <1>3, <1>7, <1>8, <1>9
  <1> QED
    BY <1>12, <1>13 DEF r

\* Whatever the situation, status names the true source of every setting.
THEOREM SettingsNameTheirSource == Spec => []SourcesAreTrue
  <1>1. SourcesAreTrue
    <2> SUFFICES ASSUME NEW field \in Fields,
                        field \in {"runtime", "targetDir"} =>
                           \A layer \in Layers : Given(cmd.situation, field)[layer] # Empty,
                        Resolved(cmd.situation, Cloud(cmd.kind))[field].source
                           \in {"flag", "env", "config"}
                 PROVE  \/ \E layer \in Layers :
                              /\ Given(cmd.situation, field)[layer]
                                    = Resolved(cmd.situation, Cloud(cmd.kind))[field].value
                              /\ SourceName(layer)
                                    = Resolved(cmd.situation, Cloud(cmd.kind))[field].source
                        \/ /\ field = "runtime"
                           /\ Resolved(cmd.situation, Cloud(cmd.kind))[field].source = "config"
                           /\ Resolved(cmd.situation, Cloud(cmd.kind))[field].value
                                 = Detected(ConfigOf(cmd.situation), cmd.situation.nodeEnv)
      BY DEF SourcesAreTrue
    <2>1. PICK found : found = Detected(ConfigOf(cmd.situation), cmd.situation.nodeEnv)
      OBVIOUS
    <2>2. PICK given : given = Given(cmd.situation, field)
      OBVIOUS
    <2>3. PICK setting : setting = Resolved(cmd.situation, Cloud(cmd.kind))[field]
      OBVIOUS
    <2>4. found # Empty
      BY <2>1, LayersAssumption DEF Detected, Truthy, Falsy
    <2>5. CASE field = "runtime"
      <3>1. setting = Optional(given, found)
        BY <2>1, <2>2, <2>3, <2>5 DEF Resolved
      <3>2. (\A layer \in Layers : given[layer] # Empty)
               /\ setting.source \in {"flag", "env", "config"}
        BY <2>2, <2>3, <2>5
      <3>3. \/ \E layer \in Layers :
                  given[layer] = setting.value /\ SourceName(layer) = setting.source
            \/ setting.value = found /\ setting.source = "config"
        BY <2>4, <3>1, <3>2, OptionalSource
      <3> QED
        BY <2>1, <2>2, <2>3, <2>5, <3>3
    <2>6. CASE field = "targetDir"
      <3>1. setting = Optional(given, Unset)
        BY <2>2, <2>3, <2>6 DEF Resolved
      <3>2. (\A layer \in Layers : given[layer] # Empty)
               /\ setting.source \in {"flag", "env", "config"}
        BY <2>2, <2>3, <2>6
      <3>3. \E layer \in Layers : given[layer] = setting.value /\ SourceName(layer) = setting.source
        BY <3>1, <3>2, LayersAssumption, OptionalSource
      <3> QED
        BY <2>2, <2>3, <3>3
    <2>7. CASE field \notin {"runtime", "targetDir"}
      <3>1. \E default : setting = Required(field, given, default, Cloud(cmd.kind),
                                            cmd.situation.answer)
        BY <2>2, <2>3, <2>7 DEF Resolved
      <3>2. \E layer \in Layers : given[layer] = setting.value /\ SourceName(layer) = setting.source
        BY <2>3, <3>1, RequiredSource
      <3> QED
        BY <2>2, <2>3, <3>2
    <2> QED
      BY <2>5, <2>6, <2>7
  <1> QED
    BY <1>1, PTL

-----------------------------------------------------------------------------
(***************************************************************************)
(* The files of a runtime.                                                 *)
(***************************************************************************)

OwnFiles(paths, rt) == {p \in paths \ {DetailsFile} : Specific(p, rt) /\ p # <<<<rt>>>>}

CommonFiles(paths, rt, known) ==
    {p \in paths \ {DetailsFile} :
        \A other \in known \cup {rt} : ~InDirectoryOf(p, other) /\ ~NamedFor(p, other)}

\* A file belongs to the runtime when it is named for it or for none.
LEMMA BelongsSplits ==
    ASSUME NEW paths \in SUBSET Paths, NEW rt, NEW known, NEW p \in paths \ {DetailsFile}
    PROVE  /\ Belongs(p, rt, known) <=>
                 p \in OwnFiles(paths, rt) \/ p \in CommonFiles(paths, rt, known)
           /\ p \in CommonFiles(paths, rt, known) => ~Specific(p, rt) /\ RemotePath(p, rt) = p
           /\ p \in OwnFiles(paths, rt) <=> Specific(p, rt) /\ Belongs(p, rt, known)
  <1>1. p \in Seq(Seq(STRING)) /\ p # <<>>
    BY DEF Paths
  <1>2. Len(p) \in Nat /\ Len(p) # 0
    BY <1>1
  <1>3. InDirectoryOf(p, rt) => (p # <<<<rt>>>> <=> Len(p) > 1)
    <2>1. PICK name : name = <<rt>>
      OBVIOUS
    <2>2. p = <<name>> => Len(p) = 1
      OBVIOUS
    <2>3. Len(p) = 1 /\ p[1] = name => p = <<name>>
      BY <1>1
    <2>4. <<<<rt>>>> = <<name>>
      BY <2>1
    <2>5. InDirectoryOf(p, rt) <=> p[1] = name
      BY <2>1 DEF InDirectoryOf
    <2>6. PICK n \in Nat : n = Len(p)
      BY <1>2
    <2>7. n = 1 \/ n > 1
      BY <1>2, <2>6
    <2>8. ASSUME InDirectoryOf(p, rt) PROVE p # <<<<rt>>>> <=> Len(p) > 1
      <3>1. p # <<name>> => n > 1
        BY <2>3, <2>5, <2>6, <2>7, <2>8
      <3>2. n > 1 => p # <<name>>
        BY <2>2, <2>6
      <3> QED
        BY <2>4, <2>6, <3>1, <3>2
    <2> QED
      BY <2>8
  <1>4. p = <<<<rt>>>> => InDirectoryOf(p, rt)
    BY DEF InDirectoryOf
  <1>5. p \in CommonFiles(paths, rt, known) => ~InDirectoryOf(p, rt) /\ ~NamedFor(p, rt)
    BY DEF CommonFiles
  <1>6. p \in CommonFiles(paths, rt, known) => RemotePath(p, rt) = p
    BY <1>5 DEF RemotePath, NamedFor
  <1>7. Belongs(p, rt, known) <=>
            p \in OwnFiles(paths, rt) \/ p \in CommonFiles(paths, rt, known)
    BY <1>3, <1>4 DEF Belongs, OwnFiles, CommonFiles, Specific
  <1>8. p \in OwnFiles(paths, rt) => Specific(p, rt)
    BY DEF OwnFiles
  <1> QED
    BY <1>5, <1>6, <1>7, <1>8 DEF Specific

\* A file that belongs has a path on the server.
LEMMA RemoteIsPath ==
    ASSUME NEW p \in Paths, NEW rt, NEW known, Belongs(p, rt, known)
    PROVE  RemotePath(p, rt) \in Paths
  <1>1. p \in Seq(Seq(STRING)) /\ p # <<>> /\ p[1] \in Seq(STRING)
    BY DEF Paths
  <1>2. InDirectoryOf(p, rt) => Len(p) > 1
    BY DEF Belongs
  <1>3. Len(p) > 1 => Tail(p) \in Seq(Seq(STRING)) /\ Tail(p) # <<>>
    <2>1. ASSUME NEW S, NEW s \in Seq(S), Len(s) > 1
          PROVE  Tail(s) \in Seq(S) /\ Tail(s) # <<>>
      <3>1. s # <<>>
        BY <2>1
      <3>2. Tail(s) \in Seq(S) /\ Len(Tail(s)) = Len(s) - 1 /\ Len(s) \in Nat
        BY <3>1, HeadTailProperties
      <3>3. Len(Tail(s)) # 0
        BY <2>1, <3>2
      <3> QED
        BY <3>2, <3>3, EmptySeq
    <2> QED
      BY <1>1, <2>1
  <1>4. \A name \in Seq(STRING) : Len(name) > 1 =>
            Tail(name) \in Seq(STRING) /\ Front(name) \in Seq(STRING)
    BY DEF Front
  <1>5. \A name \in Seq(STRING) : <<name>> \in Paths
    BY DEF Paths
  <1>6. Len(p) = 1 /\ Starts(p[1], rt) => <<Tail(p[1])>> \in Paths
    BY <1>1, <1>4, <1>5 DEF Starts
  <1>7. Len(p) = 1 /\ EndsWith(p[1], rt) => <<Front(p[1])>> \in Paths
    BY <1>1, <1>4, <1>5 DEF EndsWith
  <1>8. InDirectoryOf(p, rt) => Tail(p) \in Paths
    BY <1>2, <1>3 DEF Paths
  <1> QED
    BY <1>6, <1>7, <1>8 DEF RemotePath

\* Which local file a push takes for each remote path.
LEMMA MapTakes ==
    ASSUME NEW paths \in SUBSET Paths, NEW rt, NEW known,
           NEW q \in DOMAIN RuntimeFileMap(paths, rt, known)
    PROVE  LET p == RuntimeFileMap(paths, rt, known)[q] IN
           /\ p \in paths \ {DetailsFile} /\ Belongs(p, rt, known) /\ RemotePath(p, rt) = q
           /\ Specific(p, rt) \/ \A x \in Candidates(paths, q, rt, known) : ~Specific(x, rt)
  <1> DEFINE found == Candidates(paths, q, rt, known)
             p == RuntimeFileMap(paths, rt, known)[q]
  <1>1. q \in {RemotePath(x, rt) : x \in {y \in paths \ {DetailsFile} : Belongs(y, rt, known)}}
    BY DEF RuntimeFileMap
  <1>2. found # {}
    BY <1>1 DEF Candidates
  <1>3. p = IF \E x \in found : Specific(x, rt) THEN CHOOSE x \in found : Specific(x, rt)
            ELSE CHOOSE x \in found : TRUE
    BY DEF RuntimeFileMap
  <1> HIDE DEF found, p
  <1>4. p \in found /\ (Specific(p, rt) \/ \A x \in found : ~Specific(x, rt))
    BY <1>2, <1>3
  <1> QED
    BY <1>4 DEF found, p, Candidates

\* The rules of the map: what it covers, and from which files.
Replaced(paths, rt) == {RemotePath(p, rt) : p \in OwnFiles(paths, rt)}

MapsByRules(paths, rt, known, map) ==
    /\ DOMAIN map = Replaced(paths, rt) \cup CommonFiles(paths, rt, known)
    /\ \A p \in OwnFiles(paths, rt) : map[RemotePath(p, rt)] = p
    /\ \A p \in CommonFiles(paths, rt, known) \ Replaced(paths, rt) : map[p] = p

LEMMA MapFollowsRules ==
    ASSUME NEW paths \in SUBSET Paths, NEW rt, NEW known, ~Collides(paths, rt, known)
    PROVE  MapsByRules(paths, rt, known, RuntimeFileMap(paths, rt, known))
  <1> DEFINE map == RuntimeFileMap(paths, rt, known)
             own == OwnFiles(paths, rt)
             common == CommonFiles(paths, rt, known)
             replaced == {RemotePath(p, rt) : p \in own}
             files == paths \ {DetailsFile}
  <1>1. DOMAIN map = {RemotePath(p, rt) : p \in {x \in files : Belongs(x, rt, known)}}
    BY DEF RuntimeFileMap
  <1>2. own \subseteq files /\ common \subseteq files
    BY DEF OwnFiles, CommonFiles
  <1>3. \A p \in files : Belongs(p, rt, known) <=> p \in own \/ p \in common
    BY BelongsSplits
  <1>4. \A p \in common : ~Specific(p, rt) /\ RemotePath(p, rt) = p
    BY <1>2, BelongsSplits
  <1>5. \A p \in files : p \in own <=> Specific(p, rt) /\ Belongs(p, rt, known)
    BY BelongsSplits
  <1>6. \A q \in DOMAIN map :
            /\ map[q] \in files /\ Belongs(map[q], rt, known) /\ RemotePath(map[q], rt) = q
            /\ Specific(map[q], rt) \/ \A x \in Candidates(paths, q, rt, known) : ~Specific(x, rt)
    BY MapTakes
  <1>7. \A q \in DOMAIN map, x \in files :
            Belongs(x, rt, known) /\ RemotePath(x, rt) = q => x \in Candidates(paths, q, rt, known)
    BY DEF Candidates
  <1> HIDE DEF map, own, common, files
  <1>8. DOMAIN map = replaced \cup common
    BY <1>1, <1>2, <1>3, <1>4
  <1>9. ASSUME NEW p \in own PROVE map[RemotePath(p, rt)] = p
    <2>1. PICK q : q = RemotePath(p, rt) /\ q \in DOMAIN map
      BY <1>8
    <2>2. Specific(p, rt) /\ Belongs(p, rt, known) /\ p \in files
      BY <1>2, <1>5
    <2>3. Specific(map[q], rt)
      BY <1>6, <1>7, <2>1, <2>2
    <2>4. map[q] = p
      BY <1>6, <2>1, <2>2, <2>3 DEF Collides, files
    <2> QED
      BY <2>1, <2>4
  <1>10. ASSUME NEW p \in common, p \notin replaced PROVE map[p] = p
    <2>1. p \in DOMAIN map
      BY <1>8
    <2>2. map[p] \notin own
      BY <1>6, <1>10, <2>1
    <2>3. map[p] \in common
      BY <1>3, <1>6, <2>1, <2>2
    <2> QED
      BY <1>4, <1>6, <2>1, <2>3
  <1> QED
    BY <1>8, <1>9, <1>10 DEF map, own, common, MapsByRules, Replaced

-----------------------------------------------------------------------------
(***************************************************************************)
(* The invariant holds initially, and each action keeps it.                *)
(***************************************************************************)

LEMMA DetailsIsPath == DetailsFile \in Paths
  BY ClientAssumption DEF Paths

LEMMA NothingIsTree == IsTree(<<>>) /\ DOMAIN <<>> = {}
  BY DEF IsTree

\* A tree g that is f with y at x.
With(f, x, y, g) ==
    /\ DOMAIN g = DOMAIN f \cup {x} /\ g[x] = y
    /\ \A z \in DOMAIN f : z # x => g[z] = f[z]

LEMMA PutFacts ==
    ASSUME NEW f, IsTree(f), NEW x \in Paths, NEW y
    PROVE  IsTree(Put(f, x, y)) /\ With(f, x, y, Put(f, x, y))
  BY DEF IsTree, Put, Paths, With

\* Two trees with the same files.
LEMMA SameTrees ==
    ASSUME NEW f, NEW g, IsTree(f), IsTree(g), DOMAIN f = DOMAIN g, \A p \in DOMAIN f : f[p] = g[p]
    PROVE  f = g
  BY DEF IsTree

LEMMA LocalPut ==
    ASSUME TreesInv, NEW dir \in Dirs, NEW x \in Paths, NEW y,
           local' = [local EXCEPT ![dir] = Put(@, x, y)], UNCHANGED remote
    PROVE  TreesInv' /\ local'[dir] = Put(local[dir], x, y)
  <1>1. IsTree(local[dir])
    BY DEF TreesInv
  <1>2. IsTree(Put(local[dir], x, y))
    BY <1>1, PutFacts
  <1>3. local'[dir] = Put(local[dir], x, y) /\ \A d \in Dirs : d # dir => local'[d] = local[d]
    BY DEF TreesInv
  <1>4. local' = [d \in Dirs |-> local'[d]]
    BY DEF TreesInv
  <1> QED
    BY <1>2, <1>3, <1>4 DEF TreesInv

LEMMA ClientInitially == Init => ClientInv
  <1> SUFFICES ASSUME Init PROVE ClientInv
    OBVIOUS
  <1>1. start \in DOMAIN Workspaces /\ cmd = None
    BY DEF Init
  <1>2. local = Workspaces[start].local /\ remote = Workspaces[start].remote
    BY DEF Init
  <1>3. TreesInv
    BY <1>1, <1>2, ClientAssumption DEF TreesInv
  <1> QED
    BY <1>1, <1>3 DEF ClientInv

\* What no step of a command changes of it.
Same(c, d) ==
    /\ d.kind = c.kind /\ d.dir = c.dir /\ d.out = c.out /\ d.situation = c.situation
    /\ d.runtime = c.runtime /\ d.known = c.known /\ d.before = c.before

LEMMA AskedKept ==
    ASSUME NEW c, NEW d, Asked(c), Same(c, d)
    PROVE  Asked(d)
  <1>1. [kind |-> d.kind, dir |-> d.dir, out |-> d.out, situation |-> d.situation]
           = [kind |-> c.kind, dir |-> c.dir, out |-> c.out, situation |-> c.situation]
    BY DEF Same
  <1> QED
    BY <1>1 DEF Asked, Same

LEMMA AskedPushes ==
    ASSUME NEW c, Asked(c), c.kind = "push"
    PROVE  c.runtime \in Runtimes
  BY DEF Asked, IsCommand, Cloud

\* The end of a command, as it is seen in what it was asked for.
LEMMA EndFacts ==
    ASSUME IsCmd(cmd), NEW outcome, End(outcome)
    PROVE  /\ IsCmd(cmd') /\ Same(cmd, cmd') /\ cmd'.phase = "done" /\ cmd'.outcome = outcome
           /\ cmd'.quiet = cmd.quiet /\ cmd'.made = cmd.made /\ cmd'.todo = cmd.todo
  BY DEF IsCmd, End, Same

\* A command that only asks is of no kind that the invariant knows more of.
LEMMA AskingStep ==
    ASSUME ClientInv, cmd # None, cmd.kind \notin {"pull", "exec", "push", "init"},
           NEW outcome, End(outcome), UNCHANGED <<start, local, remote>>
    PROVE  ClientInv'
  <1>1. CmdInv(cmd) /\ TreesInv
    BY DEF ClientInv
  <1>2. /\ IsCmd(cmd') /\ Same(cmd, cmd') /\ cmd'.phase = "done" /\ cmd'.made = cmd.made
    BY <1>1, EndFacts DEF CmdInv
  <1>3. Asked(cmd')
    BY <1>1, <1>2, AskedKept DEF CmdInv
  <1>4. Phased(cmd') /\ FilesTyped(cmd')
    BY <1>1, <1>2 DEF Phased, FilesTyped, CmdInv
  <1>5. cmd'.kind \notin {"pull", "exec", "push", "init"}
    BY <1>2 DEF Same
  <1>6. CmdInv(cmd)'
    BY <1>2, <1>3, <1>4, <1>5 DEF CmdInv
  <1>7. TreesInv'
    BY <1>1 DEF TreesInv
  <1> QED
    BY <1>6, <1>7 DEF ClientInv

\* A command begins with settings, or ends at once.
LEMMA BeginStep ==
    ASSUME ClientInv, Begin
    PROVE  ClientInv'
  <1>1. PICK c \in Workspaces[start].commands :
          LET r == Resolved(c.situation, Cloud(c.kind))
              ok == Accepted(c)
          IN  cmd' = [kind |-> c.kind, dir |-> c.dir, out |-> c.out, situation |-> c.situation,
                      runtime |-> r["runtime"].value,
                      known |-> KnownRuntimes(ConfigOf(c.situation), r["runtime"].value),
                      phase |-> IF ok THEN FirstPhase(c.kind) ELSE "done",
                      outcome |-> IF ok THEN "pending"
                                  ELSE IF KeepsConfig(c) THEN "exists" ELSE "misconfigured",
                      todo |-> {}, made |-> <<>>, head |-> 0, quiet |-> TRUE,
                      before |-> DOMAIN local[c.out]]
    BY DEF Begin
  <1>2. start \in DOMAIN Workspaces /\ TreesInv /\ UNCHANGED <<start, local, remote, written>>
    BY DEF ClientInv, Begin, server
  <1>3. IsCommand(c)
    BY <1>2, ClientAssumption
  <1>4. IsCmd(cmd')
    BY <1>1 DEF IsCmd
  <1>5. /\ cmd'.kind = c.kind /\ cmd'.dir = c.dir /\ cmd'.out = c.out
        /\ cmd'.situation = c.situation
        /\ cmd'.runtime = Resolved(c.situation, Cloud(c.kind))["runtime"].value
        /\ cmd'.known = KnownRuntimes(ConfigOf(c.situation), cmd'.runtime)
        /\ cmd'.todo = {} /\ cmd'.made = <<>> /\ cmd'.before = DOMAIN local[c.out]
    BY <1>1
  <1>6. /\ Accepted(c) => cmd'.phase = FirstPhase(c.kind) /\ cmd'.outcome = "pending"
        /\ ~Accepted(c) => cmd'.phase = "done" /\ cmd'.outcome \in {"exists", "misconfigured"}
    BY <1>1
  <1>7. Asked(cmd')
    <2>1. c.kind \in CommandKinds /\ c.dir \in Dirs /\ c.out \in Dirs
      BY <1>3 DEF IsCommand
    <2>2. PICK d : d = [kind |-> cmd'.kind, dir |-> cmd'.dir, out |-> cmd'.out,
                        situation |-> cmd'.situation]
      OBVIOUS
    <2>3. d.kind = c.kind /\ d.dir = c.dir /\ d.out = c.out /\ d.situation = c.situation
      BY <1>5, <2>2
    <2>4. IsCommand(d)
      BY <1>3, <2>3 DEF IsCommand
    <2> QED
      BY <1>5, <2>1, <2>2, <2>4 DEF Asked
  <1>8. Phased(cmd')
    BY <1>5, <1>6 DEF Phased, FirstPhase
  <1>9. FilesTyped(cmd')
    BY <1>5, NothingIsTree DEF FilesTyped
  <1>10. cmd'.kind \in {"pull", "exec"} => Pulling(cmd)'
    BY <1>2, <1>5, <1>6 DEF Pulling, FirstPhase
  <1>11. cmd'.kind = "push" => Pushing(cmd)'
    <2>1. cmd'.kind = "push" => cmd'.runtime \in Runtimes
      BY <1>7, AskedPushes
    <2> QED
      BY <1>5, <1>6, <2>1 DEF Pushing, FirstPhase
  <1>12. cmd'.kind = "init" => Initing(cmd)'
    BY <1>5, <1>6 DEF Initing, FirstPhase, Accepted, Cloud
  <1>13. TreesInv'
    BY <1>2 DEF TreesInv
  <1> QED
    BY <1>2, <1>4, <1>7, <1>8, <1>9, <1>10, <1>11, <1>12, <1>13 DEF ClientInv, CmdInv

\* What is fetched are the files of heads.
LEMMA ResolveStep ==
    ASSUME ClientInv, ResolveFiles
    PROVE  ClientInv'
  <1>1. /\ CmdInv(cmd) /\ TreesInv /\ cmd # None
        /\ UNCHANGED <<start, local, remote, written>>
    BY DEF ClientInv, ResolveFiles, Running, server, bounds
  <1>2. cmd.phase = "resolve" /\ cmd.kind \in {"pull", "sync", "exec"}
    BY DEF ResolveFiles, Running
  <1>3. /\ IsCmd(cmd') /\ Same(cmd, cmd') /\ cmd'.phase = "files" /\ cmd'.made = cmd.made
        /\ cmd'.quiet = cmd.quiet /\ cmd'.outcome = cmd.outcome
        /\ cmd'.todo = IF cmd.kind = "sync" THEN SyncedFiles ELSE PulledFiles
    BY <1>1 DEF ResolveFiles, IsCmd, CmdInv, Same
  <1>4. \A rt \in Runtimes : DOMAIN remote[rt] \subseteq Paths
    BY <1>1 DEF TreesInv, IsTree, Paths
  <1>5. \A f \in PulledFiles :
            /\ f.rt = cmd.runtime /\ f.rt \in Runtimes
            /\ f.path \in DOMAIN remote[cmd.runtime] /\ f.to = f.path
    <2>1. \A p \in Paths : <<>> \o p = p
      BY DEF Paths
    <2> QED
      BY <1>4, <2>1 DEF PulledFiles, Fetches
  <1>6. \A f \in SyncedFiles : f.rt \in Runtimes /\ f.path \in Paths /\ f.to \in Paths
    <2>1. \A rt \in Runtimes : <<<<rt>>>> \in Seq(Seq(STRING))
      BY ClientAssumption
    <2>2. \A s, t \in Seq(Seq(STRING)) : t # <<>> => s \o t \in Seq(Seq(STRING)) /\ s \o t # <<>>
      BY ConcatProperties, ConcatEmptySeq, EmptySeq
    <2>3. \A rt \in Runtimes, p \in Paths : <<<<rt>>>> \o p \in Paths
      BY <2>1, <2>2 DEF Paths
    <2>4. \A rt \in Runtimes : \A f \in Fetches(rt, <<<<rt>>>>) :
              f.rt \in Runtimes /\ f.path \in Paths /\ f.to \in Paths
      <3> SUFFICES ASSUME NEW rt \in Runtimes, NEW f \in Fetches(rt, <<<<rt>>>>)
                   PROVE  f.rt \in Runtimes /\ f.path \in Paths /\ f.to \in Paths
        OBVIOUS
      <3>1. PICK prefix : prefix = <<<<rt>>>>
        OBVIOUS
      <3>2. PICK p \in DOMAIN remote[rt] : f = [rt |-> rt, path |-> p, to |-> prefix \o p]
        BY <3>1 DEF Fetches
      <3>3. p \in Paths /\ prefix \o p \in Paths
        BY <1>4, <2>3, <3>1
      <3> QED
        BY <3>2, <3>3
    <2> QED
      BY <2>4 DEF SyncedFiles
  <1>7. Asked(cmd') /\ Phased(cmd')
    BY <1>1, <1>2, <1>3, AskedKept DEF CmdInv, Phased, Same
  <1>8. FilesTyped(cmd')
    BY <1>1, <1>3, <1>4, <1>5, <1>6 DEF FilesTyped, CmdInv
  <1>9. cmd.runtime \in Runtimes => {f.path : f \in PulledFiles} = DOMAIN remote[cmd.runtime]
    <2>1. ASSUME cmd.runtime \in Runtimes, NEW p \in DOMAIN remote[cmd.runtime]
          PROVE  \E f \in PulledFiles : f.path = p
      <3>1. [rt |-> cmd.runtime, path |-> p, to |-> <<>> \o p] \in PulledFiles
        BY <2>1 DEF PulledFiles, Fetches
      <3> QED
        BY <3>1
    <2> QED
      BY <1>5, <2>1
  <1>10. cmd'.kind \in {"pull", "exec"} /\ cmd'.quiet => Pulling(cmd)'
    <2> SUFFICES ASSUME cmd'.kind \in {"pull", "exec"}, cmd'.quiet PROVE Pulling(cmd)'
      OBVIOUS
    <2>1. cmd.made = <<>> /\ cmd.before = DOMAIN local[cmd.out]
      BY <1>1, <1>2, <1>3 DEF Same, CmdInv, Pulling
    <2>2. cmd'.todo = PulledFiles /\ cmd'.made = <<>> /\ cmd'.before = DOMAIN local'[cmd'.out]
             /\ cmd'.runtime = cmd.runtime
      BY <1>1, <1>3, <2>1 DEF Same
    <2> QED
      BY <1>1, <1>3, <1>5, <1>9, <2>2, NothingIsTree DEF Pulling, Agrees
  <1>11. cmd'.kind \notin {"push", "init"}
    BY <1>2, <1>3 DEF Same
  <1>12. TreesInv'
    BY <1>1 DEF TreesInv
  <1> QED
    BY <1>1, <1>3, <1>7, <1>8, <1>10, <1>11, <1>12 DEF ClientInv, CmdInv

\* A file that was fetched is in the directory, and made.
LEMMA FetchStep ==
    ASSUME ClientInv, FetchFile
    PROVE  ClientInv'
  <1>1. /\ CmdInv(cmd) /\ TreesInv /\ cmd # None
        /\ UNCHANGED <<start, remote, written>>
    BY DEF ClientInv, FetchFile, Running, server, bounds
  <1>2. cmd.phase = "files" /\ cmd.kind \in {"pull", "sync", "exec"}
    BY DEF FetchFile, Running
  <1>3. PICK f \in cmd.todo :
           IF f.path \in DOMAIN remote[f.rt]
           THEN /\ local' = [local EXCEPT ![cmd.out] = Put(@, f.to, remote[f.rt][f.path])]
                /\ cmd' = [cmd EXCEPT !.todo = @ \ {f},
                                      !.made = Put(@, f.to, remote[f.rt][f.path])]
           ELSE End("missing") /\ UNCHANGED local
    BY DEF FetchFile
  <1>4. f.to \in Paths /\ f.rt \in Runtimes /\ f.path \in Paths /\ IsTree(cmd.made)
    BY <1>1, <1>2 DEF CmdInv, FilesTyped
  <1>5. cmd.out \in Dirs /\ IsCmd(cmd)
    BY <1>1 DEF CmdInv, Asked
  <1>6. CASE f.path \in DOMAIN remote[f.rt]
    <2>1. PICK body : body = remote[f.rt][f.path]
      OBVIOUS
    <2>2. /\ local' = [local EXCEPT ![cmd.out] = Put(@, f.to, body)]
          /\ cmd' = [cmd EXCEPT !.todo = @ \ {f}, !.made = Put(@, f.to, body)]
      BY <1>3, <1>6, <2>1
    <2>3. TreesInv' /\ local'[cmd.out] = Put(local[cmd.out], f.to, body)
      BY <1>1, <1>4, <1>5, <2>2, LocalPut
    <2>4. /\ IsCmd(cmd') /\ Same(cmd, cmd') /\ cmd'.phase = "files"
          /\ cmd'.made = Put(cmd.made, f.to, body) /\ cmd'.todo = cmd.todo \ {f}
          /\ cmd'.quiet = cmd.quiet /\ cmd'.outcome = cmd.outcome
      BY <1>2, <1>5, <2>2 DEF IsCmd, Same
    <2>5. IsTree(cmd'.made) /\ With(cmd.made, f.to, body, cmd'.made)
      BY <1>4, <2>4, PutFacts
    <2>6. IsTree(local[cmd.out])
      BY <1>1, <1>5 DEF TreesInv
    <2>7. With(local[cmd.out], f.to, body, local'[cmd.out])
      BY <1>4, <2>3, <2>6, PutFacts
    <2>8. Asked(cmd') /\ Phased(cmd')
      BY <1>1, <1>2, <2>4, AskedKept DEF CmdInv, Phased, Same
    <2>9. FilesTyped(cmd')
      BY <1>1, <1>2, <2>4, <2>5 DEF FilesTyped, CmdInv, Same
    <2>10. cmd'.kind \in {"pull", "exec"} /\ cmd'.quiet => Pulling(cmd)'
      <3> SUFFICES ASSUME cmd'.kind \in {"pull", "exec"}, cmd'.quiet PROVE Pulling(cmd)'
        OBVIOUS
      <3>1. Pulling(cmd)
        BY <1>1, <2>4 DEF CmdInv, Same
      <3>2. f.rt = cmd.runtime /\ f.to = f.path
        BY <1>2, <3>1 DEF Pulling
      <3>3. \A g \in cmd'.todo : g.rt = cmd'.runtime /\ g.to = g.path
        BY <1>2, <2>4, <3>1 DEF Pulling, Same
      <3>4. /\ DOMAIN remote[cmd.runtime] = DOMAIN cmd.made \cup {g.path : g \in cmd.todo}
            /\ Agrees(cmd.made, remote[cmd.runtime])
        BY <1>2, <1>4, <3>1, <3>2 DEF Pulling
      <3>5. DOMAIN remote[cmd.runtime] = DOMAIN cmd'.made \cup {g.path : g \in cmd'.todo}
        BY <2>4, <2>5, <3>2, <3>4 DEF With
      <3>6. Agrees(cmd'.made, remote[cmd.runtime])
        BY <2>1, <2>5, <3>2, <3>4 DEF Agrees, With
      <3>7. Agrees(cmd.made, local[cmd.out]) /\ DOMAIN local[cmd.out] = cmd.before \cup DOMAIN cmd.made
        BY <1>2, <3>1 DEF Pulling
      <3>8. Agrees(cmd'.made, local'[cmd.out])
        BY <2>5, <2>7, <3>7 DEF Agrees, With
      <3>9. DOMAIN local'[cmd.out] = cmd.before \cup DOMAIN cmd'.made
        BY <2>5, <2>7, <3>7 DEF With
      <3> QED
        BY <1>1, <2>4, <3>3, <3>5, <3>6, <3>8, <3>9 DEF Pulling, Same
    <2>11. cmd'.kind \notin {"push", "init"}
      BY <1>2, <2>4 DEF Same
    <2> QED
      BY <1>1, <2>3, <2>4, <2>8, <2>9, <2>10, <2>11 DEF ClientInv, CmdInv
  <1>7. CASE f.path \notin DOMAIN remote[f.rt]
    <2>1. End("missing") /\ UNCHANGED local
      BY <1>3, <1>7
    <2>2. /\ IsCmd(cmd') /\ Same(cmd, cmd') /\ cmd'.phase = "done" /\ cmd'.outcome = "missing"
          /\ cmd'.made = cmd.made
      BY <1>5, <2>1, EndFacts
    <2>3. Asked(cmd') /\ Phased(cmd') /\ FilesTyped(cmd')
      BY <1>1, <1>4, <2>2, AskedKept DEF CmdInv, Phased, FilesTyped
    <2>4. cmd'.kind \notin {"push", "init"}
      BY <1>2, <2>2 DEF Same
    <2>5. Pulling(cmd)'
      BY <2>2 DEF Pulling
    <2>6. TreesInv'
      BY <1>1, <2>1 DEF TreesInv
    <2> QED
      BY <1>1, <2>2, <2>3, <2>4, <2>5, <2>6 DEF ClientInv, CmdInv
  <1> QED
    BY <1>6, <1>7

\* The details come last, beside the files.
LEMMA DetailsStep ==
    ASSUME ClientInv, WriteDetails
    PROVE  ClientInv'
  <1>1. /\ CmdInv(cmd) /\ TreesInv /\ cmd # None
        /\ UNCHANGED <<start, remote, written>>
    BY DEF ClientInv, WriteDetails, server, bounds
  <1>2. /\ cmd.phase = "files" /\ cmd.todo = {}
        /\ local' = [local EXCEPT ![cmd.out] = Put(@, DetailsFile, DetailsText)]
    BY DEF WriteDetails
  <1>3. cmd.out \in Dirs /\ IsCmd(cmd) /\ cmd.kind \in {"pull", "sync", "exec", "stage"}
    BY <1>1, <1>2 DEF CmdInv, Asked, Phased
  <1>4. TreesInv' /\ local'[cmd.out] = Put(local[cmd.out], DetailsFile, DetailsText)
    BY <1>1, <1>2, <1>3, DetailsIsPath, LocalPut
  <1>5. /\ IsCmd(cmd') /\ Same(cmd, cmd') /\ cmd'.made = cmd.made /\ cmd'.todo = cmd.todo
        /\ cmd'.quiet = cmd.quiet
        /\ \/ cmd'.phase = "child" /\ cmd'.outcome = cmd.outcome /\ cmd.kind = "exec"
           \/ cmd'.phase = "done" /\ cmd'.outcome = "ok" /\ cmd.kind # "exec"
    <2>1. CASE cmd.kind = "exec"
      <3>1. cmd' = [cmd EXCEPT !.phase = "child"]
        BY <2>1 DEF WriteDetails
      <3> QED
        BY <1>3, <2>1, <3>1 DEF IsCmd, Same
    <2>2. CASE cmd.kind # "exec"
      <3>1. End("ok")
        BY <2>2 DEF WriteDetails
      <3> QED
        BY <1>3, <2>2, <3>1, EndFacts
    <2> QED
      BY <2>1, <2>2
  <1>6. Asked(cmd') /\ Phased(cmd') /\ FilesTyped(cmd')
    BY <1>1, <1>2, <1>5, AskedKept DEF CmdInv, Phased, FilesTyped, Same
  <1>7. cmd'.kind \in {"pull", "exec"} /\ cmd'.quiet => Pulling(cmd)'
    <2> SUFFICES ASSUME cmd'.kind \in {"pull", "exec"}, cmd'.quiet PROVE Pulling(cmd)'
      OBVIOUS
    <2>1. Pulling(cmd)
      BY <1>1, <1>5 DEF CmdInv, Same
    <2>2. IsTree(local[cmd.out]) /\ IsTree(cmd.made)
      BY <1>1, <1>3 DEF TreesInv, CmdInv, FilesTyped
    <2>3. With(local[cmd.out], DetailsFile, DetailsText, local'[cmd.out])
      BY <1>4, <2>2, DetailsIsPath, PutFacts
    <2>4. /\ Agrees(cmd.made, local[cmd.out])
          /\ DOMAIN local[cmd.out] = cmd.before \cup DOMAIN cmd.made
      BY <1>2, <2>1 DEF Pulling
    <2>5. cmd.runtime \in Runtimes => cmd.made = remote[cmd.runtime]
      <3> SUFFICES ASSUME cmd.runtime \in Runtimes PROVE cmd.made = remote[cmd.runtime]
        OBVIOUS
      <3>1. DOMAIN remote[cmd.runtime] = DOMAIN cmd.made /\ Agrees(cmd.made, remote[cmd.runtime])
        BY <1>2, <2>1 DEF Pulling
      <3>2. IsTree(remote[cmd.runtime])
        BY <1>1 DEF TreesInv
      <3> QED
        BY <2>2, <3>1, <3>2, SameTrees DEF Agrees
    <2>6. \A p \in DOMAIN cmd.made \ {DetailsFile} : local'[cmd.out][p] = cmd.made[p]
      BY <2>3, <2>4 DEF Agrees, With
    <2>7. DOMAIN local'[cmd.out] = cmd.before \cup DOMAIN cmd.made \cup {DetailsFile}
      BY <2>3, <2>4 DEF With
    <2> QED
      BY <1>1, <1>5, <2>5, <2>6, <2>7 DEF Pulling, Same
  <1>8. cmd'.kind \notin {"push", "init"}
    BY <1>3, <1>5 DEF Same
  <1> QED
    BY <1>1, <1>4, <1>5, <1>6, <1>7, <1>8 DEF ClientInv, CmdInv

LEMMA ChildStep ==
    ASSUME ClientInv, ChildExits
    PROVE  ClientInv'
  <1>1. /\ CmdInv(cmd) /\ TreesInv /\ cmd # None /\ cmd.phase = "child" /\ cmd.kind = "exec"
        /\ UNCHANGED <<start, local, remote, written>> /\ End("ok")
    BY DEF ClientInv, ChildExits, Running, server, bounds
  <1>2. /\ IsCmd(cmd') /\ Same(cmd, cmd') /\ cmd'.phase = "done" /\ cmd'.outcome = "ok"
        /\ cmd'.quiet = cmd.quiet /\ cmd'.made = cmd.made
    BY <1>1, EndFacts DEF CmdInv
  <1>3. Asked(cmd') /\ Phased(cmd') /\ FilesTyped(cmd')
    BY <1>1, <1>2, AskedKept DEF CmdInv, Phased, FilesTyped
  <1>4. cmd'.quiet => Pulling(cmd)'
    BY <1>1, <1>2 DEF CmdInv, Pulling, Same
  <1>5. cmd'.kind \notin {"push", "init"} /\ TreesInv'
    BY <1>1, <1>2 DEF Same, TreesInv
  <1> QED
    BY <1>1, <1>2, <1>3, <1>4, <1>5 DEF ClientInv, CmdInv

\* The list of a push is that of its directory.
LEMMA ListStep ==
    ASSUME ClientInv, ListFiles
    PROVE  ClientInv'
  <1>1. /\ CmdInv(cmd) /\ TreesInv /\ cmd # None
        /\ cmd.phase = "list" /\ cmd.kind \in {"push", "stage"}
        /\ UNCHANGED <<start, local, remote, written>>
    BY DEF ClientInv, ListFiles, Running, server, bounds
  <1>2. PICK map : map = FileMap(cmd)
    OBVIOUS
  <1>3. \/ End("collision")
        \/ End("nothing")
        \/ /\ ~Collides(DOMAIN local[cmd.dir], cmd.runtime, cmd.known)
           /\ cmd' = [cmd EXCEPT !.phase = IF cmd.kind = "push" THEN "head" ELSE "files",
                                 !.todo = {[from |-> map[p], to |-> p] : p \in DOMAIN map}]
    BY <1>2 DEF ListFiles, FileMap
  <1>4. cmd.dir \in Dirs /\ IsCmd(cmd) /\ IsTree(cmd.made) /\ Asked(cmd)
    BY <1>1 DEF CmdInv, Asked, FilesTyped
  <1>5. DOMAIN map \subseteq Paths
    <2>1. DOMAIN local[cmd.dir] \subseteq Paths
      BY <1>1, <1>4 DEF TreesInv, IsTree, Paths
    <2>2. \A q \in DOMAIN map :
              /\ map[q] \in DOMAIN local[cmd.dir] /\ Belongs(map[q], cmd.runtime, cmd.known)
              /\ RemotePath(map[q], cmd.runtime) = q
      BY <1>2, <2>1, MapTakes DEF FileMap
    <2> QED
      BY <2>1, <2>2, RemoteIsPath
  <1>6. TreesInv'
    BY <1>1 DEF TreesInv
  <1>7. ASSUME NEW outcome \in {"collision", "nothing"}, End(outcome)
        PROVE  ClientInv'
    <2>1. /\ IsCmd(cmd') /\ Same(cmd, cmd') /\ cmd'.phase = "done" /\ cmd'.outcome = outcome
          /\ cmd'.made = cmd.made
      BY <1>4, <1>7, EndFacts
    <2>2. Asked(cmd') /\ Phased(cmd') /\ FilesTyped(cmd')
      BY <1>4, <2>1, AskedKept DEF Phased, FilesTyped
    <2>3. cmd'.kind \notin {"pull", "exec", "init"}
      BY <1>1, <2>1 DEF Same
    <2>4. cmd'.kind = "push" => Pushing(cmd)'
      BY <1>7, <2>1, <2>2, AskedPushes DEF Pushing
    <2> QED
      BY <1>1, <1>6, <2>1, <2>2, <2>3, <2>4 DEF ClientInv, CmdInv
  <1>8. ASSUME ~Collides(DOMAIN local[cmd.dir], cmd.runtime, cmd.known),
               cmd' = [cmd EXCEPT !.phase = IF cmd.kind = "push" THEN "head" ELSE "files",
                                  !.todo = {[from |-> map[p], to |-> p] : p \in DOMAIN map}]
        PROVE  ClientInv'
    <2>1. /\ IsCmd(cmd') /\ Same(cmd, cmd')
          /\ cmd'.phase = (IF cmd.kind = "push" THEN "head" ELSE "files")
          /\ cmd'.todo = {[from |-> map[p], to |-> p] : p \in DOMAIN map}
          /\ cmd'.made = cmd.made /\ cmd'.outcome = cmd.outcome /\ cmd'.quiet = cmd.quiet
      BY <1>4, <1>8 DEF IsCmd, Same
    <2>2. \A f \in cmd'.todo : f.to \in DOMAIN map /\ f.from = map[f.to]
      BY <2>1
    <2>3. {f.to : f \in cmd'.todo} = DOMAIN map
      <3>1. \A p \in DOMAIN map : [from |-> map[p], to |-> p].to = p
        OBVIOUS
      <3> QED
        BY <2>1, <3>1
    <2>4. Asked(cmd')
      BY <1>4, <2>1, AskedKept
    <2>5. Phased(cmd') /\ FilesTyped(cmd')
      BY <1>1, <1>4, <1>5, <2>1, <2>2 DEF Phased, FilesTyped, Same, CmdInv
    <2>6. cmd'.kind = "push" /\ cmd'.quiet => Pushing(cmd)'
      <3> SUFFICES ASSUME cmd'.kind = "push", cmd'.quiet PROVE Pushing(cmd)'
        OBVIOUS
      <3>1. cmd.made = <<>>
        BY <1>1, <2>1 DEF CmdInv, Pushing, Same
      <3>2. FileMap(cmd)' = map
        BY <1>1, <1>2, <2>1 DEF FileMap, Same
      <3>3. cmd'.runtime \in Runtimes
        BY <2>4, AskedPushes
      <3>4. ~Collides(DOMAIN local'[cmd'.dir], cmd'.runtime, cmd'.known)
        BY <1>1, <1>8, <2>1 DEF Same
      <3>5. cmd'.phase = "head"
        BY <2>1 DEF Same
      <3> QED
        BY <2>1, <2>2, <2>3, <3>1, <3>2, <3>3, <3>4, <3>5, NothingIsTree DEF Pushing, Reads
    <2>7. cmd'.kind \notin {"pull", "exec", "init"}
      BY <1>1, <2>1 DEF Same
    <2> QED
      BY <1>1, <1>6, <2>1, <2>4, <2>5, <2>6, <2>7 DEF ClientInv, CmdInv
  <1> QED
    BY <1>3, <1>7, <1>8

LEMMA StageStep ==
    ASSUME ClientInv, StageFile
    PROVE  ClientInv'
  <1>1. /\ CmdInv(cmd) /\ TreesInv /\ cmd # None /\ cmd.phase = "files" /\ cmd.kind = "stage"
        /\ UNCHANGED <<start, remote, written>>
    BY DEF ClientInv, StageFile, Running, server, bounds
  <1>2. PICK f \in cmd.todo :
           LET body == local[cmd.dir][f.from] IN
           /\ local' = [local EXCEPT ![cmd.out] = Put(@, f.to, body)]
           /\ cmd' = [cmd EXCEPT !.todo = @ \ {f}, !.made = Put(@, f.to, body)]
    BY DEF StageFile
  <1>3. PICK body : body = local[cmd.dir][f.from]
    OBVIOUS
  <1>4. f.to \in Paths /\ IsTree(cmd.made) /\ cmd.out \in Dirs /\ IsCmd(cmd)
    BY <1>1 DEF CmdInv, FilesTyped, Asked
  <1>5. TreesInv'
    BY <1>1, <1>2, <1>4, LocalPut
  <1>6. /\ IsCmd(cmd') /\ Same(cmd, cmd') /\ cmd'.phase = "files"
        /\ cmd'.made = Put(cmd.made, f.to, body) /\ cmd'.todo = cmd.todo \ {f}
        /\ cmd'.outcome = cmd.outcome
    BY <1>1, <1>2, <1>3, <1>4 DEF IsCmd, Same
  <1>7. IsTree(cmd'.made)
    BY <1>4, <1>6, PutFacts
  <1>8. Asked(cmd') /\ Phased(cmd') /\ FilesTyped(cmd')
    BY <1>1, <1>6, <1>7, AskedKept DEF CmdInv, Phased, FilesTyped, Same
  <1>9. cmd'.kind \notin {"pull", "exec", "push", "init"}
    BY <1>1, <1>6 DEF Same
  <1> QED
    BY <1>1, <1>5, <1>6, <1>8, <1>9 DEF ClientInv, CmdInv

LEMMA HeadStep ==
    ASSUME ClientInv, RuntimeHead
    PROVE  ClientInv'
  <1>1. /\ CmdInv(cmd) /\ TreesInv /\ cmd # None /\ cmd.phase = "head" /\ cmd.kind = "push"
        /\ UNCHANGED <<start, local, remote, written>>
    BY DEF ClientInv, RuntimeHead, Running, server, bounds
  <1>2. /\ IsCmd(cmd') /\ Same(cmd, cmd') /\ cmd'.phase = "objects"
        /\ cmd'.made = cmd.made /\ cmd'.todo = cmd.todo /\ cmd'.quiet = cmd.quiet
        /\ cmd'.outcome = cmd.outcome
    BY <1>1 DEF RuntimeHead, IsCmd, CmdInv, Same
  <1>3. Asked(cmd') /\ Phased(cmd') /\ FilesTyped(cmd')
    BY <1>1, <1>2, AskedKept DEF CmdInv, Phased, FilesTyped, Same
  <1>4. FileMap(cmd)' = FileMap(cmd)
    BY <1>1, <1>2 DEF FileMap, Same
  <1>5. cmd'.quiet => Pushing(cmd)'
    BY <1>1, <1>2, <1>4 DEF CmdInv, Pushing, Reads, Same
  <1>6. cmd'.kind \notin {"pull", "exec", "init"} /\ TreesInv'
    BY <1>1, <1>2 DEF Same, TreesInv
  <1> QED
    BY <1>1, <1>2, <1>3, <1>5, <1>6 DEF ClientInv, CmdInv

\* What is made is what was read, of a directory that nobody has changed.
LEMMA ObjectStep ==
    ASSUME ClientInv, PutObject
    PROVE  ClientInv'
  <1>1. /\ CmdInv(cmd) /\ TreesInv /\ cmd # None /\ cmd.phase = "objects" /\ cmd.kind = "push"
        /\ UNCHANGED <<start, local, remote, written>>
    BY DEF ClientInv, PutObject, Running, server, bounds
  <1>2. PICK f \in cmd.todo :
           cmd' = [cmd EXCEPT !.todo = @ \ {f}, !.made = Put(@, f.to, local[cmd.dir][f.from])]
    BY DEF PutObject
  <1>3. PICK body : body = local[cmd.dir][f.from]
    OBVIOUS
  <1>4. f.to \in Paths /\ IsTree(cmd.made) /\ IsCmd(cmd)
    BY <1>1 DEF CmdInv, FilesTyped
  <1>5. /\ IsCmd(cmd') /\ Same(cmd, cmd') /\ cmd'.phase = "objects"
        /\ cmd'.made = Put(cmd.made, f.to, body) /\ cmd'.todo = cmd.todo \ {f}
        /\ cmd'.outcome = cmd.outcome /\ cmd'.quiet = cmd.quiet
    BY <1>1, <1>2, <1>3, <1>4 DEF IsCmd, Same
  <1>6. IsTree(cmd'.made) /\ With(cmd.made, f.to, body, cmd'.made)
    BY <1>4, <1>5, PutFacts
  <1>7. Asked(cmd') /\ Phased(cmd') /\ FilesTyped(cmd')
    BY <1>1, <1>5, <1>6, AskedKept DEF CmdInv, Phased, FilesTyped, Same
  <1>8. PICK map : map = FileMap(cmd)
    OBVIOUS
  <1>9. FileMap(cmd)' = map
    BY <1>1, <1>5, <1>8 DEF FileMap, Same
  <1>10. cmd'.quiet => Pushing(cmd)'
    <2> SUFFICES ASSUME cmd'.quiet PROVE Pushing(cmd)'
      OBVIOUS
    <2>1. Pushing(cmd)
      BY <1>1, <1>5 DEF CmdInv
    <2>2. /\ \A g \in cmd.todo : g.from = map[g.to]
          /\ DOMAIN map = DOMAIN cmd.made \cup {g.to : g \in cmd.todo}
          /\ \A p \in DOMAIN cmd.made : cmd.made[p] = local[cmd.dir][map[p]]
      BY <1>1, <1>8, <2>1 DEF Pushing, Reads
    <2>3. DOMAIN map = DOMAIN cmd'.made \cup {g.to : g \in cmd'.todo}
      BY <1>5, <1>6, <2>2 DEF With
    <2>4. \A p \in DOMAIN cmd'.made : cmd'.made[p] = local[cmd.dir][map[p]]
      BY <1>3, <1>6, <2>2 DEF With
    <2>5. \A g \in cmd'.todo : g.from = map[g.to]
      BY <1>5, <2>2
    <2> QED
      BY <1>1, <1>5, <1>9, <2>1, <2>3, <2>4, <2>5 DEF Pushing, Reads, Same
  <1>11. cmd'.kind \notin {"pull", "exec", "init"} /\ TreesInv'
    BY <1>1, <1>5 DEF Same, TreesInv
  <1> QED
    BY <1>1, <1>5, <1>7, <1>10, <1>11 DEF ClientInv, CmdInv

\* The head after a push is what the push has made.
LEMMA CommitStep ==
    ASSUME ClientInv, CommitRuntime
    PROVE  ClientInv'
  <1>1. /\ CmdInv(cmd) /\ TreesInv /\ cmd # None /\ cmd.phase = "objects" /\ cmd.kind = "push"
        /\ cmd.todo = {} /\ UNCHANGED <<start, local, written>>
    BY DEF ClientInv, CommitRuntime, Running, bounds
  <1>2. PICK outcome \in {"conflict", "unchanged", "created"} :
           /\ End(outcome)
           /\ outcome = "conflict" => UNCHANGED remote
           /\ outcome = "unchanged" => UNCHANGED remote /\ remote[cmd.runtime] = cmd.made
           /\ outcome = "created" => remote' = [remote EXCEPT ![cmd.runtime] = cmd.made]
    BY DEF CommitRuntime, server
  <1>3. /\ IsCmd(cmd') /\ Same(cmd, cmd') /\ cmd'.phase = "done" /\ cmd'.outcome = outcome
        /\ cmd'.quiet = cmd.quiet /\ cmd'.made = cmd.made
    BY <1>1, <1>2, EndFacts DEF CmdInv
  <1>4. IsTree(cmd.made) /\ cmd.runtime \in Runtimes
    BY <1>1, AskedPushes DEF CmdInv, FilesTyped
  <1>5. TreesInv' /\ (outcome # "conflict" => remote'[cmd.runtime] = cmd.made)
    <2>1. CASE UNCHANGED remote
      <3>1. outcome # "created" \/ remote'[cmd.runtime] = cmd.made
        BY <1>1, <1>2, <1>4 DEF TreesInv
      <3> QED
        BY <1>1, <1>2, <2>1, <3>1 DEF TreesInv
    <2>2. CASE remote' = [remote EXCEPT ![cmd.runtime] = cmd.made]
      <3>1. /\ remote' = [rt \in Runtimes |-> remote'[rt]] /\ remote'[cmd.runtime] = cmd.made
            /\ \A rt \in Runtimes : rt # cmd.runtime => remote'[rt] = remote[rt]
        BY <1>1, <1>4, <2>2 DEF TreesInv
      <3> QED
        BY <1>1, <1>4, <3>1 DEF TreesInv
    <2> QED
      BY <1>2, <2>1, <2>2
  <1>6. Asked(cmd') /\ Phased(cmd') /\ FilesTyped(cmd')
    BY <1>1, <1>3, AskedKept DEF CmdInv, Phased, FilesTyped
  <1>7. PICK map : map = FileMap(cmd)
    OBVIOUS
  <1>8. FileMap(cmd)' = map
    BY <1>1, <1>3, <1>7 DEF FileMap, Same
  <1>9. cmd'.quiet => Pushing(cmd)'
    <2> SUFFICES ASSUME cmd'.quiet PROVE Pushing(cmd)'
      OBVIOUS
    <2>1. Pushing(cmd)
      BY <1>1, <1>3 DEF CmdInv
    <2>2. /\ ~Collides(DOMAIN local[cmd.dir], cmd.runtime, cmd.known)
          /\ DOMAIN map = DOMAIN cmd.made
          /\ \A p \in DOMAIN cmd.made : cmd.made[p] = local[cmd.dir][map[p]]
      BY <1>1, <1>7, <2>1 DEF Pushing, Reads
    <2> QED
      BY <1>1, <1>3, <1>4, <1>5, <1>8, <2>2 DEF Pushing, Reads, Same
  <1>10. cmd'.kind \notin {"pull", "exec", "init"}
    BY <1>1, <1>3 DEF Same
  <1> QED
    BY <1>1, <1>3, <1>5, <1>6, <1>9, <1>10 DEF ClientInv, CmdInv

LEMMA ConfigStep ==
    ASSUME ClientInv, WriteConfig
    PROVE  ClientInv'
  <1>1. /\ CmdInv(cmd) /\ TreesInv /\ cmd # None /\ cmd.phase = "write" /\ cmd.kind = "init"
        /\ UNCHANGED <<start, local, remote>> /\ End("ok")
        /\ written' = [field \in InitFields |-> Resolved(cmd.situation, TRUE)[field].value]
    BY DEF ClientInv, WriteConfig, Running, server, bounds
  <1>2. /\ IsCmd(cmd') /\ Same(cmd, cmd') /\ cmd'.phase = "done" /\ cmd'.outcome = "ok"
        /\ cmd'.made = cmd.made
    BY <1>1, EndFacts DEF CmdInv
  <1>3. Asked(cmd') /\ Phased(cmd') /\ FilesTyped(cmd')
    BY <1>1, <1>2, AskedKept DEF CmdInv, Phased, FilesTyped
  <1>4. Initing(cmd)'
    BY <1>1, <1>2 DEF CmdInv, Initing, Same
  <1>5. cmd'.kind \notin {"pull", "exec", "push"} /\ TreesInv'
    BY <1>1, <1>2 DEF Same, TreesInv
  <1> QED
    BY <1>1, <1>2, <1>3, <1>4, <1>5 DEF ClientInv, CmdInv

\* Health, Capabilities, Versions and Login.
LEMMA AskStep ==
    ASSUME ClientInv, Health \/ Capabilities \/ Versions \/ Login
    PROVE  ClientInv'
  <1>1. PICK outcome : End(outcome)
    BY DEF Health, Capabilities, Versions, Login
  <1>2. /\ cmd # None /\ cmd.kind \notin {"pull", "exec", "push", "init"}
        /\ UNCHANGED <<start, local, remote>>
    BY DEF Health, Capabilities, Versions, Login, Running, server, bounds
  <1> QED
    BY <1>1, <1>2, AskingStep

\* Whatever others do, of a command that is not quiet nothing more is said.
LEMMA DisturbFacts ==
    ASSUME cmd # None => CmdInv(cmd), Disturb, UNCHANGED written
    PROVE  (cmd # None => CmdInv(cmd))'
  <1>1. CASE cmd = None
    BY <1>1 DEF Disturb
  <1>2. CASE cmd # None
    <2>1. cmd' = [cmd EXCEPT !.quiet = FALSE] /\ IsCmd(cmd)
      BY <1>2 DEF Disturb, CmdInv
    <2>2. /\ IsCmd(cmd') /\ Same(cmd, cmd') /\ cmd'.phase = cmd.phase
          /\ cmd'.outcome = cmd.outcome /\ cmd'.made = cmd.made /\ cmd'.todo = cmd.todo
          /\ cmd'.quiet = FALSE
      BY <2>1 DEF IsCmd, Same
    <2>3. Asked(cmd') /\ Phased(cmd') /\ FilesTyped(cmd')
      BY <1>2, <2>2, AskedKept DEF CmdInv, Phased, FilesTyped, Same
    <2>4. cmd'.kind = "init" => Initing(cmd)'
      BY <1>2, <2>2 DEF CmdInv, Initing, Same
    <2> QED
      BY <2>2, <2>3, <2>4 DEF CmdInv
  <1> QED
    BY <1>1, <1>2

LEMMA OthersStep ==
    ASSUME ClientInv, Edit \/ ColleaguePushes
    PROVE  ClientInv'
  <1>1. start' \in DOMAIN Workspaces /\ Disturb /\ UNCHANGED written /\ TreesInv
    BY DEF Edit, ColleaguePushes, ClientInv
  <1>2. CASE Edit
    <2>1. PICK dir \in Dirs, path \in EditPaths, content \in Contents :
             local' = [local EXCEPT ![dir] = Put(@, path, content)]
      BY <1>2 DEF Edit
    <2>2. path \in Paths
      BY ClientAssumption DEF Paths
    <2>3. TreesInv'
      BY <1>1, <1>2, <2>1, <2>2, LocalPut DEF Edit, server
    <2> QED
      BY <1>1, <2>3, DisturbFacts DEF ClientInv
  <1>3. CASE ColleaguePushes
    <2>1. PICK rt \in Runtimes, tree \in RemoteTrees : remote' = [remote EXCEPT ![rt] = tree]
      BY <1>3 DEF ColleaguePushes
    <2>2. IsTree(tree)
      BY ClientAssumption
    <2>3. TreesInv'
      <3>1. /\ remote' = [x \in Runtimes |-> remote'[x]] /\ remote'[rt] = tree
            /\ \A x \in Runtimes : x # rt => remote'[x] = remote[x]
        BY <1>1, <2>1 DEF TreesInv
      <3> QED
        BY <1>1, <1>3, <2>2, <3>1 DEF TreesInv, ColleaguePushes
    <2> QED
      BY <1>1, <2>3, DisturbFacts DEF ClientInv
  <1> QED
    BY <1>2, <1>3

LEMMA StopStep ==
    ASSUME ClientInv, Stop
    PROVE  ClientInv'
  <1>1. /\ CmdInv(cmd) /\ TreesInv /\ cmd # None /\ cmd' = [cmd EXCEPT !.phase = "stopped"]
        /\ UNCHANGED <<start, local, remote, written>>
    BY DEF ClientInv, Stop, Done, server, bounds
  <1>2. /\ IsCmd(cmd') /\ Same(cmd, cmd') /\ cmd'.phase = "stopped" /\ cmd'.made = cmd.made
    BY <1>1 DEF IsCmd, Same, CmdInv
  <1>3. Asked(cmd') /\ Phased(cmd') /\ FilesTyped(cmd')
    BY <1>1, <1>2, AskedKept DEF CmdInv, Phased, FilesTyped
  <1>4. Pulling(cmd)'
    BY <1>2 DEF Pulling
  <1>5. cmd'.kind = "push" => Pushing(cmd)'
    BY <1>2, <1>3, AskedPushes DEF Pushing
  <1>6. Initing(cmd)'
    BY <1>2 DEF Initing
  <1>7. TreesInv'
    BY <1>1 DEF TreesInv
  <1> QED
    BY <1>1, <1>2, <1>3, <1>4, <1>5, <1>6, <1>7 DEF ClientInv, CmdInv

LEMMA ClientAlways == Spec => []ClientInv
  <1>1. ClientInv /\ [Next]_vars => ClientInv'
    <2> SUFFICES ASSUME ClientInv, [Next]_vars PROVE ClientInv'
      OBVIOUS
    <2>1. CASE UNCHANGED vars
      <3>1. UNCHANGED <<start, local, remote, written, cmd>>
        BY <2>1 DEF vars
      <3> QED
        BY <3>1 DEF ClientInv, TreesInv, CmdInv, Pulling, Pushing, FileMap, Reads, Initing
    <2> QED
      BY <2>1, BeginStep, ResolveStep, FetchStep, DetailsStep, ChildStep, ListStep, StageStep,
         HeadStep, ObjectStep, CommitStep, ConfigStep, AskStep, OthersStep, StopStep
      DEF Next, ClientGoesOn
  <1> QED
    BY <1>1, ClientInitially, PTL DEF Spec

-----------------------------------------------------------------------------
(***************************************************************************)
(* The theorems.                                                           *)
(***************************************************************************)

\* An undisturbed pull has made every file of the head, each is in the
\* directory, and nothing is there that was not there before.
LEMMA PulledFacts ==
    ASSUME ClientInv, cmd # None, cmd.quiet, Running({"exec"}, "child") \/ Ended({"pull"}, {"ok"})
    PROVE  /\ cmd.runtime \in Runtimes => cmd.made = remote[cmd.runtime]
           /\ \A p \in DOMAIN cmd.made \ {DetailsFile} : local[cmd.out][p] = cmd.made[p]
           /\ DOMAIN local[cmd.out] = cmd.before \cup DOMAIN cmd.made \cup {DetailsFile}
  <1>1. cmd.kind \in {"pull", "exec"}
           /\ (cmd.phase = "child" \/ (cmd.phase = "done" /\ cmd.outcome = "ok"))
    BY DEF Running, Ended
  <1>2. Pulling(cmd)
    BY <1>1 DEF ClientInv, CmdInv
  <1> QED
    BY <1>1, <1>2 DEF Pulling

\* What a pull leaves in the directory.
THEOREM PullsCopyTheHead == Spec => []PullCopiesHead
  <1>1. ClientInv => PullCopiesHead
    BY PulledFacts DEF PullCopiesHead, Running, Ended
  <1> QED
    BY <1>1, ClientAlways, PTL

\* What a push makes of the directory.
THEOREM PushesFollowTheRules == Spec => []PushFollowsRules
  <1>1. ClientInv => PushFollowsRules
    <2> SUFFICES ASSUME ClientInv, Ended({"push"}, {"created", "unchanged"}), cmd.quiet
                 PROVE  PushFollowsRules
      BY DEF PushFollowsRules
    <2>1. PICK rt : rt = cmd.runtime
      OBVIOUS
    <2>2. PICK files : files = DOMAIN local[cmd.dir]
      OBVIOUS
    <2>3. PICK map : map = RuntimeFileMap(files, rt, cmd.known)
      OBVIOUS
    <2>4. CmdInv(cmd) /\ TreesInv /\ Pushing(cmd) /\ cmd.dir \in Dirs
          /\ cmd.phase = "done" /\ cmd.outcome \in {"created", "unchanged"}
      BY DEF ClientInv, Ended, CmdInv, Asked
    <2>5. files \subseteq Paths
      BY <2>2, <2>4 DEF TreesInv, IsTree, Paths
    <2>6. /\ ~Collides(files, rt, cmd.known) /\ DOMAIN remote[rt] = DOMAIN map
          /\ \A q \in DOMAIN remote[rt] : remote[rt][q] = local[cmd.dir][map[q]]
      BY <2>1, <2>2, <2>3, <2>4 DEF Pushing, FileMap, Reads
    <2>7. PICK own : own = OwnFiles(files, rt)
      OBVIOUS
    <2>8. PICK common : common = CommonFiles(files, rt, cmd.known)
      OBVIOUS
    <2>9. PICK replaced : replaced = {RemotePath(p, rt) : p \in own}
      OBVIOUS
    <2>10. /\ DOMAIN map = replaced \cup common
           /\ \A p \in own : map[RemotePath(p, rt)] = p
           /\ \A p \in common \ replaced : map[p] = p
      <3>1. MapsByRules(files, rt, cmd.known, map)
        BY <2>3, <2>5, <2>6, MapFollowsRules
      <3> QED
        BY <2>7, <2>8, <2>9, <3>1 DEF MapsByRules, Replaced
    <2>11. own = {p \in files \ {DetailsFile} : Specific(p, rt) /\ p # <<<<rt>>>>}
      BY <2>7 DEF OwnFiles
    <2>12. common = {p \in files \ {DetailsFile} :
                        \A other \in (cmd.known \ {rt}) \cup {rt} :
                            ~InDirectoryOf(p, other) /\ ~NamedFor(p, other)}
      <3>1. (cmd.known \ {rt}) \cup {rt} = cmd.known \cup {rt}
        OBVIOUS
      <3> QED
        BY <2>8, <3>1 DEF CommonFiles
    <2>13. /\ DOMAIN remote[rt] = replaced \cup common
           /\ \A p \in own : remote[rt][RemotePath(p, rt)] = local[cmd.dir][p]
           /\ \A p \in common \ replaced : remote[rt][p] = local[cmd.dir][p]
      BY <2>6, <2>9, <2>10
    <2> QED
      BY <2>1, <2>2, <2>9, <2>11, <2>12, <2>13, Zenon DEF PushFollowsRules
  <1> QED
    BY <1>1, ClientAlways, PTL

\* Plain files are common files, and a push takes each for itself.
LEMMA PlainMap ==
    ASSUME NEW paths \in SUBSET Paths, NEW known, NEW rt \in known,
           \A p \in paths \ {DetailsFile} : Plain(p, known)
    PROVE  LET map == RuntimeFileMap(paths, rt, known) IN
           /\ DOMAIN map = paths \ {DetailsFile}
           /\ \A p \in paths \ {DetailsFile} : map[p] = p
  <1>1. CommonFiles(paths, rt, known) = paths \ {DetailsFile}
    BY DEF CommonFiles, Plain
  <1>2. OwnFiles(paths, rt) = {}
    BY DEF OwnFiles, Plain, Specific
  <1>3. ~Collides(paths, rt, known)
    BY DEF Collides, Plain, Specific
  <1>4. Replaced(paths, rt) = {}
    BY <1>2 DEF Replaced
  <1>5. MapsByRules(paths, rt, known, RuntimeFileMap(paths, rt, known))
    BY <1>3, MapFollowsRules
  <1> QED
    BY <1>1, <1>4, <1>5 DEF MapsByRules

\* What was pulled and is pushed again is what was there.
THEOREM PulledIsPushedUnchanged == Spec => []PullThenPushUnchanged
  <1>1. ClientInv => PullThenPushUnchanged
    <2> SUFFICES ASSUME ClientInv, Ended({"pull"}, {"ok"}), cmd.quiet,
                        cmd.before \subseteq {DetailsFile}, cmd.runtime \in Runtimes,
                        DetailsFile \notin DOMAIN remote[cmd.runtime],
                        \A p \in DOMAIN remote[cmd.runtime] : Plain(p, cmd.known)
                 PROVE  LET map == RuntimeFileMap(DOMAIN local[cmd.out], cmd.runtime, cmd.known)
                        IN  [p \in DOMAIN map |-> local[cmd.out][map[p]]] = remote[cmd.runtime]
      BY DEF PullThenPushUnchanged
    <2>1. PICK tree : tree = remote[cmd.runtime]
      OBVIOUS
    <2>2. PICK files : files = DOMAIN local[cmd.out]
      OBVIOUS
    <2>3. PICK map : map = RuntimeFileMap(files, cmd.runtime, cmd.known)
      OBVIOUS
    <2>4. cmd # None /\ CmdInv(cmd) /\ TreesInv /\ cmd.out \in Dirs
      BY DEF ClientInv, Ended, CmdInv, Asked
    <2>5. /\ cmd.made = tree /\ files = cmd.before \cup DOMAIN cmd.made \cup {DetailsFile}
          /\ \A p \in DOMAIN cmd.made \ {DetailsFile} : local[cmd.out][p] = cmd.made[p]
      BY <2>1, <2>2, <2>4, PulledFacts
    <2>6. files \ {DetailsFile} = DOMAIN tree
      BY <2>1, <2>5
    <2>7. files \subseteq Paths /\ IsTree(tree)
      BY <2>1, <2>2, <2>4 DEF TreesInv, IsTree, Paths
    <2>8. cmd.runtime \in cmd.known
      BY <2>4, ClientAssumption DEF CmdInv, Asked, KnownRuntimes
    <2>9. DOMAIN map = DOMAIN tree /\ \A p \in DOMAIN tree : map[p] = p
      BY <2>1, <2>3, <2>6, <2>7, <2>8, PlainMap
    <2>10. \A p \in DOMAIN tree : local[cmd.out][map[p]] = tree[p]
      BY <2>1, <2>5, <2>9
    <2>11. [p \in DOMAIN map |-> local[cmd.out][map[p]]] = tree
      BY <2>7, <2>9, <2>10 DEF IsTree
    <2> QED
      BY <2>1, <2>2, <2>3, <2>11
  <1> QED
    BY <1>1, ClientAlways, PTL

-----------------------------------------------------------------------------
(***************************************************************************)
(* What init has written is what the next command finds.                   *)
(***************************************************************************)

LEMMA RequiredIsSet ==
    ASSUME NEW given, NEW field, NEW default, default # Unset, NEW answer,
           Required(field, given, default, TRUE, answer).source # "missing"
    PROVE  /\ Required(field, given, default, TRUE, answer).value # Unset
           /\ field \notin {"org", "repo"} =>
                 Required(field, given, default, TRUE, answer).value \notin Falsy
  <1>1. PICK layers : layers = LayersOf(field, given)
    OBVIOUS
  <1>2. PICK i : i = FirstLayer(layers, Falsy)
    OBVIOUS
  <1>3. DOMAIN layers = 1 .. 4
    BY <1>1 DEF LayersOf
  <1>4. /\ i = 0 => \A k \in 1 .. 4 : layers[k][2] \in Falsy
        /\ i # 0 => /\ i \in 1 .. 4 /\ layers[i][2] \notin Falsy
                    /\ \A k \in 1 .. i - 1 : layers[k][2] \in Falsy
    BY <1>2, <1>3, FirstLayerFound
  <1>5. Unset \in Falsy
    BY DEF Falsy
  <1>6. CASE i # 0
    BY <1>1, <1>2, <1>4, <1>5, <1>6 DEF Required
  <1>7. CASE i = 0
    BY <1>1, <1>2, <1>5, <1>7, LayersAssumption DEF Required, Truthy
  <1> QED
    BY <1>6, <1>7

LEMMA OptionalIsSet ==
    ASSUME NEW given, NEW detected
    PROVE  Optional(given, detected).value # Unset
  <1>1. PICK layers : layers = <<<<"flag", given["flag"]>>, <<"env", given["env"]>>,
                         <<"env", given["older"]>>, <<"config", given["config"]>>,
                         <<"config", given["local"]>>, <<"config", detected>>>>
    OBVIOUS
  <1>2. PICK i : i = FirstLayer(layers, {Unset})
    OBVIOUS
  <1>3. DOMAIN layers = 1 .. 6
    BY <1>1
  <1>4. /\ i = 0 => \A k \in 1 .. 6 : layers[k][2] \in {Unset}
        /\ i # 0 => /\ i \in 1 .. 6 /\ layers[i][2] \notin {Unset}
                    /\ \A k \in 1 .. i - 1 : layers[k][2] \in {Unset}
    BY <1>2, <1>3, FirstLayerFound
  <1>5. Optional(given, detected).value = IF i = 0 THEN "default" ELSE layers[i][2]
    BY <1>1, <1>2 DEF Optional
  <1> QED
    BY <1>4, <1>5, LayersAssumption

\* A value that only the config file gives is found.
OnlyInConfig(given, value) ==
    /\ given["flag"] = Unset /\ given["env"] = Unset /\ given["older"] = Unset
    /\ given["config"] = value

LEMMA RequiredFromConfig ==
    ASSUME NEW given, NEW value, OnlyInConfig(given, value), value \notin Falsy,
           NEW field, field # "token",
           NEW default, NEW cloud, NEW answer
    PROVE  /\ Required(field, given, default, cloud, answer).value = value
           /\ Required(field, given, default, cloud, answer).source = "config"
  <1>1. PICK layers : layers = LayersOf(field, given)
    OBVIOUS
  <1>2. PICK i : i = FirstLayer(layers, Falsy)
    OBVIOUS
  <1>3. /\ DOMAIN layers = 1 .. 4 /\ layers[1][2] = Unset /\ layers[2][2] = Unset
        /\ layers[3][2] = value /\ layers[3][1] = "config"
    BY <1>1 DEF LayersOf, OnlyInConfig, FromEnv
  <1>4. /\ i = 0 => \A k \in 1 .. 4 : layers[k][2] \in Falsy
        /\ i # 0 => /\ i \in 1 .. 4 /\ layers[i][2] \notin Falsy
                    /\ \A k \in 1 .. i - 1 : layers[k][2] \in Falsy
    BY <1>2, <1>3, FirstLayerFound
  <1>5. Unset \in Falsy
    BY DEF Falsy
  <1>6. i = 3
    <2>1. i # 0 /\ i # 1 /\ i # 2
      BY <1>3, <1>4, <1>5
    <2>2. i # 4
      BY <1>3, <1>4
    <2> QED
      BY <1>4, <2>1, <2>2
  <1> QED
    BY <1>1, <1>2, <1>3, <1>6 DEF Required

LEMMA OptionalFromConfig ==
    ASSUME NEW given, NEW value, OnlyInConfig(given, value), value # Unset, NEW detected
    PROVE  Optional(given, detected).value = value
  <1>1. PICK layers : layers = <<<<"flag", given["flag"]>>, <<"env", given["env"]>>,
                         <<"env", given["older"]>>, <<"config", given["config"]>>,
                         <<"config", given["local"]>>, <<"config", detected>>>>
    OBVIOUS
  <1>2. PICK i : i = FirstLayer(layers, {Unset})
    OBVIOUS
  <1>3. /\ DOMAIN layers = 1 .. 6 /\ layers[1][2] = Unset /\ layers[2][2] = Unset
        /\ layers[3][2] = Unset /\ layers[4][2] = value
    BY <1>1 DEF OnlyInConfig
  <1>4. /\ i = 0 => \A k \in 1 .. 6 : layers[k][2] \in {Unset}
        /\ i # 0 => /\ i \in 1 .. 6 /\ layers[i][2] \notin {Unset}
                    /\ \A k \in 1 .. i - 1 : layers[k][2] \in {Unset}
    BY <1>2, <1>3, FirstLayerFound
  <1>5. i = 4
    <2>1. i # 0 /\ i # 1 /\ i # 2 /\ i # 3
      BY <1>3, <1>4
    <2>2. ~(4 \in 1 .. i - 1)
      BY <1>3, <1>4, <2>1
    <2> QED
      BY <1>4, <2>1, <2>2
  <1>6. Optional(given, detected).value = IF i = 0 THEN "default" ELSE layers[i][2]
    BY <1>1, <1>2 DEF Optional
  <1> QED
    BY <1>3, <1>5, <1>6

\* runtime and targetDir are never missing, and nothing is for a command that
\* does not need the server.
LEMMA OptionalSources ==
    ASSUME NEW given, NEW detected
    PROVE  Optional(given, detected).source # "missing"
  <1>1. PICK layers : layers = <<<<"flag", given["flag"]>>, <<"env", given["env"]>>,
                         <<"env", given["older"]>>, <<"config", given["config"]>>,
                         <<"config", given["local"]>>, <<"config", detected>>>>
    OBVIOUS
  <1>2. PICK j : j = FirstLayer(layers, Falsy)
    OBVIOUS
  <1>3. /\ DOMAIN layers = 1 .. 6
        /\ layers[1][1] = "flag" /\ layers[2][1] = "env" /\ layers[3][1] = "env"
        /\ layers[4][1] = "config" /\ layers[5][1] = "config" /\ layers[6][1] = "config"
    BY <1>1
  <1>4. /\ j = 0 => \A k \in 1 .. 6 : layers[k][2] \in Falsy
        /\ j # 0 => /\ j \in 1 .. 6 /\ layers[j][2] \notin Falsy
                    /\ \A k \in 1 .. j - 1 : layers[k][2] \in Falsy
    BY <1>2, <1>3, FirstLayerFound
  <1>5. j # 0 => j = 1 \/ j = 2 \/ j = 3 \/ j = 4 \/ j = 5 \/ j = 6
    BY <1>4
  <1>6. Optional(given, detected).source = IF j = 0 THEN "default" ELSE layers[j][1]
    BY <1>1, <1>2 DEF Optional
  <1> QED
    BY <1>3, <1>5, <1>6

LEMMA NotMissingOffline ==
    ASSUME NEW given, NEW field, NEW default, NEW answer
    PROVE  Required(field, given, default, FALSE, answer).source # "missing"
  <1>1. PICK layers : layers = LayersOf(field, given)
    OBVIOUS
  <1>2. PICK i : i = FirstLayer(layers, Falsy)
    OBVIOUS
  <1>3. /\ DOMAIN layers = 1 .. 4
        /\ layers[1][1] = "flag" /\ layers[2][1] = "env"
        /\ layers[3][1] = "config" /\ layers[4][1] = "config"
    BY <1>1 DEF LayersOf
  <1>4. /\ i = 0 => \A k \in 1 .. 4 : layers[k][2] \in Falsy
        /\ i # 0 => /\ i \in 1 .. 4 /\ layers[i][2] \notin Falsy
                    /\ \A k \in 1 .. i - 1 : layers[k][2] \in Falsy
    BY <1>2, <1>3, FirstLayerFound
  <1>5. i # 0 => i = 1 \/ i = 2 \/ i = 3 \/ i = 4
    BY <1>4
  <1>6. CASE i # 0
    BY <1>1, <1>2, <1>3, <1>5, <1>6 DEF Required
  <1>7. CASE i = 0
    BY <1>1, <1>2, <1>7, LayersAssumption DEF Required
  <1> QED
    BY <1>6, <1>7

\* The file that init wrote is found, in the working directory.
LEMMA WrittenIsFound ==
    ASSUME NEW dirs, DOMAIN dirs \subseteq Nat \ {0}, 1 \in DOMAIN dirs,
           ConfigNames[2] \in dirs[1]
    PROVE  ConfigFile(dirs, Unset) # Unset
  <1>1. DOMAIN ConfigNames = 1 .. 4
    BY DEF ConfigNames
  <1>2. PICK has : has = {i \in DOMAIN dirs : \E n \in DOMAIN ConfigNames : ConfigNames[n] \in dirs[i]}
    OBVIOUS
  <1>3. 1 \in has /\ has \subseteq Nat /\ \A k \in has : 1 <= k
    BY <1>1, <1>2
  <1>4. PICK i : i = CHOOSE j \in has : \A k \in has : j <= k
    OBVIOUS
  <1>5. i \in has
    BY <1>3, <1>4
  <1>6. i = 1
    <2>1. i <= 1
      BY <1>3, <1>4
    <2> QED
      BY <1>3, <1>5, <2>1
  <1> DEFINE First(m) == /\ ConfigNames[m] \in dirs[i]
                         /\ \A k \in 1 .. m - 1 : ConfigNames[k] \notin dirs[i]
             n == CHOOSE m \in DOMAIN ConfigNames : First(m)
  <1>7. n \in DOMAIN ConfigNames
    <2>1. CASE ConfigNames[1] \in dirs[1]
      <3>1. 1 \in DOMAIN ConfigNames /\ First(1)
        BY <1>1, <1>6, <2>1
      <3> QED
        BY <3>1
    <2>2. CASE ConfigNames[1] \notin dirs[1]
      <3>1. 2 \in DOMAIN ConfigNames /\ First(2)
        BY <1>1, <1>6, <2>2
      <3> QED
        BY <3>1
    <2> QED
      BY <2>1, <2>2
  <1>8. Nearest(dirs, ConfigNames) = <<i, ConfigNames[n]>>
    BY <1>2, <1>3, <1>4 DEF Nearest
  <1> HIDE DEF n, First
  <1>9. PICK name : name = ConfigNames[n]
    OBVIOUS
  <1>10. <<i, name>> \in Nat \X {ConfigNames[m] : m \in DOMAIN ConfigNames}
    <2>1. PICK found : found = {ConfigNames[m] : m \in DOMAIN ConfigNames}
      OBVIOUS
    <2>2. name \in found
      BY <1>7, <1>9, <2>1
    <2>3. <<i, name>> \in Nat \X found
      BY <1>6, <2>2
    <2> QED
      BY <2>1, <2>3
  <1>11. Nearest(dirs, ConfigNames) # Unset
    BY <1>8, <1>9, <1>10, LayersAssumption
  <1> QED
    BY <1>11 DEF ConfigFile

LEMMA AcceptsWhat ==
    ASSUME NEW value
    PROVE  /\ value = Unset => \A field : Accepts(field, value)
           /\ Accepts("server", value) /\ Accepts("targetDir", value)
           /\ value # Unset =>
                 /\ Accepts("org", value) <=> value \notin BadOrgs
                 /\ Accepts("repo", value) <=> value \notin BadNames
                 /\ Accepts("runtime", value) <=> value \notin BadNames
  BY DEF Accepts

\* What InitIsRemembered says of the settings that init resolved, the next
\* situation and the settings that follow from it.
Remembers(t, before, after, fits) ==
    /\ Resolves(t, FALSE) <=> fits
    /\ fits => \A field \in InitFields : after[field].value = before[field].value

Fit(before) ==
    /\ before["org"].value \notin BadOrgs
    /\ {before["repo"].value, before["runtime"].value} \cap BadNames = {}

LEMMA InitRemembers ==
    ASSUME ClientInv, Ended({"init"}, {"ok"}),
           NEW s, s = cmd.situation, NEW t, t = AfterInit(s),
           NEW before, before = Resolved(s, TRUE), NEW after, after = Resolved(t, FALSE),
           NEW fits \in BOOLEAN, fits <=> Fit(before)
    PROVE  Remembers(t, before, after, fits)
  <1>1. CmdInv(cmd) /\ Initing(cmd) /\ cmd.phase = "done" /\ cmd.outcome = "ok"
    BY DEF ClientInv, Ended, CmdInv
  <1>2. written = [field \in InitFields |-> before[field].value] /\ Resolves(s, TRUE)
    BY <1>1 DEF Initing
  <1>3. /\ s = [values |-> s.values, dirs |-> s.dirs, explicit |-> s.explicit,
                config |-> s.config, nodeEnv |-> s.nodeEnv, cwd |-> s.cwd,
                answer |-> s.answer, force |-> s.force]
        /\ s.dirs \in Seq(SUBSET STRING) /\ s.dirs # <<>> /\ s.cwd # Unset
    BY <1>1 DEF CmdInv, Asked, IsCommand
  <1>4. 1 \in DOMAIN s.dirs
    BY <1>3
  <1>5. InitFields = Fields \ {"token"}
    BY DEF InitFields, Fields
  <1>6. /\ t.dirs = [s.dirs EXCEPT ![1] = @ \cup {"dotlocker.config.json"}]
        /\ t.explicit = Unset /\ t.config = NoConfig
        /\ \A field \in Fields :
              /\ t.values[field]["flag"] = Unset /\ t.values[field]["env"] = Unset
              /\ t.values[field]["older"] = Unset
              /\ field \in InitFields => t.values[field]["config"] = before[field].value
              /\ field \notin InitFields => t.values[field]["config"] = Unset
    BY <1>2, <1>3 DEF AfterInit, Layers
  <1>7. ConfigFile(t.dirs, Unset) # Unset
    <2>1. PICK dirs : dirs = t.dirs
      OBVIOUS
    <2>2. PICK name : name = "dotlocker.config.json"
      OBVIOUS
    <2>3. ConfigNames[2] = name
      BY <2>2 DEF ConfigNames
    <2>4. dirs = [s.dirs EXCEPT ![1] = @ \cup {name}]
      BY <1>6, <2>1, <2>2
    <2>5. /\ DOMAIN dirs \subseteq Nat \ {0} /\ 1 \in DOMAIN dirs
          /\ ConfigNames[2] \in dirs[1]
      BY <1>3, <1>4, <2>3, <2>4
    <2> QED
      BY <2>1, <2>5, WrittenIsFound
  <1>8. \A field \in Fields :
           /\ Given(t, field)["flag"] = Unset /\ Given(t, field)["env"] = Unset
           /\ Given(t, field)["older"] = Unset
           /\ field \in InitFields => Given(t, field)["config"] = before[field].value
           /\ field \notin InitFields => Given(t, field)["config"] = Unset
    BY <1>6, <1>7 DEF Given, Layers
  <1>9. \A field \in InitFields : OnlyInConfig(Given(t, field), before[field].value)
    BY <1>5, <1>8 DEF OnlyInConfig
  <1>10. /\ \A field \in InitFields : before[field].value # Unset
         /\ before["server"].value \notin Falsy
    <2>1. ASSUME NEW field \in {"runtime", "targetDir"}
          PROVE  before[field].value # Unset
      BY <2>1, OptionalIsSet DEF Resolved, Fields
    <2>2. ASSUME NEW field \in {"server", "org", "repo"}
          PROVE  /\ before[field].value # Unset
                 /\ field = "server" => before[field].value \notin Falsy
      <3>1. PICK default : default = IF field = "repo" THEN s.cwd ELSE "default"
        OBVIOUS
      <3>2. default # Unset
        BY <1>3, <3>1, LayersAssumption
      <3>3. before[field] = Required(field, Given(s, field), default, TRUE, s.answer)
        BY <2>2, <3>1 DEF Resolved, Fields
      <3>4. before[field].source # "missing"
        BY <1>2, <2>2 DEF Resolves, Fields
      <3>5. /\ before[field].value # Unset
            /\ field \notin {"org", "repo"} => before[field].value \notin Falsy
        BY <3>2, <3>3, <3>4, RequiredIsSet
      <3> QED
        BY <3>5
    <2> QED
      BY <2>1, <2>2 DEF InitFields
  <1>11. fits => \A field \in {"server", "org", "repo"} : before[field].value \notin Falsy
    BY <1>10, LayersAssumption DEF Falsy, InitFields, Fit
  <1>12. ASSUME NEW field \in {"server", "org", "repo"}, fits
         PROVE  after[field].value = before[field].value
    <2>1. PICK default : default = IF field = "repo" THEN t.cwd ELSE "default"
      OBVIOUS
    <2>2. after[field] = Required(field, Given(t, field), default, FALSE, t.answer)
      BY <1>12, <2>1 DEF Resolved, Fields
    <2>3. PICK given, answer, value :
             given = Given(t, field) /\ answer = t.answer /\ value = before[field].value
      OBVIOUS
    <2>4. OnlyInConfig(given, value) /\ value \notin Falsy
      BY <1>9, <1>11, <1>12, <2>3 DEF InitFields
    <2>5. field # "token"
      BY <1>12
    <2>6. \A cloud : Required(field, given, default, cloud, answer).value = value
      BY <2>4, <2>5, RequiredFromConfig
    <2> QED
      BY <2>2, <2>3, <2>6
  <1>13. ASSUME NEW field \in {"runtime", "targetDir"}
         PROVE  after[field].value = before[field].value
    <2>1. PICK given, value : given = Given(t, field) /\ value = before[field].value
      OBVIOUS
    <2>2. OnlyInConfig(given, value) /\ value # Unset
      BY <1>9, <1>10, <1>13, <2>1 DEF InitFields
    <2>3. \E detected : after[field] = Optional(given, detected)
      BY <1>13, <2>1 DEF Resolved, Fields
    <2>4. PICK detected : after[field] = Optional(given, detected)
      BY <2>3
    <2>5. Optional(given, detected).value = value
      BY <2>2, OptionalFromConfig
    <2> QED
      BY <2>1, <2>4, <2>5
  <1>14. \A field \in Fields : after[field].source # "missing"
    <2>1. ASSUME NEW field \in {"runtime", "targetDir"}
          PROVE  after[field].source # "missing"
      BY <2>1, OptionalSources DEF Resolved, Fields
    <2>2. ASSUME NEW field \in {"server", "token", "org", "repo"}
          PROVE  after[field].source # "missing"
      <3>1. \E given, default, answer :
               after[field] = Required(field, given, default, FALSE, answer)
        BY <2>2 DEF Resolved, Fields
      <3>2. PICK setting : setting = after[field]
        OBVIOUS
      <3>3. setting.source # "missing"
        BY <3>1, <3>2, NotMissingOffline
      <3> QED
        BY <3>2, <3>3
    <2> QED
      BY <2>1, <2>2 DEF Fields
  <1>15. (\A field \in Fields : Accepts(field, Given(t, field)["config"])) <=> fits
    <2>1. Accepts("token", Given(t, "token")["config"])
      BY <1>5, <1>8, AcceptsWhat DEF Fields
    <2>2. \A field \in InitFields :
             /\ Given(t, field)["config"] = before[field].value
             /\ before[field].value # Unset
      BY <1>5, <1>8, <1>10
    <2>3. \A field \in {"server", "targetDir"} : Accepts(field, Given(t, field)["config"])
      BY <2>2, AcceptsWhat DEF InitFields
    <2>4. /\ Accepts("org", Given(t, "org")["config"])
                <=> before["org"].value \notin BadOrgs
          /\ Accepts("repo", Given(t, "repo")["config"])
                <=> before["repo"].value \notin BadNames
          /\ Accepts("runtime", Given(t, "runtime")["config"])
                <=> before["runtime"].value \notin BadNames
      BY <2>2, AcceptsWhat DEF InitFields
    <2> QED
      BY <2>1, <2>3, <2>4 DEF Fields, Fit
  <1>16. ConfigOf(t).valid
    BY <1>6 DEF ConfigOf, NoConfig
  <1>17. Resolves(t, FALSE) <=> fits
    BY <1>14, <1>15, <1>16 DEF Resolves
  <1> QED
    BY <1>12, <1>13, <1>17 DEF InitFields, Remembers

\* For any situation, refused names included: every later command goes by what
\* init resolved, whatever else it finds, or refuses the file, and which of the
\* two is decided by the names that init resolved (cli.ts, init; config.ts,
\* clientConfigSchema).
THEOREM InitsAreRemembered == Spec => []InitIsRemembered
  <1>1. ClientInv => InitIsRemembered
    <2> SUFFICES ASSUME ClientInv, Ended({"init"}, {"ok"})
                 PROVE  InitIsRemembered
      BY DEF InitIsRemembered
    <2>1. PICK s : s = cmd.situation
      OBVIOUS
    <2>2. PICK t : t = AfterInit(s)
      OBVIOUS
    <2>3. PICK before, after : before = Resolved(s, TRUE) /\ after = Resolved(t, FALSE)
      OBVIOUS
    <2>4. PICK fits \in BOOLEAN : fits <=> Fit(before)
      OBVIOUS
    <2>5. Remembers(t, before, after, fits)
      BY <2>1, <2>2, <2>3, <2>4, InitRemembers
    <2> QED
      BY <2>1, <2>2, <2>3, <2>4, <2>5 DEF InitIsRemembered, Remembers, Fit
  <1> QED
    BY <1>1, ClientAlways, PTL

=============================================================================
