------------------------------ MODULE BackstagePod ------------------------------
(* The pod of the Backstage Deployment: addToModel and validate of the          *)
(* Deployment (pkg/model/deployment.go), updatePod of each contributor,         *)
(* MountFilesFrom and AddEnvVarsFrom (pkg/utils/pod-mutator.go), and validate   *)
(* of the default dynamic plugins, which comes after it.  One step is one call  *)
(* that changes the pod, or one iteration of a loop over a Go map, whose order  *)
(* is random.  A second pass over the same input follows the first, as a later  *)
(* Reconcile would make it.                                                     *)
EXTENDS RuntimeModel, Sequences, Functions

CONSTANTS
  Names,   \* of ConfigMaps and Secrets the spec refers to
  Keys,    \* of their data
  Dirs,    \* mount paths
  Inputs   \* what the passes may be given

(***************************************************************************)
(* References to objects, as in the lists of spec.application; "" is a     *)
(* name, key or path that is not given.  An absent spec.application is one *)
(* with nothing in it.                                                     *)
(***************************************************************************)
RefType == [name : Names, key : Keys \cup {""}]

PodSpecType ==
  [ image       : {"nil", "spec"},     \* image
    replicas    : {"nil", "spec"},     \* replicas
    pullSecrets : Seq(Names),          \* imagePullSecrets
    envs        : Seq(Names),          \* extraEnvs.envs, their names
    appPath     : Dirs \cup {""},         \* appConfig.mountPath
    appConfigs  : Seq(RefType),        \* appConfig.configMaps
    filesPath   : Dirs \cup {""},         \* extraFiles.mountPath
    files       : Seq(RefType),        \* extraFiles.configMaps
    secretFiles : Seq(RefType),        \* extraFiles.secrets
    cmEnvs      : Seq(RefType),        \* extraEnvs.configMaps
    secretEnvs  : Seq(RefType),        \* extraEnvs.secrets
    plugins     : Names \cup {""} ]             \* dynamicPluginsConfigMapName

(***************************************************************************)
(* The input: how many containers deployment.yaml has and the names of its *)
(* init containers, whether the environment overrides the images, the      *)
(* other default files with the keys of their data, the keys of the        *)
(* ConfigMaps the spec names, whether the database is local, the spec.     *)
(***************************************************************************)
PodInputType ==
  [ containers : Nat,
    init       : Seq(STRING),
    envImage   : BOOLEAN,
    files      : SUBSET (PodContributors \cup {"db-secret"}),
    keys       : [PodContributors -> SUBSET Keys],
    data       : [Names -> SUBSET Keys],
    localDb    : BOOLEAN,
    spec       : PodSpecType ]

ASSUME PodAssumption == Inputs \subseteq PodInputType /\ "" \notin Keys

PluginsContainer == "install-dynamic-plugins"
DynamicPluginsFile == "dynamic-plugins.yaml"
DefaultMountDir == "/opt/app-root/src"

HasPluginsContainer(in) == PluginsContainer \in Range(in.init)

\* What the loop of InitObjects sees of the input.
RuntimeInput(in) ==
  [ default     |-> [k \in Kinds |->
                       IF k \in PodContributors \cup {"db-secret"} /\ k \notin in.files
                       THEN "absent" ELSE "good"],
    overlay     |-> [k \in Kinds |-> "absent"],
    pluginsInit |-> HasPluginsContainer(in),
    openshift   |-> FALSE,
    spec        |-> [ database    |-> IF in.localDb THEN "on" ELSE "off",
                      authSecret  |-> FALSE,
                      route       |-> "nil",
                      routeFields |-> {},
                      plugins     |-> in.spec.plugins # "",
                      keylessFile |-> \E r \in Range(in.spec.secretFiles) : r.key = "" ] ]

(***************************************************************************)
(* What contributes to the pod, in order: the default objects of the model *)
(* in the order of registration, then the lists of the spec.  "op" is what *)
(* updatePod does with it; "keys" is the data of the object ({} for nil).  *)
(***************************************************************************)
DefaultName ==
  [ k \in PodContributors |->
      CASE k = "app-config"                         -> "bs-backstage-appconfig"
        [] k \in {"configmap-envs", "secret-envs"}   -> "bs-backstage-envs"
        [] k \in {"configmap-files", "secret-files"} -> "bs-backstage-files"
        [] k = "dynamic-plugins"                    -> "bs-backstage-dynamic-plugins" ]

Contribution(op, kind, name, path, key, keys) ==
  [op |-> op, kind |-> kind, name |-> name, path |-> path, key |-> key, keys |-> keys]

DefaultContribution(in, k) ==
  LET op   == CASE k = "app-config" -> "appConfig"
                [] k \in {"configmap-envs", "secret-envs"} -> "env"
                [] k \in {"configmap-files", "secret-files"} -> "files"
                [] k = "dynamic-plugins" -> "plugins"
      kind == IF k \in SecretKinds THEN "Secret" ELSE "ConfigMap"
      path == IF k = "dynamic-plugins" THEN PluginsContainer ELSE DefaultMountDir
      key  == IF k = "dynamic-plugins" THEN DynamicPluginsFile ELSE ""
  IN  Contribution(op, kind, DefaultName[k], path, key, in.keys[k])

Default(in, k) ==
  IF k \in Added(RuntimeInput(in)) THEN <<DefaultContribution(in, k)>> ELSE << >>

DefaultContributions(in) ==
  Default(in, "app-config") \o Default(in, "configmap-envs")
    \o Default(in, "configmap-files") \o Default(in, "dynamic-plugins")
    \o Default(in, "secret-envs") \o Default(in, "secret-files")

\* The data of what is referred to: ConfigMaps have been read, a secret is taken
\* to have the key.
DataOf(in, op, kind, r) ==
  IF op = "env" THEN {}
  ELSE IF kind = "Secret" THEN {r.key} ELSE in.data[r.name]

Listed(in, refs, op, kind, path) ==
  [n \in DOMAIN refs |->
     Contribution(op, kind, refs[n].name, path, refs[n].key, DataOf(in, op, kind, refs[n]))]

MountDir(path) == IF path = "" THEN DefaultMountDir ELSE path

PluginsRefs(spec) ==
  IF spec.plugins = "" THEN << >> ELSE <<[name |-> spec.plugins, key |-> DynamicPluginsFile]>>

SpecContributions(in) ==
  LET s == in.spec
  IN  Listed(in, s.appConfigs, "appConfig", "ConfigMap", MountDir(s.appPath))
        \o Listed(in, s.files, "files", "ConfigMap", MountDir(s.filesPath))
        \o Listed(in, s.cmEnvs, "env", "ConfigMap", "")
        \o Listed(in, s.secretFiles, "files", "Secret", MountDir(s.filesPath))
        \o Listed(in, s.secretEnvs, "env", "Secret", "")
        \o Listed(in, PluginsRefs(s), "plugins", "ConfigMap", PluginsContainer)

\* Wrong variant: the spec first, so that the defaults win.
ContributionsSpecFirst(in) == SpecContributions(in) \o DefaultContributions(in)

Contributions(in) == DefaultContributions(in) \o SpecContributions(in)

\* The files of c that are mounted: all, or the one the reference names.
Selected(c) == {f \in c.keys : c.key \in {"", f}}

\* Wrong variant: the arguments are not filtered by the key.
PassedAll(c) == IF c.op = "appConfig" THEN c.keys ELSE {}

\* Those that become arguments, by a filter of its own.
Passed(c) == IF c.op = "appConfig" THEN {f \in c.keys : c.key = "" \/ c.key = f} ELSE {}

(***************************************************************************)
(* The pod: what the operator adds to that of deployment.yaml.  A mount is *)
(* made of one file of a volume, or of the volume as a whole; "--config"   *)
(* arguments name mounted files.                                           *)
(***************************************************************************)
Images == {"own", "env", "spec"}

NewPod(in) ==
  [ replicas    |-> "own",
    pullSecrets |-> << >>,
    images      |-> [n \in 1..in.containers |-> "own"],
    initImages  |-> [n \in DOMAIN in.init |-> "own"],
    volumes     |-> << >>,
    mounts      |-> << >>,   \* of the backend, the first container
    initMounts  |-> << >>,   \* of the first init container
    args        |-> << >>,   \* of the backend
    env         |-> << >>,   \* of the backend
    envFrom     |-> << >> ]  \* of the backend

MountOf(c, file) == [volume |-> c.name, dir |-> c.path, file |-> file]

\* The directory of the whole volume is named after the object.
DirMount(c)    == [volume |-> c.name, dir |-> c.path, file |-> c.name]

VARIABLES
  in,         \* the input
  pass,       \* the number of the pass
  first,      \* the pod of the first pass
  pc,         \* what the pass does next, or how it ended
  pod,        \* the pod so far
  todo,       \* the contributions left, the current one first
  unmounted,  \* its files that are still to be mounted
  unpassed    \*   and to be passed as arguments

vars == <<in, pass, first, pc, pod, todo, unmounted, unpassed>>

\* Containers[0] panics without containers.
NoBackend == in.containers = 0

StartOfPass ==
  /\ pc = "override" /\ pod = NewPod(in)
  /\ todo = << >> /\ unmounted = {} /\ unpassed = {}

Init ==
  /\ in \in Inputs
  /\ pass = 1 /\ first = NewPod(in)
  /\ StartOfPass

Ends(how) == pc' = how /\ UNCHANGED <<in, pass, first, pod, todo, unmounted, unpassed>>

(***************************************************************************)
(* addToModel of the Deployment: the image of the environment.             *)
(***************************************************************************)
OverrideImage ==
  /\ pc = "override"
  /\ IF in.envImage /\ NoBackend THEN Ends("panic")
     ELSE /\ pod' = IF ~in.envImage THEN pod
                    ELSE [pod EXCEPT !.images[1] = "env",
                                     !.initImages = [n \in DOMAIN in.init |-> "env"]]
          /\ pc' = "settings"
          /\ UNCHANGED <<in, pass, first, todo, unmounted, unpassed>>

(***************************************************************************)
(* validate of the Deployment: setReplicas, setImagePullSecrets, setImage, *)
(* addExtraEnvs; then the contributors.                                    *)
(***************************************************************************)
\* Wrong variant: an image that is not given is set.
AllImagesUnchecked(images, image) == [n \in DOMAIN images |-> image]

AllImages(images, image) ==
  IF image = "nil" THEN images ELSE [n \in DOMAIN images |-> image]

ApplySettings ==
  /\ pc = "settings"
  /\ IF NoBackend /\ in.spec.envs # << >> THEN Ends("panic")
     ELSE /\ pod' = [pod EXCEPT
                       !.replicas    = IF in.spec.replicas = "nil" THEN @ ELSE "spec",
                       !.pullSecrets = @ \o in.spec.pullSecrets,
                       !.images      = AllImages(@, in.spec.image),
                       !.initImages  = AllImages(@, in.spec.image),
                       !.env = @ \o [n \in DOMAIN in.spec.envs |->
                                       [kind |-> "value", name |-> "", var |-> in.spec.envs[n]]]]
          /\ todo' = Contributions(in)
          /\ pc' = "contribute"
          /\ UNCHANGED <<in, pass, first, unmounted, unpassed>>

(***************************************************************************)
(* updatePod of the contribution whose turn it is.                         *)
(***************************************************************************)
Turn(c) == pc = "contribute" /\ todo # << >> /\ c = Head(todo)

\* Wrong variant: a secret may be mounted without a key.
FailsWithoutPluginsOnly(c) ==
  c.op = "plugins" /\ c.name = in.spec.plugins /\ ~HasPluginsContainer(in)

\* addSecretFiles wants a key, addDynamicPlugins the init container.
Fails(c) ==
  \/ c.kind = "Secret" /\ "" \in c.keys
  \/ c.op = "plugins" /\ c.name = in.spec.plugins /\ ~HasPluginsContainer(in)

\* Wrong variant: updatePod does not ask for the init container.
IgnoredNever(c) == FALSE

\* The default plugins wait for their validate to fail.
Ignored(c) == c.op = "plugins" /\ c.name # in.spec.plugins /\ ~HasPluginsContainer(in)

ContributionFails(c) == Turn(c) /\ Fails(c) /\ Ends("error")

\* Containers[0] of none, or the working directory of an init container that is nil.
ContributionPanics(c) ==
  /\ Turn(c) /\ ~Fails(c) /\ ~Ignored(c)
  /\ IF c.op = "plugins" THEN ~HasPluginsContainer(in) ELSE NoBackend
  /\ Ends("panic")

IgnorePlugins(c) ==
  /\ Turn(c) /\ Ignored(c)
  /\ todo' = Tail(todo)
  /\ UNCHANGED <<in, pass, first, pc, pod, unmounted, unpassed>>

AddEnvVarsFrom(c) ==
  /\ Turn(c) /\ ~Fails(c) /\ c.op = "env" /\ ~NoBackend
  /\ pod' = IF c.key = ""
            THEN [pod EXCEPT !.envFrom = Append(@, [kind |-> c.kind, name |-> c.name])]
            ELSE [pod EXCEPT !.env = Append(@, [kind |-> c.kind, name |-> c.name, var |-> c.key])]
  /\ todo' = Tail(todo)
  /\ UNCHANGED <<in, pass, first, pc, unmounted, unpassed>>

\* Files of the plugins go to the first init container, all others to the backend.
WithMount(p, c, mount) ==
  IF c.op = "plugins" THEN [p EXCEPT !.initMounts = Append(@, mount)]
                      ELSE [p EXCEPT !.mounts = Append(@, mount)]

\* MountFilesFrom: the volume, and, for an object without data, its directory.
AddVolume(c) ==
  /\ Turn(c) /\ ~Fails(c) /\ ~Ignored(c)
  /\ \/ c.op = "plugins" /\ HasPluginsContainer(in)
     \/ c.op \in {"appConfig", "files"} /\ ~NoBackend
  /\ LET p == [pod EXCEPT !.volumes = Append(@, [name |-> c.name, kind |-> c.kind])]
     IN  pod' = IF c.keys = {} THEN WithMount(p, c, DirMount(c)) ELSE p
  /\ unmounted' = Selected(c)
  /\ unpassed' = Passed(c)
  /\ pc' = "mount"
  /\ UNCHANGED <<in, pass, first, todo>>

\* Wrong variant: the loop is left at the first file.
MountFileAndLeave(f) ==
  /\ pc = "mount" /\ f \in unmounted
  /\ pod' = WithMount(pod, Head(todo), MountOf(Head(todo), f))
  /\ unmounted' = {}
  /\ UNCHANGED <<in, pass, first, pc, todo, unpassed>>

\* An iteration of the loop of MountFilesFrom ...
MountFile(f) ==
  /\ pc = "mount" /\ f \in unmounted
  /\ pod' = WithMount(pod, Head(todo), MountOf(Head(todo), f))
  /\ unmounted' = unmounted \ {f}
  /\ UNCHANGED <<in, pass, first, pc, todo, unpassed>>

\* ... and of the loop of AppConfig.updatePod after it.
PassFile(f) ==
  /\ pc = "mount" /\ unmounted = {} /\ f \in unpassed
  /\ pod' = [pod EXCEPT !.args = Append(@, MountOf(Head(todo), f))]
  /\ unpassed' = unpassed \ {f}
  /\ UNCHANGED <<in, pass, first, pc, todo, unmounted>>

FilesEnd ==
  /\ pc = "mount" /\ unmounted = {} /\ unpassed = {}
  /\ pc' = "contribute" /\ todo' = Tail(todo)
  /\ UNCHANGED <<in, pass, first, pod, unmounted, unpassed>>

\* The DB secret of the model comes last.
HasDbSecret == "db-secret" \in Added(RuntimeInput(in))
DbSecretRef == [kind |-> "Secret", name |-> "bs-backstage-db"]

AddDbSecret ==
  /\ pc = "contribute" /\ todo = << >>
  /\ IF HasDbSecret /\ NoBackend THEN Ends("panic")
     ELSE /\ pod' = IF HasDbSecret
                    THEN [pod EXCEPT !.envFrom = Append(@, DbSecretRef)] ELSE pod
          /\ pc' = "plugins"
          /\ UNCHANGED <<in, pass, first, todo, unmounted, unpassed>>

(***************************************************************************)
(* validate of the default dynamic plugins.  Its override of the image is  *)
(* that of the loop variable of dynamicPluginsInitContainer, a copy.       *)
(***************************************************************************)
HasDefaultPlugins == "dynamic-plugins" \in Added(RuntimeInput(in))

\* Wrong variant: the override reaches the container.
ValidatePluginsOfPod ==
  /\ pc = "plugins"
  /\ IF HasDefaultPlugins /\ ~HasPluginsContainer(in) THEN Ends("error")
     ELSE /\ pod' = IF HasDefaultPlugins /\ in.envImage
                    THEN [pod EXCEPT !.initImages =
                            [n \in DOMAIN @ |-> IF in.init[n] = PluginsContainer THEN "env" ELSE @[n]]]
                    ELSE pod
          /\ pc' = "done"
          /\ UNCHANGED <<in, pass, first, todo, unmounted, unpassed>>

ValidatePlugins ==
  /\ pc = "plugins"
  /\ Ends(IF HasDefaultPlugins /\ ~HasPluginsContainer(in) THEN "error" ELSE "done")

\* Wrong variant: the Deployment of the first pass is used again.
AgainWithoutReading ==
  /\ pc = "done" /\ pass = 1
  /\ pass' = 2 /\ first' = pod /\ pc' = "override"
  /\ UNCHANGED <<in, pod, todo, unmounted, unpassed>>

\* The next pass reads deployment.yaml again.
Again ==
  /\ pc = "done" /\ pass = 1
  /\ pass' = 2 /\ first' = pod
  /\ pod' = NewPod(in) /\ pc' = "override"
  /\ UNCHANGED <<in, todo, unmounted, unpassed>>

Contribute(c) ==
  \/ ContributionFails(c) \/ ContributionPanics(c) \/ IgnorePlugins(c)
  \/ AddEnvVarsFrom(c) \/ AddVolume(c)

Next ==
  \/ OverrideImage \/ ApplySettings
  \/ \E c \in Range(todo) : Contribute(c)
  \/ \E f \in unmounted : MountFile(f)
  \/ \E f \in unpassed : PassFile(f)
  \/ FilesEnd \/ AddDbSecret \/ ValidatePlugins \/ Again

Spec == Init /\ [][Next]_vars
--------------------------------------------------------------------------------
(* Properties.                                                                  *)

ContributionType ==
  [ op : {"appConfig", "files", "env", "plugins"}, kind : {"ConfigMap", "Secret"},
    name : Names \cup Range(DefaultName), path : Dirs \cup {"", DefaultMountDir, PluginsContainer},
    key : Keys \cup {"", DynamicPluginsFile}, keys : SUBSET (Keys \cup {""}) ]

MountType ==
  [ volume : Names \cup Range(DefaultName), dir : Dirs \cup {"", DefaultMountDir, PluginsContainer},
    file : Keys \cup Names \cup Range(DefaultName) \cup {""} ]

PodType ==
  [ replicas : {"own", "spec"}, pullSecrets : Seq(Names),
    images : Seq(Images), initImages : Seq(Images),
    volumes : Seq([name : Names \cup Range(DefaultName), kind : {"ConfigMap", "Secret"}]),
    mounts : Seq(MountType), initMounts : Seq(MountType), args : Seq(MountType),
    env : Seq([kind : {"value", "ConfigMap", "Secret"},
               name : Names \cup Range(DefaultName) \cup {""}, var : Names \cup Keys]),
    envFrom : Seq([kind : {"ConfigMap", "Secret"},
                   name : Names \cup Range(DefaultName) \cup {DbSecretRef.name}]) ]

TypeOK ==
  /\ in \in Inputs /\ pass \in {1, 2}
  /\ pc \in {"override", "settings", "contribute", "mount", "plugins", "done", "error", "panic"}
  /\ pod \in PodType /\ first \in PodType
  /\ todo \in Seq(ContributionType)
  /\ unmounted \subseteq Keys /\ unpassed \subseteq Keys

\* Every "--config" argument names a file that is mounted in the backend: the
\* mounts and the arguments come from two loops that filter and join paths on
\* their own (pod-mutator.go:67-77, appconfig.go:116-122).
ConfigArgsMounted == Range(pod.args) \subseteq Range(pod.mounts)

\* The arguments are all the selected files, those of one ConfigMap together, in
\* the order of the AppConfigs list (backstage_types.go:77-81), and the default
\* app-config before them: Backstage lets later files override earlier ones.
AppConfigs(i) ==
  Default(i, "app-config")
    \o Listed(i, i.spec.appConfigs, "appConfig", "ConfigMap", MountDir(i.spec.appPath))

ConfigArgsInOrder ==
  pc = "done" =>
    LET acs == AppConfigs(in)
    IN  /\ \A n \in DOMAIN acs : \A f \in Selected(acs[n]) :
             MountOf(acs[n], f) \in Range(pod.args)
        /\ \E of \in [DOMAIN pod.args -> DOMAIN acs] :
             /\ \A a \in DOMAIN pod.args : \E f \in Selected(acs[of[a]]) :
                  pod.args[a] = MountOf(acs[of[a]], f)
             /\ \A a, b \in DOMAIN pod.args : a < b => of[a] <= of[b]

\* The pod has what the default files and the lists of the spec ask for, and nothing
\* else: of an object all files if no key is given, "Otherwise, only the specified
\* key" (backstage_types.go:127-128, 143-144, 156-163), once the loops over the data
\* are through, whichever file came first and whichever list named the object.
FilesOf(name, data, key, dir) ==
  {[volume |-> name, dir |-> dir, file |-> f] :
     f \in IF data = {} THEN {name} ELSE {g \in data : key \in {"", g}}}

FilesAsked(i) ==
  LET s == i.spec
      own == i.files \cap {"app-config", "configmap-files", "secret-files"}
  IN  (UNION {FilesOf(DefaultName[k], i.keys[k], "", DefaultMountDir) : k \in own})
        \cup (UNION {FilesOf(r.name, i.data[r.name], r.key, MountDir(s.appPath)) : r \in Range(s.appConfigs)})
        \cup (UNION {FilesOf(r.name, i.data[r.name], r.key, MountDir(s.filesPath)) : r \in Range(s.files)})
        \cup (UNION {FilesOf(r.name, {r.key}, r.key, MountDir(s.filesPath)) : r \in Range(s.secretFiles)})

\* The ConfigMap of the spec takes the place of the default one.
PluginsAsked(i) ==
  LET asked(name, data) == FilesOf(name, data, DynamicPluginsFile, PluginsContainer)
      k == "dynamic-plugins"
  IN  IF i.spec.plugins # "" THEN asked(i.spec.plugins, i.data[i.spec.plugins])
      ELSE IF k \in i.files THEN asked(DefaultName[k], i.keys[k]) ELSE {}

\* References of the spec with a key are variables, those without sources.
EnvAsked(i) ==
  LET variables(kind, refs) == {[kind |-> kind, name |-> r.name, var |-> r.key] :
                             r \in {x \in Range(refs) : x.key # ""}}
  IN  {[kind |-> "value", name |-> "", var |-> e] : e \in Range(i.spec.envs)}
        \cup variables("ConfigMap", i.spec.cmEnvs) \cup variables("Secret", i.spec.secretEnvs)

EnvFromAsked(i) ==
  LET source(kind, name) == [kind |-> kind, name |-> name]
      keyless(refs) == {r \in Range(refs) : r.key = ""}
  IN  {source("ConfigMap", DefaultName[k]) : k \in i.files \cap {"configmap-envs"}}
        \cup {source("Secret", DefaultName[k]) : k \in i.files \cap {"secret-envs"}}
        \cup {source("ConfigMap", r.name) : r \in keyless(i.spec.cmEnvs)}
        \cup {source("Secret", r.name) : r \in keyless(i.spec.secretEnvs)}
        \cup (IF i.localDb /\ "db-secret" \in i.files THEN {DbSecretRef} ELSE {})

HasWhatIsAsked ==
  pc = "done" =>
    /\ Range(pod.mounts) = FilesAsked(in) /\ Range(pod.initMounts) = PluginsAsked(in)
    /\ Range(pod.env) = EnvAsked(in) /\ Range(pod.envFrom) = EnvFromAsked(in)

\* Two passes over the same input make the same pod, except for the order of the
\* files of one ConfigMap, which is that of a Go map: nothing piles up from pass
\* to pass, and where each object has one file the Deployment does not change.
Permuted(s, t) == Len(s) = Len(t) /\ Range(s) = Range(t)

SamePod ==
  pc = "done" /\ pass = 2 =>
    /\ [pod EXCEPT !.mounts = << >>, !.args = << >>]
         = [first EXCEPT !.mounts = << >>, !.args = << >>]
    /\ Permuted(pod.mounts, first.mounts) /\ Permuted(pod.args, first.args)
    /\ (\A c \in Range(Contributions(in)) : Cardinality(Selected(c)) <= 1) => pod = first

\* The image of the spec is that of "all containers (including Init Containers)"
\* (backstage_types.go:107), whatever the environment of the operator says and
\* although validate of the dynamic plugins, which comes later, overrides one
\* (dynamic-plugins.go:130-135).
ImageEverywhere ==
  pc = "done" /\ in.spec.image = "spec" =>
    Range(pod.images) \cup Range(pod.initImages) \subseteq {"spec"}

\* What the API server asks of a pod: volumes have different names, the mounts of
\* a container different paths, and each mount is of a volume of the pod.
Path(m) == <<m.dir, m.file>>

UniqueVolumes(p) ==
  \A i, j \in DOMAIN p.volumes : p.volumes[i].name = p.volumes[j].name => i = j

UniquePaths(mounts) ==
  \A i, j \in DOMAIN mounts : Path(mounts[i]) = Path(mounts[j]) => i = j

Valid(p) ==
  /\ UniqueVolumes(p) /\ UniquePaths(p.mounts) /\ UniquePaths(p.initMounts)
  /\ \A m \in Range(p.mounts) \cup Range(p.initMounts) :
       \E v \in Range(p.volumes) : v.name = m.volume

\* No two of the contributions are objects of one name, or have files of one path.
DistinctFiles(contributions) ==
  \A a, b \in {n \in DOMAIN contributions : contributions[n].op \in {"appConfig", "files"}} :
    a # b /\ contributions[a].path = contributions[b].path =>
      Selected(contributions[a]) \cap Selected(contributions[b]) = {}

DistinctObjects(contributions) ==
  \A a, b \in {n \in DOMAIN contributions : contributions[n].op # "env"} :
    a # b => contributions[a].name # contributions[b].name

\* A pod made of distinct objects with distinct files is accepted: default and
\* configured plugins, and files and their arguments, do not get into each
\* other's way (one rejected Deployment stops every later step of a pass).
AcceptedIfDistinct ==
  pc = "done" /\ DistinctFiles(Contributions(in)) /\ DistinctObjects(Contributions(in))
    => Valid(pod)

\* The closed form that Reconcile builds on (ValidateFails of RuntimeModel) says
\* exactly when the validation fails, in whatever order the contributions come.
FailsAsModelled ==
  pc \in {"done", "error"} =>
    (pc = "error" <=> \E k \in Added(RuntimeInput(in)) : ValidateFails(RuntimeInput(in), k))

\* Only a Deployment without containers makes the validation panic: nil init
\* containers, absent data and empty lists are all dealt with.
PanicsOnlyWithoutBackend == pc = "panic" => NoBackend

\* What the spec refers to comes after the defaults, so that it wins, and the DB
\* secret after everything (the last of the sources of a variable counts).
FromDefault(ref) == ref.name \in Range(DefaultName)

SpecWins ==
  /\ \A a, b \in DOMAIN pod.envFrom :
       FromDefault(pod.envFrom[a]) /\ ~FromDefault(pod.envFrom[b]) => a < b
  /\ \A a, b \in DOMAIN pod.args :
       pod.args[a].volume \in Range(DefaultName)
         /\ pod.args[b].volume \notin Range(DefaultName) => a < b
  /\ pc = "done" /\ HasDbSecret => pod.envFrom[Len(pod.envFrom)] = DbSecretRef

--------------------------------------------------------------------------------
(* What the repository says and the code does not do (see README, findings).    *)

\* api/v1alpha1/backstage_types.go:142-144, of extraFiles.configMaps: "For each item
\* in this array, if a key is not specified, ... all keys in the ConfigMap will be
\* mounted as files. Otherwise, only the specified key will be mounted as a file."
\* Here for references that select different files of existing ConfigMaps.
EachItemMounted ==
  pc = "done" /\ DistinctFiles(SpecContributions(in)) /\ in.files = {} => UniqueVolumes(pod)
================================================================================
