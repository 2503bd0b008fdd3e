# A TLA+ model of the Backstage operator

The operator (`src/`) watches one custom resource, `Backstage`, and keeps a Backstage
workload for it in the cluster: a Deployment, a Service, on OpenShift a Route, a local
PostgreSQL (StatefulSet, Service, Secret) unless an external one is configured, and the
ConfigMaps and Secrets the pod reads. This directory models the program's core logic,
checks it with TLC on small instances and proves most of its safety with TLAPS.

## 1. Inventory

| Component | State it keeps | Operations | What makes it hard | What makes it correct |
|---|---|---|---|---|
| Reconciler (`controllers/backstage_controller.go`) | nothing between calls; within a call its copy of the CR, the model, the next object | `Reconcile`: `preprocessSpec`, `InitObjects`, `applyObjects` (`patchObject`), `cleanObjects`, deferred status update | it is one of several clients of the API server: every call may find the CR or the objects changed, fail, or be the last before a crash; it reads from caches; a swallowed error is a lost retry | level triggering: at rest the objects are those of the last spec; *Deployed* is never a lie; the DB password survives; what others add survives; the database goes after the pod |
| Spec preprocessor (`controllers/spec_preprocessor.go`) | the ConfigMaps read so far | one `Get` per ConfigMap the spec names | ConfigMaps come and go between the reads | nothing is made from a part of them |
| Runtime object model (`pkg/model/runtime.go`) | registered kinds; per call a `BackstageModel` with nil-able pointers and the list `RuntimeObjects` | `InitObjects`: load and overlay, validate, sort; `setMetaInfo` | phases depend on each other through pointers; objects refer to each other by names assigned on the way; the sort's comparison is inconsistent | no nil dereference, closed references, a fixed order |
| Runtime objects (`pkg/model/*.go`) | the Kubernetes object each holds | `setObject`, `addToModel`, `validate`, `setMetaInfo`, `updatePod` for twelve kinds | mandatory, optional, only with a local database, only on OpenShift | what is added is not what `cleanObjects` deletes |
| Pod mutation (`pkg/utils/pod-mutator.go`, `updatePod` of the kinds, setters of `deployment.go`) | volumes, mounts, environment, arguments, images of the pod | `MountFilesFrom`, `AddEnvVarsFrom`, `setImage`, ... | six contributors that know nothing of each other; loops over Go maps; two loops with two filters; containers that may be absent | arguments name mounted files in the order of the spec; two passes make the same pod; the API server accepts it; the spec wins |
| Manager (`main.go`) | informers, work queue, one worker | start, watch, serve, retry | edits while the CR is being served; one worker for all CRs; status writes that trigger passes; a panic takes the process along | no write is forgotten; every CR is served; the process comes to rest |
| API types (`api/v1alpha1`) | the CR | four predicates on the spec | nil pointers and defaults | route and database decisions |
| Default configuration (`config/manager/default-config`) | files named after the keys | read by `InitObjects` | any of them may be absent or malformed | mandatory ones are reported |
| Generated code, packaging, scripts, tests | – | – | – | not modelled |

How they interact: a watch event of a CR puts its name in the work queue; the single
worker calls `Reconcile`; that calls the preprocessor, the model and the API server, and
writes the status, which is again a watch event. `InitObjects` makes the pod in the
`validate` of the Deployment, where each object of the model and each list of the spec
contributes. An error returned by `Reconcile` puts the name back into the queue after a
backoff. Users, the garbage collector and other controllers write to the same API server
at any time.

The hazards, each at its line, are in `PROJECT.json`.

## 2. Modules

| Module | Models | Role |
|---|---|---|
| `RuntimeModel` | the predicates on the spec, the twelve `addToModel`, the closed form of `InitObjects` (`LoadStep`, `Added`, `InitOutcome`), the order of `applyObjects` and `cleanObjects` | pure operators, used by the others |
| `InitObjects` | `model.InitObjects`, one step per loop iteration | shows that the closed form is what the loops compute |
| `BackstagePod` | the pod of the Deployment, one step per call or iteration over a Go map | what `InitObjects` leaves out: the content of the pod |
| `Workload` | versions of the CR, the objects made for it, when live objects are in sync with a spec | data shared by the two below |
| `Reconcile` | the reconciler against API server, caches, queue, users, garbage collector, crashes | the core; it calls `InitObjects` in its closed form |
| `DesiredState` | what the operator promises, without its steps | abstract specification that `Reconcile` implements |
| `Manager` | informers, work queue, retries, restarts, several CRs | `Reconcile` seen from outside |
| `MCInitObjects`, `MCBackstagePod`, `MCReconcile`, `MCManager` | – | inputs, specs and scenarios of the TLC runs |
| `InitObjectsProofs`, `ClosedFormProofs`, `BackstagePodProofs`, `PodFormProofs`, `AcceptedProofs`, `ReconcileProofs`, `ImplementationProofs`, `ManagerProofs` | – | theorems |

### `InitObjects`

`in` holds the arguments (files, overlay, platform, spec), `phase`/`i`/`j` the position in
the loops, `object` and `name` what each runtime object holds and whether `setMetaInfo` has
named it, `model` the non-nil pointers of `BackstageModel`, `runtimeObjects` the list.
`references` is derived state: which object has been made to refer to which, *by the name
the target had at that moment*. A nil dereference is the phase `"panic"`. The sort is the
insertion sort that `sort.Slice` uses for at most twelve elements, with the comparison of
the code; it has to be modelled, since the comparison is not a strict order and the result
depends on the algorithm.

### `BackstagePod`

`in` is what a pass is given: how many containers `deployment.yaml` has and the names of its
init containers, the other default files with their keys, the ConfigMaps' keys, whether the
environment overrides the images (`RELATED_IMAGE_backstage`), the spec. `pod` is what the
operator adds to the template; `todo` are the contributions left, in the order of
`BackstageDeployment.validate`: the objects of the model in the order of registration, then
the lists of the spec in the order of the code. `unmounted` and `unpassed` are the keys the
two loops over a Go map have still to visit; any of them may be next. The actions are
`OverrideImage` (`addToModel`), `ApplySettings` (replicas, pull secrets, image, variables),
`AddEnvVarsFrom`, `AddVolume`/`MountFile` (`MountFilesFrom`), `PassFile` (the `--config`
arguments), `ContributionFails`, `ContributionPanics`, `IgnorePlugins`, `AddDbSecret`,
`ValidatePlugins` (the last validation that touches the pod). `Again` begins a second pass
over the same input, `first` is the pod of the first one.

Volumes, mounts and arguments keep the names, directories and files they are made of;
`subPath`, read-only flags and default modes follow from these and are left out. A
reference to a secret is taken to be to a key that exists, because the operator never
reads the secret.

### `Reconcile`

API server: `cr`, `cms` (contents of the ConfigMaps), `live` (the runtime objects; an object
is named by its kind, because names derive from the kind and the name of the CR). Manager:
`crCache`, `objCache`, `queued`. The call: `pc`, its copy `backstage`, `unread`/`ext` of the
preprocessor, `desired`, `todo`, `base`, `failed`. One action is one API call or the return
of a function: `GetCr`, `ReadConfigMap`, `InitModel`, `CreateSecret`, `GetObject`,
`CreateObject`, `PatchObject`, `ApplyEnds`, `TryToDelete`, `CleanEnds`, `CallFails`,
`UpdateStatus`, `StatusConflict`, `StatusFails`. The environment: `CreateCr`, `EditCr`,
`DeleteCr`, `WriteConfigMap`; `Label`, `Change` and `Delete` of an object by others;
`CollectGarbage`, `SyncCr`, `SyncObject`, `Crash`. `left` counts down how often each bounded
event may still happen; a behaviour starts with the budget of one of `Scenarios`.

An object is a record of what the properties tell apart: the pod's part of the spec
(`app`), the objects and ConfigMaps it reads (`refs`, `ext`), its fields or keys
(`entries`), its owner, and whether others have labelled it. `MergePatch` is the JSON merge
patch of `client.MergeFrom`: the differences of the desired object from the *base the code
read*, applied to whatever the object is by then. Secrets are never read: their base is
the empty object, so a patch only adds entries.

What is abstracted:

- Backoff is left out: a retried request is simply queued (`Manager` has the delay).
- The text of the condition is left out; the condition is its reason. So a failed pass
  that only changes the text makes no new version (`Manager` has the texts).
- ConfigMaps are those the informer shows, so a stale read of one is a read before
  the write. A request that was queued before the process starts again is found by the
  initial list. One process is active (leader election is enabled in `manager.yaml:74`).
- A panic runs the deferred status update and then ends the process (the manager does
  not recover panics).
- The Deployment shipped has the init container of the dynamic plugins; `InitObjects`
  and `BackstagePod` have it absent too.
- A write of a runtime object by its own controller (status) does not matter to the
  operator and is left out.

### `DesiredState`

The controller `Learn`s versions of the CR, `Look`s at one, and then `Realise`s or `Remove`s
one object at a time, in no order, as often as it likes; it `Report`s *Deployed* only of the
last version and only while the objects are in sync with it. There are no passes, caches of
objects, patches, faults or crashes in it. The rules that constrain it are those that
users rely on: an object goes to what the version at hand asks for and nowhere else, an
existing password is not touched, the database is not removed while the pod uses it, others'
labels stay. `Reconcile` implements it under the mapping `known <- crCache`,
`copy <- VersionOf(backstage)`: `GetCr` is a `Look`, a restart a `Learn`, the reads and
`InitModel` are stutters, and a `CreateObject` or `PatchObject`, whatever its base, amounts to
a `Realise`.

### `Manager`

API server: `spec` and `status` per CR, `present` (a ConfigMap that some specs need).
Process: `alive`, `event` and `cached` (informer), `queue`, `dirty` and `waiting` (the work
queue of client-go: requests in order, the set that keeps a request from being queued twice
and has it queued again if it comes while being served, and the retries), and the call:
`current`, `reading` (the spec it read from the cache), `outdated` (the version it read is no
longer the last). `applied` is what the last successful pass of each CR applied. The actions:
`WriteCr`, `WriteConfigMap`; `Start`, `Crash`; `Deliver`, `RetryDue`; `Take` and one of
`ServeGone`, `ServeWell`, `ServeFails`, `ServePanics`. A pass is two steps (it reads; it
applies and writes the status), since `Reconcile` has what is in between.

## 3. Runs

| Run | Question | Bounds |
|---|---|---|
| `init_objects` | For which inputs does `InitObjects` fail, panic, succeed, and with what? | every configuration that deviates from a complete one in one file (absent, malformed, overlaid, overlay malformed), the shipped one, the fully overlaid one; with and without init container, OpenShift; 45 specs |
| `pod` | What pod is made, in whatever order the maps are visited, and is it the same the next time? | 0 to 2 containers; no init container, that of the plugins, another one before it; four sets of default files; ten specs, each using a part of `spec.application`; ConfigMaps with one or two keys; two passes |
| `passes` | Do edits at any moment get lost, is *Deployed* true, does the DB secret survive, is all this `DesiredState`? | an edit between a local and an external database, together with a write of the ConfigMap the latter reads (present or not at first), or a failing call and a crash, or a label; a deletion; two passwords |
| `routes` | Routes, raw configuration, panics, lagging informers of the Deployment and the Route | three specs (raw configuration with a route field, route disabled, full route), a ConfigMap that is missing, good or malformed; edit, crash, failing status update |
| `live` | Does it come to rest in the right state? Are the objects of a deleted CR collected? | an edit with a write of a ConfigMap and a failing call; two CRs of a name and a crash; an edit with a label, a change or a deletion of any object by others |
| `manager` | Is any write forgotten, is every CR served, does the process come to rest? | two CRs, four specs (two good, one that needs a ConfigMap, one that panics), two messages; two writes, one crash |

Why the bounds are enough. In `init_objects` each decision of the code depends on at most
two keys and one spec field, one of the keys always being at one of its two ordinary values;
the theorems have no such bound. In `pod` every branch of every contributor is taken, two
files suffice for an order of a map, two references for a clash, and two passes for what
piles up. In the runs of `Reconcile` two events of the same kind or one each of three kinds
suffice for the races looked for: a race needs an event while a call is under way, and a
second to hit the retry of it. Passes are unbounded: a retry or a self-inflicted reconcile
may happen any number of times. In `manager` two CRs are one that is served and one that must
not starve, and two messages are what makes each failed pass trigger the next one.

`CHECK_DEADLOCK FALSE` in all runs but those of `InitObjects`: those systems rest when the budgets are
spent and nothing is left to do (`pod` ends with the second pod). That they do not rest too
early is `SettledInSync`, `Converges` and `EachServed`.

Fairness in `Reconcile` (`live`, `status_lost`): weak fairness of the worker (a goroutine
that takes the next request and finishes the call, every API call returns), of the informer
of the CR and of each object, and of the garbage collector. In `Manager`: of `Start` (the
pod of the operator is restarted by its Deployment), of the worker, and for each CR of
its informer events and its retry (a timer). Users, faults and crashes owe nothing; each is
bounded, so all liveness properties are about what happens after the last of them.
`Converges` supposes that the ConfigMaps of the last spec exist, the liveness properties of
`Manager` that no CR is left on which every pass panics.

What the properties say, in short; the comment above each names the code.

`InitObjects`:

- `PanicsOnlyOnFullRoute`, `ReferencesClosed`, `SameCredentials`, `AppliedNotCleaned`,
  `SortedForReconcile`. `ComputesClosedForm` ties the loops to what `Reconcile` uses.

`BackstagePod`:

- `ConfigArgsMounted`, `ConfigArgsInOrder`: the mounts and the `--config` arguments come
  from two loops with two filters; each argument names a mounted file, none is missing, and
  they follow the list of the spec.
- `SamePod`: nothing piles up from pass to pass; where each object has one file the
  Deployment does not change at all.
- `HasWhatIsAsked`: the finished pod has the files, variables and sources that the default
  files and the lists of the spec ask for, and nothing else.
- `AcceptedIfDistinct`: volumes and mount paths are unique if the objects and files are;
  in other words the operator adds no clash of its own.
- `ImageEverywhere`, `SpecWins`: what overrides what.
- `FailsAsModelled`, `PanicsOnlyWithoutBackend`: where it fails is where the closed form
  says, and the only panic is the one for a template without containers.

`Reconcile`:

- `SettledInSync`: when the worker is idle, the queue empty and the cache current, the
  objects are those of the last spec, made from one reading of its ConfigMaps (not
  necessarily the last one: ConfigMaps are not watched, so a later change of one is
  seen only when something else triggers a reconcile). This is the promise of level
  triggering, and every swallowed error, forgotten retry or wrong order in a pass breaks it.
- `DeployedMeansApplied`, `StoredStatusIsVerdict`: the status tells the truth. (A CR on
  which `InitObjects` panics does get *DeployInProgress* stored; the specs of `passes` are
  those without panic.)
- `DbSecretKept`, `DbDeletedAfterSwitch`: the two ways to lose the database.
- `OthersLabelsKept`: `patchObject` with a base that is out of date.
- `ReadBeforeUse`: nothing is made from a part of the ConfigMaps.
- `Converges`, `StatusConverges`, `Collected`: liveness. `Converges` is also about objects
  that others have changed or deleted: the next pass brings them back.
- `ImplementsDesiredState`: every step is a step of `DesiredState` or a stutter.

`Manager`:

- `NothingForgotten`: as long as the last spec of a CR is not applied there is an event, a
  request, a retry or a pass for it.
- `DeployedOfThisSpec`: *Deployed* is stored only on the spec that was applied.
- `EachServed`, `ServedOnceComplete`, `ComesToRest`: liveness.

Each property has a mutant in `PROJECT.json`: an operator marked "Wrong variant" in the
module, with which TLC finds the property violated.

## 4. What the code does and its documentation does not say

Each is a run that ends in a counterexample.

- `status_lost`: a status update that fails otherwise than by a conflict is only logged,
  and nothing retries it; the status stays at its former value.
- `stale_base`: spec A, edited to B, edited back to A while the informer of the Deployment
  still shows A: the patch is empty, B stays, the status says *Deployed*.
- `secret_of_former_cr`: a CR created again before its former objects are collected keeps
  the former DB secret, which the collector then deletes; nothing creates it again.
- `route_by_default`: a CR without `spec.application.route` has its default Route created
  and deleted in each pass.
- `route_fields_ignored`: `IsRouteEmpty` is inverted; a route with all its fields is
  ignored, and without a `route.yaml` it makes the operator panic (`PanicsOnlyOnFullRoute`).
- `volumes_clash`: two keys of one ConfigMap, each listed as an extra file, give a pod with
  two volumes of one name (`pod-mutator.go:65`), which the API server rejects; the API
  documents exactly this use (`backstage_types.go:143-144`).

Also seen, without a run of its own:

- Owned objects are not watched (`Owns` is commented out, `backstage_controller.go:287-292`),
  so a change by others stays until another event, whereas `main.go:69` promises that they
  "will be syncing".
- The order in which a ConfigMap with several keys is mounted and passed is that of a Go
  map, so the Deployment may change from pass to pass without a change of the spec, and the
  precedence of the files within one ConfigMap is left to chance (`SamePod` and
  `ConfigArgsInOrder` are stated up to that order).
- A key that the ConfigMap does not have mounts nothing and is no error, whereas the comment
  of `MountFilesFrom` says otherwise (`pod-mutator.go:45`).
- The dynamic plugins are mounted into the first init container, not the one looked up
  (`dynamic-plugins.go:115`, against its comment in 106-107).
- A local database without `db-secret.yaml` (mandatory "For DB enabled", `admin.md:33`) is
  deployed without credentials and without an error.
- `authSecretName` only keeps the password from being generated and is otherwise unused
  (`backstage_types.go:61`, `db-secret.go:77`).
- `db-service-hl.yaml` of `admin.md:32` is not registered.

## 5. Proofs

The assumptions are the types of the constants (`WorkloadAssumption`, `ReconcileAssumption`,
`ManagerAssumption`, `InputsAssumption`, `PodAssumption`), which TLC evaluates in the runs of
the modules that declare them. Where a theorem needs more, it says so in an `ASSUME` of its own.

### `ReconcileProofs`

For every set of specs, ConfigMaps and passwords, every default configuration, every set of
lagging informers and every budget:

- `TypeCorrect`: `Spec => []TypeOK`. `TypeOK` alone is not inductive: the entries of an
  object made from a raw configuration are the content of the ConfigMap, and that is a
  content only if the ConfigMap was found. The inductive invariant is `TypeInv ==
  TypeOK /\ ReadBeforeUse`, where `ReadBeforeUse` says that each ConfigMap of the spec is
  still unread or has been read with a content.
- `ConfigMapsRead`: `Spec => []ReadBeforeUse`, the other half.
- `DbSecretIsKept`: `Spec => DbSecretKept`. The step that matters is `PatchObject`: it must
  not be at the DB secret. The invariant `AtHand` says that while an object is being created
  or patched, the first of `todo` is some object other than the DB secret; `OneIsNext`
  (at most one object is first, because ranks are distinct) makes it *the* object patched.
- `LabelsAreKept`: `Spec => OthersLabelsKept`, from the type invariant and
  `PatchKeepsLabel`, which says that for any live object, base and desired object the
  patch keeps a label.

### `ImplementationProofs`

All but the last of these suppose `Undisturbed`: no informer of a runtime object lags, the CR
is created at most once, and others may label the objects but not change or delete them.
`stale_base` and `secret_of_former_cr` show that the first two are needed; the third, because
objects are not watched. Edits, deletion, failing calls, conflicts, crashes and everything
about ConfigMaps remain, any number of times.

- `DeployedIsTrue`: `Spec => []DeployedMeansApplied`.
- `SettledIsInSync`: `Spec => []SettledInSync`.
- `DatabaseIsSafe`: `Spec => DbDeletedAfterSwitch`.
- `Implements`: `Spec => ImplementsDesiredState`.
- `VerdictIsStored`: `Spec => []StoredStatusIsVerdict`, supposing only `NoPanic`: no spec and
  contents on which `InitObjects` panics.

The inductive invariant is `TypeInv /\ AtHand /\ Inv`, with the parts of `Inv`:

- `Alone`: what `Undisturbed` excludes has no budget left, and no copy has another uid than
  that of the only CR.
- `Copies`: the cache and the copy of a call are not newer than the CR, and the same
  resourceVersion means the same version.
- `Reading`: what has been read of the ConfigMaps of the copy is a possible reading.
- `Objects`: each live object is owned by this CR, and only the Deployment refers to others.
- `Base`: while an object is being patched, the base is the live object up to labels (that of
  a secret is empty). This is what makes a merge patch the move to the desired object.
- `PassInv`: what a pass has applied so far realises its version, what it has still to do
  is the rest, what it has deleted is gone. When `todo` is empty this is `InSync`.

For `SettledIsInSync` there is also `Trigger`: a call that nothing is to follow (the queue is
empty and the cache current) works on the last version, and one that does not return an
error has stored *Deployed* or is about to. TLC checked these invariants, too, on the instance of `passes`, before they were
proved.

`Abstract!Op` and `Op` of `Workload` are different operators to the prover; `SameAdded`,
`SameData` and the lemmas after them show that they agree. Each action then has a lemma
that it is a step of `DesiredState` or a stutter.

### `InitObjectsProofs` and `ClosedFormProofs`

For every set of inputs of the type of `InputsAssumption` (each of the twelve default files
and of the twelve overlays in any state, any spec, with and without OpenShift, where the run
`init_objects` has one deviating file at a time):

- `TypeCorrect`: `Spec => []TypeOK`.
- `PanicIsFullRoute`: `Spec => []PanicsOnlyOnFullRoute`. None of the nil pointers that
  `validate` dereferences without a check is nil.
- `NoDanglingReference`: `Spec => []ReferencesClosed`.
- `DisabledIsNotApplied`: `Spec => []AppliedNotCleaned`.
- `Sorts`: `Spec => []SortedForReconcile`.
- `ClosedForm`: `Spec => []ComputesClosedForm`, which is what lets `Reconcile` take
  `InitOutcome` for the loops.
- `CredentialsAgree`: `Spec => []SameCredentials`.

The first four follow from one inductive invariant, `IInv`. Its core, `ModelInv`, holds as
long as the call has not failed: the list consists of the added ones of the kinds loaded so
far, each of these kinds was loaded without a failure, the model points to the listed
objects, they have their names, and references lead to them. It is needed because
`validate` of one object relies on what phase 1 did for another one: once all kinds are
loaded, no `addToModel` has failed, so `MandatoryAdded` gives the Deployment, the Service
and, with a local database, its Service (`ModelComplete`). In the sort the invariant needs
`j <= i` and that a swap keeps the set of elements (`SwapKeepsRange`).

`Sorts` needs more. The comparison is no order in general, but the element that is being
inserted was registered after all those it is compared with, and of two elements in the
order of registration the comparison is that of the ranks (`LessIsRank`); so the insertion
sort does sort by rank (`SortInv`). `ClosedForm` and `CredentialsAgree` rest on `OutcomeInv`:
a call that has failed has failed as the closed form says, and each object validated so
far is one whose validation does not fail and that reads the DB secret if there is one.

### `BackstagePodProofs`, `PodFormProofs` and `AcceptedProofs`

For any template, default files, ConfigMaps and spec, and any number of keys, in any order
of the maps:

- `Typing`: `Spec => []TypeOK`.
- `ArgumentsAreMounted`: `Spec => []ConfigArgsMounted`. The invariant `FilesInv` says that
  each file still to be passed is mounted or still to be mounted: the two filters agree
  although they are written differently, and the arguments begin when all is mounted.
- `ImageOfSpec`: `Spec => []ImageEverywhere` (`ImageInv`: once the settings are applied no
  step touches an image).
- `PanicIsNoBackend`: `Spec => []PanicsOnlyWithoutBackend`.
- `FailsWhereModelled`: `Spec => []FailsAsModelled`. The
  closed form says that the validation of the Deployment fails exactly if some contribution
  does (`FailsExactly`), and by `FailInv` that is one of those still to come.
- `SecondPassSamePod`: `Spec => []SamePod`.
- `ArgumentsInOrder`: `Spec => []ConfigArgsInOrder`.
- `SpecOverrides`: `Spec => []SpecWins`, supposing `OwnNames`: the spec does not refer to
  the objects the operator makes itself (with the name of one of those a reference of the
  spec and a default cannot be told apart).

- `AllThatIsAsked`: `Spec => []HasWhatIsAsked`.

  These four follow from the closed form of the pod (`Finished`, in `PodFormProofs`). An
  entry is the position of a contribution and a file of it (or `""`); the volumes, mounts,
  arguments and variables each have a set of entries, which depends on the input alone, and
  the list of the pod is that of their items, each once, ordered by position (`Lists`). The
  invariant `FormInv` says the same of the pod in the making: it lists the entries of the
  contributions dealt with (`Upto`) and, of the current one, those of the files the loops
  have had (`With`). So the lists of two passes have the same length and elements
  (`ListsLen`); and where no position has two entries they are equal (`ListsSame`, by the
  least index at which they would differ). That holds for volumes, variables and sources,
  for the plugins because only one file of them is selected (`PluginsKey`), and for the rest
  if no object has two files. For the order of the arguments, `AppConfigsAre` finds the
  listed app-configs among the contributions; for what overrides what, `DefaultsComeFirst`
  says that these begin with the defaults. For `AllThatIsAsked`, the elements of each list are
  the items of its entries (`RangesAre`); `FilesAre`, `PluginsAre`, `VariablesAre` and
  `SourcesAre` find these contributions in the input and the other way round. The plugins
  have an init container to be mounted into, since nothing has failed (`FailInv`).
- `AcceptedWhenDistinct`: `Spec => []AcceptedIfDistinct`, supposing `NoNameIsAKey`: no
  ConfigMap or Secret is named like a key of one, since an object without data is mounted
  under its own name. `AcceptInv` says that the pod so far is valid, and that the
  contributions to come are apart from each other and from what is mounted (`Apart`,
  `Welcome`, `Unmounted`). That the plugins are mounted at most once (`PluginsOnce`) is not
  part of the hypothesis: the default ones are dropped where the spec has its own.

### `ManagerProofs`

For any number of CRs, specs and messages, of edits and of crashes:

- `Typing`: `Spec => []TypeOK`.
- `NeverForgotten`: `Spec => []NothingForgotten`.
- `DeployedIsOfThisSpec`: `Spec => DeployedOfThisSpec`.

The invariant `Fresh` relates the copies: without an event under way the cache is the CR, a
pass whose copy is not outdated has read the CR's spec, and a CR of which the pass at hand
has read another spec has an event or is marked. A request taken from the queue leaves
`dirty`; what replaces it is that the pass reads the spec, or that an event is still to come.

### Only model-checked

Liveness (`Converges`, `StatusConverges`, `Collected`, `EachServed`, `ServedOnceComplete`,
`ComesToRest`) is out of the prover's reach: it needs fairness and ENABLED. Every invariant
and every action property of the passing runs is a theorem, under the hypotheses named above.

## 6. Not modelled

- Generated code, registration, packaging, scripts, RBAC, metrics and probes: no state of
  the operator's logic.
- Leader hand-over with two active processes: the lease is client-go's; the operator's own
  code has no part in it but the flag.
- The persistent volume claim of the database, which outlives the StatefulSet: its content
  depends on PostgreSQL. So a local database that is disabled and enabled again gets a new
  password that does not fit an old volume; the model ends at the secret.
- OpenShift detection (a constant) and the namespace filter of the test environment.
- Fields the API server does not let change, and what else it validates but names and
  paths of volumes and mounts.
- Contents of the files, other than which exist, are well formed, and have which keys and
  containers.

## 7. What could come next

1. Liveness of `Reconcile` with two CRs whose objects share a namespace (names derive from
   the CR's, so that two CRs do not meet; the model takes that for granted).
2. The fields of the pod that the files and the spec both set, if the operator begins to
   merge them.
