------------------------------- MODULE InitObjects -------------------------------
(* model.InitObjects (pkg/model/runtime.go): the three phases that turn the     *)
(* default configuration, the raw configuration and the spec of a CR into the   *)
(* ordered list of objects to apply.  One step is one iteration of a loop; a    *)
(* nil dereference in the Go code is the phase "panic".                         *)
EXTENDS RuntimeModel, Sequences, Functions

CONSTANT Inputs     \* the inputs InitObjects is run on

ASSUME InputsAssumption == Inputs \subseteq InputType

VARIABLES
  in,              \* the arguments of this run
  phase,           \* "load", "validate", "sort", or how the call ended
  i,               \* index of the current loop
  j,               \* inner index of the insertion sort
  object,          \* the Kubernetes object each runtime object holds
  name,            \* its metadata.name: "" until setMetaInfo
  model,           \* the non-nil pointers of BackstageModel
  runtimeObjects,  \* BackstageModel.RuntimeObjects
  references       \* <<k, n>>: the object k refers to an object by the name n

vars == <<in, phase, i, j, object, name, model, runtimeObjects, references>>

Ended == {"done", "error", "panic"}

\* The objects BackstageModel has a field for.
ModelFields ==
  {"deployment", "service", "db-statefulset", "db-service", "db-secret", "route"}

TypeOK ==
  /\ in \in InputType
  /\ phase \in {"load", "validate", "sort"} \cup Ended
  /\ i \in 1..13 /\ j \in 0..12
  /\ object \in [Kinds -> ObjectType]
  /\ name \in [Kinds -> Kinds \cup {""}]
  /\ model \subseteq ModelFields
  /\ runtimeObjects \in Seq(Kinds)
  /\ references \subseteq Kinds \X (Kinds \cup {""})

Init ==
  /\ in \in Inputs
  /\ phase = "load" /\ i = 1 /\ j = 0
  /\ object = [k \in Kinds |-> "nil"]
  /\ name = [k \in Kinds |-> ""]
  /\ model = {}
  /\ runtimeObjects = << >>
  /\ references = {}

--------------------------------------------------------------------------------
(* Phase 1: read the default, decode the overlay onto it, add to the model.     *)

Loading(k) == phase = "load" /\ i <= Len(RuntimeConfig) /\ k = RuntimeConfig[i]

\* A default or an overlay that is not YAML of the kind ends the call.
ReadFails(k) ==
  /\ Loading(k)
  /\ Malformed(in, k)
  /\ phase' = "error"
  /\ UNCHANGED <<in, i, j, object, name, model, runtimeObjects, references>>

\* Wrong variant: the error is swallowed.
AddFailsSilently(k) ==
  /\ Loading(k)
  /\ ~Malformed(in, k) /\ AddToModel(in, k) = "error"
  /\ i' = i + 1
  /\ UNCHANGED <<in, phase, j, object, name, model, runtimeObjects, references>>

\* addToModel returns an error: a mandatory object is not configured.
AddFails(k) ==
  /\ Loading(k)
  /\ ~Malformed(in, k) /\ AddToModel(in, k) = "error"
  /\ phase' = "error"
  /\ UNCHANGED <<in, i, j, object, name, model, runtimeObjects, references>>

AddSkips(k) ==
  /\ Loading(k)
  /\ ~Malformed(in, k) /\ AddToModel(in, k) = "skipped"
  /\ i' = i + 1
  /\ UNCHANGED <<in, phase, j, object, name, model, runtimeObjects, references>>

\* An object of the same type is replaced, another one is appended.
SetRuntimeObject(k) ==
  IF \E n \in DOMAIN runtimeObjects : runtimeObjects[n] = k
  THEN runtimeObjects
  ELSE Append(runtimeObjects, k)

\* addToModel, then setMetaInfo names the object it holds.
Adds(k) ==
  /\ Loading(k)
  /\ ~Malformed(in, k) /\ AddToModel(in, k) = "added"
  /\ object' = [object EXCEPT ![k] = AddedObject(in, k)]
  /\ model' = model \cup ({k} \cap ModelFields)
  /\ runtimeObjects' = SetRuntimeObject(k)
  /\ IF object'[k] = "nil"
     THEN phase' = "panic" /\ UNCHANGED <<i, name>>
     ELSE i' = i + 1 /\ name' = [name EXCEPT ![k] = k] /\ UNCHANGED phase
  /\ UNCHANGED <<in, j, references>>

\* Wrong variant: the second loop starts below the first object.
LoadEndsOffByOne ==
  /\ phase = "load" /\ i > Len(RuntimeConfig)
  /\ phase' = "validate" /\ i' = 0
  /\ UNCHANGED <<in, j, object, name, model, runtimeObjects, references>>

LoadEnds ==
  /\ phase = "load" /\ i > Len(RuntimeConfig)
  /\ phase' = "validate" /\ i' = 1
  /\ UNCHANGED <<in, j, object, name, model, runtimeObjects, references>>

--------------------------------------------------------------------------------
(* Phase 2: validate every object, in the order of registration.                *)

Validating(k) ==
  phase = "validate" /\ i <= Len(runtimeObjects) /\ k = runtimeObjects[i]

\* The object k now refers to the objects ks, by the names they have now.
Refer(k, ks) ==
  /\ references' = references \cup {<<k, name[t]>> : t \in ks}
  /\ i' = i + 1 /\ UNCHANGED phase

Return(outcome) == phase' = outcome /\ UNCHANGED <<i, references>>

\* The contributors in the model update the pod; the default dynamic plugins
\* do so only when their init container is there.
Contributors ==
  {k \in PodContributors \cap Range(runtimeObjects) :
     k = "dynamic-plugins" => in.pluginsInit}

\* Wrong variant: the DB secret is not passed to the Backstage pod.
ValidateDeploymentWithoutDb ==
  /\ Validating("deployment")
  /\ IF ValidateFails(in, "deployment")
     THEN Return("error")
     ELSE Refer("deployment", Contributors)
  /\ UNCHANGED <<in, j, object, name, model, runtimeObjects>>

ValidateDeployment ==
  /\ Validating("deployment")
  /\ IF ValidateFails(in, "deployment")
     THEN Return("error")
     ELSE Refer("deployment", Contributors \cup (model \cap {"db-secret"}))
  /\ UNCHANGED <<in, j, object, name, model, runtimeObjects>>

\* Generates a password, and the host from the name of the DB service.
ValidateDbSecret ==
  /\ Validating("db-secret")
  /\ IF IsAuthSecretSpecified(in.spec) \/ ~IsLocalDbEnabled(in.spec)
     THEN Refer("db-secret", {})
     ELSE IF "db-service" \notin model
          THEN Return("panic")
          ELSE Refer("db-secret", {"db-service"})
  /\ UNCHANGED <<in, j, object, name, model, runtimeObjects>>

\* Wrong variant: the secret is referred to whether or not it is in the model.
ValidateDbStatefulSetAlways ==
  /\ Validating("db-statefulset")
  /\ Refer("db-statefulset", {"db-secret"})
  /\ UNCHANGED <<in, j, object, name, model, runtimeObjects>>

ValidateDbStatefulSet ==
  /\ Validating("db-statefulset")
  /\ Refer("db-statefulset", model \cap {"db-secret"})
  /\ UNCHANGED <<in, j, object, name, model, runtimeObjects>>

ValidateDynamicPlugins ==
  /\ Validating("dynamic-plugins")
  /\ IF "deployment" \notin model THEN Return("panic")
     ELSE IF ValidateFails(in, "dynamic-plugins") THEN Return("error")
     ELSE Refer("dynamic-plugins", {})
  /\ UNCHANGED <<in, j, object, name, model, runtimeObjects>>

ValidateRoute ==
  /\ Validating("route")
  /\ IF "service" \notin model
     THEN Return("panic")
     ELSE Refer("route", {"service"})
  /\ UNCHANGED <<in, j, object, name, model, runtimeObjects>>

\* validate of the other objects only returns nil.
ValidateOther(k) ==
  /\ k \notin {"deployment", "db-secret", "db-statefulset", "dynamic-plugins", "route"}
  /\ Validating(k)
  /\ Refer(k, {})
  /\ UNCHANGED <<in, j, object, name, model, runtimeObjects>>

ValidateEnds ==
  /\ phase = "validate" /\ i > Len(runtimeObjects)
  /\ phase' = "sort" /\ i' = 2 /\ j' = 2
  /\ UNCHANGED <<in, object, name, model, runtimeObjects, references>>

--------------------------------------------------------------------------------
(* Phase 3: sort.Slice, which sorts at most 12 elements by insertion.           *)

\* Wrong variant: nothing keeps the Deployment first.
LessIgnoringDeployment(a, b) == a # "db-statefulset"

\* The comparison passed to sort.Slice; it is not a strict order.
Less(a, b) == a # "db-statefulset" /\ b # "deployment"

Sorting == phase = "sort" /\ i <= Len(runtimeObjects)

SwapDown ==
  /\ Sorting
  /\ j > 1 /\ Less(runtimeObjects[j], runtimeObjects[j - 1])
  /\ runtimeObjects' = [runtimeObjects EXCEPT ![j] = runtimeObjects[j - 1],
                                              ![j - 1] = runtimeObjects[j]]
  /\ j' = j - 1
  /\ UNCHANGED <<in, phase, i, object, name, model, references>>

NextElement ==
  /\ Sorting
  /\ j > 1 => ~Less(runtimeObjects[j], runtimeObjects[j - 1])
  /\ i' = i + 1 /\ j' = IF i < 12 THEN i + 1 ELSE j
  /\ UNCHANGED <<in, phase, object, name, model, runtimeObjects, references>>

SortEnds ==
  /\ phase = "sort" /\ i > Len(runtimeObjects)
  /\ phase' = "done"
  /\ UNCHANGED <<in, i, j, object, name, model, runtimeObjects, references>>

--------------------------------------------------------------------------------
Load == \E k \in Kinds : ReadFails(k) \/ AddFails(k) \/ AddSkips(k) \/ Adds(k)

Validate ==
  \/ ValidateDeployment \/ ValidateDbSecret \/ ValidateDbStatefulSet
  \/ ValidateDynamicPlugins \/ ValidateRoute
  \/ \E k \in Kinds : ValidateOther(k)

Sort == SwapDown \/ NextElement

Returned == phase \in Ended /\ UNCHANGED vars

Next ==
  \/ Load \/ LoadEnds \/ Validate \/ ValidateEnds \/ Sort \/ SortEnds
  \/ Returned

Spec == Init /\ [][Next]_vars

--------------------------------------------------------------------------------
Applied == Range(runtimeObjects)

\* The only nil dereference of the three phases is the Route that the spec asks
\* for with every field set while no file configures one (IsRouteEmpty is then
\* true, and setRoute is not called): no order of registration, no disabled
\* object and no missing file makes validate read a nil model pointer.
PanicsOnlyOnFullRoute ==
  phase = "panic" =>
    /\ i = 9 /\ IsRouteEnabled(in.spec) /\ IsRouteEmpty(in.spec)
    /\ LoadedObject(in, "route") = "nil"

\* Every reference between objects is made by a name that its target already
\* has, and at the end its target is among the objects to apply: no object is
\* applied that waits for one that the operator does not create.
ReferencesClosed ==
  \A r \in references :
    /\ r[2] # ""
    /\ phase = "done" => r[2] \in Applied

\* The Backstage pod and the database pod read their credentials from the same
\* secret: either both refer to the DB secret or neither does.
SameCredentials ==
  phase = "done" /\ "db-statefulset" \in Applied =>
    (<<"deployment", "db-secret">> \in references
       <=> <<"db-statefulset", "db-secret">> \in references)

\* What a successful InitObjects returns never overlaps what cleanObjects
\* deletes for the same CR, the default Route aside (see README, findings):
\* a disabled database is not created again by the reconcile that removes it.
AppliedNotCleaned ==
  phase = "done" =>
    Applied \cap CleanKinds(in.spec, in.openshift) \subseteq {"route"}

\* The inconsistent comparison still sorts: each object once, the Deployment
\* first, the StatefulSet last, and all others in the order of ApplyOrder.
SortedForReconcile ==
  phase = "done" =>
    \A m, n \in DOMAIN runtimeObjects :
      m < n => ApplyRank[runtimeObjects[m]] < ApplyRank[runtimeObjects[n]]

\* The loops compute the closed form: which of several failures is reported,
\* and the set of objects of a success.
ComputesClosedForm ==
  /\ phase \in Ended \ {"done"} => InitOutcome(in) = phase
  /\ phase = "done" => InitOutcome(in) = "ok" /\ Applied = Added(in)

\* api/v1alpha1/backstage_types.go:229 ("Host is an alias/DNS that points to the
\* service", ignored only if the route is disabled): the Route of an enabled
\* route with fields set is the one of the spec.
RouteSpecHonoured ==
  (phase = "done" /\ "route" \in Applied
     /\ IsRouteEnabled(in.spec) /\ in.spec.routeFields # {})
    => object["route"] = "spec"
================================================================================
