------------------------------ MODULE RuntimeModel ------------------------------
(* The vocabulary shared by the other modules: what of a Backstage custom       *)
(* resource the operator decides on (api/v1alpha1/backstage_types.go), the      *)
(* registered runtime objects (pkg/model), what each of them does when it is    *)
(* offered to the model and when it is validated, and the closed form of        *)
(* InitObjects that InitObjects.tla checks against the loop of the code.        *)
(*                                                                              *)
(* A runtime object is named by the key of its configuration file, without the  *)
(* ".yaml": one CR has at most one object of each key.                          *)
EXTENDS Integers, FiniteSets

(***************************************************************************)
(* The registered objects, in the order of registration: the init()        *)
(* functions of a Go package run in the order of its file names.           *)
(***************************************************************************)
RuntimeConfig ==
  << "app-config", "configmap-envs", "configmap-files", "db-secret",
     "db-service", "db-statefulset", "deployment", "dynamic-plugins",
     "route", "secret-envs", "secret-files", "service" >>

Kinds ==
  { "app-config", "configmap-envs", "configmap-files", "db-secret",
    "db-service", "db-statefulset", "deployment", "dynamic-plugins",
    "route", "secret-envs", "secret-files", "service" }

SecretKinds == {"db-secret", "secret-envs", "secret-files"}
DbKinds     == {"db-secret", "db-service", "db-statefulset"}

\* The objects that implement BackstagePodContributor (updatePod).
PodContributors ==
  {"app-config", "configmap-envs", "configmap-files", "dynamic-plugins",
   "secret-envs", "secret-files"}

(***************************************************************************)
(* BackstageSpec, as far as a decision of the operator depends on it.      *)
(* "nil" is an absent pointer; the CRD defaults enableLocalDb and          *)
(* route.enabled to true, so a present pointer is "on" or "off".           *)
(***************************************************************************)
RouteFields == {"host", "subdomain", "tls"}

SpecType ==
  [ database    : {"nil", "on", "off"},   \* spec.database(.enableLocalDb)
    authSecret  : BOOLEAN,                \* spec.database.authSecretName # ""
    route       : {"nil", "on", "off"},   \* spec.application.route(.enabled)
    routeFields : SUBSET RouteFields,     \* the fields of it that are set
    plugins     : BOOLEAN,                \* dynamicPluginsConfigMapName # ""
    keylessFile : BOOLEAN ]               \* an extraFiles secret without key

IsLocalDbEnabled(spec)      == spec.database # "off"
IsRouteEnabled(spec)        == spec.route = "on"
IsRouteEmpty(spec)          == spec.routeFields = RouteFields
IsAuthSecretSpecified(spec) == spec.database # "nil" /\ spec.authSecret

(***************************************************************************)
(* The input of InitObjects: the files of the default configuration, the   *)
(* keys of the raw configuration ConfigMaps, whether the Deployment that   *)
(* they make has the install-dynamic-plugins init container, the platform  *)
(* and the spec.                                                           *)
(***************************************************************************)
FileState == {"absent", "good", "malformed"}

InputType ==
  [ default     : [Kinds -> FileState],
    overlay     : [Kinds -> FileState],
    pluginsInit : BOOLEAN,
    openshift   : BOOLEAN,
    spec        : SpecType ]

(***************************************************************************)
(* Reading one object.  "nil" is the Go pointer that setObject never set;  *)
(* an overlay is decoded onto the default object.                          *)
(***************************************************************************)
Malformed(in, k) == "malformed" \in {in.default[k], in.overlay[k]}

LoadedObject(in, k) ==
  IF in.overlay[k] = "good" THEN "overlay"
  ELSE IF in.default[k] = "good" THEN "default" ELSE "nil"

ObjectType == {"nil", "default", "overlay", "spec"}

(***************************************************************************)
(* addToModel of each object: "added", "skipped" (false, nil) or "error".  *)
(***************************************************************************)
AddResult == {"added", "skipped", "error"}

AppConfigAdd(in)      == IF LoadedObject(in, "app-config") = "nil" THEN "skipped" ELSE "added"
ConfigMapEnvsAdd(in)  == IF LoadedObject(in, "configmap-envs") = "nil" THEN "skipped" ELSE "added"
ConfigMapFilesAdd(in) == IF LoadedObject(in, "configmap-files") = "nil" THEN "skipped" ELSE "added"
SecretEnvsAdd(in)     == IF LoadedObject(in, "secret-envs") = "nil" THEN "skipped" ELSE "added"
SecretFilesAdd(in)    == IF LoadedObject(in, "secret-files") = "nil" THEN "skipped" ELSE "added"

\* Wrong variant: the secret is added for an external database too.
DbSecretAddAlways(in) ==
  IF LoadedObject(in, "db-secret") # "nil" THEN "added" ELSE "skipped"

DbSecretAdd(in) ==
  IF LoadedObject(in, "db-secret") # "nil" /\ IsLocalDbEnabled(in.spec)
  THEN "added" ELSE "skipped"

\* Wrong variant: a missing db-service.yaml is tolerated.
DbServiceAddOptional(in) ==
  IF IsLocalDbEnabled(in.spec) /\ LoadedObject(in, "db-service") # "nil"
  THEN "added" ELSE "skipped"

DbServiceAdd(in) ==
  IF ~IsLocalDbEnabled(in.spec) THEN "skipped"
  ELSE IF LoadedObject(in, "db-service") = "nil" THEN "error" ELSE "added"

DbStatefulSetAdd(in) ==
  IF ~IsLocalDbEnabled(in.spec) THEN "skipped"
  ELSE IF LoadedObject(in, "db-statefulset") = "nil" THEN "error" ELSE "added"

DeploymentAdd(in) == IF LoadedObject(in, "deployment") = "nil" THEN "error" ELSE "added"
ServiceAdd(in)    == IF LoadedObject(in, "service") = "nil" THEN "error" ELSE "added"

\* Wrong variant: the defaults are added next to those of the spec.
DynamicPluginsAddAlways(in) ==
  IF LoadedObject(in, "dynamic-plugins") = "nil" THEN "skipped" ELSE "added"

DynamicPluginsAdd(in) ==
  IF LoadedObject(in, "dynamic-plugins") = "nil" \/ in.spec.plugins
  THEN "skipped" ELSE "added"

RouteAdd(in) ==
  IF \/ LoadedObject(in, "route") = "nil" /\ ~IsRouteEnabled(in.spec)
     \/ ~in.openshift
  THEN "skipped" ELSE "added"

AddToModel(in, k) ==
  CASE k = "app-config"      -> AppConfigAdd(in)
    [] k = "configmap-envs"  -> ConfigMapEnvsAdd(in)
    [] k = "configmap-files" -> ConfigMapFilesAdd(in)
    [] k = "db-secret"       -> DbSecretAdd(in)
    [] k = "db-service"      -> DbServiceAdd(in)
    [] k = "db-statefulset"  -> DbStatefulSetAdd(in)
    [] k = "deployment"      -> DeploymentAdd(in)
    [] k = "dynamic-plugins" -> DynamicPluginsAdd(in)
    [] k = "route"           -> RouteAdd(in)
    [] k = "secret-envs"     -> SecretEnvsAdd(in)
    [] k = "secret-files"    -> SecretFilesAdd(in)
    [] k = "service"         -> ServiceAdd(in)

\* setRoute builds a new Route from the spec and drops what was loaded.
SetsRoute(in) == IsRouteEnabled(in.spec) /\ ~IsRouteEmpty(in.spec)

\* The object an added k holds after addToModel.
AddedObject(in, k) ==
  IF k = "route" /\ SetsRoute(in) THEN "spec" ELSE LoadedObject(in, k)

(***************************************************************************)
(* The closed form of InitObjects.                                         *)
(***************************************************************************)
\* How the iteration of the first loop ends for k; setMetaInfo of an object
\* that holds no Kubernetes object dereferences nil.
LoadStep(in, k) ==
  IF Malformed(in, k) \/ AddToModel(in, k) = "error" THEN "error"
  ELSE IF AddToModel(in, k) = "added" /\ AddedObject(in, k) = "nil" THEN "panic"
  ELSE "ok"

Added(in) == {k \in Kinds : AddToModel(in, k) = "added"}

\* validate of the Deployment and of the default dynamic plugins can fail.
ValidateFails(in, k) ==
  \/ /\ k = "deployment"
     /\ in.spec.keylessFile \/ (in.spec.plugins /\ ~in.pluginsInit)
  \/ k = "dynamic-plugins" /\ ~in.pluginsInit

InitOutcome(in) ==
  LET failing == {n \in 1..12 : LoadStep(in, RuntimeConfig[n]) # "ok"}
  IN  IF failing # {}
      THEN LoadStep(in, RuntimeConfig[CHOOSE n \in failing : \A m \in failing : n <= m])
      ELSE IF \E k \in Added(in) : ValidateFails(in, k) THEN "error" ELSE "ok"

(***************************************************************************)
(* The order in which a successful InitObjects returns the objects: the    *)
(* Deployment first, the StatefulSet last, the others against the order of *)
(* registration.                                                           *)
(***************************************************************************)
ApplyOrder ==
  << "deployment", "service", "secret-files", "secret-envs", "route",
     "dynamic-plugins", "db-service", "db-secret", "configmap-files",
     "configmap-envs", "app-config", "db-statefulset" >>

ApplyRank == [k \in Kinds |-> CHOOSE n \in 1..12 : ApplyOrder[n] = k]

\* k is the next of the objects in todo to be applied.
NextToApply(k, todo) == k \in todo /\ \A j \in todo : ApplyRank[k] <= ApplyRank[j]

(***************************************************************************)
(* What cleanObjects deletes, in order.                                    *)
(***************************************************************************)
CleanOrder == << "db-statefulset", "db-service", "db-secret", "route" >>

CleanKinds(spec, openshift) ==
  (IF IsLocalDbEnabled(spec) THEN {} ELSE DbKinds) \cup
  (IF openshift /\ ~IsRouteEnabled(spec) THEN {"route"} ELSE {})

CleanRank == [k \in DbKinds \cup {"route"} |-> CHOOSE n \in 1..4 : CleanOrder[n] = k]

NextToClean(k, todo) == k \in todo /\ \A j \in todo : CleanRank[k] <= CleanRank[j]
================================================================================
