------------------------------- MODULE MCReconcile -------------------------------
(* Small instances of Reconcile.                                                *)
EXTENDS Reconcile

CONSTANTS cfg, v1, v2, pw1, pw2

Decisions(db, route, fields) ==
  [ database |-> db, authSecret |-> FALSE, route |-> route, routeFields |-> fields,
    plugins |-> FALSE, keylessFile |-> FALSE ]

CrSpec(decisions, app, raw, cmNames) ==
  [decisions |-> decisions, app |-> app, raw |-> raw, cms |-> cmNames]

(***************************************************************************)
(* The database: a CR with the local one, and one with an external one     *)
(* that reads a ConfigMap.                                                 *)
(***************************************************************************)
LocalDb    == CrSpec(Decisions("nil", "nil", {}), 1, FALSE, << >>)
ExternalDb == CrSpec(Decisions("off", "nil", {}), 2, FALSE, <<cfg>>)
DbSpecs    == {LocalDb, ExternalDb}

\* Two specs of the pod alone.
PodSpecs == {CrSpec(Decisions("off", "nil", {}), a, FALSE, << >>) : a \in Apps}

DbFiles ==
  [k \in Kinds |-> IF k \in {"deployment", "service"} \cup DbKinds
                   THEN "good" ELSE "absent"]

(***************************************************************************)
(* OpenShift, without database: a route and a raw configuration, neither,  *)
(* and a route with all fields set.                                        *)
(***************************************************************************)
RawRoute   == CrSpec(Decisions("off", "on", {"host"}), 1, TRUE, <<cfg>>)
NoRoute    == CrSpec(Decisions("off", "off", {}), 1, FALSE, << >>)
FullRoute  == CrSpec(Decisions("off", "on", RouteFields), 2, FALSE, << >>)
RouteSpecs == {RawRoute, NoRoute, FullRoute}

\* A CR that says nothing about the route.
DefaultSpecs == {CrSpec(Decisions("off", "nil", {}), 1, FALSE, << >>)}

RouteFiles(default) ==
  [k \in Kinds |-> IF k \in {"deployment", "service", "secret-envs"} \cup default
                   THEN "good" ELSE "absent"]
NoRouteFile      == RouteFiles({})
DefaultRouteFile == RouteFiles({"route"})

PodFiles ==
  [k \in Kinds |-> IF k \in {"deployment", "service"} THEN "good" ELSE "absent"]

\* v1 adds keys to secret-envs.yaml, v2 is not YAML.
Overlays ==
  [v \in CmValues |->
     [k \in Kinds |-> IF k # "secret-envs" THEN "absent"
                      ELSE IF v = v1 THEN "good" ELSE "malformed"]]

(***************************************************************************)
(* Liveness: a database of a configuration without a secret of its own, so *)
(* that a CR may be created again (see SecretOfFormerCr).                  *)
(***************************************************************************)
LiveSpecs == {CrSpec(Decisions("on", "nil", {}), 1, FALSE, << >>), ExternalDb}
LiveFiles ==
  [k \in Kinds |-> IF k \in {"deployment", "service", "db-service", "db-statefulset"}
                   THEN "good" ELSE "absent"]

NoConfigMaps  == [c \in ConfigMaps |-> Nothing]
AllConfigMaps == [c \in ConfigMaps |-> v1]

(***************************************************************************)
(* Scenarios: which ConfigMaps exist, and how often what may happen.       *)
(***************************************************************************)
Scenario(contents, times) ==
  [ cms    |-> contents,
    budget |-> [e \in Events |-> IF e \in DOMAIN times THEN times[e]
                                 ELSE IF e = "create" THEN 1 ELSE 0] ]

Quiet     == {Scenario(AllConfigMaps, << >>)}
Passes    == { Scenario(NoConfigMaps, [edit |-> 1, configmap |-> 1]),
               Scenario(AllConfigMaps, [edit |-> 1, configmap |-> 1]),
               Scenario(AllConfigMaps, [edit |-> 1, callFault |-> 1, crash |-> 1]),
               Scenario(AllConfigMaps, [edit |-> 1, label |-> 1]) }
Routes    == { Scenario(NoConfigMaps, [edit |-> 1, configmap |-> 1, statusFault |-> 1, crash |-> 1]) }
Live      == { Scenario(NoConfigMaps, [edit |-> 1, configmap |-> 1, callFault |-> 1]),
               Scenario(AllConfigMaps, [create |-> 2, crash |-> 1]),
               Scenario(AllConfigMaps, [edit |-> 1, label |-> 1]),
               Scenario(AllConfigMaps, [edit |-> 1, change |-> 1]),
               Scenario(AllConfigMaps, [edit |-> 1, delete |-> 1]) }
TwoEdits  == { Scenario(AllConfigMaps, [edit |-> 2]) }
OneStatus == { Scenario(AllConfigMaps, [statusFault |-> 1]) }
TwoCrs    == { Scenario(AllConfigMaps, [create |-> 2]) }
================================================================================
