------------------------------ MODULE MCInitObjects ------------------------------
(* InitObjects on configurations that deviate in one file from a complete one,  *)
(* plus the one shipped in config/manager/default-config.                       *)
EXTENDS InitObjects

Complete == [k \in Kinds |-> "good"]
NoFiles  == [k \in Kinds |-> "absent"]
Shipped  ==
  [k \in Kinds |-> IF k \in {"configmap-envs", "configmap-files", "secret-files"}
                   THEN "absent" ELSE "good"]

\* The states of one key: its default file and its overlay.
Deviations ==
  {<<"absent", "absent">>, <<"malformed", "absent">>, <<"absent", "good">>,
   <<"good", "malformed">>}

Files ==
  {<<Complete, NoFiles>>, <<Complete, Complete>>, <<Shipped, NoFiles>>} \cup
  {<<[Complete EXCEPT ![k] = d[1]], [NoFiles EXCEPT ![k] = d[2]]>> :
     k \in Kinds, d \in Deviations}

Databases == {<<"nil", FALSE>>, <<"on", TRUE>>, <<"off", TRUE>>}
Routes    == {<<"nil", {}>>, <<"off", {"host"}>>, <<"on", {}>>,
              <<"on", {"host"}>>, <<"on", RouteFields>>}
PodSpecs  == {<<FALSE, FALSE>>, <<TRUE, FALSE>>, <<FALSE, TRUE>>}

Specs ==
  {[database |-> d[1], authSecret |-> d[2], route |-> r[1], routeFields |-> r[2],
    plugins |-> p[1], keylessFile |-> p[2]] :
     d \in Databases, r \in Routes, p \in PodSpecs}

MCInputs ==
  {[default |-> f[1], overlay |-> f[2], pluginsInit |-> b, openshift |-> o,
    spec |-> s] : f \in Files, b \in BOOLEAN, o \in BOOLEAN, s \in Specs}
================================================================================
