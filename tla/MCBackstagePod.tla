------------------------------ MODULE MCBackstagePod ------------------------------
(* Small instances of BackstagePod: templates of the Deployment, default files  *)
(* and specs that each use a part of spec.application.                          *)
EXTENDS BackstagePod

MCNames == {"cm1", "cm2", "sec", "plug"}
MCKeys  == {"a", "b", "dynamic-plugins.yaml"}
MCDirs  == {"/mnt"}

Ref(name, key) == [name |-> name, key |-> key]

NoSpec ==
  [ image |-> "nil", replicas |-> "nil", pullSecrets |-> << >>, envs |-> << >>,
    appPath |-> "", appConfigs |-> << >>, filesPath |-> "", files |-> << >>,
    secretFiles |-> << >>, cmEnvs |-> << >>, secretEnvs |-> << >>, plugins |-> "" ]

WithAppConfigs(s, refs) == [s EXCEPT !.appConfigs = refs]
WithFiles(s, cms, secrets) == [s EXCEPT !.files = cms, !.secretFiles = secrets, !.filesPath = "/mnt"]

Settings == [NoSpec EXCEPT !.image = "spec", !.replicas = "spec", !.pullSecrets = <<"sec">>]
TwoConfigs == WithAppConfigs(Settings, <<Ref("cm1", ""), Ref("cm2", "a")>>)
Envs == [NoSpec EXCEPT !.envs = <<"cm1">>, !.cmEnvs = <<Ref("cm1", "")>>,
                       !.secretEnvs = <<Ref("sec", "a")>>]
ThreeFiles == WithFiles(NoSpec, <<Ref("cm1", "a"), Ref("cm2", "b")>>, <<Ref("sec", "dynamic-plugins.yaml")>>)
TwoKeys == WithFiles(NoSpec, <<Ref("cm1", "a"), Ref("cm1", "b")>>, << >>)
NoSuchKey == WithAppConfigs(NoSpec, <<Ref("cm2", "b"), Ref("cm1", "b")>>)
SamePath == WithFiles(NoSpec, <<Ref("cm1", ""), Ref("cm2", "")>>, << >>)
Keyless == WithFiles(Settings, <<Ref("cm2", "")>>, <<Ref("sec", "")>>)
Plugins == [WithAppConfigs(NoSpec, <<Ref("cm2", "")>>) EXCEPT !.plugins = "plug", !.appPath = "/mnt"]

MCSpecs == {NoSpec, Settings, TwoConfigs, Envs, ThreeFiles, TwoKeys, NoSuchKey, SamePath, Keyless, Plugins}

DefaultFiles ==
  { {}, {"app-config", "dynamic-plugins", "db-secret"},
    {"configmap-envs", "secret-envs", "configmap-files"},
    {"dynamic-plugins", "secret-files", "secret-envs"} }

\* The data of each object; the default secret-files.yaml has none.
MCKeysOf == [k \in PodContributors |->
               CASE k = "app-config" -> {"a", "b"}
                 [] k = "dynamic-plugins" -> {"dynamic-plugins.yaml", "a"}
                 [] k = "configmap-files" -> {"a"}
                 [] OTHER -> {}]
MCData == [n \in MCNames |->
             CASE n = "cm1" -> {"a", "b"}
               [] n = "plug" -> {"dynamic-plugins.yaml", "b"}
               [] OTHER -> {"a"}]

MCInputs ==
  { i \in [ containers : 0..2,
            init       : {<< >>, <<PluginsContainer>>, <<"other", PluginsContainer>>},
            envImage   : BOOLEAN, files : DefaultFiles, keys : {MCKeysOf}, data : {MCData},
            localDb    : BOOLEAN, spec : MCSpecs ] :
      i.containers # 0 \/ i.init = << >> \/ i.spec \in {NoSpec, Envs, Plugins} }
================================================================================
