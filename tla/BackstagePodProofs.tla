---------------------------- MODULE BackstagePodProofs ----------------------------
(* Theorems about BackstagePod, for any template of the Deployment, default     *)
(* files and spec, and for every order in which Go runs through a map.          *)
EXTENDS BackstagePod, TLAPS

(***************************************************************************)
(* Sequences.                                                              *)
(***************************************************************************)
LEMMA AppendRange ==
  ASSUME NEW S, NEW s \in Seq(S), NEW e \in S
  PROVE  Append(s, e) \in Seq(S) /\ Range(Append(s, e)) = Range(s) \cup {e}
<1>1. /\ Append(s, e) \in Seq(S) /\ Len(s) \in Nat
      /\ Append(s, e)[Len(s) + 1] = e
      /\ \A n \in 1..Len(s) : Append(s, e)[n] = s[n]
      /\ DOMAIN Append(s, e) = 1..(Len(s) + 1) /\ DOMAIN s = 1..Len(s)
  OBVIOUS
<1>2. Range(Append(s, e)) \subseteq Range(s) \cup {e}
  BY <1>1 DEF Range
<1>3. e \in Range(Append(s, e)) /\ Range(s) \subseteq Range(Append(s, e))
  BY <1>1 DEF Range
<1> QED BY <1>1, <1>2, <1>3

LEMMA SeqItems ==
  ASSUME NEW S, NEW s \in Seq(S)
  PROVE  DOMAIN s = 1..Len(s) /\ Len(s) \in Nat /\ \A n \in DOMAIN s : s[n] \in S
OBVIOUS

LEMMA SeqOf ==
  ASSUME NEW S, NEW n \in Nat, NEW f \in [1..n -> S] PROVE f \in Seq(S)
OBVIOUS

LEMMA ShortSeq ==
  ASSUME NEW S PROVE << >> \in Seq(S) /\ \A e \in S : <<e>> \in Seq(S)
OBVIOUS

LEMMA SeqSub ==
  ASSUME NEW S, NEW T, S \subseteq T, NEW s \in Seq(S) PROVE s \in Seq(T)
<1>1. s \in [1..Len(s) -> T] /\ Len(s) \in Nat
  BY SeqItems
<1> QED BY <1>1, SeqOf

LEMMA ConcatRange ==
  ASSUME NEW S, NEW s \in Seq(S), NEW t \in Seq(S)
  PROVE  s \o t \in Seq(S) /\ Range(s \o t) = Range(s) \cup Range(t)
<1>1. /\ s \o t \in Seq(S) /\ Len(s) \in Nat /\ Len(t) \in Nat
      /\ DOMAIN (s \o t) = 1..(Len(s) + Len(t))
      /\ DOMAIN s = 1..Len(s) /\ DOMAIN t = 1..Len(t)
      /\ \A n \in 1..(Len(s) + Len(t)) : (s \o t)[n] = IF n <= Len(s) THEN s[n] ELSE t[n - Len(s)]
  OBVIOUS
<1>2. Range(s \o t) \subseteq Range(s) \cup Range(t)
  <2> SUFFICES ASSUME NEW n \in 1..(Len(s) + Len(t)) PROVE (s \o t)[n] \in Range(s) \cup Range(t)
    BY <1>1 DEF Range
  <2>1. CASE n <= Len(s)
    BY <1>1, <2>1 DEF Range
  <2>2. CASE ~(n <= Len(s))
    <3>1. n - Len(s) \in 1..Len(t)
      BY <1>1, <2>2
    <3> QED BY <1>1, <2>2, <3>1 DEF Range
  <2> QED BY <2>1, <2>2
<1>3. Range(s) \subseteq Range(s \o t)
  <2> SUFFICES ASSUME NEW n \in 1..Len(s) PROVE s[n] \in Range(s \o t)
    BY <1>1 DEF Range
  <2>1. n \in 1..(Len(s) + Len(t)) /\ (s \o t)[n] = s[n]
    BY <1>1
  <2> QED BY <1>1, <2>1 DEF Range
<1>4. Range(t) \subseteq Range(s \o t)
  <2> SUFFICES ASSUME NEW n \in 1..Len(t) PROVE t[n] \in Range(s \o t)
    BY <1>1 DEF Range
  <2>1. Len(s) + n \in 1..(Len(s) + Len(t)) /\ (s \o t)[Len(s) + n] = t[n]
    BY <1>1
  <2> QED BY <1>1, <2>1 DEF Range
<1> QED BY <1>1, <1>2, <1>3, <1>4

LEMMA TailRange ==
  ASSUME NEW S, NEW s \in Seq(S), s # << >>
  PROVE  Head(s) \in S /\ Tail(s) \in Seq(S) /\ Range(s) = {Head(s)} \cup Range(Tail(s))
<1>1. /\ Len(s) \in Nat /\ Len(s) > 0 /\ Head(s) = s[1] /\ Tail(s) \in Seq(S)
      /\ DOMAIN s = 1..Len(s) /\ DOMAIN Tail(s) = 1..(Len(s) - 1)
      /\ \A n \in 1..(Len(s) - 1) : Tail(s)[n] = s[n + 1]
  OBVIOUS
<1>2. s[1] \in S
  BY <1>1
<1>3. Range(s) \subseteq {Head(s)} \cup Range(Tail(s))
  <2> SUFFICES ASSUME NEW n \in 1..Len(s), n # 1 PROVE s[n] \in Range(Tail(s))
    BY <1>1 DEF Range
  <2>1. n - 1 \in 1..(Len(s) - 1) /\ Tail(s)[n - 1] = s[n]
    BY <1>1
  <2> QED BY <1>1, <2>1 DEF Range
<1>4. Range(Tail(s)) \subseteq Range(s)
  <2> SUFFICES ASSUME NEW n \in 1..(Len(s) - 1) PROVE Tail(s)[n] \in Range(s)
    BY <1>1 DEF Range
  <2>1. n + 1 \in 1..Len(s) /\ Tail(s)[n] = s[n + 1]
    BY <1>1
  <2> QED BY <1>1, <2>1 DEF Range
<1>5. Head(s) \in Range(s)
  <2>1. 1 \in DOMAIN s
    BY <1>1
  <2> QED BY <1>1, <2>1 DEF Range
<1> QED BY <1>1, <1>2, <1>3, <1>4, <1>5

(***************************************************************************)
(* Types.                                                                  *)
(***************************************************************************)
LEMMA NewPodType == ASSUME NEW input \in PodInputType PROVE NewPod(input) \in PodType
<1>1. input.containers \in Nat /\ input.init \in Seq(STRING)
  BY DEF PodInputType
<1>2. [n \in 1..input.containers |-> "own"] \in Seq(Images)
  BY <1>1 DEF Images
<1>3. DOMAIN input.init = 1..Len(input.init) /\ Len(input.init) \in Nat
  BY <1>1
<1>4. [n \in DOMAIN input.init |-> "own"] \in Seq(Images)
  BY <1>3 DEF Images
<1> QED BY <1>2, <1>4 DEF NewPod, PodType

\* Only the data of a secret has the key that is not given, plugins are in ConfigMaps.
Sound ==
  {c \in ContributionType : /\ "" \in c.keys => c.kind = "Secret"
                            /\ c.op = "env" => c.key \in Keys \cup {""}
                            /\ c.op = "plugins" => c.kind = "ConfigMap"}

LEMMA DefaultType ==
  ASSUME NEW input \in PodInputType, NEW k \in PodContributors
  PROVE  Default(input, k) \in Seq(Sound)
<1>1. DefaultName[k] \in Range(DefaultName)
  BY DEF DefaultName, Range
<1>2. input.keys[k] \subseteq Keys
  BY DEF PodInputType
<1>3. DefaultContribution(input, k) \in Sound
  <2>1. DefaultContribution(input, k) \in ContributionType
    BY <1>1, <1>2 DEF DefaultContribution, Contribution, ContributionType, PodContributors
  <2>2. DefaultContribution(input, k).keys = input.keys[k]
    BY DEF DefaultContribution, Contribution
  <2>3. DefaultContribution(input, k).op = "env" => DefaultContribution(input, k).key = ""
    BY DEF DefaultContribution, Contribution, PodContributors
  <2>4. DefaultContribution(input, k).op = "plugins" => DefaultContribution(input, k).kind = "ConfigMap"
    BY DEF DefaultContribution, Contribution, PodContributors, SecretKinds
  <2> QED BY <1>2, <2>1, <2>2, <2>3, <2>4, PodAssumption DEF Sound
<1> QED BY <1>3, ShortSeq DEF Default

LEMMA ListedType ==
  ASSUME NEW input \in PodInputType,
         NEW op \in {"appConfig", "files", "env", "plugins"},
         NEW kind \in {"ConfigMap", "Secret"},
         NEW path \in Dirs \cup {"", DefaultMountDir, PluginsContainer},
         NEW refs \in Seq([name : Names, key : Keys \cup {"", DynamicPluginsFile}]),
         kind = "Secret" \/ op = "env" => refs \in Seq(RefType),
         op = "plugins" => kind = "ConfigMap"
  PROVE  Listed(input, refs, op, kind, path) \in Seq(Sound)
<1>1. /\ DOMAIN refs = 1..Len(refs) /\ Len(refs) \in Nat
      /\ \A n \in DOMAIN refs : refs[n] \in [name : Names, key : Keys \cup {"", DynamicPluginsFile}]
      /\ kind = "Secret" \/ op = "env" => \A n \in DOMAIN refs : refs[n] \in RefType
  BY SeqItems
<1> DEFINE item(n) ==
      Contribution(op, kind, refs[n].name, path, refs[n].key, DataOf(input, op, kind, refs[n]))
<1>2. ASSUME NEW n \in DOMAIN refs PROVE item(n) \in Sound
  <2>1. refs[n].name \in Names /\ refs[n].key \in Keys \cup {"", DynamicPluginsFile}
    BY <1>1, <1>2
  <2>2. kind = "Secret" \/ op = "env" => refs[n].key \in Keys \cup {""}
    BY <1>1, <1>2 DEF RefType
  <2>3. input.data[refs[n].name] \subseteq Keys
    BY <2>1 DEF PodInputType
  <2>4. DataOf(input, op, kind, refs[n]) \in SUBSET (Keys \cup {""})
    BY <2>2, <2>3 DEF DataOf
  <2>5. item(n) \in ContributionType
    BY <2>1, <2>4 DEF Contribution, ContributionType
  <2>6. "" \in DataOf(input, op, kind, refs[n]) => kind = "Secret"
    BY <2>3, PodAssumption DEF DataOf
  <2> QED BY <2>2, <2>5, <2>6 DEF Sound, Contribution
<1>3. [n \in DOMAIN refs |-> item(n)] \in [1..Len(refs) -> Sound]
  BY <1>1, <1>2
<1> QED BY <1>1, <1>3, SeqOf DEF Listed

\* The lists of the spec, as contributions.
LEMMA ListsType ==
  ASSUME NEW input \in PodInputType
  PROVE  LET s == input.spec
         IN  /\ Listed(input, s.appConfigs, "appConfig", "ConfigMap", MountDir(s.appPath)) \in Seq(Sound)
             /\ Listed(input, s.files, "files", "ConfigMap", MountDir(s.filesPath)) \in Seq(Sound)
             /\ Listed(input, s.cmEnvs, "env", "ConfigMap", "") \in Seq(Sound)
             /\ Listed(input, s.secretFiles, "files", "Secret", MountDir(s.filesPath)) \in Seq(Sound)
             /\ Listed(input, s.secretEnvs, "env", "Secret", "") \in Seq(Sound)
             /\ Listed(input, PluginsRefs(s), "plugins", "ConfigMap", PluginsContainer) \in Seq(Sound)
<1> DEFINE Any == Seq([name : Names, key : Keys \cup {"", DynamicPluginsFile}])
           s == input.spec
<1>1. s \in PodSpecType
  BY DEF PodInputType
<1>2. \A refs \in Seq(RefType) : refs \in Any
  <2>1. RefType \subseteq [name : Names, key : Keys \cup {"", DynamicPluginsFile}]
    BY DEF RefType
  <2> QED BY <2>1, SeqSub
<1>3. PluginsRefs(s) \in Any
  <2>1. CASE s.plugins = ""
    BY <2>1, ShortSeq DEF PluginsRefs
  <2>2. CASE s.plugins # ""
    <3>1. s.plugins \in Names
      BY <1>1, <2>2 DEF PodSpecType
    <3>2. [name |-> s.plugins, key |-> DynamicPluginsFile]
            \in [name : Names, key : Keys \cup {"", DynamicPluginsFile}]
      BY <3>1
    <3> QED BY <2>2, <3>2, ShortSeq DEF PluginsRefs
  <2> QED BY <2>1, <2>2
<1>4. /\ s.appConfigs \in Seq(RefType) /\ s.files \in Seq(RefType)
      /\ s.cmEnvs \in Seq(RefType) /\ s.secretFiles \in Seq(RefType)
      /\ s.secretEnvs \in Seq(RefType)
  BY <1>1 DEF PodSpecType
<1>5. /\ MountDir(s.appPath) \in Dirs \cup {"", DefaultMountDir, PluginsContainer}
      /\ MountDir(s.filesPath) \in Dirs \cup {"", DefaultMountDir, PluginsContainer}
  BY <1>1 DEF PodSpecType, MountDir
<1> QED BY <1>2, <1>3, <1>4, <1>5, ListedType

\* What contributes: the defaults and then the six lists.
LEMMA ContributionsAre ==
  ASSUME NEW input \in PodInputType
  PROVE  /\ Contributions(input) \in Seq(Sound)
         /\ DefaultContributions(input) \in Seq(Sound) /\ SpecContributions(input) \in Seq(Sound)
         /\ Range(Contributions(input)) =
              Range(DefaultContributions(input)) \cup Range(SpecContributions(input))
         /\ Range(DefaultContributions(input)) =
              UNION {Range(Default(input, k)) : k \in PodContributors}
         /\ Range(SpecContributions(input)) =
              Range(Listed(input, input.spec.appConfigs, "appConfig", "ConfigMap",
                           MountDir(input.spec.appPath)))
              \cup Range(Listed(input, input.spec.files, "files", "ConfigMap",
                                MountDir(input.spec.filesPath)))
              \cup Range(Listed(input, input.spec.cmEnvs, "env", "ConfigMap", ""))
              \cup Range(Listed(input, input.spec.secretFiles, "files", "Secret",
                                MountDir(input.spec.filesPath)))
              \cup Range(Listed(input, input.spec.secretEnvs, "env", "Secret", ""))
              \cup Range(Listed(input, PluginsRefs(input.spec), "plugins", "ConfigMap",
                                PluginsContainer))
<1> DEFINE S == Seq(Sound)
           s == input.spec
           l1 == Listed(input, s.appConfigs, "appConfig", "ConfigMap", MountDir(s.appPath))
           l2 == Listed(input, s.files, "files", "ConfigMap", MountDir(s.filesPath))
           l3 == Listed(input, s.cmEnvs, "env", "ConfigMap", "")
           l4 == Listed(input, s.secretFiles, "files", "Secret", MountDir(s.filesPath))
           l5 == Listed(input, s.secretEnvs, "env", "Secret", "")
           l6 == Listed(input, PluginsRefs(s), "plugins", "ConfigMap", PluginsContainer)
<1>6. l1 \in S /\ l2 \in S /\ l3 \in S /\ l4 \in S /\ l5 \in S /\ l6 \in S
  BY ListsType
<1>7. \A k \in PodContributors : Default(input, k) \in S
  BY DefaultType
<1>8. PodContributors = {"app-config", "configmap-envs", "configmap-files", "dynamic-plugins",
                         "secret-envs", "secret-files"}
  BY DEF PodContributors
<1>9. \A u, v \in S : u \o v \in S /\ Range(u \o v) = Range(u) \cup Range(v)
  BY ConcatRange
<1> HIDE DEF S, s, l1, l2, l3, l4, l5, l6
<1>10. /\ DefaultContributions(input) \in S
       /\ Range(DefaultContributions(input)) = UNION {Range(Default(input, k)) : k \in PodContributors}
  <2> DEFINE d1 == Default(input, "app-config")
             d2 == Default(input, "configmap-envs")
             d3 == Default(input, "configmap-files")
             d4 == Default(input, "dynamic-plugins")
             d5 == Default(input, "secret-envs")
             d6 == Default(input, "secret-files")
  <2>1. d1 \in S /\ d2 \in S /\ d3 \in S /\ d4 \in S /\ d5 \in S /\ d6 \in S
    BY <1>7, <1>8
  <2>2. UNION {Range(Default(input, k)) : k \in PodContributors}
          = Range(d1) \cup Range(d2) \cup Range(d3) \cup Range(d4) \cup Range(d5) \cup Range(d6)
    BY <1>8
  <2>3. DefaultContributions(input) = d1 \o d2 \o d3 \o d4 \o d5 \o d6
    BY DEF DefaultContributions
  <2> HIDE DEF d1, d2, d3, d4, d5, d6
  <2>4. /\ d1 \o d2 \o d3 \o d4 \o d5 \o d6 \in S
        /\ Range(d1 \o d2 \o d3 \o d4 \o d5 \o d6)
             = Range(d1) \cup Range(d2) \cup Range(d3) \cup Range(d4) \cup Range(d5) \cup Range(d6)
    BY <1>9, <2>1
  <2> QED BY <2>2, <2>3, <2>4
<1>11. /\ SpecContributions(input) \in S
       /\ Range(SpecContributions(input))
            = Range(l1) \cup Range(l2) \cup Range(l3) \cup Range(l4) \cup Range(l5) \cup Range(l6)
  <2>1. SpecContributions(input) = l1 \o l2 \o l3 \o l4 \o l5 \o l6
    BY DEF SpecContributions, s, l1, l2, l3, l4, l5, l6
  <2>2. /\ l1 \o l2 \o l3 \o l4 \o l5 \o l6 \in S
        /\ Range(l1 \o l2 \o l3 \o l4 \o l5 \o l6)
             = Range(l1) \cup Range(l2) \cup Range(l3) \cup Range(l4) \cup Range(l5) \cup Range(l6)
    BY <1>6, <1>9
  <2> QED BY <2>1, <2>2
<1>12. /\ Contributions(input) \in S
       /\ Range(Contributions(input)) =
            Range(DefaultContributions(input)) \cup Range(SpecContributions(input))
  BY <1>9, <1>10, <1>11 DEF Contributions
<1> QED BY <1>10, <1>11, <1>12 DEF S, s, l1, l2, l3, l4, l5, l6

LEMMA Fields ==
  ASSUME NEW op, NEW kind, NEW name, NEW path, NEW key, NEW keys
  PROVE  LET c == Contribution(op, kind, name, path, key, keys)
         IN  /\ c.op = op /\ c.kind = kind /\ c.name = name
             /\ c.path = path /\ c.key = key /\ c.keys = keys
BY DEF Contribution

LEMMA ListedRange ==
  ASSUME NEW input, NEW op, NEW kind, NEW path, NEW refs, NEW c
  PROVE  c \in Range(Listed(input, refs, op, kind, path)) <=>
           \E r \in Range(refs) : c = Contribution(op, kind, r.name, path, r.key, DataOf(input, op, kind, r))
BY DEF Listed, Range

\* The validation fails for what ValidateFails says.
SomeFails == \E c \in Range(Contributions(in)) : Fails(c)

LEMMA FailsExactly ==
  ASSUME in \in PodInputType
  PROVE  SomeFails <=> ValidateFails(RuntimeInput(in), "deployment")
<1> DEFINE s == in.spec
           none == ""
           l1 == Listed(in, s.appConfigs, "appConfig", "ConfigMap", MountDir(s.appPath))
           l2 == Listed(in, s.files, "files", "ConfigMap", MountDir(s.filesPath))
           l3 == Listed(in, s.cmEnvs, "env", "ConfigMap", none)
           l4 == Listed(in, s.secretFiles, "files", "Secret", MountDir(s.filesPath))
           l5 == Listed(in, s.secretEnvs, "env", "Secret", none)
           l6 == Listed(in, PluginsRefs(s), "plugins", "ConfigMap", PluginsContainer)
<1>1. /\ s.appConfigs \in Seq(RefType) /\ s.files \in Seq(RefType)
      /\ s.cmEnvs \in Seq(RefType) /\ s.secretFiles \in Seq(RefType)
      /\ s.secretEnvs \in Seq(RefType)
  BY DEF PodInputType, PodSpecType
<1>2. Range(Contributions(in)) =
        (UNION {Range(Default(in, k)) : k \in PodContributors})
          \cup Range(l1) \cup Range(l2) \cup Range(l3) \cup Range(l4) \cup Range(l5) \cup Range(l6)
  BY ContributionsAre
<1> HIDE DEF none
<1>3. ASSUME NEW k \in PodContributors, NEW c \in Range(Default(in, k)) PROVE ~Fails(c)
  <2>1. c = DefaultContribution(in, k) /\ k \in Added(RuntimeInput(in))
    BY <1>3 DEF Default, Range
  <2>2. "" \notin c.keys
    BY <2>1, PodAssumption DEF DefaultContribution, Contribution, PodInputType
  <2>3. c.op = "plugins" => k = "dynamic-plugins"
    BY <2>1 DEF DefaultContribution, Contribution, PodContributors
  <2>4. k = "dynamic-plugins" => c.name = "bs-backstage-dynamic-plugins" /\ in.spec.plugins = ""
    <3>1. k = "dynamic-plugins" => ~RuntimeInput(in).spec.plugins
      BY <2>1 DEF Added, AddToModel, DynamicPluginsAdd
    <3>2. RuntimeInput(in).spec.plugins = (in.spec.plugins # "")
      BY DEF RuntimeInput
    <3> QED BY <2>1, <3>1, <3>2 DEF DefaultContribution, Contribution, DefaultName, PodContributors
  <2> QED BY <2>2, <2>3, <2>4 DEF Fails
<1>11. \A c : c \in Range(l1) <=>
         \E r \in Range(s.appConfigs) :
           c = Contribution("appConfig", "ConfigMap", r.name, MountDir(s.appPath), r.key, DataOf(in, "appConfig", "ConfigMap", r))
  BY ListedRange
<1>12. \A c : c \in Range(l2) <=>
         \E r \in Range(s.files) :
           c = Contribution("files", "ConfigMap", r.name, MountDir(s.filesPath), r.key, DataOf(in, "files", "ConfigMap", r))
  BY ListedRange
<1>13. \A c : c \in Range(l3) <=>
         \E r \in Range(s.cmEnvs) :
           c = Contribution("env", "ConfigMap", r.name, none, r.key, DataOf(in, "env", "ConfigMap", r))
  BY ListedRange
<1>14. \A c : c \in Range(l5) <=>
         \E r \in Range(s.secretEnvs) :
           c = Contribution("env", "Secret", r.name, none, r.key, DataOf(in, "env", "Secret", r))
  BY ListedRange
<1> HIDE DEF l1, l2, l3, l5
<1>4. ASSUME NEW c \in Range(l1) \cup Range(l2) \cup Range(l3) PROVE ~Fails(c)
  <2>1. c.kind = "ConfigMap" /\ c.op \in {"appConfig", "files", "env"}
    <3>1. CASE c \in Range(l1)
      BY <1>11, <3>1, Fields
    <3>2. CASE c \in Range(l2)
      BY <1>12, <3>2, Fields
    <3>3. CASE c \in Range(l3)
      BY <1>13, <3>3, Fields
    <3> QED BY <1>4, <3>1, <3>2, <3>3
  <2> QED BY <2>1 DEF Fails
<1>5. ASSUME NEW c \in Range(l5) PROVE ~Fails(c)
  <2>1. \A r : DataOf(in, "env", "Secret", r) = {}
    BY DEF DataOf
  <2>2. c.op = "env" /\ c.keys = {}
    BY <1>5, <1>14, <2>1, Fields
  <2> QED BY <2>2 DEF Fails
<1>6. (\E c \in Range(l4) : Fails(c)) <=> \E r \in Range(s.secretFiles) : r.key = ""
  <2>1. \A c : c \in Range(l4) <=>
          \E r \in Range(s.secretFiles) :
            c = Contribution("files", "Secret", r.name, MountDir(s.filesPath), r.key, {r.key})
    <3>1. \A r : DataOf(in, "files", "Secret", r) = {r.key}
      BY DEF DataOf
    <3>2. \A c : c \in Range(l4) <=>
            \E r \in Range(s.secretFiles) :
              c = Contribution("files", "Secret", r.name, MountDir(s.filesPath), r.key,
                               DataOf(in, "files", "Secret", r))
      BY ListedRange
    <3> QED BY <3>1, <3>2
  <2>2. \A r : Fails(Contribution("files", "Secret", r.name, MountDir(s.filesPath), r.key, {r.key}))
                 <=> r.key = ""
    BY DEF Fails, Contribution
  <2> QED BY <2>1, <2>2
<1>7. (\E c \in Range(l6) : Fails(c)) <=> s.plugins # "" /\ ~HasPluginsContainer(in)
  <2>1. CASE s.plugins = ""
    <3>1. Range(PluginsRefs(s)) = {}
      <4>1. PluginsRefs(s) = << >>
        BY <2>1 DEF PluginsRefs
      <4>2. DOMAIN << >> = {}
        OBVIOUS
      <4> QED BY <4>1, <4>2 DEF Range
    <3>2. \A c : c \notin Range(l6)
      BY <3>1, ListedRange
    <3> QED BY <2>1, <3>2
  <2>2. CASE s.plugins # ""
    <3> DEFINE r == [name |-> s.plugins, key |-> DynamicPluginsFile]
    <3>1. PluginsRefs(s) = <<r>>
      BY <2>2 DEF PluginsRefs
    <3>2. <<r>> \in Seq({r}) /\ Range(<<r>>) = {r}
      <4>1. <<r>> \in Seq({r}) /\ DOMAIN <<r>> = {1} /\ <<r>>[1] = r
        OBVIOUS
      <4> QED BY <4>1 DEF Range
    <3>3. \A c : c \in Range(l6) <=>
            c = Contribution("plugins", "ConfigMap", s.plugins, PluginsContainer, DynamicPluginsFile,
                             DataOf(in, "plugins", "ConfigMap", r))
      <4>1. \A c : c \in Range(l6) <=>
              \E q \in {r} : c = Contribution("plugins", "ConfigMap", q.name, PluginsContainer, q.key,
                                              DataOf(in, "plugins", "ConfigMap", q))
        BY <3>1, <3>2, ListedRange
      <4>2. r.name = s.plugins /\ r.key = DynamicPluginsFile
        OBVIOUS
      <4> HIDE DEF r, l6
      <4> QED BY <4>1, <4>2
    <3>4. \A keys : Fails(Contribution("plugins", "ConfigMap", s.plugins, PluginsContainer,
                                       DynamicPluginsFile, keys)) <=> ~HasPluginsContainer(in)
      BY DEF Fails, Contribution
    <3> DEFINE c6 == Contribution("plugins", "ConfigMap", s.plugins, PluginsContainer,
                                  DynamicPluginsFile, DataOf(in, "plugins", "ConfigMap", r))
    <3>5. \A c : c \in Range(l6) <=> c = c6
      BY <3>3
    <3>6. Fails(c6) <=> ~HasPluginsContainer(in)
      BY <3>4
    <3> HIDE DEF l6, c6
    <3>7. (\E c \in Range(l6) : Fails(c)) <=> Fails(c6)
      BY <3>5
    <3> QED BY <2>2, <3>6, <3>7 DEF l6
  <2> QED BY <2>1, <2>2
<1>8. SomeFails <=> (\E c \in Range(l4) : Fails(c)) \/ (\E c \in Range(l6) : Fails(c))
  <2> HIDE DEF l4, l6
  <2>1. Range(l4) \cup Range(l6) \subseteq Range(Contributions(in))
    BY <1>2
  <2>2. ASSUME NEW c \in Range(Contributions(in)), c \notin Range(l4) \cup Range(l6)
        PROVE  ~Fails(c)
    <3>1. \/ \E k \in PodContributors : c \in Range(Default(in, k))
          \/ c \in Range(l1) \cup Range(l2) \cup Range(l3) \cup Range(l5)
      BY <1>2, <2>2
    <3> QED BY <1>3, <1>4, <1>5, <3>1
  <2> QED BY <2>1, <2>2 DEF SomeFails
<1>9. /\ RuntimeInput(in).spec.keylessFile = (\E r \in Range(s.secretFiles) : r.key = "")
      /\ RuntimeInput(in).spec.plugins = (s.plugins # "")
      /\ RuntimeInput(in).pluginsInit = HasPluginsContainer(in)
  BY DEF RuntimeInput
<1>10. ValidateFails(RuntimeInput(in), "deployment") <=>
         \/ RuntimeInput(in).spec.keylessFile
         \/ RuntimeInput(in).spec.plugins /\ ~RuntimeInput(in).pluginsInit
  BY DEF ValidateFails
<1> QED BY <1>6, <1>7, <1>8, <1>9, <1>10

(***************************************************************************)
(* The inductive invariant: an argument that is still to be passed belongs *)
(* to a file that is or will be mounted; the spec's image is in place once *)
(* the settings are; and a failure is still among the contributions left.  *)
(***************************************************************************)
Typed == TypeOK /\ todo \in Seq(Sound)

FilesInv ==
  /\ Range(pod.args) \subseteq Range(pod.mounts)
  /\ pc = "mount" => todo # << >>
  /\ pc # "mount" => unmounted = {} /\ unpassed = {}
  /\ \A f \in unpassed :
       /\ Head(todo).op = "appConfig"
       /\ f \in unmounted \/ MountOf(Head(todo), f) \in Range(pod.mounts)

ImageInv ==
  pc \in {"contribute", "mount", "plugins", "done"} /\ in.spec.image = "spec" =>
    Range(pod.images) \cup Range(pod.initImages) \subseteq {"spec"}

PluginsFail == HasDefaultPlugins /\ ~HasPluginsContainer(in)

FailInv ==
  /\ pc \in {"contribute", "mount"} => (SomeFails <=> \E c \in Range(todo) : Fails(c))
  /\ pc = "mount" => ~Fails(Head(todo))
  /\ pc \in {"plugins", "done"} => ~SomeFails
  /\ pc = "error" => SomeFails \/ PluginsFail
  /\ pc = "done" => ~PluginsFail

IInv == Typed /\ FilesInv /\ ImageInv /\ FailInv /\ PanicsOnlyWithoutBackend

\* The start of a pass.
LEMMA StartInv ==
  ASSUME NEW input \in Inputs, in = input, pass \in {1, 2}, first \in PodType, StartOfPass
  PROVE  IInv
<1>1. /\ pc = "override" /\ pod = NewPod(in) /\ todo = << >> /\ unmounted = {} /\ unpassed = {}
      /\ in \in PodInputType
  BY PodAssumption DEF StartOfPass
<1>2. pod \in PodType /\ todo \in Seq(Sound) /\ todo \in Seq(ContributionType)
  BY <1>1, NewPodType, ShortSeq
<1>3. pod.args = << >> /\ Range(<< >>) = {}
  <2>1. pod.args = << >>
    BY <1>1 DEF NewPod
  <2>2. DOMAIN << >> = {}
    OBVIOUS
  <2> QED BY <2>1, <2>2 DEF Range
<1> QED BY <1>1, <1>2, <1>3 DEF IInv, Typed, TypeOK, FilesInv, ImageInv, FailInv,
                                 PanicsOnlyWithoutBackend

LEMMA InitInv == Init => IInv
<1> SUFFICES ASSUME Init PROVE IInv
  OBVIOUS
<1>1. in \in Inputs /\ pass \in {1, 2} /\ first \in PodType
  BY PodAssumption, NewPodType DEF Init
<1> QED BY <1>1, StartInv DEF Init

\* The call ends before the pod is complete.
LEMMA EndsInv ==
  ASSUME IInv, NEW how \in {"error", "panic"}, Ends(how), pc # "mount",
         how = "error" => SomeFails \/ PluginsFail, how = "panic" => NoBackend
  PROVE  IInv'
<1>1. pc' = how /\ UNCHANGED <<in, pass, first, pod, todo, unmounted, unpassed>>
  BY DEF Ends
<1>2. SomeFails' = SomeFails /\ PluginsFail' = PluginsFail /\ NoBackend' = NoBackend
  BY <1>1 DEF SomeFails, Fails, PluginsFail, HasDefaultPlugins, NoBackend
<1>3. Typed'
  BY <1>1 DEF IInv, Typed, TypeOK
<1>4. FilesInv'
  BY <1>1 DEF IInv, FilesInv
<1>5. ImageInv' /\ FailInv' /\ PanicsOnlyWithoutBackend'
  BY <1>1, <1>2 DEF ImageInv, FailInv, PanicsOnlyWithoutBackend
<1> QED BY <1>3, <1>4, <1>5 DEF IInv

(***************************************************************************)
(* The settings of the Deployment.                                         *)
(***************************************************************************)

\* What does not depend on the pod: contributions and failures.
LEMMA SameFailures ==
  ASSUME UNCHANGED in
  PROVE  /\ SomeFails' = SomeFails /\ PluginsFail' = PluginsFail /\ NoBackend' = NoBackend
         /\ \A c : Fails(c)' = Fails(c)
BY DEF SomeFails, Fails, PluginsFail, HasDefaultPlugins, NoBackend

LEMMA PodFields ==
  ASSUME NEW p \in PodType
  PROVE  /\ p.images \in Seq(Images) /\ p.initImages \in Seq(Images)
         /\ p.mounts \in Seq(MountType) /\ p.initMounts \in Seq(MountType)
         /\ p.args \in Seq(MountType) /\ p.pullSecrets \in Seq(Names)
         /\ p.volumes \in Seq([name : Names \cup Range(DefaultName), kind : {"ConfigMap", "Secret"}])
         /\ p.env \in Seq([kind : {"value", "ConfigMap", "Secret"},
                           name : Names \cup Range(DefaultName) \cup {""}, var : Names \cup Keys])
         /\ p.envFrom \in Seq([kind : {"ConfigMap", "Secret"},
                               name : Names \cup Range(DefaultName) \cup {DbSecretRef.name}])
BY DEF PodType

LEMMA OverrideInv == IInv /\ OverrideImage => IInv'
<1> SUFFICES ASSUME IInv, OverrideImage PROVE IInv'
  OBVIOUS
<1>1. pc = "override"
  BY DEF OverrideImage
<1>2. CASE in.envImage /\ NoBackend
  <2>1. Ends("panic")
    BY <1>2 DEF OverrideImage
  <2> QED BY <1>1, <1>2, <2>1, EndsInv
<1>3. CASE ~(in.envImage /\ NoBackend)
  <2>1. /\ pc' = "settings" /\ UNCHANGED <<in, pass, first, todo, unmounted, unpassed>>
        /\ pod' = IF ~in.envImage THEN pod
                  ELSE [pod EXCEPT !.images[1] = "env",
                                   !.initImages = [n \in DOMAIN in.init |-> "env"]]
    BY <1>3 DEF OverrideImage
  <2>2. pod \in PodType /\ in \in PodInputType
    BY PodAssumption DEF IInv, Typed, TypeOK
  <2>3. DOMAIN in.init = 1..Len(in.init) /\ Len(in.init) \in Nat
    BY <2>2, SeqItems DEF PodInputType
  <2>4. [n \in DOMAIN in.init |-> "env"] \in Seq(Images)
    <3>1. [n \in DOMAIN in.init |-> "env"] \in [1..Len(in.init) -> Images]
      BY <2>3 DEF Images
    <3> QED BY <2>3, <3>1, SeqOf
  <2>5. [pod.images EXCEPT ![1] = "env"] \in Seq(Images)
    <3>1. pod.images \in [1..Len(pod.images) -> Images] /\ Len(pod.images) \in Nat
      <4>1. pod.images \in Seq(Images)
        BY <2>2, PodFields
      <4> QED BY <4>1
    <3>2. [pod.images EXCEPT ![1] = "env"] \in [1..Len(pod.images) -> Images]
      BY <3>1 DEF Images
    <3> QED BY <3>1, <3>2, SeqOf
  <2>6. pod' \in PodType /\ pod'.args = pod.args /\ pod'.mounts = pod.mounts
    BY <2>1, <2>2, <2>4, <2>5 DEF PodType
  <2>7. Typed'
    BY <2>1, <2>6 DEF IInv, Typed, TypeOK
  <2>8. FilesInv'
    BY <1>1, <2>1, <2>6 DEF IInv, FilesInv
  <2>9. ImageInv' /\ FailInv' /\ PanicsOnlyWithoutBackend'
    BY <2>1 DEF ImageInv, FailInv, PanicsOnlyWithoutBackend
  <2> QED BY <2>7, <2>8, <2>9 DEF IInv
<1> QED BY <1>2, <1>3

LEMMA AllImagesSet ==
  ASSUME NEW s \in Seq(Images), NEW image \in {"nil", "spec"}
  PROVE  /\ AllImages(s, image) \in Seq(Images)
         /\ image = "spec" => Range(AllImages(s, image)) \subseteq {"spec"}
<1>1. DOMAIN s = 1..Len(s) /\ Len(s) \in Nat
  BY SeqItems
<1>2. [n \in DOMAIN s |-> "spec"] \in Seq(Images)
  <2>1. [n \in DOMAIN s |-> "spec"] \in [1..Len(s) -> Images]
    BY <1>1 DEF Images
  <2> QED BY <1>1, <2>1, SeqOf
<1>3. Range([n \in DOMAIN s |-> "spec"]) \subseteq {"spec"}
  BY DEF Range
<1> QED BY <1>2, <1>3 DEF AllImages

LEMMA SettingsInv == IInv /\ ApplySettings => IInv'
<1> SUFFICES ASSUME IInv, ApplySettings PROVE IInv'
  OBVIOUS
<1>1. pc = "settings"
  BY DEF ApplySettings
<1>2. CASE NoBackend /\ in.spec.envs # << >>
  <2>1. Ends("panic")
    BY <1>2 DEF ApplySettings
  <2> QED BY <1>1, <1>2, <2>1, EndsInv
<1>3. CASE ~(NoBackend /\ in.spec.envs # << >>)
  <2> DEFINE vars_ == [n \in DOMAIN in.spec.envs |->
                         [kind |-> "value", name |-> "", var |-> in.spec.envs[n]]]
  <2>1. /\ pc' = "contribute" /\ UNCHANGED <<in, pass, first, unmounted, unpassed>>
        /\ todo' = Contributions(in)
        /\ pod' = [pod EXCEPT
                     !.replicas    = IF in.spec.replicas = "nil" THEN pod.replicas ELSE "spec",
                     !.pullSecrets = pod.pullSecrets \o in.spec.pullSecrets,
                     !.images      = AllImages(pod.images, in.spec.image),
                     !.initImages  = AllImages(pod.initImages, in.spec.image),
                     !.env         = pod.env \o vars_]
    BY <1>3 DEF ApplySettings
  <2>2. pod \in PodType /\ in \in PodInputType /\ in.spec \in PodSpecType
    BY PodAssumption DEF IInv, Typed, TypeOK, PodInputType
  <2>3. /\ in.spec.image \in {"nil", "spec"} /\ in.spec.envs \in Seq(Names)
        /\ in.spec.pullSecrets \in Seq(Names)
    BY <2>2 DEF PodSpecType
  <2>4. vars_ \in Seq([kind : {"value", "ConfigMap", "Secret"},
                       name : Names \cup Range(DefaultName) \cup {""}, var : Names \cup Keys])
    <3>1. /\ DOMAIN in.spec.envs = 1..Len(in.spec.envs) /\ Len(in.spec.envs) \in Nat
          /\ \A n \in DOMAIN in.spec.envs : in.spec.envs[n] \in Names
      BY <2>3, SeqItems
    <3>2. vars_ \in [1..Len(in.spec.envs) ->
                       [kind : {"value", "ConfigMap", "Secret"},
                        name : Names \cup Range(DefaultName) \cup {""}, var : Names \cup Keys]]
      BY <3>1
    <3> QED BY <3>1, <3>2, SeqOf
  <2> HIDE DEF vars_
  <2>5. pod.env \o vars_ \in Seq([kind : {"value", "ConfigMap", "Secret"},
                                  name : Names \cup Range(DefaultName) \cup {""}, var : Names \cup Keys])
    BY <2>2, <2>4, PodFields, ConcatRange
  <2>6. pod.pullSecrets \o in.spec.pullSecrets \in Seq(Names)
    BY <2>2, <2>3, PodFields, ConcatRange
  <2>7. /\ AllImages(pod.images, in.spec.image) \in Seq(Images)
        /\ AllImages(pod.initImages, in.spec.image) \in Seq(Images)
        /\ in.spec.image = "spec" => /\ Range(AllImages(pod.images, in.spec.image)) \subseteq {"spec"}
                                     /\ Range(AllImages(pod.initImages, in.spec.image)) \subseteq {"spec"}
    BY <2>2, <2>3, PodFields, AllImagesSet
  <2>8. /\ pod' \in PodType /\ pod'.args = pod.args /\ pod'.mounts = pod.mounts
        /\ pod'.images = AllImages(pod.images, in.spec.image)
        /\ pod'.initImages = AllImages(pod.initImages, in.spec.image)
    BY <2>1, <2>2, <2>5, <2>6, <2>7 DEF PodType
  <2>9. todo' \in Seq(Sound) /\ todo' \in Seq(ContributionType)
    <3>1. todo' \in Seq(Sound)
      BY <2>1, <2>2, ContributionsAre
    <3>2. Sound \subseteq ContributionType
      BY DEF Sound
    <3> QED BY <3>1, <3>2, SeqSub
  <2>10. Typed'
    BY <2>1, <2>8, <2>9 DEF IInv, Typed, TypeOK
  <2>11. FilesInv'
    BY <1>1, <2>1, <2>8 DEF IInv, FilesInv
  <2>12. ImageInv'
    BY <2>1, <2>7, <2>8 DEF ImageInv
  <2>13. FailInv' /\ PanicsOnlyWithoutBackend'
    BY <2>1, SameFailures DEF FailInv, PanicsOnlyWithoutBackend, SomeFails
  <2> QED BY <2>10, <2>11, <2>12, <2>13 DEF IInv
<1> QED BY <1>2, <1>3

(***************************************************************************)
(* The contributions.                                                      *)
(***************************************************************************)
LEMMA TurnFacts ==
  ASSUME IInv, todo # << >>
  PROVE  /\ Head(todo) \in Sound /\ Head(todo) \in ContributionType
         /\ Tail(todo) \in Seq(Sound) /\ Tail(todo) \in Seq(ContributionType)
         /\ Range(todo) = {Head(todo)} \cup Range(Tail(todo))
<1>1. todo \in Seq(Sound)
  BY DEF IInv, Typed
<1>2. Sound \subseteq ContributionType
  BY DEF Sound
<1>3. Head(todo) \in Sound /\ Tail(todo) \in Seq(Sound)
      /\ Range(todo) = {Head(todo)} \cup Range(Tail(todo))
  BY <1>1, TailRange
<1>4. Tail(todo) \in Seq(ContributionType)
  BY <1>2, <1>3, SeqSub
<1> QED BY <1>2, <1>3, <1>4

\* The current contribution, which does not fail, is dealt with.
LEMMA NextTurnInv ==
  ASSUME IInv, todo # << >>, ~Fails(Head(todo)), pc \in {"contribute", "mount"},
         pc' = "contribute", todo' = Tail(todo), unmounted' = {}, unpassed' = {},
         UNCHANGED <<in, pass, first>>,
         pod' \in PodType, pod'.args = pod.args, pod'.mounts = pod.mounts,
         pod'.images = pod.images, pod'.initImages = pod.initImages
  PROVE  IInv'
<1>1. Typed'
  BY TurnFacts DEF IInv, Typed, TypeOK
<1>2. FilesInv'
  BY DEF IInv, FilesInv
<1>3. ImageInv' /\ PanicsOnlyWithoutBackend'
  BY DEF IInv, ImageInv, PanicsOnlyWithoutBackend
<1>4. FailInv'
  <2>1. SomeFails <=> \E c \in Range(todo) : Fails(c)
    BY DEF IInv, FailInv
  <2>2. (\E c \in Range(todo) : Fails(c)) <=> \E c \in Range(Tail(todo)) : Fails(c)
    BY TurnFacts
  <2>3. SomeFails' <=> \E c \in Range(todo') : Fails(c)'
    BY <2>1, <2>2, SameFailures
  <2> QED BY <2>3 DEF FailInv
<1> QED BY <1>1, <1>2, <1>3, <1>4 DEF IInv

LEMMA FailingInv ==
  IInv /\ (\E c \in Range(todo) : ContributionFails(c) \/ ContributionPanics(c)) => IInv'
<1> SUFFICES ASSUME IInv, NEW c \in Range(todo), ContributionFails(c) \/ ContributionPanics(c)
             PROVE  IInv'
  OBVIOUS
<1>1. pc = "contribute" /\ todo # << >> /\ c = Head(todo)
  BY DEF ContributionFails, ContributionPanics, Turn
<1>2. CASE ContributionFails(c)
  <2>1. Fails(c) /\ Ends("error")
    BY <1>2 DEF ContributionFails
  <2>2. SomeFails
    BY <1>1, <2>1 DEF IInv, FailInv
  <2> QED BY <1>1, <2>1, <2>2, EndsInv
<1>3. CASE ContributionPanics(c)
  <2>1. Ends("panic") /\ ~Fails(c) /\ ~Ignored(c)
    BY <1>3 DEF ContributionPanics
  <2>2. NoBackend
    <3>1. c.op = "plugins" => HasPluginsContainer(in)
      BY <2>1 DEF Fails, Ignored
    <3> QED BY <1>3, <3>1 DEF ContributionPanics
  <2> QED BY <1>1, <2>1, <2>2, EndsInv
<1> QED BY <1>2, <1>3

LEMMA NoFilesInv ==
  IInv /\ (\E c \in Range(todo) : IgnorePlugins(c) \/ AddEnvVarsFrom(c)) => IInv'
<1> SUFFICES ASSUME IInv, NEW c \in Range(todo), IgnorePlugins(c) \/ AddEnvVarsFrom(c)
             PROVE  IInv'
  OBVIOUS
<1>1. /\ pc = "contribute" /\ pc' = "contribute" /\ todo # << >> /\ c = Head(todo)
      /\ todo' = Tail(todo) /\ UNCHANGED <<in, pass, first, unmounted, unpassed>>
  BY DEF IgnorePlugins, AddEnvVarsFrom, Turn
<1>2. unmounted' = {} /\ unpassed' = {}
  BY <1>1 DEF IInv, FilesInv
<1>3. pod \in PodType
  BY DEF IInv, Typed, TypeOK
<1>4. CASE IgnorePlugins(c)
  <2>1. UNCHANGED pod /\ Ignored(c)
    BY <1>4 DEF IgnorePlugins
  <2>2. ~Fails(c)
    <3>1. c \in Sound
      BY <1>1, TurnFacts
    <3>2. c.op = "plugins" /\ c.name # in.spec.plugins
      BY <2>1 DEF Ignored
    <3>3. c.kind = "ConfigMap"
      BY <3>1, <3>2 DEF Sound
    <3> QED BY <3>2, <3>3 DEF Fails
  <2> QED BY <1>1, <1>2, <1>3, <2>1, <2>2, NextTurnInv
<1>5. CASE AddEnvVarsFrom(c)
  <2>1. /\ ~Fails(c) /\ c.op = "env"
        /\ pod' = IF c.key = ""
                  THEN [pod EXCEPT !.envFrom = Append(pod.envFrom, [kind |-> c.kind, name |-> c.name])]
                  ELSE [pod EXCEPT !.env = Append(pod.env, [kind |-> c.kind, name |-> c.name, var |-> c.key])]
    BY <1>5 DEF AddEnvVarsFrom
  <2>2. c \in Sound
    BY <1>1, TurnFacts
  <2>3. /\ c.kind \in {"ConfigMap", "Secret"} /\ c.name \in Names \cup Range(DefaultName)
        /\ c.key \in Keys \cup {""}
    BY <2>1, <2>2 DEF Sound, ContributionType
  <2>4. Append(pod.envFrom, [kind |-> c.kind, name |-> c.name])
          \in Seq([kind : {"ConfigMap", "Secret"},
                   name : Names \cup Range(DefaultName) \cup {DbSecretRef.name}])
    BY <1>3, <2>3, PodFields, AppendRange
  <2>5. c.key # "" =>
          Append(pod.env, [kind |-> c.kind, name |-> c.name, var |-> c.key])
            \in Seq([kind : {"value", "ConfigMap", "Secret"},
                     name : Names \cup Range(DefaultName) \cup {""}, var : Names \cup Keys])
    BY <1>3, <2>3, PodFields, AppendRange
  <2>6. /\ pod' \in PodType /\ pod'.args = pod.args /\ pod'.mounts = pod.mounts
        /\ pod'.images = pod.images /\ pod'.initImages = pod.initImages
    BY <1>3, <2>1, <2>4, <2>5 DEF PodType
  <2> QED BY <1>1, <1>2, <2>1, <2>6, NextTurnInv
<1> QED BY <1>4, <1>5

\* One more mount.
LEMMA WithMountPod ==
  ASSUME NEW p \in PodType, NEW c, NEW mount \in MountType
  PROVE  LET q == WithMount(p, c, mount)
         IN  /\ q \in PodType /\ q.args = p.args
             /\ q.images = p.images /\ q.initImages = p.initImages
             /\ Range(p.mounts) \subseteq Range(q.mounts)
             /\ c.op # "plugins" => Range(q.mounts) = Range(p.mounts) \cup {mount}
<1>1. /\ Append(p.mounts, mount) \in Seq(MountType)
      /\ Append(p.initMounts, mount) \in Seq(MountType)
      /\ Range(Append(p.mounts, mount)) = Range(p.mounts) \cup {mount}
  BY PodFields, AppendRange
<1>2. CASE c.op = "plugins"
  BY <1>1, <1>2 DEF WithMount, PodType
<1>3. CASE c.op # "plugins"
  <2>1. WithMount(p, c, mount) = [p EXCEPT !.mounts = Append(p.mounts, mount)]
    BY <1>3 DEF WithMount
  <2> QED BY <1>1, <2>1 DEF PodType
<1> QED BY <1>2, <1>3

LEMMA MountTypes ==
  ASSUME NEW c \in ContributionType
  PROVE  DirMount(c) \in MountType /\ \A f \in Keys : MountOf(c, f) \in MountType
BY DEF ContributionType, MountType, DirMount, MountOf

LEMMA AddVolumeInv == IInv /\ (\E c \in Range(todo) : AddVolume(c)) => IInv'
<1> SUFFICES ASSUME IInv, NEW c \in Range(todo), AddVolume(c) PROVE IInv'
  OBVIOUS
<1> DEFINE p == [pod EXCEPT !.volumes = Append(pod.volumes, [name |-> c.name, kind |-> c.kind])]
<1>1. /\ pc = "contribute" /\ pc' = "mount" /\ todo # << >> /\ c = Head(todo) /\ ~Fails(c)
      /\ unmounted' = Selected(c) /\ unpassed' = Passed(c)
      /\ UNCHANGED <<in, pass, first, todo>>
      /\ pod' = IF c.keys = {} THEN WithMount(p, c, DirMount(c)) ELSE p
  BY DEF AddVolume, Turn
<1>2. pod \in PodType /\ c \in Sound /\ c \in ContributionType
  BY <1>1, TurnFacts DEF IInv, Typed, TypeOK
<1>3. c.keys \subseteq Keys
  <2>1. "" \notin c.keys /\ c.keys \subseteq Keys \cup {""}
    BY <1>1, <1>2 DEF Sound, Fails, ContributionType
  <2> QED BY <2>1
<1>4. /\ p \in PodType /\ p.args = pod.args /\ p.mounts = pod.mounts
      /\ p.images = pod.images /\ p.initImages = pod.initImages
  <2>1. [name |-> c.name, kind |-> c.kind]
          \in [name : Names \cup Range(DefaultName), kind : {"ConfigMap", "Secret"}]
    BY <1>2 DEF ContributionType
  <2>2. Append(pod.volumes, [name |-> c.name, kind |-> c.kind])
          \in Seq([name : Names \cup Range(DefaultName), kind : {"ConfigMap", "Secret"}])
    BY <1>2, <2>1, PodFields, AppendRange
  <2> QED BY <1>2, <2>2 DEF PodType
<1> HIDE DEF p
<1>5. DirMount(c) \in MountType
  BY <1>2, MountTypes
<1>6. /\ pod' \in PodType /\ pod'.args = pod.args /\ Range(pod.mounts) \subseteq Range(pod'.mounts)
      /\ pod'.images = pod.images /\ pod'.initImages = pod.initImages
  BY <1>1, <1>4, <1>5, WithMountPod
<1>7. unmounted' \subseteq Keys /\ unpassed' \subseteq unmounted'
  BY <1>1, <1>3 DEF Selected, Passed
<1>8. Typed'
  BY <1>1, <1>6, <1>7 DEF IInv, Typed, TypeOK
<1>9. FilesInv'
  <2>1. unpassed' # {} => c.op = "appConfig"
    BY <1>1 DEF Passed
  <2>2. Range(pod'.args) \subseteq Range(pod'.mounts)
    BY <1>6 DEF IInv, FilesInv
  <2> QED BY <1>1, <1>7, <2>1, <2>2 DEF FilesInv
<1>10. ImageInv' /\ PanicsOnlyWithoutBackend'
  BY <1>1, <1>6 DEF IInv, ImageInv, PanicsOnlyWithoutBackend
<1>11. FailInv'
  <2>1. SomeFails <=> \E d \in Range(todo) : Fails(d)
    BY <1>1 DEF IInv, FailInv
  <2>2. (SomeFails <=> \E d \in Range(todo) : Fails(d))' /\ (~Fails(Head(todo)))'
    BY <1>1, <2>1, SameFailures
  <2> QED BY <1>1, <2>2 DEF FailInv
<1> QED BY <1>8, <1>9, <1>10, <1>11 DEF IInv

(***************************************************************************)
(* The loops over the files.                                               *)
(***************************************************************************)
\* The pod gets a mount or an argument; the contribution stays the same.
LEMMA SameTurnInv ==
  ASSUME IInv, pc = "mount", pc' = "mount", UNCHANGED <<in, pass, first, todo>>,
         pod' \in PodType, pod'.images = pod.images, pod'.initImages = pod.initImages,
         unmounted' \subseteq unmounted, unpassed' \subseteq unpassed, FilesInv'
  PROVE  IInv'
<1>1. Typed'
  BY DEF IInv, Typed, TypeOK
<1>2. ImageInv' /\ PanicsOnlyWithoutBackend'
  BY DEF IInv, ImageInv, PanicsOnlyWithoutBackend
<1>3. FailInv'
  <2>1. (SomeFails <=> \E d \in Range(todo) : Fails(d)) /\ ~Fails(Head(todo))
    BY DEF IInv, FailInv
  <2>2. (SomeFails <=> \E d \in Range(todo) : Fails(d))' /\ (~Fails(Head(todo)))'
    BY <2>1, SameFailures
  <2> QED BY <2>2 DEF FailInv
<1> QED BY <1>1, <1>2, <1>3 DEF IInv

LEMMA MountFileInv == IInv /\ (\E f \in unmounted : MountFile(f)) => IInv'
<1> SUFFICES ASSUME IInv, NEW f \in unmounted, MountFile(f) PROVE IInv'
  OBVIOUS
<1>1. /\ pc = "mount" /\ pc' = "mount" /\ unmounted' = unmounted \ {f}
      /\ pod' = WithMount(pod, Head(todo), MountOf(Head(todo), f))
      /\ UNCHANGED <<in, pass, first, todo, unpassed>>
  BY DEF MountFile
<1>2. pod \in PodType /\ f \in Keys /\ todo # << >>
  BY <1>1 DEF IInv, Typed, TypeOK, FilesInv
<1>3. MountOf(Head(todo), f) \in MountType
  BY <1>2, TurnFacts, MountTypes
<1>4. /\ pod' \in PodType /\ pod'.args = pod.args
      /\ pod'.images = pod.images /\ pod'.initImages = pod.initImages
      /\ Range(pod.mounts) \subseteq Range(pod'.mounts)
      /\ Head(todo).op # "plugins" => MountOf(Head(todo), f) \in Range(pod'.mounts)
  BY <1>1, <1>2, <1>3, WithMountPod
<1>5. FilesInv'
  <2>1. Range(pod'.args) \subseteq Range(pod'.mounts)
    BY <1>4 DEF IInv, FilesInv
  <2>2. ASSUME NEW g \in unpassed
        PROVE  /\ Head(todo).op = "appConfig"
               /\ g \in unmounted' \/ MountOf(Head(todo), g) \in Range(pod'.mounts)
    <3>1. Head(todo).op = "appConfig" /\ (g \in unmounted \/ MountOf(Head(todo), g) \in Range(pod.mounts))
      BY DEF IInv, FilesInv
    <3>2. CASE g = f
      BY <1>4, <3>1, <3>2
    <3>3. CASE g # f
      BY <1>1, <1>4, <3>1, <3>3
    <3> QED BY <3>2, <3>3
  <2> QED BY <1>1, <1>2, <2>1, <2>2 DEF FilesInv
<1> QED BY <1>1, <1>4, <1>5, SameTurnInv

LEMMA PassFileInv == IInv /\ (\E f \in unpassed : PassFile(f)) => IInv'
<1> SUFFICES ASSUME IInv, NEW f \in unpassed, PassFile(f) PROVE IInv'
  OBVIOUS
<1>1. /\ pc = "mount" /\ pc' = "mount" /\ unmounted = {} /\ unpassed' = unpassed \ {f}
      /\ pod' = [pod EXCEPT !.args = Append(pod.args, MountOf(Head(todo), f))]
      /\ UNCHANGED <<in, pass, first, todo, unmounted>>
  BY DEF PassFile
<1>2. pod \in PodType /\ f \in Keys /\ todo # << >>
  BY <1>1 DEF IInv, Typed, TypeOK, FilesInv
<1>3. MountOf(Head(todo), f) \in MountType
  BY <1>2, TurnFacts, MountTypes
<1>4. /\ Append(pod.args, MountOf(Head(todo), f)) \in Seq(MountType)
      /\ Range(Append(pod.args, MountOf(Head(todo), f))) = Range(pod.args) \cup {MountOf(Head(todo), f)}
  BY <1>2, <1>3, PodFields, AppendRange
<1>5. /\ pod' \in PodType /\ pod'.mounts = pod.mounts
      /\ pod'.images = pod.images /\ pod'.initImages = pod.initImages
      /\ pod'.args = Append(pod.args, MountOf(Head(todo), f))
  BY <1>1, <1>2, <1>4 DEF PodType
<1>6. FilesInv'
  <2>1. /\ Range(pod.args) \subseteq Range(pod.mounts)
        /\ \A g \in unpassed : /\ Head(todo).op = "appConfig"
                               /\ MountOf(Head(todo), g) \in Range(pod.mounts)
    BY <1>1 DEF IInv, FilesInv
  <2> QED BY <1>1, <1>2, <1>4, <1>5, <2>1 DEF FilesInv
<1> QED BY <1>1, <1>5, <1>6, SameTurnInv

LEMMA FilesEndInv == IInv /\ FilesEnd => IInv'
<1> SUFFICES ASSUME IInv, FilesEnd PROVE IInv'
  OBVIOUS
<1>1. /\ pc = "mount" /\ unmounted = {} /\ unpassed = {} /\ pc' = "contribute"
      /\ todo' = Tail(todo) /\ UNCHANGED <<in, pass, first, pod, unmounted, unpassed>>
  BY DEF FilesEnd
<1>2. todo # << >> /\ ~Fails(Head(todo)) /\ pod \in PodType
  BY <1>1 DEF IInv, FilesInv, FailInv, Typed, TypeOK
<1> QED BY <1>1, <1>2, NextTurnInv

(***************************************************************************)
(* The ends.                                                               *)
(***************************************************************************)
LEMMA AddDbSecretInv == IInv /\ AddDbSecret => IInv'
<1> SUFFICES ASSUME IInv, AddDbSecret PROVE IInv'
  OBVIOUS
<1>1. pc = "contribute" /\ todo = << >>
  BY DEF AddDbSecret
<1>2. CASE HasDbSecret /\ NoBackend
  <2>1. Ends("panic")
    BY <1>2 DEF AddDbSecret
  <2> QED BY <1>1, <1>2, <2>1, EndsInv
<1>3. CASE ~(HasDbSecret /\ NoBackend)
  <2>1. /\ pc' = "plugins" /\ UNCHANGED <<in, pass, first, todo, unmounted, unpassed>>
        /\ pod' = IF HasDbSecret THEN [pod EXCEPT !.envFrom = Append(pod.envFrom, DbSecretRef)] ELSE pod
    BY <1>3 DEF AddDbSecret
  <2>2. pod \in PodType
    BY DEF IInv, Typed, TypeOK
  <2>3. DbSecretRef \in [kind : {"ConfigMap", "Secret"},
                         name : Names \cup Range(DefaultName) \cup {DbSecretRef.name}]
    BY DEF DbSecretRef
  <2>4. Append(pod.envFrom, DbSecretRef)
          \in Seq([kind : {"ConfigMap", "Secret"},
                   name : Names \cup Range(DefaultName) \cup {DbSecretRef.name}])
    BY <2>2, <2>3, PodFields, AppendRange
  <2>5. /\ pod' \in PodType /\ pod'.args = pod.args /\ pod'.mounts = pod.mounts
        /\ pod'.images = pod.images /\ pod'.initImages = pod.initImages
    BY <2>1, <2>2, <2>4 DEF PodType
  <2>6. Typed' /\ FilesInv' /\ ImageInv' /\ PanicsOnlyWithoutBackend'
    BY <1>1, <2>1, <2>5
       DEF IInv, Typed, TypeOK, FilesInv, ImageInv, PanicsOnlyWithoutBackend
  <2>7. FailInv'
    <3>1. Range(todo) = {}
      <4>1. DOMAIN << >> = {}
        OBVIOUS
      <4> QED BY <1>1, <4>1 DEF Range
    <3>2. ~SomeFails
      BY <1>1, <3>1 DEF IInv, FailInv
    <3> QED BY <2>1, <3>2, SameFailures DEF FailInv
  <2> QED BY <2>6, <2>7 DEF IInv
<1> QED BY <1>2, <1>3

LEMMA ValidatePluginsInv == IInv /\ ValidatePlugins => IInv'
<1> SUFFICES ASSUME IInv, ValidatePlugins PROVE IInv'
  OBVIOUS
<1>1. pc = "plugins" /\ Ends(IF PluginsFail THEN "error" ELSE "done")
  BY DEF ValidatePlugins, PluginsFail
<1>2. CASE PluginsFail
  <2>1. Ends("error")
    BY <1>1, <1>2
  <2> QED BY <1>1, <1>2, <2>1, EndsInv
<1>3. CASE ~PluginsFail
  <2>1. pc' = "done" /\ UNCHANGED <<in, pass, first, pod, todo, unmounted, unpassed>>
    BY <1>1, <1>3 DEF Ends
  <2>2. Typed' /\ FilesInv' /\ ImageInv' /\ PanicsOnlyWithoutBackend'
    BY <1>1, <2>1 DEF IInv, Typed, TypeOK, FilesInv, ImageInv, PanicsOnlyWithoutBackend
  <2>3. FailInv'
    BY <1>1, <1>3, <2>1, SameFailures DEF IInv, FailInv
  <2> QED BY <2>2, <2>3 DEF IInv
<1> QED BY <1>2, <1>3

LEMMA AgainInv == IInv /\ Again => IInv'
<1> SUFFICES ASSUME IInv, Again PROVE IInv'
  OBVIOUS
<1>1. /\ pc = "done" /\ pass' = 2 /\ first' = pod /\ pod' = NewPod(in) /\ pc' = "override"
      /\ UNCHANGED <<in, todo, unmounted, unpassed>>
  BY DEF Again
<1>2. in \in Inputs /\ in \in PodInputType /\ pod \in PodType /\ unmounted = {} /\ unpassed = {}
  BY <1>1, PodAssumption DEF IInv, Typed, TypeOK, FilesInv
<1>3. pod' \in PodType /\ pod'.args = << >> /\ Range(<< >>) = {}
  <2>1. pod'.args = << >>
    BY <1>1 DEF NewPod
  <2>2. DOMAIN << >> = {}
    OBVIOUS
  <2> QED BY <1>1, <1>2, <2>1, <2>2, NewPodType DEF Range
<1>4. Typed' /\ FilesInv'
  BY <1>1, <1>2, <1>3 DEF IInv, Typed, TypeOK, FilesInv
<1>5. ImageInv' /\ FailInv' /\ PanicsOnlyWithoutBackend'
  BY <1>1 DEF ImageInv, FailInv, PanicsOnlyWithoutBackend
<1> QED BY <1>4, <1>5 DEF IInv

LEMMA StutterInv == IInv /\ UNCHANGED vars => IInv'
<1> SUFFICES ASSUME IInv, UNCHANGED vars PROVE IInv'
  OBVIOUS
<1>1. UNCHANGED <<in, pass, first, pc, pod, todo, unmounted, unpassed>>
  BY DEF vars
<1>2. Typed' /\ FilesInv' /\ ImageInv' /\ PanicsOnlyWithoutBackend'
  BY <1>1 DEF IInv, Typed, TypeOK, FilesInv, ImageInv, PanicsOnlyWithoutBackend, NoBackend
<1>3. FailInv'
  BY <1>1, SameFailures DEF IInv, FailInv
<1> QED BY <1>2, <1>3 DEF IInv

LEMMA Inductive == Spec => []IInv
<1>1. IInv /\ [Next]_vars => IInv'
  BY OverrideInv, SettingsInv, FailingInv, NoFilesInv, AddVolumeInv, MountFileInv, PassFileInv,
     FilesEndInv, AddDbSecretInv, ValidatePluginsInv, AgainInv, StutterInv
     DEF Next, Contribute
<1> QED BY InitInv, <1>1, PTL DEF Spec

(***************************************************************************)
(* The theorems.                                                           *)
(***************************************************************************)

\* What the operator adds to the pod is of its type, whatever the spec lists.
THEOREM Typing == Spec => []TypeOK
<1>1. IInv => TypeOK
  BY DEF IInv, Typed
<1> QED BY <1>1, Inductive, PTL

\* For every spec and every order in which Go runs through the two maps, each
\* "--config" argument names a file that MountFilesFrom has mounted.
THEOREM ArgumentsAreMounted == Spec => []ConfigArgsMounted
<1>1. IInv => ConfigArgsMounted
  BY DEF IInv, FilesInv, ConfigArgsMounted
<1> QED BY <1>1, Inductive, PTL

\* For every template and spec, the image of the spec is that of all containers
\* once the Deployment and the dynamic plugins are validated.
THEOREM ImageOfSpec == Spec => []ImageEverywhere
<1>1. IInv => ImageEverywhere
  BY DEF IInv, ImageInv, ImageEverywhere
<1> QED BY <1>1, Inductive, PTL

\* For every template and spec, only a Deployment without containers makes
\* validate panic.
THEOREM PanicIsNoBackend == Spec => []PanicsOnlyWithoutBackend
<1>1. IInv => PanicsOnlyWithoutBackend
  BY DEF IInv
<1> QED BY <1>1, Inductive, PTL

\* For every template and spec, validate of the Deployment and of the dynamic
\* plugins fails exactly where ValidateFails says, which InitObjects and Reconcile
\* rely on.
THEOREM FailsWhereModelled == Spec => []FailsAsModelled
<1>1. IInv => FailsAsModelled
  <2> SUFFICES ASSUME IInv, pc \in {"done", "error"}
               PROVE  pc = "error" <=> \E k \in Added(RuntimeInput(in)) : ValidateFails(RuntimeInput(in), k)
    BY DEF FailsAsModelled
  <2> DEFINE ri == RuntimeInput(in)
  <2>1. SomeFails <=> ValidateFails(ri, "deployment")
    BY PodAssumption, FailsExactly DEF IInv, Typed, TypeOK
  <2>2. PluginsFail <=> "dynamic-plugins" \in Added(ri) /\ ValidateFails(ri, "dynamic-plugins")
    <3>1. ri.pluginsInit = HasPluginsContainer(in)
      BY DEF RuntimeInput
    <3> QED BY <3>1 DEF PluginsFail, HasDefaultPlugins, ValidateFails
  <2>3. "deployment" \in Added(ri)
    <3>1. "deployment" \in Kinds /\ "deployment" \notin PodContributors \cup {"db-secret"}
      BY DEF Kinds, PodContributors
    <3>2. ri.default["deployment"] = "good" /\ ri.overlay["deployment"] = "absent"
      BY <3>1 DEF RuntimeInput
    <3>3. LoadedObject(ri, "deployment") = "default"
      BY <3>2 DEF LoadedObject
    <3> HIDE DEF ri
    <3> QED BY <3>1, <3>3 DEF Added, AddToModel, DeploymentAdd
  <2>4. \A k : ValidateFails(ri, k) => k \in {"deployment", "dynamic-plugins"}
    BY DEF ValidateFails
  <2>5. pc = "error" <=> SomeFails \/ PluginsFail
    BY DEF IInv, FailInv
  <2> HIDE DEF ri
  <2>6. pc = "error" <=> \E k \in Added(ri) : ValidateFails(ri, k)
    BY <2>1, <2>2, <2>3, <2>4, <2>5
  <2> QED BY <2>6 DEF ri
<1> QED BY <1>1, Inductive, PTL
=====================================================================================
