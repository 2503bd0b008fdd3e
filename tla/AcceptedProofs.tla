------------------------------ MODULE AcceptedProofs ------------------------------
(* The API server accepts the pod: a pod made of distinct objects with distinct *)
(* files has volumes of different names, mounts of different paths, and no mount*)
(* without a volume, for any template, default files and spec, and for every    *)
(* order in which Go runs through a map.                                        *)
EXTENDS BackstagePodProofs

\* No object is named like a key of one: the mount of a volume as a whole is named
\* after the object.
NoNameIsAKey == (Names \cup Range(DefaultName)) \cap (Keys \cup {""}) = {}

(***************************************************************************)
(* Contributions that do not get into each other's way.                    *)
(***************************************************************************)
Apart(c, d) ==
  /\ c.op # "env" /\ d.op # "env" => c.name # d.name
  /\ c.op \in {"appConfig", "files"} /\ d.op \in {"appConfig", "files"} /\ c.path = d.path
       => Selected(c) \cap Selected(d) = {}
  /\ ~(c.op = "plugins" /\ d.op = "plugins")

AllApart(s) == \A a, b \in DOMAIN s : a # b => Apart(s[a], s[b])

LEMMA ApartTail ==
  ASSUME NEW S, NEW s \in Seq(S), s # << >>, AllApart(s)
  PROVE  AllApart(Tail(s)) /\ \A d \in Range(Tail(s)) : Apart(Head(s), d)
<1>1. /\ Len(s) \in Nat /\ Len(s) > 0 /\ Head(s) = s[1]
      /\ DOMAIN s = 1..Len(s) /\ DOMAIN Tail(s) = 1..(Len(s) - 1)
      /\ \A n \in 1..(Len(s) - 1) : Tail(s)[n] = s[n + 1] /\ n + 1 \in 1..Len(s) /\ n + 1 # 1
  OBVIOUS
<1>2. AllApart(Tail(s))
  <2> SUFFICES ASSUME NEW a \in 1..(Len(s) - 1), NEW b \in 1..(Len(s) - 1), a # b
               PROVE  Apart(s[a + 1], s[b + 1])
    BY <1>1 DEF AllApart
  <2>1. a + 1 \in DOMAIN s /\ b + 1 \in DOMAIN s /\ a + 1 # b + 1
    BY <1>1
  <2> QED BY <2>1 DEF AllApart
<1>3. ASSUME NEW n \in 1..(Len(s) - 1) PROVE Apart(s[1], s[n + 1])
  <2>1. 1 \in DOMAIN s /\ n + 1 \in DOMAIN s /\ 1 # n + 1
    BY <1>1
  <2> QED BY <2>1 DEF AllApart
<1> QED BY <1>1, <1>2, <1>3 DEF Range

\* Plugins are mounted at most once.
NoPlugins(s)  == \A c \in Range(s) : c.op # "plugins"
OnePlugins(s) ==
  \A a, b \in DOMAIN s : s[a].op = "plugins" /\ s[b].op = "plugins" => a = b

LEMMA NoneIsAtMostOne == ASSUME NEW s, NoPlugins(s) PROVE OnePlugins(s)
BY DEF NoPlugins, OnePlugins, Range

LEMMA OneConcat ==
  ASSUME NEW S, NEW s \in Seq(S), NEW t \in Seq(S),
         \/ NoPlugins(s) /\ OnePlugins(t)
         \/ OnePlugins(s) /\ NoPlugins(t)
  PROVE  OnePlugins(s \o t)
<1>1. /\ Len(s) \in Nat /\ Len(t) \in Nat
      /\ DOMAIN (s \o t) = 1..(Len(s) + Len(t))
      /\ DOMAIN s = 1..Len(s) /\ DOMAIN t = 1..Len(t)
      /\ \A n \in 1..(Len(s) + Len(t)) : (s \o t)[n] = IF n <= Len(s) THEN s[n] ELSE t[n - Len(s)]
  OBVIOUS
<1> SUFFICES ASSUME NEW a \in 1..(Len(s) + Len(t)), NEW b \in 1..(Len(s) + Len(t)),
                    (s \o t)[a].op = "plugins", (s \o t)[b].op = "plugins"
             PROVE  a = b
  BY <1>1 DEF OnePlugins
<1>2. \A n \in 1..(Len(s) + Len(t)) : ~(n <= Len(s)) => n - Len(s) \in 1..Len(t)
  BY <1>1
<1>3. CASE NoPlugins(s) /\ OnePlugins(t)
  <2>1. \A n \in 1..Len(s) : s[n].op # "plugins"
    BY <1>1, <1>3 DEF NoPlugins, Range
  <2>2. ~(a <= Len(s)) /\ ~(b <= Len(s))
    BY <1>1, <2>1
  <2>3. /\ a - Len(s) \in 1..Len(t) /\ t[a - Len(s)].op = "plugins"
        /\ b - Len(s) \in 1..Len(t) /\ t[b - Len(s)].op = "plugins"
    BY <1>1, <1>2, <2>2
  <2>4. a - Len(s) = b - Len(s)
    BY <1>1, <1>3, <2>3 DEF OnePlugins
  <2> QED BY <1>1, <2>4
<1>4. CASE OnePlugins(s) /\ NoPlugins(t)
  <2>1. \A n \in 1..Len(t) : t[n].op # "plugins"
    BY <1>1, <1>4 DEF NoPlugins, Range
  <2>2. a <= Len(s) /\ b <= Len(s)
    BY <1>1, <1>2, <2>1
  <2>3. /\ a \in 1..Len(s) /\ s[a].op = "plugins"
        /\ b \in 1..Len(s) /\ s[b].op = "plugins"
    BY <1>1, <2>2
  <2> QED BY <1>1, <1>4, <2>3 DEF OnePlugins
<1> QED BY <1>3, <1>4

LEMMA NoneConcat ==
  ASSUME NEW S, NEW s \in Seq(S), NEW t \in Seq(S), NoPlugins(s), NoPlugins(t)
  PROVE  NoPlugins(s \o t)
BY ConcatRange DEF NoPlugins

\* The default plugins are dropped when the spec has its own.
LEMMA PluginsOnce ==
  ASSUME NEW input \in PodInputType PROVE OnePlugins(Contributions(input))
<1> DEFINE s == input.spec
           l1 == Listed(input, s.appConfigs, "appConfig", "ConfigMap", MountDir(s.appPath))
           l2 == Listed(input, s.files, "files", "ConfigMap", MountDir(s.filesPath))
           l3 == Listed(input, s.cmEnvs, "env", "ConfigMap", "")
           l4 == Listed(input, s.secretFiles, "files", "Secret", MountDir(s.filesPath))
           l5 == Listed(input, s.secretEnvs, "env", "Secret", "")
           l6 == Listed(input, PluginsRefs(s), "plugins", "ConfigMap", PluginsContainer)
           d1 == Default(input, "app-config")
           d2 == Default(input, "configmap-envs")
           d3 == Default(input, "configmap-files")
           d4 == Default(input, "dynamic-plugins")
           d5 == Default(input, "secret-envs")
           d6 == Default(input, "secret-files")
           Any == Seq(Sound)
<1>1. DefaultContributions(input) = d1 \o d2 \o d3 \o d4 \o d5 \o d6
  BY DEF DefaultContributions
<1>2. SpecContributions(input) = l1 \o l2 \o l3 \o l4 \o l5 \o l6
  BY DEF SpecContributions
<1>3. d1 \in Any /\ d2 \in Any /\ d3 \in Any /\ d4 \in Any /\ d5 \in Any /\ d6 \in Any
  BY DefaultType DEF PodContributors
<1>4. l1 \in Any /\ l2 \in Any /\ l3 \in Any /\ l4 \in Any /\ l5 \in Any /\ l6 \in Any
  BY ListsType
<1>5. ASSUME NEW k \in PodContributors \ {"dynamic-plugins"} PROVE NoPlugins(Default(input, k))
  <2>1. DefaultContribution(input, k).op # "plugins"
    BY DEF DefaultContribution, Contribution, PodContributors
  <2>2. \A c \in Range(Default(input, k)) : c = DefaultContribution(input, k)
    BY DEF Default, Range
  <2> QED BY <2>1, <2>2 DEF NoPlugins
<1>6. NoPlugins(d1) /\ NoPlugins(d2) /\ NoPlugins(d3) /\ NoPlugins(d5) /\ NoPlugins(d6)
  BY <1>5 DEF PodContributors
<1>7. ASSUME NEW refs, NEW op \in {"appConfig", "files", "env"}, NEW kind, NEW path
      PROVE  NoPlugins(Listed(input, refs, op, kind, path))
  <2> SUFFICES ASSUME NEW c \in Range(Listed(input, refs, op, kind, path)) PROVE c.op # "plugins"
    BY DEF NoPlugins
  <2>1. PICK r \in Range(refs) :
          c = Contribution(op, kind, r.name, path, r.key, DataOf(input, op, kind, r))
    BY ListedRange
  <2> QED BY <2>1, Fields
<1>8. NoPlugins(l1) /\ NoPlugins(l2) /\ NoPlugins(l3) /\ NoPlugins(l4) /\ NoPlugins(l5)
  BY <1>7
<1>9. OnePlugins(d4) /\ (s.plugins # "" => NoPlugins(d4))
  <2>1. DOMAIN << >> = {} /\ \A c : DOMAIN <<c>> = {1}
    OBVIOUS
  <2>2. OnePlugins(d4)
    BY <2>1 DEF Default, OnePlugins
  <2>3. s.plugins # "" => "dynamic-plugins" \notin Added(RuntimeInput(input))
    <3>1. RuntimeInput(input).spec.plugins = (s.plugins # "")
      BY DEF RuntimeInput
    <3> QED BY <3>1 DEF Added, AddToModel, DynamicPluginsAdd
  <2>4. s.plugins # "" => d4 = << >>
    BY <2>3 DEF Default
  <2> QED BY <2>1, <2>2, <2>4 DEF NoPlugins, Range
<1>10. OnePlugins(l6) /\ (s.plugins = "" => NoPlugins(l6))
  <2>1. DOMAIN << >> = {} /\ \A c : DOMAIN <<c>> = {1}
    OBVIOUS
  <2>2. DOMAIN l6 = DOMAIN PluginsRefs(s)
    BY DEF Listed
  <2>3. DOMAIN l6 \subseteq {1} /\ (s.plugins = "" => DOMAIN l6 = {})
    BY <2>1, <2>2 DEF PluginsRefs
  <2> QED BY <2>3 DEF OnePlugins, NoPlugins, Range
<1> HIDE DEF s, l1, l2, l3, l4, l5, l6, d1, d2, d3, d4, d5, d6, Any
<1>11. \A u, v \in Any : /\ u \o v \in Any
                         /\ NoPlugins(u) /\ NoPlugins(v) => NoPlugins(u \o v)
                         /\ NoPlugins(u) /\ OnePlugins(v) => OnePlugins(u \o v)
                         /\ OnePlugins(u) /\ NoPlugins(v) => OnePlugins(u \o v)
  BY ConcatRange, NoneConcat, OneConcat DEF Any
<1>12. /\ DefaultContributions(input) \in Any /\ OnePlugins(DefaultContributions(input))
       /\ s.plugins # "" => NoPlugins(DefaultContributions(input))
  <2>1. /\ d1 \o d2 \o d3 \in Any /\ NoPlugins(d1 \o d2 \o d3)
    <3>1. d1 \o d2 \in Any /\ NoPlugins(d1 \o d2)
      BY <1>3, <1>6, <1>11
    <3> QED BY <1>3, <1>6, <1>11, <3>1
  <2>2. /\ d1 \o d2 \o d3 \o d4 \in Any /\ OnePlugins(d1 \o d2 \o d3 \o d4)
        /\ s.plugins # "" => NoPlugins(d1 \o d2 \o d3 \o d4)
    BY <1>3, <1>9, <1>11, <2>1
  <2>3. /\ d1 \o d2 \o d3 \o d4 \o d5 \in Any /\ OnePlugins(d1 \o d2 \o d3 \o d4 \o d5)
        /\ s.plugins # "" => NoPlugins(d1 \o d2 \o d3 \o d4 \o d5)
    BY <1>3, <1>6, <1>11, <2>2
  <2> QED BY <1>1, <1>3, <1>6, <1>11, <2>3
<1>13. /\ SpecContributions(input) \in Any /\ OnePlugins(SpecContributions(input))
       /\ s.plugins = "" => NoPlugins(SpecContributions(input))
  <2> DEFINE l == l1 \o l2 \o l3 \o l4 \o l5
  <2>1. l \in Any /\ NoPlugins(l)
    <3>1. l1 \o l2 \o l3 \in Any /\ NoPlugins(l1 \o l2 \o l3)
      <4>1. l1 \o l2 \in Any /\ NoPlugins(l1 \o l2)
        BY <1>4, <1>8, <1>11
      <4> QED BY <1>4, <1>8, <1>11, <4>1
    <3>2. l1 \o l2 \o l3 \o l4 \in Any /\ NoPlugins(l1 \o l2 \o l3 \o l4)
      BY <1>4, <1>8, <1>11, <3>1
    <3> QED BY <1>4, <1>8, <1>11, <3>2
  <2>2. SpecContributions(input) = l \o l6
    BY <1>2
  <2> HIDE DEF l
  <2> QED BY <1>4, <1>10, <1>11, <2>1, <2>2
<1>14. CASE s.plugins = ""
  BY <1>11, <1>12, <1>13, <1>14 DEF Contributions
<1>15. CASE s.plugins # ""
  BY <1>11, <1>12, <1>13, <1>15 DEF Contributions
<1> QED BY <1>14, <1>15

Distinct == DistinctFiles(Contributions(in)) /\ DistinctObjects(Contributions(in))

LEMMA DistinctAreApart ==
  ASSUME in \in PodInputType, Distinct PROVE AllApart(Contributions(in))
<1> DEFINE s == Contributions(in)
<1>1. OnePlugins(s)
  BY PluginsOnce
<1>2. DistinctFiles(s) /\ DistinctObjects(s)
  BY DEF Distinct
<1> SUFFICES ASSUME NEW a \in DOMAIN s, NEW b \in DOMAIN s, a # b PROVE Apart(s[a], s[b])
  BY DEF AllApart
<1> HIDE DEF s
<1>3. s[a].op # "env" /\ s[b].op # "env" => s[a].name # s[b].name
  BY <1>2 DEF DistinctObjects
<1>4. s[a].op \in {"appConfig", "files"} /\ s[b].op \in {"appConfig", "files"} /\ s[a].path = s[b].path
        => Selected(s[a]) \cap Selected(s[b]) = {}
  BY <1>2 DEF DistinctFiles
<1> QED BY <1>1, <1>3, <1>4 DEF Apart, OnePlugins

(***************************************************************************)
(* The invariant: what is in the pod is valid, the contributions still to  *)
(* come are apart from each other and from what is in the pod, and so are  *)
(* the files of the current one that are not mounted yet.                  *)
(***************************************************************************)
Volume(p, name) == \E v \in Range(p.volumes) : v.name = name

\* The pod has nothing that c will bring.
Welcome(p, c) ==
  /\ c.op # "env" => ~Volume(p, c.name)
  /\ c.op \in {"appConfig", "files"} =>
       \A m \in Range(p.mounts) : m.dir = c.path => m.file \notin Selected(c)
  /\ c.op = "plugins" => Range(p.initMounts) = {}

\* The files of c that are left are mounted nowhere.
Unmounted(p, c, files) ==
  /\ c.op # "env" /\ Volume(p, c.name) /\ files \subseteq Selected(c)
  /\ c.op # "plugins" => \A m \in Range(p.mounts) : m.dir = c.path => m.file \notin files
  /\ c.op = "plugins" => \A m \in Range(p.initMounts) : m.file \notin files

\* Mounts are named after a key, or after their volume.
MountsOf(p, mounts) ==
  /\ UniquePaths(mounts)
  /\ \A m \in Range(mounts) : Volume(p, m.volume) /\ m.file \in Keys \cup {m.volume}

Sane(p) == UniqueVolumes(p) /\ MountsOf(p, p.mounts) /\ MountsOf(p, p.initMounts)

Bare(p) == p.volumes = << >> /\ p.mounts = << >> /\ p.initMounts = << >>

AcceptInv ==
  /\ Sane(pod)
  /\ pc \in {"override", "settings"} => Bare(pod)
  /\ pc \in {"contribute", "mount"} => AllApart(todo)
  /\ pc = "contribute" => \A c \in Range(todo) : Welcome(pod, c)
  /\ pc = "mount" => /\ Unmounted(pod, Head(todo), unmounted)
                     /\ \A c \in Range(Tail(todo)) : Welcome(pod, c)

LEMMA NoRange == Range(<< >>) = {}
<1>1. DOMAIN << >> = {}
  OBVIOUS
<1> QED BY <1>1 DEF Range

LEMMA BareIsSane ==
  ASSUME NEW p, Bare(p) PROVE Sane(p) /\ \A c : Welcome(p, c)
<1>1. DOMAIN << >> = {}
  OBVIOUS
<1>2. Range(p.volumes) = {} /\ Range(p.mounts) = {} /\ Range(p.initMounts) = {}
  BY NoRange DEF Bare
<1>3. UniqueVolumes(p) /\ UniquePaths(p.mounts) /\ UniquePaths(p.initMounts)
  BY <1>1 DEF UniqueVolumes, UniquePaths, Bare
<1> QED BY <1>2, <1>3 DEF Sane, MountsOf, Welcome, Volume

LEMMA UniqueAppend ==
  ASSUME NEW S, NEW ms \in Seq(S), NEW m \in S, UniquePaths(ms),
         \A x \in Range(ms) : Path(x) # Path(m)
  PROVE  UniquePaths(Append(ms, m))
<1>1. /\ Len(ms) \in Nat /\ Append(ms, m)[Len(ms) + 1] = m
      /\ \A n \in 1..Len(ms) : Append(ms, m)[n] = ms[n]
      /\ DOMAIN Append(ms, m) = 1..(Len(ms) + 1) /\ DOMAIN ms = 1..Len(ms)
  OBVIOUS
<1>2. \A n \in 1..Len(ms) : Path(ms[n]) # Path(m)
  BY <1>1 DEF Range
<1> QED BY <1>1, <1>2 DEF UniquePaths

VolumeType == [name : Names \cup Range(DefaultName), kind : {"ConfigMap", "Secret"}]

LEMMA UniqueVolumeAppend ==
  ASSUME NEW p \in PodType, NEW v \in VolumeType, UniqueVolumes(p), ~Volume(p, v.name),
         NEW q, q.volumes = Append(p.volumes, v)
  PROVE  UniqueVolumes(q) /\ Range(q.volumes) = Range(p.volumes) \cup {v}
<1> DEFINE s == p.volumes
<1>1. s \in Seq(VolumeType)
  BY PodFields DEF VolumeType
<1>2. \A x \in Range(s) : x.name # v.name
  BY DEF Volume
<1>3. \A i, j \in DOMAIN s : s[i].name = s[j].name => i = j
  BY DEF UniqueVolumes
<1> HIDE DEF s
<1>4. /\ Len(s) \in Nat /\ Append(s, v)[Len(s) + 1] = v
      /\ \A n \in 1..Len(s) : Append(s, v)[n] = s[n]
      /\ DOMAIN Append(s, v) = 1..(Len(s) + 1) /\ DOMAIN s = 1..Len(s)
  BY <1>1
<1>5. \A n \in 1..Len(s) : s[n].name # v.name
  BY <1>2, <1>4 DEF Range
<1>6. \A i, j \in DOMAIN Append(s, v) : Append(s, v)[i].name = Append(s, v)[j].name => i = j
  BY <1>3, <1>4, <1>5
<1>7. Range(Append(s, v)) = Range(s) \cup {v}
  BY <1>1, AppendRange
<1> QED BY <1>6, <1>7 DEF UniqueVolumes, s

\* A pod with the same volumes and mounts.
SameMounts(p, q) == q.volumes = p.volumes /\ q.mounts = p.mounts /\ q.initMounts = p.initMounts

LEMMA SameIsSane ==
  ASSUME NEW p, NEW q, SameMounts(p, q)
  PROVE  /\ Sane(q) <=> Sane(p)
         /\ Bare(q) <=> Bare(p)
         /\ \A c : Welcome(q, c) <=> Welcome(p, c)
         /\ \A c, files : Unmounted(q, c, files) <=> Unmounted(p, c, files)
BY DEF SameMounts, Sane, Bare, Welcome, Unmounted, MountsOf, Volume, UniqueVolumes

(***************************************************************************)
(* One more volume, one more mount.                                        *)
(***************************************************************************)
LEMMA MountAdded ==
  ASSUME NEW p \in PodType, NEW c, NEW m \in MountType, Sane(p),
         c.op # "env", Volume(p, c.name), m.volume = c.name, m.file \in Keys \cup {m.volume},
         c.op # "plugins" => \A x \in Range(p.mounts) : Path(x) # Path(m),
         c.op = "plugins" => \A x \in Range(p.initMounts) : Path(x) # Path(m)
  PROVE  LET q == WithMount(p, c, m)
         IN  /\ Sane(q) /\ q.volumes = p.volumes
             /\ c.op # "plugins" => /\ Range(q.mounts) = Range(p.mounts) \cup {m}
                                    /\ q.initMounts = p.initMounts
             /\ c.op = "plugins" => /\ Range(q.initMounts) = Range(p.initMounts) \cup {m}
                                    /\ q.mounts = p.mounts
<1> DEFINE q == WithMount(p, c, m)
<1>1. p.mounts \in Seq(MountType) /\ p.initMounts \in Seq(MountType)
  BY PodFields
<1>2. /\ UniqueVolumes(p) /\ UniquePaths(p.mounts) /\ UniquePaths(p.initMounts)
      /\ \A x \in Range(p.mounts) \cup Range(p.initMounts) :
           Volume(p, x.volume) /\ x.file \in Keys \cup {x.volume}
  BY DEF Sane, MountsOf
<1>3. CASE c.op = "plugins"
  <2>1. /\ q.volumes = p.volumes /\ q.mounts = p.mounts
        /\ q.initMounts = Append(p.initMounts, m)
    BY <1>3 DEF WithMount, PodType
  <2>2. Range(q.initMounts) = Range(p.initMounts) \cup {m} /\ UniquePaths(q.initMounts)
    BY <1>1, <1>2, <1>3, <2>1, AppendRange, UniqueAppend
  <2> HIDE DEF q
  <2>3. Sane(q)
    BY <1>2, <2>1, <2>2 DEF Sane, MountsOf, Volume, UniqueVolumes
  <2> QED BY <1>3, <2>1, <2>2, <2>3 DEF q
<1>4. CASE c.op # "plugins"
  <2>1. /\ q.volumes = p.volumes /\ q.initMounts = p.initMounts
        /\ q.mounts = Append(p.mounts, m)
    BY <1>4 DEF WithMount, PodType
  <2>2. Range(q.mounts) = Range(p.mounts) \cup {m} /\ UniquePaths(q.mounts)
    BY <1>1, <1>2, <1>4, <2>1, AppendRange, UniqueAppend
  <2> HIDE DEF q
  <2>3. Sane(q)
    BY <1>2, <2>1, <2>2 DEF Sane, MountsOf, Volume, UniqueVolumes
  <2> QED BY <1>4, <2>1, <2>2, <2>3 DEF q
<1> QED BY <1>3, <1>4

LEMMA VolumeAdded ==
  ASSUME NEW p \in PodType, NEW c \in ContributionType, Sane(p), Welcome(p, c), c.op # "env"
  PROVE  LET v == [name |-> c.name, kind |-> c.kind]
             q == [p EXCEPT !.volumes = Append(p.volumes, v)]
         IN  /\ q \in PodType /\ Sane(q) /\ Volume(q, c.name)
             /\ q.mounts = p.mounts /\ q.initMounts = p.initMounts
             /\ \A name : Volume(q, name) => Volume(p, name) \/ name = c.name
<1> DEFINE v == [name |-> c.name, kind |-> c.kind]
           q == [p EXCEPT !.volumes = Append(p.volumes, v)]
<1>1. v \in VolumeType /\ v.name = c.name
  BY DEF ContributionType, VolumeType
<1>2. Append(p.volumes, v) \in Seq(VolumeType)
  BY <1>1, PodFields, AppendRange DEF VolumeType
<1>3. q \in PodType /\ q.volumes = Append(p.volumes, v)
      /\ q.mounts = p.mounts /\ q.initMounts = p.initMounts
  BY <1>2 DEF PodType, VolumeType
<1>4. UniqueVolumes(q) /\ Range(q.volumes) = Range(p.volumes) \cup {v}
  BY <1>1, <1>3, UniqueVolumeAppend DEF Welcome, Sane
<1> HIDE DEF v, q
<1>5. Volume(q, c.name) /\ \A name : Volume(q, name) <=> Volume(p, name) \/ name = c.name
  BY <1>1, <1>4 DEF Volume
<1>6. Sane(q)
  BY <1>3, <1>4, <1>5 DEF Sane, MountsOf
<1> QED BY <1>3, <1>5, <1>6 DEF v, q

\* The next ones are still welcome.
LEMMA StillWelcome ==
  ASSUME NEW p, NEW q, NEW c \in ContributionType, NEW d, Welcome(p, d), Apart(c, d), c.op # "env",
         \A name : Volume(q, name) => Volume(p, name) \/ name = c.name,
         c.op = "plugins" => Range(q.mounts) = Range(p.mounts),
         c.op # "plugins" => /\ Range(q.initMounts) = Range(p.initMounts)
                             /\ \A m \in Range(q.mounts) \ Range(p.mounts) :
                                  m.dir = c.path /\ (m.file \in Selected(c) \/ m.file \notin Selected(d))
  PROVE  Welcome(q, d)
<1>1. d.op # "env" => ~Volume(q, d.name)
  BY DEF Welcome, Apart
<1>2. d.op = "plugins" => Range(q.initMounts) = {}
  BY DEF Welcome, Apart
<1>3. ASSUME d.op \in {"appConfig", "files"}, NEW m \in Range(q.mounts), m.dir = d.path
      PROVE  m.file \notin Selected(d)
  <2>1. CASE m \in Range(p.mounts)
    BY <1>3, <2>1 DEF Welcome
  <2>2. CASE m \notin Range(p.mounts)
    <3>1. c.op \in {"appConfig", "files"} /\ m.dir = c.path
          /\ (m.file \in Selected(c) \/ m.file \notin Selected(d))
      BY <1>3, <2>2 DEF ContributionType
    <3> QED BY <1>3, <3>1 DEF Apart
  <2> QED BY <2>1, <2>2
<1> QED BY <1>1, <1>2, <1>3 DEF Welcome

(***************************************************************************)
(* The steps.                                                              *)
(***************************************************************************)
LEMMA TodoFacts ==
  ASSUME IInv, AcceptInv, pc \in {"contribute", "mount"}, todo # << >>
  PROVE  /\ Head(todo) \in ContributionType /\ Range(Tail(todo)) \subseteq Range(todo)
         /\ Head(todo) \in Range(todo)
         /\ Range(Tail(todo)) \subseteq Sound
         /\ AllApart(Tail(todo)) /\ \A d \in Range(Tail(todo)) : Apart(Head(todo), d)
<1>1. todo \in Seq(Sound) /\ AllApart(todo)
  BY DEF IInv, Typed, AcceptInv
<1>2. Tail(todo) \in Seq(Sound)
  BY TurnFacts
<1>3. Range(Tail(todo)) \subseteq Sound
  BY <1>2, SeqItems DEF Range
<1> QED BY <1>1, <1>3, ApartTail, TurnFacts

\* A step that leaves the volumes and mounts.
LEMMA AcceptSame ==
  ASSUME IInv, AcceptInv, SameMounts(pod, pod'),
         \/ pc' \in {"error", "panic", "plugins", "done"}
         \/ pc' = pc /\ todo' = todo /\ unmounted' = unmounted
         \/ pc = "override" /\ pc' = "settings"
         \/ /\ pc \in {"contribute", "mount"} /\ pc' = "contribute"
            /\ todo # << >> /\ todo' = Tail(todo)
  PROVE  AcceptInv'
<1>1. /\ Sane(pod') /\ (Bare(pod) => Bare(pod'))
      /\ \A c : Welcome(pod, c) => Welcome(pod', c)
      /\ \A c, files : Unmounted(pod, c, files) => Unmounted(pod', c, files)
  BY SameIsSane DEF AcceptInv
<1>2. CASE pc' \in {"error", "panic", "plugins", "done"}
  BY <1>1, <1>2 DEF AcceptInv
<1>3. CASE pc' = pc /\ todo' = todo /\ unmounted' = unmounted
  BY <1>1, <1>3 DEF AcceptInv
<1>4. CASE pc = "override" /\ pc' = "settings"
  BY <1>1, <1>4 DEF AcceptInv
<1>5. CASE /\ pc \in {"contribute", "mount"} /\ pc' = "contribute"
           /\ todo # << >> /\ todo' = Tail(todo)
  <2>1. AllApart(Tail(todo)) /\ Range(Tail(todo)) \subseteq Range(todo)
    BY <1>5, TodoFacts
  <2>2. \A c \in Range(Tail(todo)) : Welcome(pod, c)
    BY <1>5, <2>1 DEF AcceptInv
  <2> QED BY <1>1, <1>5, <2>1, <2>2 DEF AcceptInv
<1> QED BY <1>2, <1>3, <1>4, <1>5

LEMMA AcceptStart ==
  ASSUME IInv, AcceptInv, Distinct, OverrideImage \/ ApplySettings \/ Again PROVE AcceptInv'
<1>0. in \in PodInputType /\ pod \in PodType
  BY PodAssumption DEF IInv, Typed, TypeOK
<1>1. CASE OverrideImage
  <2>1. pc = "override" /\ pc' \in {"settings", "panic"}
    BY <1>1 DEF OverrideImage, Ends
  <2>2. SameMounts(pod, pod')
    BY <1>0, <1>1 DEF OverrideImage, Ends, PodType, SameMounts
  <2> QED BY <2>1, <2>2, AcceptSame
<1>2. CASE ApplySettings
  <2>1. pc = "settings" /\ Bare(pod)
    BY <1>2 DEF ApplySettings, AcceptInv
  <2>2. SameMounts(pod, pod')
    BY <1>0, <1>2 DEF ApplySettings, Ends, PodType, SameMounts
  <2>3. \/ pc' = "panic"
        \/ pc' = "contribute" /\ todo' = Contributions(in)
    BY <1>2 DEF ApplySettings, Ends
  <2>4. CASE pc' = "panic"
    BY <2>2, <2>4, AcceptSame
  <2>5. CASE pc' = "contribute" /\ todo' = Contributions(in)
    <3>1. AllApart(todo')
      BY <1>0, <2>5, DistinctAreApart
    <3>2. Sane(pod') /\ \A c : Welcome(pod', c)
      BY <2>1, <2>2, SameIsSane, BareIsSane
    <3> QED BY <2>5, <3>1, <3>2 DEF AcceptInv
  <2> QED BY <2>3, <2>4, <2>5
<1>3. CASE Again
  <2>1. pc' = "override" /\ Bare(pod')
    BY <1>3 DEF Again, NewPod, Bare
  <2> QED BY <2>1, BareIsSane DEF AcceptInv
<1> QED BY <1>1, <1>2, <1>3

LEMMA AcceptVolume ==
  ASSUME NoNameIsAKey, IInv, AcceptInv, NEW c \in Range(todo), AddVolume(c) PROVE AcceptInv'
<1> DEFINE p == [pod EXCEPT !.volumes = Append(pod.volumes, [name |-> c.name, kind |-> c.kind])]
           m == DirMount(c)
<1>1. /\ pc = "contribute" /\ pc' = "mount" /\ todo # << >> /\ c = Head(todo)
      /\ c.op # "env" /\ todo' = todo /\ unmounted' = Selected(c)
      /\ pod' = IF c.keys = {} THEN WithMount(p, c, m) ELSE p
  BY DEF AddVolume, Turn
<1>2. /\ pod \in PodType /\ c \in ContributionType /\ Sane(pod) /\ Welcome(pod, c)
      /\ AllApart(todo)
  BY <1>1, TodoFacts DEF IInv, Typed, TypeOK, AcceptInv
<1>3. /\ p \in PodType /\ Sane(p) /\ Volume(p, c.name)
      /\ p.mounts = pod.mounts /\ p.initMounts = pod.initMounts
      /\ \A name : Volume(p, name) => Volume(pod, name) \/ name = c.name
  BY <1>1, <1>2, VolumeAdded
<1> HIDE DEF p
<1>4. c.name \notin Keys \cup {""}
  BY <1>2 DEF NoNameIsAKey, ContributionType
<1>5. \A d \in Range(Tail(todo)) : /\ Welcome(pod, d) /\ Apart(c, d)
                                   /\ Selected(d) \subseteq Keys \cup {""}
  BY <1>1, TodoFacts DEF AcceptInv, Selected, Sound, ContributionType
<1>6. CASE c.keys # {}
  <2>1. pod' = p
    BY <1>1, <1>6
  <2>2. Unmounted(p, c, Selected(c))
    BY <1>1, <1>2, <1>3 DEF Unmounted, Welcome, ContributionType
  <2>3. \A d \in Range(Tail(todo)) : Welcome(p, d)
    BY <1>1, <1>2, <1>3, <1>5, StillWelcome
  <2> QED BY <1>1, <1>2, <1>3, <2>1, <2>2, <2>3 DEF AcceptInv
<1>7. CASE c.keys = {}
  <2>1. pod' = WithMount(p, c, m) /\ Selected(c) = {}
    BY <1>1, <1>7 DEF Selected
  <2>2. m \in MountType /\ m.volume = c.name /\ m.file = c.name /\ m.dir = c.path
    BY <1>2, MountTypes DEF DirMount
  <2> HIDE DEF m
  <2>3. \A x \in Range(pod.mounts) \cup Range(pod.initMounts) : Path(x) # Path(m)
    <3> SUFFICES ASSUME NEW x \in Range(pod.mounts) \cup Range(pod.initMounts) PROVE x.file # m.file
      BY DEF Path
    <3>1. Volume(pod, x.volume) /\ x.file \in Keys \cup {x.volume}
      BY <1>2 DEF Sane, MountsOf
    <3>2. ~Volume(pod, c.name)
      BY <1>1, <1>2 DEF Welcome
    <3> QED BY <1>4, <2>2, <3>1, <3>2
  <2>4. /\ Sane(pod') /\ pod'.volumes = p.volumes
        /\ c.op # "plugins" => /\ Range(pod'.mounts) = Range(p.mounts) \cup {m}
                               /\ pod'.initMounts = p.initMounts
        /\ c.op = "plugins" => /\ Range(pod'.initMounts) = Range(p.initMounts) \cup {m}
                               /\ pod'.mounts = p.mounts
    <3>1. m.file \in Keys \cup {m.volume}
      BY <2>2
    <3>2. /\ \A x \in Range(p.mounts) : Path(x) # Path(m)
          /\ \A x \in Range(p.initMounts) : Path(x) # Path(m)
      BY <1>3, <2>3
    <3>3. c.op # "env" /\ Volume(p, c.name) /\ m.volume = c.name
      BY <1>1, <1>3, <2>2
    <3> QED BY <1>3, <2>1, <2>2, <3>1, <3>2, <3>3, MountAdded
  <2>5. \A name : Volume(pod', name) <=> Volume(p, name)
    BY <2>4 DEF Volume
  <2>6. Unmounted(pod', c, Selected(c))
    BY <1>1, <1>3, <2>1, <2>5 DEF Unmounted
  <2>7. \A d \in Range(Tail(todo)) : Welcome(pod', d)
    <3> SUFFICES ASSUME NEW d \in Range(Tail(todo)) PROVE Welcome(pod', d)
      OBVIOUS
    <3>1. m.file \notin Selected(d)
      BY <1>4, <1>5, <2>2
    <3>2. \A x \in Range(pod'.mounts) \ Range(pod.mounts) :
            c.op # "plugins" => x.dir = c.path /\ x.file \notin Selected(d)
      BY <1>3, <2>2, <2>4, <3>1
    <3> QED BY <1>1, <1>2, <1>3, <1>5, <2>4, <2>5, <3>2, StillWelcome
  <2> QED BY <1>1, <1>2, <2>4, <2>6, <2>7 DEF AcceptInv
<1> QED BY <1>6, <1>7

LEMMA AcceptMount ==
  ASSUME IInv, AcceptInv, NEW f \in unmounted, MountFile(f) PROVE AcceptInv'
<1> DEFINE c == Head(todo)
           m == MountOf(c, f)
<1>1. /\ pc = "mount" /\ pc' = "mount" /\ todo # << >> /\ f \in Keys
      /\ todo' = todo /\ unmounted' = unmounted \ {f} /\ pod' = WithMount(pod, c, m)
  BY DEF MountFile, IInv, FilesInv, Typed, TypeOK
<1>2. pod \in PodType /\ c \in ContributionType /\ Sane(pod) /\ AllApart(todo)
  BY <1>1, TodoFacts DEF IInv, Typed, TypeOK, AcceptInv
<1>3. m \in MountType /\ m.volume = c.name /\ m.file = f /\ m.dir = c.path
  BY <1>1, <1>2, MountTypes DEF MountOf
<1>4. Unmounted(pod, c, unmounted)
  BY <1>1 DEF AcceptInv
<1>5. \A d \in Range(Tail(todo)) : Welcome(pod, d) /\ Apart(c, d)
  BY <1>1, TodoFacts DEF AcceptInv
<1> HIDE DEF c, m
<1>6. /\ c.op # "plugins" => \A x \in Range(pod.mounts) : Path(x) # Path(m)
      /\ c.op = "plugins" => \A x \in Range(pod.initMounts) : Path(x) # Path(m)
  BY <1>3, <1>4 DEF Unmounted, Path
<1>7. /\ Sane(pod') /\ pod'.volumes = pod.volumes
      /\ c.op # "plugins" => /\ Range(pod'.mounts) = Range(pod.mounts) \cup {m}
                             /\ pod'.initMounts = pod.initMounts
      /\ c.op = "plugins" => /\ Range(pod'.initMounts) = Range(pod.initMounts) \cup {m}
                             /\ pod'.mounts = pod.mounts
  <2>1. /\ c.op # "env" /\ Volume(pod, c.name)
        /\ m.volume = c.name /\ m.file \in Keys \cup {m.volume}
    BY <1>1, <1>3, <1>4 DEF Unmounted
  <2> QED BY <1>1, <1>2, <1>3, <1>6, <2>1, MountAdded
<1>8. \A name : Volume(pod', name) <=> Volume(pod, name)
  BY <1>7 DEF Volume
<1>9. Unmounted(pod', c, unmounted \ {f})
  BY <1>3, <1>4, <1>7, <1>8 DEF Unmounted
<1>10. \A d \in Range(Tail(todo)) : Welcome(pod', d)
  <2>1. f \in Selected(c) /\ c.op # "env"
    BY <1>4 DEF Unmounted
  <2>2. \A x \in Range(pod'.mounts) \ Range(pod.mounts) :
          c.op # "plugins" => x.dir = c.path /\ x.file \in Selected(c)
    BY <1>3, <1>7, <2>1
  <2> QED BY <1>2, <1>5, <1>7, <1>8, <2>1, <2>2, StillWelcome
<1> QED BY <1>1, <1>2, <1>7, <1>9, <1>10 DEF AcceptInv, c

LEMMA AcceptStep ==
  ASSUME NoNameIsAKey, IInv, AcceptInv, Distinct, [Next]_vars PROVE AcceptInv'
<1>1. ASSUME NEW c \in Range(todo), Contribute(c) PROVE AcceptInv'
  <2>1. CASE ContributionFails(c) \/ ContributionPanics(c)
    BY <2>1, AcceptSame DEF ContributionFails, ContributionPanics, Ends, SameMounts
  <2>2. CASE IgnorePlugins(c)
    BY <2>2, AcceptSame DEF IgnorePlugins, Turn, SameMounts
  <2>3. CASE AddEnvVarsFrom(c)
    <3>1. SameMounts(pod, pod')
      BY <2>3 DEF AddEnvVarsFrom, SameMounts, IInv, Typed, TypeOK, PodType
    <3> QED BY <2>3, <3>1, AcceptSame DEF AddEnvVarsFrom, Turn
  <2>4. CASE AddVolume(c)
    BY <2>4, AcceptVolume
  <2> QED BY <1>1, <2>1, <2>2, <2>3, <2>4 DEF Contribute
<1>2. ASSUME NEW f \in unpassed, PassFile(f) PROVE AcceptInv'
  <2>1. SameMounts(pod, pod')
    BY <1>2 DEF PassFile, SameMounts, IInv, Typed, TypeOK, PodType
  <2> QED BY <1>2, <2>1, AcceptSame DEF PassFile
<1>3. CASE FilesEnd
  <2>1. todo # << >>
    BY <1>3 DEF FilesEnd, IInv, FilesInv
  <2> QED BY <1>3, <2>1, AcceptSame DEF FilesEnd, SameMounts
<1>4. CASE AddDbSecret
  <2>1. SameMounts(pod, pod')
    BY <1>4 DEF AddDbSecret, Ends, SameMounts, IInv, Typed, TypeOK, PodType
  <2> QED BY <1>4, <2>1, AcceptSame DEF AddDbSecret, Ends
<1>5. CASE ValidatePlugins
  BY <1>5, AcceptSame DEF ValidatePlugins, Ends, SameMounts
<1>6. CASE UNCHANGED vars
  BY <1>6, AcceptSame DEF vars, SameMounts
<1> QED BY <1>1, <1>2, <1>3, <1>4, <1>5, <1>6, AcceptStart, AcceptMount DEF Next

\* What the pod is made of is distinct or not once and for all.
LEMMA DistinctStays ==
  ASSUME [Next]_vars PROVE Distinct' <=> Distinct
<1>1. in' = in
  BY DEF Next, vars, OverrideImage, ApplySettings, Contribute, ContributionFails,
         ContributionPanics, IgnorePlugins, AddEnvVarsFrom, AddVolume, MountFile, PassFile,
         FilesEnd, AddDbSecret, ValidatePlugins, Again, Ends
<1> QED BY <1>1 DEF Distinct

LEMMA AcceptedInit == ASSUME Init PROVE AcceptInv
<1>1. pc = "override" /\ Bare(pod)
  BY DEF Init, StartOfPass, NewPod, Bare
<1> QED BY <1>1, BareIsSane DEF AcceptInv

\* From distinct files of distinct objects comes a pod that the API server accepts
\* (pod-mutator.go:27-79), whatever the default files and the spec name, and in
\* whatever order the loops over Go maps run.
THEOREM AcceptedWhenDistinct == ASSUME NoNameIsAKey PROVE Spec => []AcceptedIfDistinct
<1> DEFINE Inv == Distinct => AcceptInv
<1>1. Init => Inv
  BY AcceptedInit
<1>2. IInv /\ Inv /\ [Next]_vars => Inv'
  BY AcceptStep, DistinctStays
<1>3. Inv => AcceptedIfDistinct
  BY DEF AcceptedIfDistinct, Distinct, AcceptInv, Sane, MountsOf, Valid, Volume
<1> QED BY <1>1, <1>2, <1>3, Inductive, PTL DEF Spec
===================================================================================
