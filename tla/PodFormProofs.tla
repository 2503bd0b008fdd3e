------------------------------- MODULE PodFormProofs -------------------------------
(* The closed form of the pod: which elements each of its lists has once a pass *)
(* is done, and in which order, for any template, default files and spec, and   *)
(* for every order in which Go runs through a map.  From it follow what         *)
(* overrides what and that two passes make the same pod.                        *)
EXTENDS BackstagePodProofs, FiniteSetTheorems, SequenceTheorems

LEMMA LeastNumber ==
  ASSUME NEW T \in SUBSET Nat, T # {}
  PROVE  \E m \in T : \A n \in T : m <= n
<1> DEFINE Less == OpToRel(<, Nat)
<1>1. IsWellFoundedOn(Less, Nat)
  BY NatLessThanWellFounded
<1>2. \A m, n \in Nat : m < n => <<m, n>> \in Less
  BY DEF OpToRel
<1> HIDE DEF Less
<1>3. PICK m \in T : \A n \in T : <<n, m>> \notin Less
  BY <1>1, WFMin
<1>4. \A n \in T : ~(n < m)
  BY <1>2, <1>3
<1> QED BY <1>4

LEMMA ConcatAppend ==
  ASSUME NEW S, NEW s \in Seq(S), NEW t \in Seq(S), NEW e \in S
  PROVE  Append(s \o t, e) = s \o Append(t, e) /\ Append(t, e) \in Seq(S)
<1>1. s \o t \in Seq(S) /\ <<e>> \in Seq(S) /\ Append(t, e) \in Seq(S)
  BY ConcatProperties, ShortSeq, AppendProperties
<1>2. Append(s \o t, e) = (s \o t) \o <<e>> /\ Append(t, e) = t \o <<e>>
  BY <1>1, AppendIsConcat
<1>3. (s \o t) \o <<e>> = s \o (t \o <<e>>)
  BY <1>1, ConcatAssociative
<1> QED BY <1>1, <1>2, <1>3

(***************************************************************************)
(* A sequence that lists the items of the entries K, each of them once.    *)
(* An entry is a pair whose first component is a number, and an item of a  *)
(* lower number comes first.                                               *)
(***************************************************************************)
Lists(s, K, item) ==
  \E of \in [DOMAIN s -> K] :
    /\ \A k \in K : \E i \in DOMAIN s : of[i] = k
    /\ \A i, j \in DOMAIN s : of[i] = of[j] => i = j
    /\ \A i, j \in DOMAIN s : i < j => of[i][1] <= of[j][1]
    /\ \A i \in DOMAIN s : s[i] = item[of[i]]

Numbered(K) == \A k \in K : k[1] \in Nat

LEMMA ListsNothing == ASSUME NEW item PROVE Lists(<< >>, {}, item)
<1>1. DOMAIN << >> = {}
  OBVIOUS
<1>2. [x \in {} |-> x] \in [{} -> {}]
  OBVIOUS
<1> QED BY <1>1, <1>2 DEF Lists

LEMMA ListsAppend ==
  ASSUME NEW S, NEW s \in Seq(S), NEW e \in S, NEW K, NEW item, NEW k,
         Lists(s, K, item), Numbered(K \cup {k}),
         k \notin K, item[k] = e, \A x \in K : x[1] <= k[1]
  PROVE  Lists(Append(s, e), K \cup {k}, item)
<1> DEFINE t == Append(s, e)
           last == Len(s) + 1
<1>1. /\ Len(s) \in Nat /\ t[last] = e
      /\ \A n \in 1..Len(s) : t[n] = s[n]
      /\ DOMAIN t = 1..last /\ DOMAIN s = 1..Len(s)
  OBVIOUS
<1>2. PICK of \in [DOMAIN s -> K] :
        /\ \A x \in K : \E i \in DOMAIN s : of[i] = x
        /\ \A i, j \in DOMAIN s : of[i] = of[j] => i = j
        /\ \A i, j \in DOMAIN s : i < j => of[i][1] <= of[j][1]
        /\ \A i \in DOMAIN s : s[i] = item[of[i]]
  BY DEF Lists
<1> DEFINE on == [n \in DOMAIN t |-> IF n = last THEN k ELSE of[n]]
<1> HIDE DEF t
<1>3. /\ on \in [DOMAIN t -> K \cup {k}]
      /\ on[last] = k /\ \A n \in 1..Len(s) : on[n] = of[n] /\ of[n] \in K
      /\ \A n \in DOMAIN t : n = last \/ n \in 1..Len(s)
  BY <1>1
<1> HIDE DEF on
<1>4. \A x \in K \cup {k} : \E i \in DOMAIN t : on[i] = x
  BY <1>1, <1>2, <1>3
<1>5. \A i, j \in DOMAIN t : on[i] = on[j] => i = j
  BY <1>1, <1>2, <1>3
<1>6. ASSUME NEW i \in DOMAIN t, NEW j \in DOMAIN t, i < j PROVE on[i][1] <= on[j][1]
  <2>1. i \in 1..Len(s)
    BY <1>1, <1>3, <1>6
  <2> QED BY <1>1, <1>2, <1>3, <1>6, <2>1
<1>7. \A i \in DOMAIN t : t[i] = item[on[i]]
  BY <1>1, <1>2, <1>3
<1> QED BY <1>3, <1>4, <1>5, <1>6, <1>7 DEF Lists, t

\* What the entries determine: the length, the elements, and, if no number is that
\* of two entries, the sequence.
LEMMA ListsLen ==
  ASSUME NEW S, NEW s \in Seq(S), NEW K, NEW item, Lists(s, K, item)
  PROVE  /\ IsFiniteSet(K) /\ Len(s) = Cardinality(K)
         /\ Range(s) = {item[k] : k \in K}
<1>1. DOMAIN s = 1..Len(s) /\ Len(s) \in Nat
  BY SeqItems
<1>2. PICK of \in [DOMAIN s -> K] :
        /\ \A x \in K : \E i \in DOMAIN s : of[i] = x
        /\ \A i, j \in DOMAIN s : of[i] = of[j] => i = j
        /\ \A i \in DOMAIN s : s[i] = item[of[i]]
  BY DEF Lists
<1>3. of \in Bijection(1..Len(s), K)
  BY <1>1, <1>2 DEF Bijection, Injection, Surjection, IsInjective
<1>4. ExistsBijection(1..Len(s), K)
  BY <1>3 DEF ExistsBijection
<1>5. IsFiniteSet(K) /\ Len(s) = Cardinality(K)
  BY <1>1, <1>4, FS_NatBijection, FS_CountingElements
<1>6. Range(s) = {item[k] : k \in K}
  BY <1>2 DEF Range
<1> QED BY <1>5, <1>6

LEMMA ListsSame ==
  ASSUME NEW S, NEW s \in Seq(S), NEW t \in Seq(S), NEW K, NEW item,
         Lists(s, K, item), Lists(t, K, item), Numbered(K),
         \A x, y \in K : x[1] = y[1] => x = y
  PROVE  s = t
<1>1. DOMAIN s = 1..Len(s) /\ DOMAIN t = 1..Len(s) /\ Len(s) \in Nat
  <2>1. Len(s) = Len(t)
    BY ListsLen
  <2> QED BY <2>1, SeqItems
<1>2. PICK of \in [DOMAIN s -> K] :
        /\ \A x \in K : \E i \in DOMAIN s : of[i] = x
        /\ \A i, j \in DOMAIN s : of[i] = of[j] => i = j
        /\ \A i, j \in DOMAIN s : i < j => of[i][1] <= of[j][1]
        /\ \A i \in DOMAIN s : s[i] = item[of[i]]
  BY DEF Lists
<1>3. PICK on \in [DOMAIN t -> K] :
        /\ \A x \in K : \E i \in DOMAIN t : on[i] = x
        /\ \A i, j \in DOMAIN t : on[i] = on[j] => i = j
        /\ \A i, j \in DOMAIN t : i < j => on[i][1] <= on[j][1]
        /\ \A i \in DOMAIN t : t[i] = item[on[i]]
  BY DEF Lists
<1>4. \A i \in 1..Len(s) : of[i] = on[i]
  <2> SUFFICES ASSUME \E i \in 1..Len(s) : of[i] # on[i] PROVE FALSE
    OBVIOUS
  <2> DEFINE T == {i \in 1..Len(s) : of[i] # on[i]}
  <2>1. PICK i \in T : \A n \in T : i <= n
    <3>1. T \in SUBSET Nat /\ T # {}
      BY <1>1
    <3> HIDE DEF T
    <3> QED BY <3>1, LeastNumber
  <2>2. i \in 1..Len(s) /\ of[i] # on[i]
    BY <2>1
  <2>3. \A n \in 1..Len(s) : n < i => of[n] = on[n]
    BY <1>1, <2>1
  <2> HIDE DEF T
  <2>4. /\ of[i] \in K /\ on[i] \in K
        /\ of[i][1] \in Nat /\ on[i][1] \in Nat /\ of[i][1] # on[i][1]
    BY <1>1, <1>2, <1>3, <2>2 DEF Numbered
  <2>5. PICK a \in 1..Len(s) : on[a] = of[i]
    BY <1>1, <1>3, <2>4
  <2>6. PICK b \in 1..Len(s) : of[b] = on[i]
    BY <1>1, <1>2, <2>4
  <2>7. i < a
    <3>1. a # i
      BY <2>2, <2>5
    <3>2. ~(a < i)
      <4> SUFFICES ASSUME a < i PROVE FALSE
        OBVIOUS
      <4>1. of[a] = of[i]
        BY <2>3, <2>5
      <4> QED BY <1>1, <1>2, <2>2, <3>1, <4>1
    <3> QED BY <1>1, <2>2, <3>1, <3>2
  <2>8. i < b
    <3>1. b # i
      BY <2>2, <2>6
    <3>2. ~(b < i)
      <4> SUFFICES ASSUME b < i PROVE FALSE
        OBVIOUS
      <4>1. on[b] = on[i]
        BY <2>3, <2>6
      <4> QED BY <1>1, <1>3, <2>2, <3>1, <4>1
    <3> QED BY <1>1, <2>2, <3>1, <3>2
  <2>9. on[i][1] <= of[i][1] /\ of[i][1] <= on[i][1]
    BY <1>1, <1>2, <1>3, <2>2, <2>5, <2>6, <2>7, <2>8
  <2> QED BY <2>4, <2>9
<1> QED BY <1>1, <1>2, <1>3, <1>4

(***************************************************************************)
(* The closed form.  An entry is the position of a contribution and, for a *)
(* mount or an argument, a file of it.                                     *)
(***************************************************************************)
C == Contributions(in)

Entries == (DOMAIN C) \X (Keys \cup Names \cup Range(DefaultName) \cup {""})

\* An object without data is mounted under its own name.
MountedFiles(c) == IF c.keys = {} THEN {c.name} ELSE Selected(c)

OfVolume(c)  == c.op # "env" /\ ~Ignored(c)
OfBackend(c) == c.op \in {"appConfig", "files"}
OfPlugins(c) == c.op = "plugins" /\ ~Ignored(c)

VolumeEntries    == {k \in Entries : OfVolume(C[k[1]]) /\ k[2] = ""}
MountEntries     == {k \in Entries : OfBackend(C[k[1]]) /\ k[2] \in MountedFiles(C[k[1]])}
InitMountEntries == {k \in Entries : OfPlugins(C[k[1]]) /\ k[2] \in MountedFiles(C[k[1]])}
ArgEntries       == {k \in Entries : k[2] \in Passed(C[k[1]])}
EnvEntries       == {k \in Entries : C[k[1]].op = "env" /\ C[k[1]].key # "" /\ k[2] = ""}
EnvFromEntries   == {k \in Entries : C[k[1]].op = "env" /\ C[k[1]].key = "" /\ k[2] = ""}

VolumeItem  == [k \in Entries |-> [name |-> C[k[1]].name, kind |-> C[k[1]].kind]]
FileItem    == [k \in Entries |-> MountOf(C[k[1]], k[2])]
EnvItem     == [k \in Entries |-> [kind |-> C[k[1]].kind, name |-> C[k[1]].name, var |-> C[k[1]].key]]
EnvFromItem == [k \in Entries |-> [kind |-> C[k[1]].kind, name |-> C[k[1]].name]]

EnvType    == [kind : {"value", "ConfigMap", "Secret"},
               name : Names \cup Range(DefaultName) \cup {""}, var : Names \cup Keys]
SourceType == [kind : {"ConfigMap", "Secret"},
               name : Names \cup Range(DefaultName) \cup {DbSecretRef.name}]

\* The pod with the image of the environment, and with the settings of the spec.
OverriddenPod ==
  IF ~in.envImage THEN NewPod(in)
  ELSE [NewPod(in) EXCEPT !.images[1] = "env", !.initImages = [n \in DOMAIN in.init |-> "env"]]

Extra == [n \in DOMAIN in.spec.envs |-> [kind |-> "value", name |-> "", var |-> in.spec.envs[n]]]

WithSettings(p) ==
  /\ p.replicas    = IF in.spec.replicas = "nil" THEN "own" ELSE "spec"
  /\ p.pullSecrets = in.spec.pullSecrets
  /\ p.images      = AllImages(OverriddenPod.images, in.spec.image)
  /\ p.initImages  = AllImages(OverriddenPod.initImages, in.spec.image)

EnvIs(p, K) ==
  \E t \in Seq(EnvType) : p.env = Extra \o t /\ Lists(t, K, EnvItem)

\* The lists of p, other than the sources of the environment, are those of the entries.
MadeOf(p, volumes, mounts, initMounts, args, envs) ==
  /\ WithSettings(p)
  /\ Lists(p.volumes, volumes, VolumeItem)
  /\ Lists(p.mounts, mounts, FileItem)
  /\ Lists(p.initMounts, initMounts, FileItem)
  /\ Lists(p.args, args, FileItem)
  /\ EnvIs(p, envs)

\* The DB secret is the last source.
Finished(p) ==
  /\ MadeOf(p, VolumeEntries, MountEntries, InitMountEntries, ArgEntries, EnvEntries)
  /\ IF HasDbSecret
     THEN \E t \in Seq(SourceType) :
            p.envFrom = Append(t, DbSecretRef) /\ Lists(t, EnvFromEntries, EnvFromItem)
     ELSE Lists(p.envFrom, EnvFromEntries, EnvFromItem)

(***************************************************************************)
(* The pod in the making: of the contributions dealt with, all entries; of *)
(* the current one those of which the loops have made something.           *)
(***************************************************************************)
Done == Len(C) - Len(todo)

Upto(K)    == {k \in K : k[1] <= Done}
At(K)      == {k \in K : k[1] = Done + 1}
With(K, P) == Upto(K) \cup {k \in At(K) : k[2] \notin P}

Position ==
  /\ Len(todo) <= Len(C)
  /\ \A n \in DOMAIN todo : todo[n] = C[Done + n]

Contributing ==
  MadeOf(pod, Upto(VolumeEntries), Upto(MountEntries), Upto(InitMountEntries),
         Upto(ArgEntries), Upto(EnvEntries))

Mounting ==
  /\ todo # << >> /\ OfVolume(Head(todo))
  /\ unmounted \subseteq Selected(Head(todo)) /\ unpassed \subseteq Passed(Head(todo))
  /\ MadeOf(pod, Upto(VolumeEntries) \cup At(VolumeEntries), With(MountEntries, unmounted),
            With(InitMountEntries, unmounted), With(ArgEntries, unpassed), Upto(EnvEntries))

FormInv ==
  /\ pc = "override" => pod = NewPod(in)
  /\ pc = "settings" => pod = OverriddenPod
  /\ pc = "contribute" => Contributing
  /\ pc = "mount" => Mounting
  /\ pc \in {"contribute", "mount"} =>
       Position /\ Lists(pod.envFrom, Upto(EnvFromEntries), EnvFromItem)
  /\ pc \in {"plugins", "done"} => Finished(pod)
  /\ pass = 2 => Finished(first)

(***************************************************************************)
(* Positions and entries.                                                  *)
(***************************************************************************)
LEMMA SameForm ==
  ASSUME UNCHANGED in
  PROVE  /\ C' = C /\ Entries' = Entries
         /\ VolumeEntries' = VolumeEntries /\ MountEntries' = MountEntries
         /\ InitMountEntries' = InitMountEntries /\ ArgEntries' = ArgEntries
         /\ EnvEntries' = EnvEntries /\ EnvFromEntries' = EnvFromEntries
         /\ VolumeItem' = VolumeItem /\ FileItem' = FileItem
         /\ EnvItem' = EnvItem /\ EnvFromItem' = EnvFromItem
         /\ HasDbSecret' = HasDbSecret /\ Extra' = Extra
         /\ \A p : WithSettings(p)' <=> WithSettings(p)
         /\ \A c : OfVolume(c)' <=> OfVolume(c)
<1>1. C' = C /\ Entries' = Entries
  BY DEF C, Entries
<1>2. /\ \A c : OfVolume(c)' <=> OfVolume(c)
      /\ \A c : OfPlugins(c)' <=> OfPlugins(c)
  BY DEF OfVolume, OfPlugins, Ignored, HasPluginsContainer
<1>3. /\ VolumeEntries' = VolumeEntries /\ MountEntries' = MountEntries
      /\ InitMountEntries' = InitMountEntries /\ ArgEntries' = ArgEntries
      /\ EnvEntries' = EnvEntries /\ EnvFromEntries' = EnvFromEntries
  BY <1>1, <1>2 DEF VolumeEntries, MountEntries, InitMountEntries, ArgEntries,
                    EnvEntries, EnvFromEntries
<1>4. /\ VolumeItem' = VolumeItem /\ FileItem' = FileItem
      /\ EnvItem' = EnvItem /\ EnvFromItem' = EnvFromItem
  BY <1>1 DEF VolumeItem, FileItem, EnvItem, EnvFromItem
<1>5. HasDbSecret' = HasDbSecret /\ Extra' = Extra
  BY DEF HasDbSecret, Extra
<1>6. \A p : WithSettings(p)' <=> WithSettings(p)
  <2>1. OverriddenPod' = OverriddenPod
    BY DEF OverriddenPod
  <2> QED BY <2>1 DEF WithSettings
<1> QED BY <1>1, <1>2, <1>3, <1>4, <1>5, <1>6

LEMMA SameMade ==
  ASSUME UNCHANGED in
  PROVE  /\ \A p : Finished(p)' <=> Finished(p)
         /\ \A p, v, m, i, a, e : MadeOf(p, v, m, i, a, e)' <=> MadeOf(p, v, m, i, a, e)
<1>1. \A p, v, m, i, a, e : MadeOf(p, v, m, i, a, e)' <=> MadeOf(p, v, m, i, a, e)
  <2>1. \A p, K : EnvIs(p, K)' <=> EnvIs(p, K)
    BY SameForm DEF EnvIs
  <2>2. \A p : WithSettings(p)' <=> WithSettings(p)
    BY SameForm
  <2> QED BY <2>1, <2>2, SameForm DEF MadeOf
<1> QED BY <1>1, SameForm DEF Finished

LEMMA Contributed ==
  ASSUME in \in PodInputType
  PROVE  /\ C \in Seq(Sound) /\ Len(C) \in Nat /\ DOMAIN C = 1..Len(C)
         /\ \A n \in DOMAIN C : C[n] \in Sound /\ C[n] \in ContributionType
<1>1. C \in Seq(Sound)
  BY ContributionsAre DEF C
<1>2. Sound \subseteq ContributionType
  BY DEF Sound
<1>3. DOMAIN C = 1..Len(C) /\ Len(C) \in Nat /\ \A n \in DOMAIN C : C[n] \in Sound
  BY <1>1, SeqItems
<1> QED BY <1>1, <1>2, <1>3

LEMMA Inputs1 == IInv => in \in PodInputType /\ pod \in PodType /\ todo \in Seq(Sound)
BY PodAssumption DEF IInv, Typed, TypeOK

\* The contribution whose turn it is.
LEMMA Turned ==
  ASSUME IInv, Position, todo # << >>
  PROVE  /\ Done \in Nat /\ Done + 1 \in DOMAIN C /\ C[Done + 1] = Head(todo)
         /\ Head(todo) \in Sound /\ Head(todo) \in ContributionType
<1>1. /\ Len(todo) \in Nat /\ Len(todo) > 0 /\ DOMAIN todo = 1..Len(todo)
      /\ Head(todo) = todo[1] /\ Len(C) \in Nat /\ DOMAIN C = 1..Len(C)
  BY Inputs1, Contributed, SeqItems, EmptySeq
<1>2. Done \in Nat /\ Done + 1 \in DOMAIN C
  BY <1>1 DEF Done, Position
<1>3. C[Done + 1] = Head(todo)
  BY <1>1 DEF Position
<1> QED BY <1>2, <1>3, Inputs1, TurnFacts

LEMMA NextPosition ==
  ASSUME IInv, Position, todo # << >>, todo' = Tail(todo), UNCHANGED in
  PROVE  Position' /\ Done' = Done + 1
<1>1. /\ Len(todo) \in Nat /\ Len(todo) > 0 /\ DOMAIN todo = 1..Len(todo)
      /\ Len(todo') = Len(todo) - 1 /\ DOMAIN todo' = 1..(Len(todo) - 1)
      /\ \A n \in 1..(Len(todo) - 1) : todo'[n] = todo[n + 1] /\ n + 1 \in 1..Len(todo)
      /\ Len(C) \in Nat
  BY Inputs1, Contributed, SeqItems, EmptySeq
<1>2. C' = C
  BY SameForm
<1>3. Done' = Done + 1 /\ Done \in Int
  BY <1>1, <1>2 DEF Done
<1>4. ASSUME NEW n \in DOMAIN todo' PROVE todo'[n] = C[(Done + 1) + n]
  <2>1. todo'[n] = todo[n + 1] /\ n + 1 \in DOMAIN todo
    BY <1>1
  <2>2. todo[n + 1] = C[Done + (n + 1)]
    BY <2>1 DEF Position
  <2>3. Done + (n + 1) = (Done + 1) + n
    BY <1>1, <1>3
  <2> QED BY <2>1, <2>2, <2>3
<1> QED BY <1>1, <1>2, <1>3, <1>4 DEF Position

LEMMA SamePosition ==
  ASSUME UNCHANGED <<in, todo>> PROVE (Position' <=> Position) /\ Done' = Done
<1>1. C' = C
  BY SameForm
<1> QED BY <1>1 DEF Position, Done

\* The entries of a contribution.
LEMMA AtIs ==
  ASSUME IInv, Position, todo # << >>
  PROVE  LET c == Head(todo)
             n == Done + 1
         IN  /\ At(VolumeEntries) = IF OfVolume(c) THEN {<<n, "">>} ELSE {}
             /\ At(MountEntries) = IF OfBackend(c) THEN {n} \X MountedFiles(c) ELSE {}
             /\ At(InitMountEntries) = IF OfPlugins(c) THEN {n} \X MountedFiles(c) ELSE {}
             /\ At(ArgEntries) = {n} \X Passed(c)
             /\ At(EnvEntries) = IF c.op = "env" /\ c.key # "" THEN {<<n, "">>} ELSE {}
             /\ At(EnvFromEntries) = IF c.op = "env" /\ c.key = "" THEN {<<n, "">>} ELSE {}
<1> DEFINE c == Head(todo)
           n == Done + 1
           Things == Keys \cup Names \cup Range(DefaultName) \cup {""}
<1>1. n \in DOMAIN C /\ C[n] = c /\ c \in ContributionType
  BY Turned
<1>2. MountedFiles(c) \subseteq Things /\ Passed(c) \subseteq Things /\ "" \in Things
  BY <1>1 DEF MountedFiles, Selected, Passed, ContributionType
<1> HIDE DEF c, n, Things
<1>3. Entries = (DOMAIN C) \X Things
  BY DEF Entries, Things
<1>4. \A K : At(K) = {k \in K : k[1] = n}
  BY DEF At, n
<1>5. \A x \in Things : <<n, x>> \in Entries /\ <<n, x>>[1] = n /\ <<n, x>>[2] = x
  BY <1>1, <1>3
<1>6. \A k \in Entries : k[1] = n => k = <<n, k[2]>>
  BY <1>3
<1>7. At(VolumeEntries) = IF OfVolume(c) THEN {<<n, "">>} ELSE {}
  <2>1. \A k \in At(VolumeEntries) : k = <<n, "">> /\ OfVolume(c)
    BY <1>1, <1>4, <1>6 DEF VolumeEntries
  <2>2. OfVolume(c) => <<n, "">> \in At(VolumeEntries)
    BY <1>1, <1>2, <1>4, <1>5 DEF VolumeEntries
  <2> QED BY <2>1, <2>2
<1>8. At(MountEntries) = IF OfBackend(c) THEN {n} \X MountedFiles(c) ELSE {}
  <2>1. \A k \in At(MountEntries) : k = <<n, k[2]>> /\ OfBackend(c) /\ k[2] \in MountedFiles(c)
    BY <1>1, <1>4, <1>6 DEF MountEntries
  <2>2. \A x \in MountedFiles(c) : OfBackend(c) => <<n, x>> \in At(MountEntries)
    BY <1>1, <1>2, <1>4, <1>5 DEF MountEntries
  <2> QED BY <2>1, <2>2
<1>9. At(InitMountEntries) = IF OfPlugins(c) THEN {n} \X MountedFiles(c) ELSE {}
  <2>1. \A k \in At(InitMountEntries) : k = <<n, k[2]>> /\ OfPlugins(c) /\ k[2] \in MountedFiles(c)
    BY <1>1, <1>4, <1>6 DEF InitMountEntries
  <2>2. \A x \in MountedFiles(c) : OfPlugins(c) => <<n, x>> \in At(InitMountEntries)
    BY <1>1, <1>2, <1>4, <1>5 DEF InitMountEntries
  <2> QED BY <2>1, <2>2
<1>10. At(ArgEntries) = {n} \X Passed(c)
  <2>1. \A k \in At(ArgEntries) : k = <<n, k[2]>> /\ k[2] \in Passed(c)
    BY <1>1, <1>4, <1>6 DEF ArgEntries
  <2>2. \A x \in Passed(c) : <<n, x>> \in At(ArgEntries)
    BY <1>1, <1>2, <1>4, <1>5 DEF ArgEntries
  <2> QED BY <2>1, <2>2
<1>11. At(EnvEntries) = IF c.op = "env" /\ c.key # "" THEN {<<n, "">>} ELSE {}
  <2>1. \A k \in At(EnvEntries) : k = <<n, "">> /\ c.op = "env" /\ c.key # ""
    BY <1>1, <1>4, <1>6 DEF EnvEntries
  <2>2. c.op = "env" /\ c.key # "" => <<n, "">> \in At(EnvEntries)
    BY <1>1, <1>2, <1>4, <1>5 DEF EnvEntries
  <2> QED BY <2>1, <2>2
<1>12. At(EnvFromEntries) = IF c.op = "env" /\ c.key = "" THEN {<<n, "">>} ELSE {}
  <2>1. \A k \in At(EnvFromEntries) : k = <<n, "">> /\ c.op = "env" /\ c.key = ""
    BY <1>1, <1>4, <1>6 DEF EnvFromEntries
  <2>2. c.op = "env" /\ c.key = "" => <<n, "">> \in At(EnvFromEntries)
    BY <1>1, <1>2, <1>4, <1>5 DEF EnvFromEntries
  <2> QED BY <2>1, <2>2
<1> QED BY <1>7, <1>8, <1>9, <1>10, <1>11, <1>12 DEF c, n

\* A list with one more entry of the current contribution.
LEMMA OneMore ==
  ASSUME IInv, Position, todo # << >>,
         NEW S, NEW s \in Seq(S), NEW K, NEW item, Lists(s, K, item), NEW x, NEW L,
         K \subseteq Entries, \A k \in K : k[1] <= Done + 1,
         <<Done + 1, x>> \in Entries, <<Done + 1, x>> \notin K, item[<<Done + 1, x>>] \in S,
         L = K \cup {<<Done + 1, x>>}
  PROVE  Lists(Append(s, item[<<Done + 1, x>>]), L, item)
<1> DEFINE k == <<Done + 1, x>>
<1>1. Done \in Nat /\ k[1] = Done + 1
  BY Turned
<1>2. DOMAIN C \subseteq Nat
  BY Inputs1, Contributed
<1>3. \A y \in Entries : y[1] \in Nat
  BY <1>2 DEF Entries
<1>4. Numbered(K \cup {k}) /\ \A y \in K : y[1] <= k[1]
  BY <1>1, <1>3 DEF Numbered
<1> HIDE DEF k
<1> QED BY <1>4, ListsAppend DEF k

(***************************************************************************)
(* The steps.                                                              *)
(***************************************************************************)
LEMMA ToContributing ==
  ASSUME UNCHANGED in,
         MadeOf(pod', Upto(VolumeEntries)', Upto(MountEntries)', Upto(InitMountEntries)',
                Upto(ArgEntries)', Upto(EnvEntries)')
  PROVE  Contributing'
BY SameMade, SameForm DEF Contributing, MadeOf, EnvIs

LEMMA ToMounting ==
  ASSUME UNCHANGED in, todo' # << >>, OfVolume(Head(todo')),
         unmounted' \subseteq Selected(Head(todo')), unpassed' \subseteq Passed(Head(todo')),
         MadeOf(pod', (Upto(VolumeEntries) \cup At(VolumeEntries))',
                With(MountEntries, unmounted)', With(InitMountEntries, unmounted)',
                With(ArgEntries, unpassed)', Upto(EnvEntries)')
  PROVE  Mounting'
<1>1. OfVolume(Head(todo))'
  BY SameForm
<1> QED BY <1>1, SameForm DEF Mounting, MadeOf, EnvIs, Selected, Passed

\* The entries of a contribution come to those of the ones before it.
LEMMA UptoNext ==
  ASSUME IInv, Position, todo # << >>, todo' = Tail(todo), UNCHANGED in
  PROVE  /\ Upto(VolumeEntries)' = Upto(VolumeEntries) \cup At(VolumeEntries)
         /\ Upto(MountEntries)' = Upto(MountEntries) \cup At(MountEntries)
         /\ Upto(InitMountEntries)' = Upto(InitMountEntries) \cup At(InitMountEntries)
         /\ Upto(ArgEntries)' = Upto(ArgEntries) \cup At(ArgEntries)
         /\ Upto(EnvEntries)' = Upto(EnvEntries) \cup At(EnvEntries)
         /\ Upto(EnvFromEntries)' = Upto(EnvFromEntries) \cup At(EnvFromEntries)
<1>1. Done' = Done + 1 /\ Done \in Nat /\ DOMAIN C \subseteq Nat
  BY NextPosition, Turned, Inputs1, Contributed
<1>2. \A k \in Entries : k[1] \in Nat
  BY <1>1 DEF Entries
<1>3. \A k \in Entries : k[1] <= Done + 1 <=> k[1] <= Done \/ k[1] = Done + 1
  BY <1>1, <1>2
<1>4. ASSUME NEW K, K \subseteq Entries
      PROVE  {k \in K : k[1] <= Done + 1} = Upto(K) \cup At(K)
  BY <1>3, <1>4 DEF Upto, At
<1>5. /\ VolumeEntries \subseteq Entries /\ MountEntries \subseteq Entries
      /\ InitMountEntries \subseteq Entries /\ ArgEntries \subseteq Entries
      /\ EnvEntries \subseteq Entries /\ EnvFromEntries \subseteq Entries
  BY DEF VolumeEntries, MountEntries, InitMountEntries, ArgEntries, EnvEntries, EnvFromEntries
<1>6. /\ Upto(VolumeEntries)' = {k \in VolumeEntries : k[1] <= Done + 1}
      /\ Upto(MountEntries)' = {k \in MountEntries : k[1] <= Done + 1}
      /\ Upto(InitMountEntries)' = {k \in InitMountEntries : k[1] <= Done + 1}
      /\ Upto(ArgEntries)' = {k \in ArgEntries : k[1] <= Done + 1}
      /\ Upto(EnvEntries)' = {k \in EnvEntries : k[1] <= Done + 1}
      /\ Upto(EnvFromEntries)' = {k \in EnvFromEntries : k[1] <= Done + 1}
  BY <1>1, SameForm DEF Upto
<1> QED BY <1>4, <1>5, <1>6

LEMMA UptoSame ==
  ASSUME UNCHANGED <<in, todo>>
  PROVE  /\ Upto(VolumeEntries)' = Upto(VolumeEntries) /\ At(VolumeEntries)' = At(VolumeEntries)
         /\ Upto(MountEntries)' = Upto(MountEntries) /\ At(MountEntries)' = At(MountEntries)
         /\ Upto(InitMountEntries)' = Upto(InitMountEntries)
         /\ At(InitMountEntries)' = At(InitMountEntries)
         /\ Upto(ArgEntries)' = Upto(ArgEntries) /\ At(ArgEntries)' = At(ArgEntries)
         /\ Upto(EnvEntries)' = Upto(EnvEntries)
         /\ Upto(EnvFromEntries)' = Upto(EnvFromEntries)
BY SameForm, SamePosition DEF Upto, At

\* A pass that ends, or has ended.
LEMMA FormEnds ==
  ASSUME FormInv, Ends(pc'), pc' \in {"error", "panic"} PROVE FormInv'
<1>1. UNCHANGED <<in, pass, first>>
  BY DEF Ends
<1> QED BY <1>1, SameMade DEF FormInv

LEMMA FormIgnore ==
  ASSUME IInv, FormInv, NEW c \in Range(todo), IgnorePlugins(c) PROVE FormInv'
<1>1. /\ pc = "contribute" /\ pc' = "contribute" /\ todo # << >> /\ c = Head(todo)
      /\ Ignored(c) /\ todo' = Tail(todo) /\ UNCHANGED <<in, pass, first, pod>>
  BY DEF IgnorePlugins, Turn
<1>2. /\ Position /\ Contributing /\ Lists(pod.envFrom, Upto(EnvFromEntries), EnvFromItem)
      /\ pass = 2 => Finished(first)
  BY <1>1 DEF FormInv
<1>3. c.op = "plugins" /\ ~OfVolume(c) /\ ~OfBackend(c) /\ ~OfPlugins(c) /\ Passed(c) = {}
  BY <1>1 DEF Ignored, OfVolume, OfBackend, OfPlugins, Passed
<1>4. /\ At(VolumeEntries) = {} /\ At(MountEntries) = {} /\ At(InitMountEntries) = {}
      /\ At(ArgEntries) = {} /\ At(EnvEntries) = {} /\ At(EnvFromEntries) = {}
  BY <1>1, <1>2, <1>3, AtIs
<1>5. /\ Upto(VolumeEntries)' = Upto(VolumeEntries) /\ Upto(MountEntries)' = Upto(MountEntries)
      /\ Upto(InitMountEntries)' = Upto(InitMountEntries) /\ Upto(ArgEntries)' = Upto(ArgEntries)
      /\ Upto(EnvEntries)' = Upto(EnvEntries) /\ Upto(EnvFromEntries)' = Upto(EnvFromEntries)
  BY <1>1, <1>2, <1>4, UptoNext
<1>6. Contributing'
  BY <1>1, <1>2, <1>5, ToContributing DEF Contributing
<1>7. Position' /\ Lists(pod.envFrom, Upto(EnvFromEntries), EnvFromItem)'
  BY <1>1, <1>2, <1>5, NextPosition, SameForm
<1>8. pass' = 2 => Finished(first)'
  BY <1>1, <1>2, SameMade
<1> QED BY <1>1, <1>6, <1>7, <1>8 DEF FormInv

LEMMA FormInit == Init => FormInv
BY DEF Init, StartOfPass, FormInv

LEMMA FormOverride == ASSUME IInv, FormInv, OverrideImage PROVE FormInv'
<1>1. pc = "override" /\ pod = NewPod(in) /\ (pass = 2 => Finished(first))
  BY DEF OverrideImage, FormInv
<1>2. CASE in.envImage /\ NoBackend
  <2>1. Ends("panic")
    BY <1>2 DEF OverrideImage
  <2> QED BY <2>1, FormEnds DEF Ends
<1>3. CASE ~(in.envImage /\ NoBackend)
  <2>1. /\ pc' = "settings" /\ UNCHANGED <<in, pass, first>>
        /\ pod' = IF ~in.envImage THEN pod
                  ELSE [pod EXCEPT !.images[1] = "env",
                                   !.initImages = [n \in DOMAIN in.init |-> "env"]]
    BY <1>3 DEF OverrideImage
  <2>2. pod' = OverriddenPod
    BY <1>1, <2>1 DEF OverriddenPod
  <2>3. OverriddenPod' = OverriddenPod
    BY <2>1 DEF OverriddenPod
  <2> QED BY <1>1, <2>1, <2>2, <2>3, SameMade DEF FormInv
<1> QED BY <1>2, <1>3

LEMMA EmptyLists ==
  /\ OverriddenPod.volumes = << >> /\ OverriddenPod.mounts = << >>
  /\ OverriddenPod.initMounts = << >> /\ OverriddenPod.args = << >>
  /\ OverriddenPod.env = << >> /\ OverriddenPod.envFrom = << >>
  /\ OverriddenPod.replicas = "own" /\ OverriddenPod.pullSecrets = << >>
BY DEF OverriddenPod, NewPod

LEMMA ExtraType ==
  ASSUME in \in PodInputType
  PROVE  /\ Extra \in Seq(EnvType) /\ << >> \o Extra = Extra /\ Extra \o << >> = Extra
         /\ << >> \o in.spec.pullSecrets = in.spec.pullSecrets
<1>1. in.spec.envs \in Seq(Names) /\ in.spec.pullSecrets \in Seq(Names)
  BY DEF PodInputType, PodSpecType
<1>2. /\ DOMAIN in.spec.envs = 1..Len(in.spec.envs) /\ Len(in.spec.envs) \in Nat
      /\ \A n \in DOMAIN in.spec.envs : in.spec.envs[n] \in Names
  BY <1>1, SeqItems
<1>3. Extra \in [1..Len(in.spec.envs) -> EnvType]
  BY <1>2 DEF Extra, EnvType
<1>4. Extra \in Seq(EnvType)
  BY <1>2, <1>3, SeqOf
<1>5. Extra \o << >> = Extra /\ << >> \o Extra = Extra
  BY <1>4, ConcatEmptySeq
<1>6. << >> \o in.spec.pullSecrets = in.spec.pullSecrets
  BY <1>1, ConcatEmptySeq
<1> QED BY <1>4, <1>5, <1>6

\* The first contribution is that of position 1.
LEMMA NothingDone ==
  ASSUME in \in PodInputType, UNCHANGED in, todo' = C
  PROVE  /\ Position' /\ Upto(VolumeEntries)' = {} /\ Upto(MountEntries)' = {}
         /\ Upto(InitMountEntries)' = {} /\ Upto(ArgEntries)' = {}
         /\ Upto(EnvEntries)' = {} /\ Upto(EnvFromEntries)' = {}
<1>1. C' = C /\ Len(C) \in Nat /\ DOMAIN C = 1..Len(C)
  BY SameForm, Contributed
<1>2. Done' = 0
  BY <1>1 DEF Done
<1>3. \A k \in Entries : ~(k[1] <= 0)
  <2>1. \A k \in Entries : k[1] \in DOMAIN C
    BY DEF Entries
  <2>2. \A n \in 1..Len(C) : ~(n <= 0)
    BY <1>1
  <2> QED BY <1>1, <2>1, <2>2
<1>4. /\ VolumeEntries \subseteq Entries /\ MountEntries \subseteq Entries
      /\ InitMountEntries \subseteq Entries /\ ArgEntries \subseteq Entries
      /\ EnvEntries \subseteq Entries /\ EnvFromEntries \subseteq Entries
  BY DEF VolumeEntries, MountEntries, InitMountEntries, ArgEntries, EnvEntries, EnvFromEntries
<1>5. Position'
  <2>1. \A n \in DOMAIN C : 0 + n = n
    BY <1>1
  <2> QED BY <1>1, <1>2, <2>1 DEF Position
<1> QED BY <1>2, <1>3, <1>4, <1>5, SameForm DEF Upto

LEMMA FormSettings == ASSUME IInv, FormInv, ApplySettings PROVE FormInv'
<1>1. pc = "settings" /\ pod = OverriddenPod /\ (pass = 2 => Finished(first))
  BY DEF ApplySettings, FormInv
<1>2. CASE NoBackend /\ in.spec.envs # << >>
  <2>1. Ends("panic")
    BY <1>2 DEF ApplySettings
  <2> QED BY <2>1, FormEnds DEF Ends
<1>3. CASE ~(NoBackend /\ in.spec.envs # << >>)
  <2>1. /\ pc' = "contribute" /\ UNCHANGED <<in, pass, first>>
        /\ todo' = C
        /\ pod' = [pod EXCEPT
                     !.replicas    = IF in.spec.replicas = "nil" THEN pod.replicas ELSE "spec",
                     !.pullSecrets = pod.pullSecrets \o in.spec.pullSecrets,
                     !.images      = AllImages(pod.images, in.spec.image),
                     !.initImages  = AllImages(pod.initImages, in.spec.image),
                     !.env         = pod.env \o Extra]
    BY <1>3 DEF ApplySettings, C, Extra
  <2>2. pod \in PodType /\ in \in PodInputType
    BY Inputs1
  <2>3. /\ pod'.replicas = (IF in.spec.replicas = "nil" THEN pod.replicas ELSE "spec")
        /\ pod'.pullSecrets = pod.pullSecrets \o in.spec.pullSecrets
        /\ pod'.images = AllImages(pod.images, in.spec.image)
        /\ pod'.initImages = AllImages(pod.initImages, in.spec.image)
        /\ pod'.env = pod.env \o Extra
        /\ pod'.volumes = pod.volumes /\ pod'.mounts = pod.mounts
        /\ pod'.initMounts = pod.initMounts /\ pod'.args = pod.args /\ pod'.envFrom = pod.envFrom
    BY <2>1, <2>2 DEF PodType
  <2>4. WithSettings(pod')
    BY <1>1, <2>2, <2>3, EmptyLists, ExtraType DEF WithSettings
  <2>5. EnvIs(pod', {})
    <3>1. << >> \in Seq(EnvType) /\ Lists(<< >>, {}, EnvItem)
      BY ShortSeq, ListsNothing
    <3>2. pod'.env = Extra \o << >>
      BY <1>1, <2>2, <2>3, EmptyLists, ExtraType
    <3> QED BY <3>1, <3>2 DEF EnvIs
  <2>6. MadeOf(pod', {}, {}, {}, {}, {})
    BY <1>1, <2>3, <2>4, <2>5, EmptyLists, ListsNothing DEF MadeOf
  <2>7. Contributing'
    BY <2>1, <2>2, <2>6, NothingDone, ToContributing
  <2>8. Position' /\ Lists(pod.envFrom, Upto(EnvFromEntries), EnvFromItem)'
    BY <1>1, <2>1, <2>2, <2>3, EmptyLists, ListsNothing, NothingDone
  <2>9. pass' = 2 => Finished(first)'
    BY <1>1, <2>1, SameMade
  <2> QED BY <2>1, <2>7, <2>8, <2>9 DEF FormInv
<1> QED BY <1>2, <1>3

LEMMA FormAgain == ASSUME FormInv, Again PROVE FormInv'
<1>1. /\ pc = "done" /\ pass' = 2 /\ first' = pod /\ pod' = NewPod(in) /\ pc' = "override"
      /\ UNCHANGED in
  BY DEF Again
<1>2. Finished(pod)
  BY <1>1 DEF FormInv
<1>3. Finished(first)'
  BY <1>1, <1>2, SameMade
<1> QED BY <1>1, <1>3 DEF FormInv

LEMMA FormStutter == ASSUME FormInv, UNCHANGED vars PROVE FormInv'
<1>1. UNCHANGED <<in, pass, first, pc, pod, todo, unmounted, unpassed>>
  BY DEF vars
<1>2. Position' <=> Position
  BY <1>1, SamePosition
<1>3. Contributing => Contributing'
  BY <1>1, UptoSame, ToContributing DEF Contributing
<1>4. Mounting => Mounting'
  BY <1>1, UptoSame, ToMounting DEF Mounting, With
<1>5. Lists(pod.envFrom, Upto(EnvFromEntries), EnvFromItem)'
        <=> Lists(pod.envFrom, Upto(EnvFromEntries), EnvFromItem)
  BY <1>1, SameForm, UptoSame
<1>6. OverriddenPod' = OverriddenPod
  BY <1>1 DEF OverriddenPod
<1> QED BY <1>1, <1>2, <1>3, <1>4, <1>5, <1>6, SameMade DEF FormInv

\* What is made of the current contribution.
LEMMA Items ==
  ASSUME IInv, Position, todo # << >>
  PROVE  LET c == Head(todo)
         IN  /\ <<Done + 1, "">> \in Entries
             /\ \A x \in MountedFiles(c) \cup Passed(c) :
                  <<Done + 1, x>> \in Entries /\ FileItem[<<Done + 1, x>>] = MountOf(c, x)
             /\ VolumeItem[<<Done + 1, "">>] = [name |-> c.name, kind |-> c.kind]
             /\ EnvItem[<<Done + 1, "">>] = [kind |-> c.kind, name |-> c.name, var |-> c.key]
             /\ EnvFromItem[<<Done + 1, "">>] = [kind |-> c.kind, name |-> c.name]
<1> DEFINE c == Head(todo)
           Things == Keys \cup Names \cup Range(DefaultName) \cup {""}
<1>1. Done + 1 \in DOMAIN C /\ C[Done + 1] = c /\ c \in ContributionType
  BY Turned
<1>2. MountedFiles(c) \subseteq Things /\ Passed(c) \subseteq Things /\ "" \in Things
  BY <1>1 DEF MountedFiles, Selected, Passed, ContributionType
<1> HIDE DEF c
<1>3. \A x \in Things : <<Done + 1, x>> \in Entries
  BY <1>1 DEF Entries
<1> HIDE DEF Things
<1>4. \A x \in Things : FileItem[<<Done + 1, x>>] = MountOf(c, x)
  BY <1>1, <1>3 DEF FileItem
<1>5. /\ VolumeItem[<<Done + 1, "">>] = [name |-> c.name, kind |-> c.kind]
      /\ EnvItem[<<Done + 1, "">>] = [kind |-> c.kind, name |-> c.name, var |-> c.key]
      /\ EnvFromItem[<<Done + 1, "">>] = [kind |-> c.kind, name |-> c.name]
  BY <1>1, <1>2, <1>3 DEF VolumeItem, EnvItem, EnvFromItem
<1> QED BY <1>2, <1>3, <1>4, <1>5 DEF c

LEMMA Before ==
  ASSUME IInv, Position, todo # << >>, NEW K, K \subseteq Entries
  PROVE  /\ Upto(K) \subseteq Entries /\ At(K) \subseteq Entries
         /\ \A k \in Upto(K) \cup At(K) : k[1] <= Done + 1
         /\ \A x : <<Done + 1, x>> \notin Upto(K)
<1>1. Done \in Nat /\ DOMAIN C \subseteq Nat
  BY Turned, Inputs1, Contributed
<1>2. \A k \in Entries : k[1] \in Nat
  BY <1>1 DEF Entries
<1>3. \A k \in Upto(K) : k[1] <= Done
  BY DEF Upto
<1>4. \A k \in At(K) : k[1] = Done + 1
  BY DEF At
<1>5. \A x : <<Done + 1, x>> \notin Upto(K)
  <2> SUFFICES ASSUME NEW x, <<Done + 1, x>> \in Upto(K) PROVE FALSE
    OBVIOUS
  <2>1. Done + 1 <= Done
    BY <1>3
  <2> QED BY <1>1, <2>1
<1>6. Upto(K) \subseteq Entries /\ At(K) \subseteq Entries
  BY DEF Upto, At
<1> QED BY <1>1, <1>2, <1>3, <1>4, <1>5, <1>6

LEMMA EntriesOf ==
  /\ VolumeEntries \subseteq Entries /\ MountEntries \subseteq Entries
  /\ InitMountEntries \subseteq Entries /\ ArgEntries \subseteq Entries
  /\ EnvEntries \subseteq Entries /\ EnvFromEntries \subseteq Entries
BY DEF VolumeEntries, MountEntries, InitMountEntries, ArgEntries, EnvEntries, EnvFromEntries

LEMMA FormEnv ==
  ASSUME IInv, FormInv, NEW c \in Range(todo), AddEnvVarsFrom(c) PROVE FormInv'
<1>1. /\ pc = "contribute" /\ pc' = "contribute" /\ todo # << >> /\ c = Head(todo)
      /\ c.op = "env" /\ todo' = Tail(todo) /\ UNCHANGED <<in, pass, first>>
      /\ pod' = IF c.key = ""
                THEN [pod EXCEPT !.envFrom = Append(pod.envFrom, [kind |-> c.kind, name |-> c.name])]
                ELSE [pod EXCEPT !.env = Append(pod.env, [kind |-> c.kind, name |-> c.name, var |-> c.key])]
  BY DEF AddEnvVarsFrom, Turn
<1>2. /\ Position /\ Contributing /\ Lists(pod.envFrom, Upto(EnvFromEntries), EnvFromItem)
      /\ pass = 2 => Finished(first)
  BY <1>1 DEF FormInv
<1>3. ~OfVolume(c) /\ ~OfBackend(c) /\ ~OfPlugins(c) /\ Passed(c) = {}
  BY <1>1 DEF OfVolume, OfBackend, OfPlugins, Passed
<1>4. /\ Upto(VolumeEntries)' = Upto(VolumeEntries) /\ Upto(MountEntries)' = Upto(MountEntries)
      /\ Upto(InitMountEntries)' = Upto(InitMountEntries) /\ Upto(ArgEntries)' = Upto(ArgEntries)
  BY <1>1, <1>2, <1>3, AtIs, UptoNext
<1>5. /\ Upto(EnvEntries)' =
           Upto(EnvEntries) \cup (IF c.key # "" THEN {<<Done + 1, "">>} ELSE {})
      /\ Upto(EnvFromEntries)' =
           Upto(EnvFromEntries) \cup (IF c.key = "" THEN {<<Done + 1, "">>} ELSE {})
  BY <1>1, <1>2, AtIs, UptoNext
<1>6. c \in Sound /\ c \in ContributionType /\ pod \in PodType
  BY <1>1, TurnFacts, Inputs1
<1>7. /\ pod'.replicas = pod.replicas /\ pod'.pullSecrets = pod.pullSecrets
      /\ pod'.images = pod.images /\ pod'.initImages = pod.initImages
      /\ pod'.volumes = pod.volumes /\ pod'.mounts = pod.mounts
      /\ pod'.initMounts = pod.initMounts /\ pod'.args = pod.args
      /\ pod'.env = IF c.key = "" THEN pod.env
                    ELSE Append(pod.env, [kind |-> c.kind, name |-> c.name, var |-> c.key])
      /\ pod'.envFrom = IF c.key = "" THEN Append(pod.envFrom, [kind |-> c.kind, name |-> c.name])
                        ELSE pod.envFrom
  BY <1>1, <1>6 DEF PodType
<1>8. WithSettings(pod')
  BY <1>2, <1>7 DEF WithSettings, Contributing, MadeOf
<1>9. EnvIs(pod', Upto(EnvEntries)')
  <2>1. PICK t \in Seq(EnvType) : pod.env = Extra \o t /\ Lists(t, Upto(EnvEntries), EnvItem)
    BY <1>2 DEF Contributing, MadeOf, EnvIs
  <2>2. CASE c.key = ""
    BY <1>5, <1>7, <2>1, <2>2 DEF EnvIs
  <2>3. CASE c.key # ""
    <3> DEFINE e == EnvItem[<<Done + 1, "">>]
    <3>1. e = [kind |-> c.kind, name |-> c.name, var |-> c.key]
      BY <1>1, <1>2, Items
    <3>2. e \in EnvType
      <4>1. /\ c.kind \in {"ConfigMap", "Secret"} /\ c.name \in Names \cup Range(DefaultName)
            /\ c.key \in Keys
        BY <1>1, <1>6, <2>3 DEF Sound, ContributionType
      <4> HIDE DEF e
      <4> QED BY <3>1, <4>1 DEF EnvType
    <3>3. Upto(EnvEntries)' = Upto(EnvEntries) \cup {<<Done + 1, "">>}
      BY <1>5, <2>3
    <3>4. /\ <<Done + 1, "">> \in Entries /\ <<Done + 1, "">> \notin Upto(EnvEntries)
          /\ Upto(EnvEntries) \subseteq Entries /\ \A k \in Upto(EnvEntries) : k[1] <= Done + 1
      BY <1>1, <1>2, Before, Items, EntriesOf
    <3>5. Lists(Append(t, e), Upto(EnvEntries)', EnvItem)
      BY <1>1, <1>2, <2>1, <3>2, <3>3, <3>4, OneMore
    <3> HIDE DEF e
    <3>6. pod'.env = Extra \o Append(t, e) /\ Append(t, e) \in Seq(EnvType)
      <4>1. Extra \in Seq(EnvType)
        BY Inputs1, ExtraType
      <4>2. Append(Extra \o t, e) = Extra \o Append(t, e) /\ Append(t, e) \in Seq(EnvType)
        BY <2>1, <3>2, <4>1, ConcatAppend
      <4> QED BY <1>7, <2>1, <2>3, <3>1, <4>2
    <3> QED BY <3>5, <3>6 DEF EnvIs
  <2> QED BY <2>2, <2>3
<1>10. Contributing'
  BY <1>1, <1>2, <1>4, <1>7, <1>8, <1>9, ToContributing DEF Contributing, MadeOf
<1>11. Lists(pod'.envFrom, Upto(EnvFromEntries)', EnvFromItem)
  <2>1. CASE c.key = ""
    <3> DEFINE e == EnvFromItem[<<Done + 1, "">>]
    <3>1. e = [kind |-> c.kind, name |-> c.name]
      BY <1>1, <1>2, Items
    <3>2. e \in SourceType /\ pod.envFrom \in Seq(SourceType)
      <4>1. c.kind \in {"ConfigMap", "Secret"} /\ c.name \in Names \cup Range(DefaultName)
        BY <1>6 DEF ContributionType
      <4> HIDE DEF e
      <4>2. e \in SourceType
        BY <3>1, <4>1 DEF SourceType
      <4> QED BY <1>6, <4>2, PodFields DEF SourceType
    <3>3. Upto(EnvFromEntries)' = Upto(EnvFromEntries) \cup {<<Done + 1, "">>}
      BY <1>5, <2>1
    <3>4. /\ <<Done + 1, "">> \in Entries /\ <<Done + 1, "">> \notin Upto(EnvFromEntries)
          /\ Upto(EnvFromEntries) \subseteq Entries
          /\ \A k \in Upto(EnvFromEntries) : k[1] <= Done + 1
      BY <1>1, <1>2, Before, Items, EntriesOf
    <3>5. Lists(Append(pod.envFrom, e), Upto(EnvFromEntries)', EnvFromItem)
      BY <1>1, <1>2, <3>2, <3>3, <3>4, OneMore
    <3> QED BY <1>7, <2>1, <3>1, <3>5
  <2>2. CASE c.key # ""
    BY <1>2, <1>5, <1>7, <2>2
  <2> QED BY <2>1, <2>2
<1>12. Position' /\ Lists(pod.envFrom, Upto(EnvFromEntries), EnvFromItem)'
  BY <1>1, <1>2, <1>11, NextPosition, SameForm
<1>13. pass' = 2 => Finished(first)'
  BY <1>1, <1>2, SameMade
<1> QED BY <1>1, <1>10, <1>12, <1>13 DEF FormInv

LEMMA WithLess ==
  ASSUME IInv, Position, todo # << >>, NEW K, K \subseteq Entries, NEW P, NEW x \in P
  PROVE  /\ With(K, P \ {x}) =
              With(K, P) \cup (IF <<Done + 1, x>> \in At(K) THEN {<<Done + 1, x>>} ELSE {})
         /\ <<Done + 1, x>> \notin With(K, P) /\ With(K, P) \subseteq Entries
         /\ \A k \in With(K, P) : k[1] <= Done + 1
<1> DEFINE new == <<Done + 1, x>>
<1>1. /\ Upto(K) \subseteq Entries /\ At(K) \subseteq Entries
      /\ \A k \in Upto(K) \cup At(K) : k[1] <= Done + 1
      /\ new \notin Upto(K)
  BY Before
<1>2. new[2] = x
  OBVIOUS
<1>3. \A k \in At(K) : k[2] = x => k = new
  <2>1. \A k \in Entries : k = <<k[1], k[2]>>
    <3>1. \A A, B : \A k \in A \X B : k = <<k[1], k[2]>>
      OBVIOUS
    <3> QED BY <3>1 DEF Entries
  <2>2. \A k \in At(K) : k[1] = Done + 1
    BY DEF At
  <2> QED BY <1>1, <2>1, <2>2
<1> HIDE DEF new
<1>4. With(K, P \ {x}) = With(K, P) \cup (IF new \in At(K) THEN {new} ELSE {})
  BY <1>2, <1>3 DEF With
<1>5. new \notin With(K, P) /\ With(K, P) \subseteq Entries /\ \A k \in With(K, P) : k[1] <= Done + 1
  BY <1>1, <1>2 DEF With
<1> QED BY <1>4, <1>5 DEF new

LEMMA NoneYet ==
  ASSUME IInv, Position, todo # << >>
  PROVE  /\ With(MountEntries, MountedFiles(Head(todo))) = Upto(MountEntries)
         /\ With(InitMountEntries, MountedFiles(Head(todo))) = Upto(InitMountEntries)
         /\ With(ArgEntries, Passed(Head(todo))) = Upto(ArgEntries)
<1>1. \A n, X : \A k \in {n} \X X : k[2] \in X
  OBVIOUS
<1>2. /\ \A k \in At(MountEntries) : k[2] \in MountedFiles(Head(todo))
      /\ \A k \in At(InitMountEntries) : k[2] \in MountedFiles(Head(todo))
      /\ \A k \in At(ArgEntries) : k[2] \in Passed(Head(todo))
  BY <1>1, AtIs
<1> QED BY <1>2 DEF With

LEMMA WithMountFields ==
  ASSUME NEW p \in PodType, NEW c, NEW mount
  PROVE  LET q == WithMount(p, c, mount)
         IN  /\ q.replicas = p.replicas /\ q.pullSecrets = p.pullSecrets
             /\ q.images = p.images /\ q.initImages = p.initImages
             /\ q.volumes = p.volumes /\ q.args = p.args
             /\ q.env = p.env /\ q.envFrom = p.envFrom
             /\ q.mounts = IF c.op = "plugins" THEN p.mounts ELSE Append(p.mounts, mount)
             /\ q.initMounts = IF c.op = "plugins" THEN Append(p.initMounts, mount) ELSE p.initMounts
<1>1. CASE c.op = "plugins"
  BY <1>1 DEF WithMount, PodType
<1>2. CASE c.op # "plugins"
  BY <1>2 DEF WithMount, PodType
<1> QED BY <1>1, <1>2

\* The mounts of both containers once all files of the current one but P are mounted.
Mounts(p, P) ==
  /\ Lists(p.mounts, With(MountEntries, P), FileItem)
  /\ Lists(p.initMounts, With(InitMountEntries, P), FileItem)

LEMMA OneMoreMount ==
  ASSUME IInv, Position, todo # << >>, OfVolume(Head(todo)),
         NEW p \in PodType, NEW P, NEW x \in P, x \in MountedFiles(Head(todo)),
         MountOf(Head(todo), x) \in MountType, Mounts(p, P)
  PROVE  Mounts(WithMount(p, Head(todo), MountOf(Head(todo), x)), P \ {x})
<1> DEFINE c == Head(todo)
           new == <<Done + 1, x>>
           q == WithMount(p, c, MountOf(c, x))
<1>1. /\ q.mounts = IF c.op = "plugins" THEN p.mounts ELSE Append(p.mounts, MountOf(c, x))
      /\ q.initMounts = IF c.op = "plugins" THEN Append(p.initMounts, MountOf(c, x))
                        ELSE p.initMounts
  BY WithMountFields
<1>2. /\ OfPlugins(c) <=> c.op = "plugins"
      /\ OfBackend(c) <=> c.op # "plugins"
  <2>1. c.op \in {"appConfig", "files", "env", "plugins"}
    BY Turned DEF ContributionType
  <2> QED BY <2>1 DEF OfVolume, OfPlugins, OfBackend
<1>3. /\ new \in At(MountEntries) <=> c.op # "plugins"
      /\ new \in At(InitMountEntries) <=> c.op = "plugins"
  BY <1>2, AtIs
<1>4. new \in Entries /\ FileItem[new] = MountOf(c, x)
  BY Items
<1>5. p.mounts \in Seq(MountType) /\ p.initMounts \in Seq(MountType)
  BY PodFields
<1> HIDE DEF q, c, new
<1>6. /\ With(MountEntries, P \ {x}) =
           With(MountEntries, P) \cup (IF c.op # "plugins" THEN {new} ELSE {})
      /\ With(InitMountEntries, P \ {x}) =
           With(InitMountEntries, P) \cup (IF c.op = "plugins" THEN {new} ELSE {})
  BY <1>3, WithLess, EntriesOf DEF new
<1>7. CASE c.op = "plugins"
  <2>1. /\ new \notin With(InitMountEntries, P) /\ With(InitMountEntries, P) \subseteq Entries
        /\ \A k \in With(InitMountEntries, P) : k[1] <= Done + 1
    BY WithLess, EntriesOf DEF new
  <2>2. With(InitMountEntries, P \ {x}) = With(InitMountEntries, P) \cup {new}
    BY <1>6, <1>7
  <2>3. Lists(p.initMounts, With(InitMountEntries, P), FileItem) /\ FileItem[new] \in MountType
    BY <1>4 DEF Mounts, c
  <2>4. Lists(Append(p.initMounts, FileItem[new]), With(InitMountEntries, P \ {x}), FileItem)
    BY <1>4, <1>5, <2>1, <2>2, <2>3, OneMore DEF new
  <2> QED BY <1>1, <1>4, <1>6, <1>7, <2>4 DEF Mounts, q, c
<1>8. CASE c.op # "plugins"
  <2>1. /\ new \notin With(MountEntries, P) /\ With(MountEntries, P) \subseteq Entries
        /\ \A k \in With(MountEntries, P) : k[1] <= Done + 1
    BY WithLess, EntriesOf DEF new
  <2>2. With(MountEntries, P \ {x}) = With(MountEntries, P) \cup {new}
    BY <1>6, <1>8
  <2>3. Lists(p.mounts, With(MountEntries, P), FileItem) /\ FileItem[new] \in MountType
    BY <1>4 DEF Mounts, c
  <2>4. Lists(Append(p.mounts, FileItem[new]), With(MountEntries, P \ {x}), FileItem)
    BY <1>4, <1>5, <2>1, <2>2, <2>3, OneMore DEF new
  <2> QED BY <1>1, <1>4, <1>6, <1>8, <2>4 DEF Mounts, q, c
<1> QED BY <1>7, <1>8

LEMMA FormVolume ==
  ASSUME IInv, FormInv, NEW c \in Range(todo), AddVolume(c) PROVE FormInv'
<1> DEFINE p == [pod EXCEPT !.volumes = Append(pod.volumes, [name |-> c.name, kind |-> c.kind])]
<1>1. /\ pc = "contribute" /\ pc' = "mount" /\ todo # << >> /\ c = Head(todo)
      /\ ~Fails(c) /\ ~Ignored(c) /\ c.op # "env"
      /\ unmounted' = Selected(c) /\ unpassed' = Passed(c)
      /\ UNCHANGED <<in, pass, first, todo>>
      /\ pod' = IF c.keys = {} THEN WithMount(p, c, DirMount(c)) ELSE p
  BY DEF AddVolume, Turn
<1>2. /\ Position /\ Contributing /\ Lists(pod.envFrom, Upto(EnvFromEntries), EnvFromItem)
      /\ pass = 2 => Finished(first)
  BY <1>1 DEF FormInv
<1>3. OfVolume(c) /\ c \in ContributionType /\ pod \in PodType
  BY <1>1, TurnFacts, Inputs1 DEF OfVolume
<1>4. /\ p \in PodType
      /\ p.replicas = pod.replicas /\ p.pullSecrets = pod.pullSecrets
      /\ p.images = pod.images /\ p.initImages = pod.initImages
      /\ p.volumes = Append(pod.volumes, [name |-> c.name, kind |-> c.kind])
      /\ p.mounts = pod.mounts /\ p.initMounts = pod.initMounts /\ p.args = pod.args
      /\ p.env = pod.env /\ p.envFrom = pod.envFrom
  <2>1. [name |-> c.name, kind |-> c.kind]
          \in [name : Names \cup Range(DefaultName), kind : {"ConfigMap", "Secret"}]
    BY <1>3 DEF ContributionType
  <2>2. Append(pod.volumes, [name |-> c.name, kind |-> c.kind])
          \in Seq([name : Names \cup Range(DefaultName), kind : {"ConfigMap", "Secret"}])
    BY <1>3, <2>1, PodFields, AppendRange
  <2> QED BY <1>3, <2>2 DEF PodType
<1> HIDE DEF p
<1>5. Lists(p.volumes, Upto(VolumeEntries) \cup At(VolumeEntries), VolumeItem)
  <2> DEFINE new == <<Done + 1, "">>
             S == [name : Names \cup Range(DefaultName), kind : {"ConfigMap", "Secret"}]
  <2>1. /\ new \in Entries /\ VolumeItem[new] = [name |-> c.name, kind |-> c.kind]
        /\ At(VolumeEntries) = {new}
    BY <1>1, <1>2, <1>3, Items, AtIs
  <2>2. /\ new \notin Upto(VolumeEntries) /\ Upto(VolumeEntries) \subseteq Entries
        /\ \A k \in Upto(VolumeEntries) : k[1] <= Done + 1
    BY <1>1, <1>2, Before, EntriesOf
  <2>3. VolumeItem[new] \in S /\ pod.volumes \in Seq(S)
    <3>1. c.name \in Names \cup Range(DefaultName) /\ c.kind \in {"ConfigMap", "Secret"}
      BY <1>3 DEF ContributionType
    <3>2. [name |-> c.name, kind |-> c.kind] \in S
      BY <3>1
    <3> QED BY <1>3, <2>1, <3>2, PodFields
  <2>4. Lists(pod.volumes, Upto(VolumeEntries), VolumeItem)
    BY <1>2 DEF Contributing, MadeOf
  <2> HIDE DEF S
  <2>5. Lists(Append(pod.volumes, VolumeItem[new]), Upto(VolumeEntries) \cup At(VolumeEntries), VolumeItem)
    BY <1>1, <1>2, <2>1, <2>2, <2>3, <2>4, OneMore
  <2> QED BY <1>4, <2>1, <2>5
<1>6. Mounts(p, MountedFiles(c))
  BY <1>1, <1>2, <1>4, NoneYet DEF Mounts, Contributing, MadeOf
<1>7. /\ Mounts(pod', Selected(c))
      /\ pod'.replicas = pod.replicas /\ pod'.pullSecrets = pod.pullSecrets
      /\ pod'.images = pod.images /\ pod'.initImages = pod.initImages
      /\ pod'.volumes = p.volumes /\ pod'.args = pod.args
      /\ pod'.env = pod.env /\ pod'.envFrom = pod.envFrom
  <2>1. CASE c.keys = {}
    <3>1. MountedFiles(c) = {c.name} /\ Selected(c) = {c.name} \ {c.name}
      BY <2>1 DEF MountedFiles, Selected
    <3>2. DirMount(c) = MountOf(c, c.name) /\ MountOf(c, c.name) \in MountType
      BY <1>3, MountTypes DEF DirMount, MountOf
    <3>3. Mounts(WithMount(p, c, MountOf(c, c.name)), Selected(c))
      <4>1. Mounts(p, {c.name}) /\ c.name \in {c.name} /\ c.name \in MountedFiles(c)
        BY <1>6, <3>1
      <4>2. Mounts(WithMount(p, c, MountOf(c, c.name)), {c.name} \ {c.name})
        BY <1>1, <1>2, <1>3, <1>4, <3>2, <4>1, OneMoreMount
      <4> QED BY <3>1, <4>2
    <3> QED BY <1>1, <1>4, <2>1, <3>2, <3>3, WithMountFields
  <2>2. CASE c.keys # {}
    <3>1. MountedFiles(c) = Selected(c)
      BY <2>2 DEF MountedFiles
    <3> QED BY <1>1, <1>4, <1>6, <2>2, <3>1
  <2> QED BY <2>1, <2>2
<1>8. MadeOf(pod', Upto(VolumeEntries) \cup At(VolumeEntries), With(MountEntries, unmounted'),
             With(InitMountEntries, unmounted'), With(ArgEntries, unpassed'), Upto(EnvEntries))
  <2>1. With(ArgEntries, unpassed') = Upto(ArgEntries)
    BY <1>1, <1>2, NoneYet
  <2> QED BY <1>1, <1>2, <1>5, <1>7, <2>1 DEF Contributing, MadeOf, Mounts, WithSettings, EnvIs
<1>9. Mounting'
  BY <1>1, <1>3, <1>8, UptoSame, ToMounting DEF With
<1>10. Position' /\ Lists(pod.envFrom, Upto(EnvFromEntries), EnvFromItem)'
  BY <1>1, <1>2, <1>7, SamePosition, SameForm, UptoSame
<1>11. pass' = 2 => Finished(first)'
  BY <1>1, <1>2, SameMade
<1> QED BY <1>1, <1>9, <1>10, <1>11 DEF FormInv

LEMMA FormMount ==
  ASSUME IInv, FormInv, NEW f \in unmounted, MountFile(f) PROVE FormInv'
<1> DEFINE c == Head(todo)
<1>1. /\ pc = "mount" /\ pc' = "mount" /\ unmounted' = unmounted \ {f}
      /\ pod' = WithMount(pod, c, MountOf(c, f))
      /\ UNCHANGED <<in, pass, first, todo, unpassed>>
  BY DEF MountFile
<1>2. /\ Position /\ Mounting /\ Lists(pod.envFrom, Upto(EnvFromEntries), EnvFromItem)
      /\ pass = 2 => Finished(first)
  BY <1>1 DEF FormInv
<1>3. /\ todo # << >> /\ OfVolume(c) /\ unmounted \subseteq Selected(c)
      /\ unpassed \subseteq Passed(c)
  BY <1>2 DEF Mounting
<1>4. pod \in PodType /\ c \in ContributionType /\ f \in Keys
  BY <1>3, TurnFacts, Inputs1 DEF IInv, Typed, TypeOK
<1>5. f \in MountedFiles(c) /\ MountOf(c, f) \in MountType
  BY <1>3, <1>4, MountTypes DEF MountedFiles, Selected
<1>6. Mounts(pod, unmounted)
  BY <1>2 DEF Mounting, MadeOf, Mounts
<1>7. Mounts(pod', unmounted \ {f})
  BY <1>1, <1>2, <1>3, <1>4, <1>5, <1>6, OneMoreMount
<1>8. /\ pod'.replicas = pod.replicas /\ pod'.pullSecrets = pod.pullSecrets
      /\ pod'.images = pod.images /\ pod'.initImages = pod.initImages
      /\ pod'.volumes = pod.volumes /\ pod'.args = pod.args
      /\ pod'.env = pod.env /\ pod'.envFrom = pod.envFrom
  BY <1>1, <1>4, WithMountFields
<1>9. MadeOf(pod', Upto(VolumeEntries) \cup At(VolumeEntries), With(MountEntries, unmounted'),
             With(InitMountEntries, unmounted'), With(ArgEntries, unpassed'), Upto(EnvEntries))
  BY <1>1, <1>2, <1>7, <1>8 DEF Mounting, MadeOf, Mounts, WithSettings, EnvIs
<1>10. Mounting'
  BY <1>1, <1>3, <1>9, UptoSame, ToMounting DEF With
<1>11. Position' /\ Lists(pod.envFrom, Upto(EnvFromEntries), EnvFromItem)'
  BY <1>1, <1>2, <1>8, SamePosition, SameForm, UptoSame
<1>12. pass' = 2 => Finished(first)'
  BY <1>1, <1>2, SameMade
<1> QED BY <1>1, <1>10, <1>11, <1>12 DEF FormInv

LEMMA FormPass ==
  ASSUME IInv, FormInv, NEW f \in unpassed, PassFile(f) PROVE FormInv'
<1> DEFINE c == Head(todo)
           new == <<Done + 1, f>>
<1>1. /\ pc = "mount" /\ pc' = "mount" /\ unpassed' = unpassed \ {f}
      /\ pod' = [pod EXCEPT !.args = Append(pod.args, MountOf(c, f))]
      /\ UNCHANGED <<in, pass, first, todo, unmounted>>
  BY DEF PassFile
<1>2. /\ Position /\ Mounting /\ Lists(pod.envFrom, Upto(EnvFromEntries), EnvFromItem)
      /\ pass = 2 => Finished(first)
  BY <1>1 DEF FormInv
<1>3. /\ todo # << >> /\ OfVolume(c) /\ unmounted \subseteq Selected(c)
      /\ unpassed \subseteq Passed(c) /\ Lists(pod.args, With(ArgEntries, unpassed), FileItem)
  BY <1>2 DEF Mounting, MadeOf
<1>4. pod \in PodType /\ c \in ContributionType /\ f \in Keys
  BY <1>3, TurnFacts, Inputs1 DEF IInv, Typed, TypeOK
<1>5. /\ pod'.replicas = pod.replicas /\ pod'.pullSecrets = pod.pullSecrets
      /\ pod'.images = pod.images /\ pod'.initImages = pod.initImages
      /\ pod'.volumes = pod.volumes /\ pod'.mounts = pod.mounts /\ pod'.initMounts = pod.initMounts
      /\ pod'.args = Append(pod.args, MountOf(c, f))
      /\ pod'.env = pod.env /\ pod'.envFrom = pod.envFrom
  BY <1>1, <1>4 DEF PodType
<1> HIDE DEF c
<1>6. /\ new \in Entries /\ FileItem[new] = MountOf(c, f) /\ FileItem[new] \in MountType
      /\ new \in At(ArgEntries)
  BY <1>2, <1>3, <1>4, Items, AtIs, MountTypes DEF c
<1>7. /\ With(ArgEntries, unpassed') = With(ArgEntries, unpassed) \cup {new}
      /\ new \notin With(ArgEntries, unpassed) /\ With(ArgEntries, unpassed) \subseteq Entries
      /\ \A k \in With(ArgEntries, unpassed) : k[1] <= Done + 1
  BY <1>1, <1>2, <1>3, <1>6, WithLess, EntriesOf
<1>8. Lists(pod'.args, With(ArgEntries, unpassed'), FileItem)
  <2>1. pod.args \in Seq(MountType)
    BY <1>4, PodFields
  <2>2. Lists(Append(pod.args, FileItem[new]), With(ArgEntries, unpassed'), FileItem)
    BY <1>2, <1>3, <1>6, <1>7, <2>1, OneMore
  <2> QED BY <1>5, <1>6, <2>2
<1>9. MadeOf(pod', Upto(VolumeEntries) \cup At(VolumeEntries), With(MountEntries, unmounted'),
             With(InitMountEntries, unmounted'), With(ArgEntries, unpassed'), Upto(EnvEntries))
  BY <1>1, <1>2, <1>5, <1>8 DEF Mounting, MadeOf, WithSettings, EnvIs
<1>10. Mounting'
  BY <1>1, <1>3, <1>9, UptoSame, ToMounting DEF With, c
<1>11. Position' /\ Lists(pod.envFrom, Upto(EnvFromEntries), EnvFromItem)'
  BY <1>1, <1>2, <1>5, SamePosition, SameForm, UptoSame
<1>12. pass' = 2 => Finished(first)'
  BY <1>1, <1>2, SameMade
<1> QED BY <1>1, <1>10, <1>11, <1>12 DEF FormInv

LEMMA FormFilesEnd == ASSUME IInv, FormInv, FilesEnd PROVE FormInv'
<1>1. /\ pc = "mount" /\ unmounted = {} /\ unpassed = {} /\ pc' = "contribute"
      /\ todo' = Tail(todo) /\ UNCHANGED <<in, pass, first, pod, unmounted, unpassed>>
  BY DEF FilesEnd
<1>2. /\ Position /\ Mounting /\ Lists(pod.envFrom, Upto(EnvFromEntries), EnvFromItem)
      /\ pass = 2 => Finished(first)
  BY <1>1 DEF FormInv
<1>3. todo # << >> /\ OfVolume(Head(todo))
  BY <1>2 DEF Mounting
<1>4. /\ Upto(VolumeEntries)' = Upto(VolumeEntries) \cup At(VolumeEntries)
      /\ Upto(MountEntries)' = With(MountEntries, unmounted)
      /\ Upto(InitMountEntries)' = With(InitMountEntries, unmounted)
      /\ Upto(ArgEntries)' = With(ArgEntries, unpassed)
  <2>1. \A K : With(K, {}) = Upto(K) \cup At(K)
    BY DEF With
  <2> QED BY <1>1, <1>2, <1>3, <2>1, UptoNext
<1>5. Upto(EnvEntries)' = Upto(EnvEntries) /\ Upto(EnvFromEntries)' = Upto(EnvFromEntries)
  <2>1. Head(todo).op # "env"
    BY <1>3 DEF OfVolume
  <2> QED BY <1>1, <1>2, <1>3, <2>1, AtIs, UptoNext
<1>6. Contributing'
  BY <1>1, <1>2, <1>4, <1>5, ToContributing DEF Mounting
<1>7. Position' /\ Lists(pod.envFrom, Upto(EnvFromEntries), EnvFromItem)'
  BY <1>1, <1>2, <1>3, <1>5, NextPosition, SameForm
<1>8. pass' = 2 => Finished(first)'
  BY <1>1, <1>2, SameMade
<1> QED BY <1>1, <1>6, <1>7, <1>8 DEF FormInv

LEMMA FormDbSecret == ASSUME IInv, FormInv, AddDbSecret PROVE FormInv'
<1>1. pc = "contribute" /\ todo = << >>
  BY DEF AddDbSecret
<1>2. /\ Contributing /\ Lists(pod.envFrom, Upto(EnvFromEntries), EnvFromItem)
      /\ pass = 2 => Finished(first)
  BY <1>1 DEF FormInv
<1>3. CASE HasDbSecret /\ NoBackend
  <2>1. Ends("panic")
    BY <1>3 DEF AddDbSecret
  <2> QED BY <2>1, FormEnds DEF Ends
<1>4. CASE ~(HasDbSecret /\ NoBackend)
  <2>1. /\ pc' = "plugins" /\ UNCHANGED <<in, pass, first>>
        /\ pod' = IF HasDbSecret THEN [pod EXCEPT !.envFrom = Append(pod.envFrom, DbSecretRef)] ELSE pod
    BY <1>4 DEF AddDbSecret
  <2>2. pod \in PodType /\ pod.envFrom \in Seq(SourceType)
    BY Inputs1, PodFields DEF SourceType
  <2>3. /\ pod'.replicas = pod.replicas /\ pod'.pullSecrets = pod.pullSecrets
        /\ pod'.images = pod.images /\ pod'.initImages = pod.initImages
        /\ pod'.volumes = pod.volumes /\ pod'.mounts = pod.mounts
        /\ pod'.initMounts = pod.initMounts /\ pod'.args = pod.args /\ pod'.env = pod.env
        /\ pod'.envFrom = IF HasDbSecret THEN Append(pod.envFrom, DbSecretRef) ELSE pod.envFrom
    BY <2>1, <2>2 DEF PodType
  <2>4. \A k \in Entries : k[1] <= Done
    <3>1. Len(todo) = 0 /\ DOMAIN C = 1..Len(C) /\ Len(C) \in Nat
      BY <1>1, Inputs1, Contributed
    <3>2. Done = Len(C) /\ \A n \in DOMAIN C : n <= Len(C)
      BY <3>1 DEF Done
    <3>3. \A k \in Entries : k[1] \in DOMAIN C
      BY DEF Entries
    <3> QED BY <3>2, <3>3
  <2>5. /\ Upto(VolumeEntries) = VolumeEntries /\ Upto(MountEntries) = MountEntries
        /\ Upto(InitMountEntries) = InitMountEntries /\ Upto(ArgEntries) = ArgEntries
        /\ Upto(EnvEntries) = EnvEntries /\ Upto(EnvFromEntries) = EnvFromEntries
    <3>1. \A K \in SUBSET Entries : Upto(K) = K
      BY <2>4 DEF Upto
    <3> QED BY <3>1, EntriesOf
  <2>6. MadeOf(pod', VolumeEntries, MountEntries, InitMountEntries, ArgEntries, EnvEntries)
    BY <1>2, <2>3, <2>5 DEF Contributing, MadeOf, WithSettings, EnvIs
  <2>7. Finished(pod')
    BY <1>2, <2>2, <2>3, <2>5, <2>6 DEF Finished
  <2>8. Finished(pod)'
    BY <2>1, <2>7, SameMade
  <2>9. pass' = 2 => Finished(first)'
    BY <1>2, <2>1, SameMade
  <2> QED BY <2>1, <2>8, <2>9 DEF FormInv
<1> QED BY <1>3, <1>4

LEMMA FormPlugins == ASSUME FormInv, ValidatePlugins PROVE FormInv'
<1>1. /\ pc = "plugins" /\ UNCHANGED <<in, pass, first, pod>>
      /\ Ends(pc') /\ pc' \in {"error", "done"}
  BY DEF ValidatePlugins, Ends
<1>2. Finished(pod) /\ (pass = 2 => Finished(first))
  BY <1>1 DEF FormInv
<1>3. Finished(pod)' /\ (pass' = 2 => Finished(first)')
  BY <1>1, <1>2, SameMade
<1> QED BY <1>1, <1>3 DEF FormInv

LEMMA FormFailing ==
  ASSUME FormInv, NEW c, ContributionFails(c) \/ ContributionPanics(c) PROVE FormInv'
<1>1. Ends("error") \/ Ends("panic")
  BY DEF ContributionFails, ContributionPanics
<1>2. pc' \in {"error", "panic"} /\ Ends(pc')
  BY <1>1 DEF Ends
<1> QED BY <1>2, FormEnds

LEMMA FormNext == ASSUME IInv, FormInv, [Next]_vars PROVE FormInv'
<1>1. CASE OverrideImage \/ ApplySettings
  BY <1>1, FormOverride, FormSettings
<1>2. ASSUME NEW c \in Range(todo), Contribute(c) PROVE FormInv'
  BY <1>2, FormFailing, FormIgnore, FormEnv, FormVolume DEF Contribute
<1>3. ASSUME NEW f \in unmounted, MountFile(f) PROVE FormInv'
  BY <1>3, FormMount
<1>4. ASSUME NEW f \in unpassed, PassFile(f) PROVE FormInv'
  BY <1>4, FormPass
<1>5. CASE FilesEnd \/ AddDbSecret \/ ValidatePlugins \/ Again
  BY <1>5, FormFilesEnd, FormDbSecret, FormPlugins, FormAgain
<1>6. CASE UNCHANGED vars
  BY <1>6, FormStutter
<1> QED BY <1>1, <1>2, <1>3, <1>4, <1>5, <1>6 DEF Next

LEMMA Form == Spec => [](IInv /\ FormInv)
<1>1. IInv /\ FormInv /\ [Next]_vars => FormInv'
  BY FormNext
<1> QED BY FormInit, <1>1, Inductive, PTL DEF Spec

(***************************************************************************)
(* Two passes.                                                             *)
(***************************************************************************)
LEMMA PairsSame ==
  ASSUME NEW K, K \subseteq Entries, \A x, y \in K : x[1] = y[1] => x[2] = y[2]
  PROVE  \A x, y \in K : x[1] = y[1] => x = y
<1>1. \A A, B : \A k \in A \X B : k = <<k[1], k[2]>>
  OBVIOUS
<1>2. \A k \in Entries : k = <<k[1], k[2]>>
  BY <1>1 DEF Entries
<1> QED BY <1>2

LEMMA EntriesNumbered ==
  ASSUME in \in PodInputType, NEW K, K \subseteq Entries PROVE Numbered(K)
<1>1. \A k \in Entries : k[1] \in DOMAIN C
  BY DEF Entries
<1> QED BY <1>1, Contributed DEF Numbered

\* Only one file of a ConfigMap of plugins is mounted.
LEMMA PluginsKey ==
  ASSUME in \in PodInputType
  PROVE  \A c \in Range(C) : c.op = "plugins" => c.key = DynamicPluginsFile
<1> DEFINE Right(c) == c.op = "plugins" => c.key = DynamicPluginsFile
           s == in.spec
<1>1. ASSUME NEW k \in PodContributors, NEW c \in Range(Default(in, k)) PROVE Right(c)
  <2>1. c = DefaultContribution(in, k)
    BY <1>1 DEF Default, Range
  <2> QED BY <2>1 DEF DefaultContribution, Contribution, PodContributors
<1>2. ASSUME NEW op \in {"appConfig", "files", "env"}, NEW refs, NEW kind, NEW path,
             NEW c \in Range(Listed(in, refs, op, kind, path))
      PROVE  Right(c)
  BY <1>2, ListedRange, Fields
<1>3. ASSUME NEW c \in Range(Listed(in, PluginsRefs(s), "plugins", "ConfigMap", PluginsContainer))
      PROVE  Right(c)
  <2>1. PICK r \in Range(PluginsRefs(s)) :
          c = Contribution("plugins", "ConfigMap", r.name, PluginsContainer, r.key,
                           DataOf(in, "plugins", "ConfigMap", r))
    BY <1>3, ListedRange
  <2>2. r.key = DynamicPluginsFile
    <3>1. s.plugins # "" /\ r \in Range(<<[name |-> s.plugins, key |-> DynamicPluginsFile]>>)
      <4>1. DOMAIN << >> = {}
        OBVIOUS
      <4> QED BY <4>1 DEF PluginsRefs, Range
    <3>2. \A e : Range(<<e>>) = {e}
      <4>1. \A e : DOMAIN <<e>> = {1} /\ <<e>>[1] = e
        OBVIOUS
      <4> QED BY <4>1 DEF Range
    <3>3. r = [name |-> s.plugins, key |-> DynamicPluginsFile]
      BY <3>1, <3>2
    <3> QED BY <3>3
  <2> QED BY <2>1, <2>2, Fields
<1> HIDE DEF Right
<1>4. \A c \in Range(C) : Right(c)
  <2>1. \A refs, kind, path : /\ \A c \in Range(Listed(in, refs, "appConfig", kind, path)) : Right(c)
                              /\ \A c \in Range(Listed(in, refs, "files", kind, path)) : Right(c)
                              /\ \A c \in Range(Listed(in, refs, "env", kind, path)) : Right(c)
    BY <1>2
  <2>2. \A c \in Range(DefaultContributions(in)) : Right(c)
    <3>1. Range(DefaultContributions(in)) = UNION {Range(Default(in, k)) : k \in PodContributors}
      BY ContributionsAre
    <3> QED BY <1>1, <3>1
  <2>3. \A c \in Range(SpecContributions(in)) : Right(c)
    BY <1>3, <2>1, ContributionsAre
  <2> QED BY <2>2, <2>3, ContributionsAre DEF C
<1> QED BY <1>4 DEF Right

LEMMA OneOfEach ==
  ASSUME in \in PodInputType
  PROVE  /\ \A x, y \in VolumeEntries : x[1] = y[1] => x = y
         /\ \A x, y \in InitMountEntries : x[1] = y[1] => x = y
         /\ \A x, y \in EnvEntries : x[1] = y[1] => x = y
         /\ \A x, y \in EnvFromEntries : x[1] = y[1] => x = y
<1>1. \A k \in VolumeEntries \cup EnvEntries \cup EnvFromEntries : k[2] = ""
  BY DEF VolumeEntries, EnvEntries, EnvFromEntries
<1>2. \A x, y \in InitMountEntries : x[1] = y[1] => x[2] = y[2]
  <2>1. \A k \in InitMountEntries : /\ C[k[1]].op = "plugins" /\ k[1] \in DOMAIN C
                                    /\ k[2] \in MountedFiles(C[k[1]])
    BY DEF InitMountEntries, OfPlugins, Entries
  <2>2. \A n \in DOMAIN C : C[n].op = "plugins" => C[n].key = DynamicPluginsFile
    BY PluginsKey DEF Range
  <2>3. ASSUME NEW c, c.key = DynamicPluginsFile
        PROVE  \A f, g \in MountedFiles(c) : f = g
    BY <2>3 DEF MountedFiles, Selected, DynamicPluginsFile
  <2> QED BY <2>1, <2>2, <2>3
<1>3. \A x, y \in VolumeEntries : x[1] = y[1] => x = y
  BY <1>1, PairsSame, EntriesOf
<1>4. \A x, y \in InitMountEntries : x[1] = y[1] => x = y
  BY <1>2, PairsSame, EntriesOf
<1>5. \A x, y \in EnvEntries : x[1] = y[1] => x = y
  BY <1>1, PairsSame, EntriesOf
<1>6. \A x, y \in EnvFromEntries : x[1] = y[1] => x = y
  BY <1>1, PairsSame, EntriesOf
<1> QED BY <1>3, <1>4, <1>5, <1>6

\* What makes two finished pods the same.
LEMMA FinishedSame ==
  ASSUME in \in PodInputType, NEW p \in PodType, NEW q \in PodType, Finished(p), Finished(q)
  PROVE  /\ p.replicas = q.replicas /\ p.pullSecrets = q.pullSecrets
         /\ p.images = q.images /\ p.initImages = q.initImages
         /\ p.volumes = q.volumes /\ p.initMounts = q.initMounts
         /\ p.env = q.env /\ p.envFrom = q.envFrom
         /\ Permuted(p.mounts, q.mounts) /\ Permuted(p.args, q.args)
<1>1. /\ MadeOf(p, VolumeEntries, MountEntries, InitMountEntries, ArgEntries, EnvEntries)
      /\ MadeOf(q, VolumeEntries, MountEntries, InitMountEntries, ArgEntries, EnvEntries)
  BY DEF Finished
<1>2. /\ p.replicas = q.replicas /\ p.pullSecrets = q.pullSecrets
      /\ p.images = q.images /\ p.initImages = q.initImages
  BY <1>1 DEF MadeOf, WithSettings
<1>3. p.volumes = q.volumes
  <2>1. Lists(p.volumes, VolumeEntries, VolumeItem) /\ Lists(q.volumes, VolumeEntries, VolumeItem)
    BY <1>1 DEF MadeOf
  <2> DEFINE S == [name : Names \cup Range(DefaultName), kind : {"ConfigMap", "Secret"}]
  <2>2. p.volumes \in Seq(S) /\ q.volumes \in Seq(S)
    BY PodFields
  <2> HIDE DEF S
  <2> QED BY <2>1, <2>2, OneOfEach, ListsSame, EntriesNumbered, EntriesOf
<1>4. p.initMounts = q.initMounts
  <2>1. /\ Lists(p.initMounts, InitMountEntries, FileItem)
        /\ Lists(q.initMounts, InitMountEntries, FileItem)
    BY <1>1 DEF MadeOf
  <2>2. p.initMounts \in Seq(MountType) /\ q.initMounts \in Seq(MountType)
    BY PodFields
  <2> QED BY <2>1, <2>2, OneOfEach, ListsSame, EntriesNumbered, EntriesOf
<1>5. p.env = q.env
  <2>1. PICK t \in Seq(EnvType) : p.env = Extra \o t /\ Lists(t, EnvEntries, EnvItem)
    BY <1>1 DEF MadeOf, EnvIs
  <2>2. PICK u \in Seq(EnvType) : q.env = Extra \o u /\ Lists(u, EnvEntries, EnvItem)
    BY <1>1 DEF MadeOf, EnvIs
  <2>3. t = u
    BY <2>1, <2>2, OneOfEach, ListsSame, EntriesNumbered, EntriesOf
  <2> QED BY <2>1, <2>2, <2>3
<1>6. p.envFrom = q.envFrom
  <2>1. CASE HasDbSecret
    <3>1. PICK t \in Seq(SourceType) :
            p.envFrom = Append(t, DbSecretRef) /\ Lists(t, EnvFromEntries, EnvFromItem)
      BY <2>1 DEF Finished
    <3>2. PICK u \in Seq(SourceType) :
            q.envFrom = Append(u, DbSecretRef) /\ Lists(u, EnvFromEntries, EnvFromItem)
      BY <2>1 DEF Finished
    <3>3. t = u
      BY <3>1, <3>2, OneOfEach, ListsSame, EntriesNumbered, EntriesOf
    <3> QED BY <3>1, <3>2, <3>3
  <2>2. CASE ~HasDbSecret
    <3>1. Lists(p.envFrom, EnvFromEntries, EnvFromItem) /\ Lists(q.envFrom, EnvFromEntries, EnvFromItem)
      BY <2>2 DEF Finished
    <3>2. p.envFrom \in Seq(SourceType) /\ q.envFrom \in Seq(SourceType)
      BY PodFields DEF SourceType
    <3> QED BY <3>1, <3>2, OneOfEach, ListsSame, EntriesNumbered, EntriesOf
  <2> QED BY <2>1, <2>2
<1>7. Permuted(p.mounts, q.mounts) /\ Permuted(p.args, q.args)
  <2>1. /\ Lists(p.mounts, MountEntries, FileItem) /\ Lists(q.mounts, MountEntries, FileItem)
        /\ Lists(p.args, ArgEntries, FileItem) /\ Lists(q.args, ArgEntries, FileItem)
    BY <1>1 DEF MadeOf
  <2>2. /\ p.mounts \in Seq(MountType) /\ q.mounts \in Seq(MountType)
        /\ p.args \in Seq(MountType) /\ q.args \in Seq(MountType)
    BY PodFields
  <2>3. /\ Len(p.mounts) = Cardinality(MountEntries) /\ Len(q.mounts) = Cardinality(MountEntries)
        /\ Len(p.args) = Cardinality(ArgEntries) /\ Len(q.args) = Cardinality(ArgEntries)
    BY <2>1, <2>2, ListsLen
  <2>4. /\ Range(p.mounts) = {FileItem[k] : k \in MountEntries}
        /\ Range(q.mounts) = {FileItem[k] : k \in MountEntries}
        /\ Range(p.args) = {FileItem[k] : k \in ArgEntries}
        /\ Range(q.args) = {FileItem[k] : k \in ArgEntries}
    BY <2>1, <2>2, ListsLen
  <2> QED BY <2>3, <2>4 DEF Permuted
<1> QED BY <1>2, <1>3, <1>4, <1>5, <1>6, <1>7

\* A contribution with one file at most has one mount and one argument at most.
LEMMA AtMostOne ==
  ASSUME NEW S, IsFiniteSet(S), Cardinality(S) <= 1 PROVE \A x, y \in S : x = y
<1>1. Cardinality(S) \in Nat
  BY FS_CardinalityType
<1>2. Cardinality(S) = 0 \/ Cardinality(S) = 1
  BY <1>1
<1>3. CASE Cardinality(S) = 0
  BY <1>3, FS_EmptySet
<1>4. CASE Cardinality(S) = 1
  BY <1>4, FS_Singleton
<1> QED BY <1>2, <1>3, <1>4

LEMMA OneFile ==
  ASSUME in \in PodInputType, IsFiniteSet(MountEntries),
         \A c \in Range(C) : Cardinality(Selected(c)) <= 1
  PROVE  /\ \A x, y \in MountEntries : x[1] = y[1] => x = y
         /\ \A x, y \in ArgEntries : x[1] = y[1] => x = y
<1>1. ASSUME NEW n \in DOMAIN C, OfBackend(C[n]), C[n].keys # {}
      PROVE  \A f, g \in Selected(C[n]) : f = g
  <2> DEFINE S == Selected(C[n])
             on == [x \in S |-> <<n, x>>]
  <2>1. \A x \in S : x \in Keys \cup {""}
    BY Contributed DEF Selected, ContributionType
  <2>2. \A x \in S : <<n, x>> \in MountEntries
    BY <1>1, <2>1 DEF MountEntries, Entries, MountedFiles
  <2>3. on \in Injection(S, MountEntries)
    BY <2>2 DEF Injection, IsInjective
  <2> HIDE DEF on
  <2>4. IsFiniteSet(S)
    BY <2>3, FS_Injection
  <2>5. Cardinality(S) <= 1
    <3>1. C[n] \in Range(C)
      BY DEF Range
    <3> QED BY <3>1
  <2> HIDE DEF S
  <2>6. \A x, y \in S : x = y
    BY <2>4, <2>5, AtMostOne
  <2> QED BY <2>6 DEF S
<1>2. \A x, y \in MountEntries : x[1] = y[1] => x[2] = y[2]
  <2>1. \A k \in MountEntries : /\ k[1] \in DOMAIN C /\ OfBackend(C[k[1]])
                                /\ k[2] \in MountedFiles(C[k[1]])
    BY DEF MountEntries, Entries
  <2>2. ASSUME NEW n \in DOMAIN C, OfBackend(C[n]) PROVE \A f, g \in MountedFiles(C[n]) : f = g
    BY <1>1, <2>2 DEF MountedFiles
  <2> QED BY <2>1, <2>2
<1>3. \A x, y \in ArgEntries : x[1] = y[1] => x[2] = y[2]
  <2>1. \A k \in ArgEntries : k[1] \in DOMAIN C /\ k[2] \in Passed(C[k[1]])
    BY DEF ArgEntries, Entries
  <2>2. ASSUME NEW n \in DOMAIN C PROVE \A f, g \in Passed(C[n]) : f = g
    <3> SUFFICES ASSUME NEW f \in Passed(C[n]), NEW g \in Passed(C[n]) PROVE f = g
      OBVIOUS
    <3>1. OfBackend(C[n]) /\ C[n].keys # {} /\ f \in Selected(C[n]) /\ g \in Selected(C[n])
      BY DEF Passed, Selected, OfBackend
    <3> QED BY <1>1, <3>1
  <2> QED BY <2>1, <2>2
<1> QED BY <1>2, <1>3, PairsSame, EntriesOf

LEMMA RecordIs ==
  ASSUME NEW S1, NEW S2, NEW S3, NEW S4, NEW S5, NEW S6, NEW S7, NEW S8, NEW S9, NEW S10,
         NEW r \in [ replicas : S1, pullSecrets : S2, images : S3, initImages : S4, volumes : S5,
                     mounts : S6, initMounts : S7, args : S8, env : S9, envFrom : S10 ]
  PROVE  r = [ replicas |-> r.replicas, pullSecrets |-> r.pullSecrets,
               images |-> r.images, initImages |-> r.initImages, volumes |-> r.volumes,
               mounts |-> r.mounts, initMounts |-> r.initMounts, args |-> r.args,
               env |-> r.env, envFrom |-> r.envFrom ]
OBVIOUS

LEMMA PodEqual ==
  ASSUME NEW p \in PodType, NEW q \in PodType,
         p.replicas = q.replicas, p.pullSecrets = q.pullSecrets,
         p.images = q.images, p.initImages = q.initImages,
         p.volumes = q.volumes, p.mounts = q.mounts, p.initMounts = q.initMounts,
         p.args = q.args, p.env = q.env, p.envFrom = q.envFrom
  PROVE  p = q
<1>1. ASSUME NEW r \in PodType
      PROVE  r = [ replicas |-> r.replicas, pullSecrets |-> r.pullSecrets,
                   images |-> r.images, initImages |-> r.initImages, volumes |-> r.volumes,
                   mounts |-> r.mounts, initMounts |-> r.initMounts, args |-> r.args,
                   env |-> r.env, envFrom |-> r.envFrom ]
  BY RecordIs DEF PodType
<1> QED BY <1>1

\* For every template, default files and spec, and for every order in which Go runs
\* through the data of a ConfigMap in either pass: the pod of the second pass is that
\* of the first but for the order of mounts and arguments, and, where each object has
\* one file, the same pod; nothing piles up from pass to pass.
THEOREM SecondPassSamePod == Spec => []SamePod
<1>1. IInv /\ FormInv => SamePod
  <2> SUFFICES ASSUME IInv, FormInv, pc = "done", pass = 2
               PROVE  /\ [pod EXCEPT !.mounts = << >>, !.args = << >>]
                           = [first EXCEPT !.mounts = << >>, !.args = << >>]
                      /\ Permuted(pod.mounts, first.mounts) /\ Permuted(pod.args, first.args)
                      /\ (\A c \in Range(C) : Cardinality(Selected(c)) <= 1) => pod = first
    BY DEF SamePod, C
  <2>1. /\ in \in PodInputType /\ pod \in PodType /\ first \in PodType
        /\ Finished(pod) /\ Finished(first)
    BY Inputs1 DEF IInv, Typed, TypeOK, FormInv
  <2>2. /\ pod.replicas = first.replicas /\ pod.pullSecrets = first.pullSecrets
        /\ pod.images = first.images /\ pod.initImages = first.initImages
        /\ pod.volumes = first.volumes /\ pod.initMounts = first.initMounts
        /\ pod.env = first.env /\ pod.envFrom = first.envFrom
        /\ Permuted(pod.mounts, first.mounts) /\ Permuted(pod.args, first.args)
    BY <2>1, FinishedSame
  <2>3. [pod EXCEPT !.mounts = << >>, !.args = << >>]
          = [first EXCEPT !.mounts = << >>, !.args = << >>]
    BY <2>1, <2>2 DEF PodType
  <2>4. ASSUME \A c \in Range(C) : Cardinality(Selected(c)) <= 1 PROVE pod = first
    <3>1. /\ Lists(pod.mounts, MountEntries, FileItem) /\ Lists(first.mounts, MountEntries, FileItem)
          /\ Lists(pod.args, ArgEntries, FileItem) /\ Lists(first.args, ArgEntries, FileItem)
      BY <2>1 DEF Finished, MadeOf
    <3>2. /\ pod.mounts \in Seq(MountType) /\ first.mounts \in Seq(MountType)
          /\ pod.args \in Seq(MountType) /\ first.args \in Seq(MountType)
      BY <2>1, PodFields
    <3>3. IsFiniteSet(MountEntries)
      BY <3>1, <3>2, ListsLen
    <3>4. /\ \A x, y \in MountEntries : x[1] = y[1] => x = y
          /\ \A x, y \in ArgEntries : x[1] = y[1] => x = y
      BY <2>1, <2>4, <3>3, OneFile
    <3>5. Numbered(MountEntries) /\ Numbered(ArgEntries)
      BY <2>1, EntriesNumbered, EntriesOf
    <3>6. pod.mounts = first.mounts
      BY <3>1, <3>2, <3>4, <3>5, ListsSame
    <3>7. pod.args = first.args
      BY <3>1, <3>2, <3>4, <3>5, ListsSame
    <3> QED BY <2>1, <2>2, <3>6, <3>7, PodEqual
  <2> QED BY <2>2, <2>3, <2>4
<1> QED BY <1>1, Form, PTL

(***************************************************************************)
(* What overrides what.                                                    *)
(***************************************************************************)
\* The spec does not name the objects the operator itself makes.
OwnNames == Names \cap Range(DefaultName) = {}

\* The elements of D come before all others.
First(s, D) == \A a, b \in DOMAIN s : s[a] \in D /\ s[b] \notin D => a < b

LEMMA FirstAppend ==
  ASSUME NEW S, NEW D, NEW s \in Seq(S), NEW e \in S,
         First(s, D), e \in D => Range(s) \subseteq D
  PROVE  First(Append(s, e), D)
<1>1. /\ Len(s) \in Nat /\ Append(s, e)[Len(s) + 1] = e
      /\ \A n \in 1..Len(s) : Append(s, e)[n] = s[n]
      /\ DOMAIN Append(s, e) = 1..(Len(s) + 1) /\ DOMAIN s = 1..Len(s)
  OBVIOUS
<1>2. e \in D => \A n \in 1..Len(s) : s[n] \in D
  BY <1>1 DEF Range
<1> QED BY <1>1, <1>2 DEF First

LEMMA FirstConcat ==
  ASSUME NEW S, NEW D, NEW s \in Seq(S), NEW t \in Seq(S),
         Range(s) \subseteq D, Range(t) \cap D = {}
  PROVE  First(s \o t, D)
<1>1. /\ Len(s) \in Nat /\ Len(t) \in Nat
      /\ DOMAIN (s \o t) = 1..(Len(s) + Len(t))
      /\ DOMAIN s = 1..Len(s) /\ DOMAIN t = 1..Len(t)
      /\ \A n \in 1..(Len(s) + Len(t)) : (s \o t)[n] = IF n <= Len(s) THEN s[n] ELSE t[n - Len(s)]
  OBVIOUS
<1>2. \A n \in 1..Len(s) : s[n] \in D
  BY <1>1 DEF Range
<1>3. \A n \in 1..Len(t) : t[n] \notin D
  BY <1>1 DEF Range
<1>4. ASSUME NEW n \in 1..(Len(s) + Len(t)) PROVE (s \o t)[n] \in D <=> n <= Len(s)
  <2>1. CASE n <= Len(s)
    BY <1>1, <1>2, <2>1
  <2>2. CASE ~(n <= Len(s))
    <3>1. n - Len(s) \in 1..Len(t)
      BY <1>1, <2>2
    <3> QED BY <1>1, <1>3, <2>2, <3>1
  <2> QED BY <2>1, <2>2
<1> QED BY <1>1, <1>4 DEF First

LEMMA FirstOfNone == \A D : First(<< >>, D)
<1>1. DOMAIN << >> = {}
  OBVIOUS
<1> QED BY <1>1 DEF First

(***************************************************************************)
(* The contributions: those of default objects come first.                 *)
(***************************************************************************)
EnvSources == [ kind : {"ConfigMap", "Secret"},
                name : Names \cup Range(DefaultName) \cup {DbSecretRef.name} ]

DefaultItems   == {c \in ContributionType : c.name \in Range(DefaultName)}
DefaultSources == {r \in EnvSources : r.name \in Range(DefaultName)}
DefaultMounts   == {m \in MountType : m.volume \in Range(DefaultName)}

LEMMA DefaultNamed ==
  ASSUME NEW input \in PodInputType, NEW k \in PodContributors
  PROVE  Range(Default(input, k)) \subseteq DefaultItems
<1>1. DefaultContribution(input, k).name \in Range(DefaultName)
  BY DEF DefaultContribution, Contribution, DefaultName, Range
<1>2. Range(Default(input, k)) \subseteq ContributionType
  <2>1. Default(input, k) \in Seq(Sound) /\ Sound \subseteq ContributionType
    BY DefaultType DEF Sound
  <2> QED BY <2>1, SeqItems DEF Range
<1>3. \A c \in Range(Default(input, k)) : c = DefaultContribution(input, k)
  <2>1. Range(<<DefaultContribution(input, k)>>) = {DefaultContribution(input, k)}
    BY DEF Range
  <2>2. Range(<< >>) = {}
    <3>1. DOMAIN << >> = {}
      OBVIOUS
    <3> QED BY <3>1 DEF Range
  <2> QED BY <2>1, <2>2 DEF Default
<1> QED BY <1>1, <1>2, <1>3 DEF DefaultItems

LEMMA ListedNamed ==
  ASSUME OwnNames, NEW input, NEW op, NEW kind, NEW path, NEW refs,
         \A r \in Range(refs) : r.name \in Names
  PROVE  Range(Listed(input, refs, op, kind, path)) \cap DefaultItems = {}
<1> SUFFICES ASSUME NEW c \in Range(Listed(input, refs, op, kind, path))
             PROVE  c.name \notin Range(DefaultName)
  BY DEF DefaultItems
<1>1. PICK r \in Range(refs) :
        c = Contribution(op, kind, r.name, path, r.key, DataOf(input, op, kind, r))
  BY ListedRange
<1> QED BY <1>1, Fields DEF OwnNames

LEMMA NameOfRef ==
  ASSUME NEW T, NEW refs \in Seq([name : Names, key : T])
  PROVE  \A r \in Range(refs) : r.name \in Names
<1>1. \A n \in DOMAIN refs : refs[n] \in [name : Names, key : T]
  BY SeqItems
<1>2. ASSUME NEW r \in Range(refs) PROVE r \in [name : Names, key : T]
  BY <1>1, <1>2 DEF Range
<1> QED BY <1>2

\* The lists of the spec have its own names.
LEMMA SpecNamed ==
  ASSUME OwnNames, NEW input \in PodInputType
  PROVE  Range(SpecContributions(input)) \cap DefaultItems = {}
<1> DEFINE s == input.spec
           Own(refs) == \A r \in Range(refs) : r.name \in Names
<1>1. s \in PodSpecType
  BY DEF PodInputType
<1>2. /\ s.appConfigs \in Seq(RefType) /\ s.files \in Seq(RefType)
      /\ s.cmEnvs \in Seq(RefType) /\ s.secretFiles \in Seq(RefType)
      /\ s.secretEnvs \in Seq(RefType)
  BY <1>1 DEF PodSpecType
<1>3. Own(s.appConfigs) /\ Own(s.files) /\ Own(s.cmEnvs) /\ Own(s.secretFiles) /\ Own(s.secretEnvs)
  BY <1>2, NameOfRef DEF RefType
<1>4. Own(PluginsRefs(s))
  <2>1. CASE s.plugins = ""
    <3>1. DOMAIN << >> = {}
      OBVIOUS
    <3> QED BY <2>1, <3>1 DEF PluginsRefs, Range
  <2>2. CASE s.plugins # ""
    <3>1. s.plugins \in Names
      BY <1>1, <2>2 DEF PodSpecType
    <3> DEFINE r == [name |-> s.plugins, key |-> DynamicPluginsFile]
    <3>2. PluginsRefs(s) = <<r>>
      BY <2>2 DEF PluginsRefs
    <3>3. r.name \in Names
      BY <3>1
    <3> HIDE DEF r
    <3>4. DOMAIN <<r>> = {1} /\ <<r>>[1] = r
      OBVIOUS
    <3>5. Range(PluginsRefs(s)) = {r}
      BY <3>2, <3>4 DEF Range
    <3> QED BY <3>3, <3>5
  <2> QED BY <2>1, <2>2
<1>5. \A refs, op, kind, path :
        Own(refs) => Range(Listed(input, refs, op, kind, path)) \cap DefaultItems = {}
  BY ListedNamed
<1> HIDE DEF Own
<1>6. /\ Range(Listed(input, s.appConfigs, "appConfig", "ConfigMap", MountDir(s.appPath)))
           \cap DefaultItems = {}
      /\ Range(Listed(input, s.files, "files", "ConfigMap", MountDir(s.filesPath)))
           \cap DefaultItems = {}
      /\ Range(Listed(input, s.cmEnvs, "env", "ConfigMap", "")) \cap DefaultItems = {}
  BY <1>3, <1>5
<1>7. /\ Range(Listed(input, s.secretFiles, "files", "Secret", MountDir(s.filesPath)))
           \cap DefaultItems = {}
      /\ Range(Listed(input, s.secretEnvs, "env", "Secret", "")) \cap DefaultItems = {}
      /\ Range(Listed(input, PluginsRefs(s), "plugins", "ConfigMap", PluginsContainer))
           \cap DefaultItems = {}
  BY <1>3, <1>4, <1>5
<1> QED BY <1>6, <1>7, ContributionsAre

LEMMA DefaultsComeFirst ==
  ASSUME OwnNames, NEW input \in PodInputType
  PROVE  First(Contributions(input), DefaultItems)
<1>1. Range(DefaultContributions(input)) \subseteq DefaultItems
  <2>1. Range(DefaultContributions(input)) = UNION {Range(Default(input, k)) : k \in PodContributors}
    BY ContributionsAre
  <2>2. \A k \in PodContributors : Range(Default(input, k)) \subseteq DefaultItems
    BY DefaultNamed
  <2> QED BY <2>1, <2>2
<1>2. Range(SpecContributions(input)) \cap DefaultItems = {}
  BY SpecNamed
<1>3. DefaultContributions(input) \in Seq(Sound) /\ SpecContributions(input) \in Seq(Sound)
  BY ContributionsAre
<1> QED BY <1>1, <1>2, <1>3, FirstConcat DEF Contributions

\* A list of entries is in the order of the contributions.
LEMMA ListsFirst ==
  ASSUME in \in PodInputType, First(C, DefaultItems), NEW K, K \subseteq Entries,
         NEW S, NEW s \in Seq(S), NEW item, Lists(s, K, item), NEW D,
         \A k \in K : item[k] \in D <=> C[k[1]] \in DefaultItems
  PROVE  First(s, D)
<1>1. PICK of \in [DOMAIN s -> K] :
        /\ \A i, j \in DOMAIN s : i < j => of[i][1] <= of[j][1]
        /\ \A i \in DOMAIN s : s[i] = item[of[i]]
  BY DEF Lists
<1>2. \A k \in K : k[1] \in DOMAIN C
  BY DEF Entries
<1>3. DOMAIN s \subseteq Nat /\ DOMAIN C \subseteq Nat
  BY SeqItems, Contributed
<1> SUFFICES ASSUME NEW a \in DOMAIN s, NEW b \in DOMAIN s, s[a] \in D, s[b] \notin D
             PROVE  a < b
  BY DEF First
<1>4. of[a][1] < of[b][1]
  BY <1>1, <1>2 DEF First
<1>5. of[a] \in K /\ of[b] \in K /\ of[a][1] \in Nat /\ of[b][1] \in Nat
  BY <1>1, <1>2, <1>3
<1>6. b < a => of[b][1] <= of[a][1]
  BY <1>1
<1> QED BY <1>3, <1>4, <1>5, <1>6

LEMMA DefaultOf ==
  ASSUME in \in PodInputType
  PROVE  /\ \A k \in ArgEntries : FileItem[k] \in DefaultMounts <=> C[k[1]] \in DefaultItems
         /\ \A k \in EnvFromEntries :
              EnvFromItem[k] \in DefaultSources <=> C[k[1]] \in DefaultItems
<1>1. ASSUME NEW k \in ArgEntries
      PROVE  FileItem[k] \in DefaultMounts <=> C[k[1]] \in DefaultItems
  <2>1. k[1] \in DOMAIN C /\ k[2] \in Passed(C[k[1]]) /\ FileItem[k] = MountOf(C[k[1]], k[2])
    BY DEF ArgEntries, Entries, FileItem
  <2>2. C[k[1]] \in ContributionType
    BY <2>1, Contributed
  <2>3. k[2] \in Keys \cup {""}
    BY <2>1, <2>2 DEF Passed, ContributionType
  <2>4. \A c \in ContributionType : \A f \in Keys \cup {""} :
          MountOf(c, f).volume = c.name /\ MountOf(c, f) \in MountType
    BY DEF MountOf, MountType, ContributionType
  <2>5. FileItem[k].volume = C[k[1]].name /\ FileItem[k] \in MountType
    BY <2>1, <2>2, <2>3, <2>4
  <2> QED BY <2>2, <2>5 DEF DefaultMounts, DefaultItems
<1>2. ASSUME NEW k \in EnvFromEntries
      PROVE  EnvFromItem[k] \in DefaultSources <=> C[k[1]] \in DefaultItems
  <2>1. /\ k[1] \in DOMAIN C
        /\ EnvFromItem[k] = [kind |-> C[k[1]].kind, name |-> C[k[1]].name]
    BY DEF EnvFromEntries, Entries, EnvFromItem
  <2>2. C[k[1]] \in ContributionType
    BY <2>1, Contributed
  <2>3. C[k[1]].kind \in {"ConfigMap", "Secret"} /\ C[k[1]].name \in Names \cup Range(DefaultName)
    BY <2>2 DEF ContributionType
  <2>4. \A kind \in {"ConfigMap", "Secret"}, name \in Names \cup Range(DefaultName) :
          [kind |-> kind, name |-> name] \in EnvSources
    BY DEF EnvSources
  <2>5. EnvFromItem[k].name = C[k[1]].name /\ EnvFromItem[k] \in EnvSources
    BY <2>1, <2>3, <2>4
  <2> QED BY <2>2, <2>5 DEF DefaultSources, DefaultItems
<1> QED BY <1>1, <1>2

\* The pod of a pass that has not ended early.
LEMMA InOrder ==
  ASSUME OwnNames, IInv, FormInv, pc \notin {"error", "panic"}
  PROVE  /\ First(pod.envFrom, DefaultSources) /\ First(pod.args, DefaultMounts)
         /\ pc = "done" /\ HasDbSecret => pod.envFrom[Len(pod.envFrom)] = DbSecretRef
<1>1. in \in PodInputType /\ pod \in PodType
  BY Inputs1
<1>2. First(C, DefaultItems)
  BY <1>1, DefaultsComeFirst DEF C
<1>3. pod.envFrom \in Seq(EnvSources) /\ pod.args \in Seq(MountType)
  BY <1>1, PodFields DEF EnvSources
<1>4. ASSUME NEW K, K \subseteq ArgEntries, Lists(pod.args, K, FileItem)
      PROVE  First(pod.args, DefaultMounts)
  BY <1>1, <1>2, <1>3, <1>4, DefaultOf, ListsFirst, EntriesOf
<1>5. ASSUME NEW K, K \subseteq EnvFromEntries, NEW t \in Seq(EnvSources), Lists(t, K, EnvFromItem)
      PROVE  First(t, DefaultSources)
  BY <1>1, <1>2, <1>5, DefaultOf, ListsFirst, EntriesOf
<1>6. CASE pc \in {"override", "settings"}
  <2>1. pod.envFrom = << >> /\ pod.args = << >>
    BY <1>6, EmptyLists DEF FormInv, NewPod
  <2> QED BY <1>6, <2>1, FirstOfNone
<1>7. CASE pc \in {"contribute", "mount"}
  <2>1. Lists(pod.envFrom, Upto(EnvFromEntries), EnvFromItem)
    BY <1>7 DEF FormInv
  <2>2. \E K : K \subseteq ArgEntries /\ Lists(pod.args, K, FileItem)
    BY <1>7 DEF FormInv, Contributing, Mounting, MadeOf, With, Upto, At
  <2>3. Upto(EnvFromEntries) \subseteq EnvFromEntries
    BY DEF Upto
  <2> QED BY <1>3, <1>4, <1>5, <1>7, <2>1, <2>2, <2>3
<1>8. CASE pc \in {"plugins", "done"}
  <2>1. Finished(pod) /\ Lists(pod.args, ArgEntries, FileItem)
    BY <1>8 DEF FormInv, Finished, MadeOf
  <2>2. First(pod.args, DefaultMounts)
    BY <1>4, <2>1
  <2>3. CASE HasDbSecret
    <3>1. PICK t \in Seq(EnvSources) :
            pod.envFrom = Append(t, DbSecretRef) /\ Lists(t, EnvFromEntries, EnvFromItem)
      BY <2>1, <2>3 DEF Finished, SourceType, EnvSources
    <3>2. First(t, DefaultSources)
      BY <1>5, <3>1
    <3>3. DbSecretRef \in EnvSources /\ DbSecretRef \notin DefaultSources
      <4>1. \A k \in PodContributors : DefaultName[k] # "bs-backstage-db"
        BY DEF DefaultName, PodContributors
      <4>2. DbSecretRef.name \notin Range(DefaultName)
        BY <4>1 DEF DbSecretRef, Range, DefaultName
      <4> QED BY <4>2 DEF EnvSources, DefaultSources, DbSecretRef
    <3>4. First(pod.envFrom, DefaultSources)
      BY <3>1, <3>2, <3>3, FirstAppend
    <3>5. pod.envFrom[Len(pod.envFrom)] = DbSecretRef
      <4>1. Len(Append(t, DbSecretRef)) = Len(t) + 1 /\ Append(t, DbSecretRef)[Len(t) + 1] = DbSecretRef
        BY <3>3, AppendProperties
      <4> QED BY <3>1, <4>1
    <3> QED BY <2>2, <3>4, <3>5
  <2>4. CASE ~HasDbSecret
    <3>1. Lists(pod.envFrom, EnvFromEntries, EnvFromItem)
      BY <2>1, <2>4 DEF Finished
    <3> QED BY <1>3, <1>5, <2>2, <2>4, <3>1
  <2> QED BY <2>3, <2>4
<1>9. pc \in {"override", "settings", "contribute", "mount", "plugins", "done", "error", "panic"}
  BY DEF IInv, Typed, TypeOK
<1> QED BY <1>6, <1>7, <1>8, <1>9

\* For every template and spec that does not name the operator's own objects, and
\* in whatever order Go runs through the keys of an app-config, what the spec
\* refers to overrides the defaults, and the DB secret overrides both.
THEOREM SpecOverrides == ASSUME OwnNames PROVE Spec => []SpecWins
<1> DEFINE Running == pc \notin {"error", "panic"}
<1>1. IInv /\ FormInv => (Running => SpecWins)
  <2> SUFFICES ASSUME IInv, FormInv, Running PROVE SpecWins
    OBVIOUS
  <2>1. pod.envFrom \in Seq(EnvSources) /\ pod.args \in Seq(MountType)
    BY PodFields DEF IInv, Typed, TypeOK, EnvSources
  <2>2. /\ \A n \in DOMAIN pod.envFrom :
             FromDefault(pod.envFrom[n]) <=> pod.envFrom[n] \in DefaultSources
        /\ \A n \in DOMAIN pod.args :
             pod.args[n].volume \in Range(DefaultName) <=> pod.args[n] \in DefaultMounts
    BY <2>1, SeqItems DEF FromDefault, DefaultSources, DefaultMounts
  <2>3. /\ First(pod.envFrom, DefaultSources) /\ First(pod.args, DefaultMounts)
        /\ pc = "done" /\ HasDbSecret => pod.envFrom[Len(pod.envFrom)] = DbSecretRef
    BY InOrder
  <2> QED BY <2>2, <2>3 DEF SpecWins, First
<1>2. Init => Running
  BY DEF Init, StartOfPass
<1>3. SpecWins /\ [Next]_vars /\ ~Running' => SpecWins'
  <2> SUFFICES ASSUME SpecWins, [Next]_vars, ~Running' PROVE SpecWins'
    OBVIOUS
  <2>1. UNCHANGED pod
    <3>1. CASE UNCHANGED vars
      BY <3>1 DEF vars
    <3>2. CASE OverrideImage \/ ApplySettings
      BY <3>2 DEF OverrideImage, ApplySettings, Ends
    <3>3. ASSUME NEW c \in Range(todo), Contribute(c) PROVE UNCHANGED pod
      BY <3>3 DEF Contribute, ContributionFails, ContributionPanics, IgnorePlugins, AddEnvVarsFrom,
                  AddVolume, Turn, Ends
    <3>4. CASE (\E f \in unmounted : MountFile(f)) \/ (\E f \in unpassed : PassFile(f))
      BY <3>4 DEF MountFile, PassFile
    <3>5. CASE FilesEnd \/ AddDbSecret \/ ValidatePlugins \/ Again
      BY <3>5 DEF FilesEnd, AddDbSecret, ValidatePlugins, Again, Ends
    <3> QED BY <3>1, <3>2, <3>3, <3>4, <3>5 DEF Next
  <2>2. pc' # "done"
    OBVIOUS
  <2> QED BY <2>1, <2>2 DEF SpecWins, FromDefault
<1> HIDE DEF Running
<1> QED BY <1>1, <1>2, <1>3, Form, PTL DEF Spec

(***************************************************************************)
(* The app-configs among the contributions.                                *)
(***************************************************************************)

\* s is what the app-configs of t are, in their order.
AppConfigsOf(s, t) ==
  \E at \in [DOMAIN s -> DOMAIN t] :
    /\ \A a, b \in DOMAIN s : a < b => at[a] < at[b]
    /\ \A a \in DOMAIN s : t[at[a]] = s[a]
    /\ \A n \in DOMAIN t : t[n].op = "appConfig" => \E a \in DOMAIN s : at[a] = n

LEMMA AllAppConfigs == ASSUME NEW s PROVE AppConfigsOf(s, s)
<1>1. [a \in DOMAIN s |-> a] \in [DOMAIN s -> DOMAIN s]
  OBVIOUS
<1> QED BY <1>1 DEF AppConfigsOf

LEMMA NoAppConfigs ==
  ASSUME NEW t, \A c \in Range(t) : c.op # "appConfig" PROVE AppConfigsOf(<< >>, t)
<1>1. DOMAIN << >> = {} /\ [a \in {} |-> a] \in [{} -> DOMAIN t]
  OBVIOUS
<1> QED BY <1>1 DEF AppConfigsOf, Range

LEMMA ConcatAppConfigs ==
  ASSUME NEW S, NEW s \in Seq(S), NEW t \in Seq(S), NEW u \in Seq(S), NEW v \in Seq(S),
         AppConfigsOf(s, t), AppConfigsOf(u, v)
  PROVE  AppConfigsOf(s \o u, t \o v)
<1>1. /\ Len(s) \in Nat /\ Len(t) \in Nat /\ Len(u) \in Nat /\ Len(v) \in Nat
      /\ DOMAIN s = 1..Len(s) /\ DOMAIN t = 1..Len(t)
      /\ DOMAIN u = 1..Len(u) /\ DOMAIN v = 1..Len(v)
      /\ DOMAIN (s \o u) = 1..(Len(s) + Len(u)) /\ DOMAIN (t \o v) = 1..(Len(t) + Len(v))
  BY ConcatProperties, SeqItems
<1>2. /\ \A n \in 1..Len(s) : (s \o u)[n] = s[n]
      /\ \A n \in 1..Len(u) : (s \o u)[Len(s) + n] = u[n]
      /\ \A n \in 1..Len(t) : (t \o v)[n] = t[n]
      /\ \A n \in 1..Len(v) : (t \o v)[Len(t) + n] = v[n]
  OBVIOUS
<1>3. PICK f \in [DOMAIN s -> DOMAIN t] :
        /\ \A a, b \in DOMAIN s : a < b => f[a] < f[b]
        /\ \A a \in DOMAIN s : t[f[a]] = s[a]
        /\ \A n \in DOMAIN t : t[n].op = "appConfig" => \E a \in DOMAIN s : f[a] = n
  BY DEF AppConfigsOf
<1>4. PICK g \in [DOMAIN u -> DOMAIN v] :
        /\ \A a, b \in DOMAIN u : a < b => g[a] < g[b]
        /\ \A a \in DOMAIN u : v[g[a]] = u[a]
        /\ \A n \in DOMAIN v : v[n].op = "appConfig" => \E a \in DOMAIN u : g[a] = n
  BY DEF AppConfigsOf
<1> DEFINE L == DOMAIN (s \o u)
           at == [a \in L |-> IF a <= Len(s) THEN f[a] ELSE Len(t) + g[a - Len(s)]]
<1>5. ASSUME NEW a \in L
      PROVE  \/ a \in DOMAIN s /\ a <= Len(s) /\ at[a] = f[a] /\ f[a] \in 1..Len(t)
             \/ /\ a - Len(s) \in DOMAIN u /\ ~(a <= Len(s)) /\ a = Len(s) + (a - Len(s))
                /\ at[a] = Len(t) + g[a - Len(s)] /\ g[a - Len(s)] \in 1..Len(v)
  BY <1>1, <1>3, <1>4
<1>6. /\ \A a \in DOMAIN s : a \in L /\ at[a] = f[a]
      /\ \A a \in DOMAIN u : Len(s) + a \in L /\ at[Len(s) + a] = Len(t) + g[a]
  <2>1. \A a \in DOMAIN s : a \in L /\ at[a] = f[a]
    BY <1>1
  <2>2. ASSUME NEW a \in DOMAIN u PROVE Len(s) + a \in L /\ at[Len(s) + a] = Len(t) + g[a]
    <3>1. Len(s) + a \in L /\ ~(Len(s) + a <= Len(s)) /\ (Len(s) + a) - Len(s) = a
      BY <1>1
    <3> QED BY <3>1
  <2> QED BY <2>1, <2>2
<1>7. at \in [L -> DOMAIN (t \o v)]
  <2>1. \A a \in L : at[a] \in 1..(Len(t) + Len(v))
    BY <1>1, <1>5
  <2> QED BY <1>1, <2>1
<1> HIDE DEF at
<1>8. ASSUME NEW a \in L, NEW b \in L, a < b PROVE at[a] < at[b]
  <2>1. CASE b <= Len(s)
    BY <1>1, <1>3, <1>5, <1>8, <2>1
  <2>2. CASE ~(b <= Len(s)) /\ a <= Len(s)
    BY <1>1, <1>5, <2>2
  <2>3. CASE ~(a <= Len(s))
    <3>1. ~(b <= Len(s)) /\ a - Len(s) < b - Len(s)
      BY <1>1, <1>8, <2>3
    <3> QED BY <1>1, <1>4, <1>5, <2>3, <3>1
  <2> QED BY <2>1, <2>2, <2>3
<1>9. ASSUME NEW a \in L PROVE (t \o v)[at[a]] = (s \o u)[a]
  <2>1. CASE a <= Len(s)
    BY <1>1, <1>2, <1>3, <1>5, <2>1
  <2>2. CASE ~(a <= Len(s))
    BY <1>1, <1>2, <1>4, <1>5, <2>2
  <2> QED BY <2>1, <2>2
<1>10. ASSUME NEW n \in DOMAIN (t \o v), (t \o v)[n].op = "appConfig"
       PROVE  \E a \in L : at[a] = n
  <2>1. CASE n <= Len(t)
    <3>1. n \in DOMAIN t /\ t[n].op = "appConfig"
      BY <1>1, <1>2, <1>10, <2>1
    <3>2. PICK a \in DOMAIN s : f[a] = n
      BY <1>3, <3>1
    <3> QED BY <1>6, <3>2
  <2>2. CASE ~(n <= Len(t))
    <3> DEFINE m == n - Len(t)
    <3>1. m \in DOMAIN v /\ n = Len(t) + m
      BY <1>1, <2>2
    <3> HIDE DEF m
    <3>2. v[m].op = "appConfig"
      BY <1>1, <1>2, <1>10, <3>1
    <3>3. PICK a \in DOMAIN u : g[a] = m
      BY <1>4, <3>1, <3>2
    <3> QED BY <1>6, <3>1, <3>3
  <2> QED BY <2>1, <2>2
<1> QED BY <1>7, <1>8, <1>9, <1>10 DEF AppConfigsOf

\* Only the default app-config and the listed ones are app-configs.
LEMMA AppConfigsAre ==
  ASSUME in \in PodInputType
  PROVE  /\ AppConfigsOf(AppConfigs(in), C)
         /\ \A c \in Range(AppConfigs(in)) : c.op = "appConfig"
<1> DEFINE None(t) == \A c \in Range(t) : c.op # "appConfig"
           s == in.spec
           l1 == Listed(in, s.appConfigs, "appConfig", "ConfigMap", MountDir(s.appPath))
           l2 == Listed(in, s.files, "files", "ConfigMap", MountDir(s.filesPath))
           l3 == Listed(in, s.cmEnvs, "env", "ConfigMap", "")
           l4 == Listed(in, s.secretFiles, "files", "Secret", MountDir(s.filesPath))
           l5 == Listed(in, s.secretEnvs, "env", "Secret", "")
           l6 == Listed(in, PluginsRefs(s), "plugins", "ConfigMap", PluginsContainer)
           d1 == Default(in, "app-config")
           d2 == Default(in, "configmap-envs")
           d3 == Default(in, "configmap-files")
           d4 == Default(in, "dynamic-plugins")
           d5 == Default(in, "secret-envs")
           d6 == Default(in, "secret-files")
           S == Seq(Sound)
<1>1. l1 \in S /\ l2 \in S /\ l3 \in S /\ l4 \in S /\ l5 \in S /\ l6 \in S
  BY ListsType
<1>2. d1 \in S /\ d2 \in S /\ d3 \in S /\ d4 \in S /\ d5 \in S /\ d6 \in S
  BY DefaultType DEF PodContributors
<1>3. /\ None(l2) /\ None(l3) /\ None(l4) /\ None(l5) /\ None(l6)
      /\ \A c \in Range(l1) : c.op = "appConfig"
  <2>1. \A op, kind, path, refs : \A c \in Range(Listed(in, refs, op, kind, path)) : c.op = op
    BY ListedRange, Fields
  <2> QED BY <2>1
<1>4. ASSUME NEW k \in PodContributors, NEW c \in Range(Default(in, k))
      PROVE  c.op = "appConfig" <=> k = "app-config"
  <2>1. c = DefaultContribution(in, k)
    BY <1>4 DEF Default, Range
  <2> QED BY <2>1 DEF DefaultContribution, Contribution, PodContributors
<1>5. /\ None(d2) /\ None(d3) /\ None(d4) /\ None(d5) /\ None(d6)
      /\ \A c \in Range(d1) : c.op = "appConfig"
  BY <1>4 DEF PodContributors
<1>6. /\ C = (d1 \o d2 \o d3 \o d4 \o d5 \o d6) \o (l1 \o l2 \o l3 \o l4 \o l5 \o l6)
      /\ AppConfigs(in) = d1 \o l1
  BY DEF C, Contributions, DefaultContributions, SpecContributions, AppConfigs
<1>7. \A u, v \in S : u \o v \in S /\ Range(u \o v) = Range(u) \cup Range(v)
  BY ConcatRange
<1>8. \A u \in S : u \o << >> = u
  BY ConcatEmptySeq
<1>9. \A u \in S, v \in S, w \in S : AppConfigsOf(u, v) /\ None(w) => AppConfigsOf(u, v \o w)
  <2> SUFFICES ASSUME NEW u \in S, NEW v \in S, NEW w \in S, AppConfigsOf(u, v), None(w)
               PROVE  AppConfigsOf(u, v \o w)
    OBVIOUS
  <2>1. AppConfigsOf(<< >>, w) /\ << >> \in S
    BY NoAppConfigs, ShortSeq
  <2>2. AppConfigsOf(u \o << >>, v \o w)
    BY <2>1, ConcatAppConfigs
  <2> QED BY <1>8, <2>2
<1> HIDE DEF None, S, d1, d2, d3, d4, d5, d6, l1, l2, l3, l4, l5, l6
<1>10. /\ AppConfigsOf(d1, d1 \o d2 \o d3 \o d4 \o d5 \o d6)
       /\ d1 \o d2 \o d3 \o d4 \o d5 \o d6 \in S
  <2>1. AppConfigsOf(d1, d1 \o d2) /\ d1 \o d2 \in S
    BY <1>2, <1>5, <1>7, <1>9, AllAppConfigs
  <2>2. AppConfigsOf(d1, d1 \o d2 \o d3) /\ d1 \o d2 \o d3 \in S
    BY <1>2, <1>5, <1>7, <1>9, <2>1
  <2>3. AppConfigsOf(d1, d1 \o d2 \o d3 \o d4) /\ d1 \o d2 \o d3 \o d4 \in S
    BY <1>2, <1>5, <1>7, <1>9, <2>2
  <2>4. AppConfigsOf(d1, d1 \o d2 \o d3 \o d4 \o d5) /\ d1 \o d2 \o d3 \o d4 \o d5 \in S
    BY <1>2, <1>5, <1>7, <1>9, <2>3
  <2> QED BY <1>2, <1>5, <1>7, <1>9, <2>4
<1>11. /\ AppConfigsOf(l1, l1 \o l2 \o l3 \o l4 \o l5 \o l6)
       /\ l1 \o l2 \o l3 \o l4 \o l5 \o l6 \in S
  <2>1. AppConfigsOf(l1, l1 \o l2) /\ l1 \o l2 \in S
    BY <1>1, <1>3, <1>7, <1>9, AllAppConfigs
  <2>2. AppConfigsOf(l1, l1 \o l2 \o l3) /\ l1 \o l2 \o l3 \in S
    BY <1>1, <1>3, <1>7, <1>9, <2>1
  <2>3. AppConfigsOf(l1, l1 \o l2 \o l3 \o l4) /\ l1 \o l2 \o l3 \o l4 \in S
    BY <1>1, <1>3, <1>7, <1>9, <2>2
  <2>4. AppConfigsOf(l1, l1 \o l2 \o l3 \o l4 \o l5) /\ l1 \o l2 \o l3 \o l4 \o l5 \in S
    BY <1>1, <1>3, <1>7, <1>9, <2>3
  <2> QED BY <1>1, <1>3, <1>7, <1>9, <2>4
<1>12. AppConfigsOf(AppConfigs(in), C)
  BY <1>1, <1>2, <1>6, <1>10, <1>11, ConcatAppConfigs DEF S
<1>13. \A c \in Range(AppConfigs(in)) : c.op = "appConfig"
  BY <1>1, <1>2, <1>3, <1>5, <1>6, <1>7
<1> QED BY <1>12, <1>13

\* For every template, default files and spec: the arguments of a finished pod are
\* all the selected files of the default app-config and then of those of the spec,
\* in the order of its list, whatever the order of the files of each.
THEOREM ArgumentsInOrder == Spec => []ConfigArgsInOrder
<1>1. IInv /\ FormInv => ConfigArgsInOrder
  <2> DEFINE acs == AppConfigs(in)
             Right(of) == /\ \A a \in DOMAIN pod.args : \E f \in Selected(acs[of[a]]) :
                               pod.args[a] = MountOf(acs[of[a]], f)
                          /\ \A a, b \in DOMAIN pod.args : a < b => of[a] <= of[b]
  <2> SUFFICES ASSUME IInv, FormInv, pc = "done"
               PROVE  /\ \A n \in DOMAIN acs : \A f \in Selected(acs[n]) :
                           MountOf(acs[n], f) \in Range(pod.args)
                      /\ \E of \in [DOMAIN pod.args -> DOMAIN acs] : Right(of)
    BY DEF ConfigArgsInOrder
  <2>1. in \in PodInputType /\ pod.args \in Seq(MountType) /\ Lists(pod.args, ArgEntries, FileItem)
    BY Inputs1, PodFields DEF FormInv, Finished, MadeOf
  <2>2. PICK at \in [DOMAIN acs -> DOMAIN C] :
          /\ \A a, b \in DOMAIN acs : a < b => at[a] < at[b]
          /\ \A a \in DOMAIN acs : C[at[a]] = acs[a]
          /\ \A n \in DOMAIN C : C[n].op = "appConfig" => \E a \in DOMAIN acs : at[a] = n
    BY <2>1, AppConfigsAre DEF AppConfigsOf
  <2>3. \A a \in DOMAIN acs : acs[a].op = "appConfig"
    BY <2>1, AppConfigsAre DEF Range
  <2>4. DOMAIN acs \subseteq Nat /\ DOMAIN C \subseteq Nat /\ DOMAIN pod.args \subseteq Nat
    <3>1. acs \in Seq(Sound)
      <4>1. Default(in, "app-config") \in Seq(Sound)
        BY <2>1, DefaultType DEF PodContributors
      <4>2. Listed(in, in.spec.appConfigs, "appConfig", "ConfigMap", MountDir(in.spec.appPath))
              \in Seq(Sound)
        BY <2>1, ListsType
      <4> QED BY <4>1, <4>2, ConcatProperties DEF AppConfigs
    <3> QED BY <2>1, <3>1, SeqItems, Contributed
  <2> HIDE DEF acs
  <2>5. ASSUME NEW n \in DOMAIN acs, NEW f \in Selected(acs[n])
        PROVE  MountOf(acs[n], f) \in Range(pod.args)
    <3> DEFINE k == <<at[n], f>>
    <3>1. at[n] \in DOMAIN C /\ C[at[n]] = acs[n] /\ acs[n].op = "appConfig"
      BY <2>2, <2>3
    <3>2. f \in Keys \cup {""} /\ f \in Passed(C[at[n]])
      BY <2>1, <3>1, Contributed DEF Selected, Passed, ContributionType
    <3>3. k \in ArgEntries /\ FileItem[k] = MountOf(acs[n], f)
      <4>1. k \in Entries /\ k[1] = at[n] /\ k[2] = f
        BY <3>1, <3>2 DEF Entries
      <4> HIDE DEF k
      <4> QED BY <3>1, <3>2, <4>1 DEF ArgEntries, FileItem
    <3> HIDE DEF k
    <3>4. Range(pod.args) = {FileItem[x] : x \in ArgEntries}
      BY <2>1, ListsLen
    <3> QED BY <3>3, <3>4
  <2>6. \E of \in [DOMAIN pod.args -> DOMAIN acs] : Right(of)
    <3>1. PICK on \in [DOMAIN pod.args -> ArgEntries] :
            /\ \A i, j \in DOMAIN pod.args : i < j => on[i][1] <= on[j][1]
            /\ \A i \in DOMAIN pod.args : pod.args[i] = FileItem[on[i]]
      BY <2>1 DEF Lists
    <3> DEFINE of == [a \in DOMAIN pod.args |-> CHOOSE n \in DOMAIN acs : at[n] = on[a][1]]
    <3>2. ASSUME NEW a \in DOMAIN pod.args
          PROVE  /\ of[a] \in DOMAIN acs /\ at[of[a]] = on[a][1]
                 /\ on[a][2] \in Selected(acs[of[a]])
                 /\ pod.args[a] = MountOf(acs[of[a]], on[a][2])
      <4>1. /\ on[a] \in Entries /\ on[a][1] \in DOMAIN C /\ on[a][2] \in Passed(C[on[a][1]])
            /\ FileItem[on[a]] = MountOf(C[on[a][1]], on[a][2])
        BY <3>1 DEF ArgEntries, Entries, FileItem
      <4>2. C[on[a][1]].op = "appConfig"
        BY <4>1 DEF Passed
      <4>3. \E n \in DOMAIN acs : at[n] = on[a][1]
        BY <2>2, <4>1, <4>2
      <4>4. of[a] \in DOMAIN acs /\ at[of[a]] = on[a][1]
        BY <4>3
      <4> HIDE DEF of
      <4>5. acs[of[a]] = C[on[a][1]]
        BY <2>2, <4>4
      <4>6. on[a][2] \in Selected(acs[of[a]])
        BY <4>1, <4>5 DEF Passed, Selected
      <4> QED BY <3>1, <4>1, <4>4, <4>5, <4>6
    <3>3. of \in [DOMAIN pod.args -> DOMAIN acs]
      BY <3>2
    <3> HIDE DEF of
    <3>4. ASSUME NEW a \in DOMAIN pod.args, NEW b \in DOMAIN pod.args, a < b PROVE of[a] <= of[b]
      <4>1. at[of[a]] <= at[of[b]]
        BY <3>1, <3>2, <3>4
      <4>2. of[b] < of[a] => at[of[b]] < at[of[a]]
        BY <2>2, <3>2
      <4>3. /\ of[a] \in Nat /\ of[b] \in Nat /\ at[of[a]] \in Nat /\ at[of[b]] \in Nat
        BY <2>2, <2>4, <3>2
      <4> QED BY <4>1, <4>2, <4>3
    <3> QED BY <3>2, <3>3, <3>4
  <2> QED BY <2>5, <2>6
<1> QED BY <1>1, Form, PTL

(***************************************************************************)
(* What is in the pod: the files and variables that are asked for.         *)
(***************************************************************************)
LEMMA OneElement == \A e : Range(<<e>>) = {e}
<1>1. \A e : DOMAIN <<e>> = {1} /\ <<e>>[1] = e
  OBVIOUS
<1> QED BY <1>1 DEF Range

LEMMA NoElement == Range(<< >>) = {}
<1>1. DOMAIN << >> = {}
  OBVIOUS
<1> QED BY <1>1 DEF Range

\* A default file contributes; the plugins do unless the spec names some, the DB
\* secret if the database is local.
LEMMA AddedAre ==
  ASSUME NEW input \in PodInputType
  PROVE  LET added == Added(RuntimeInput(input))
         IN  /\ \A k \in PodContributors \ {"dynamic-plugins"} : k \in added <=> k \in input.files
             /\ "dynamic-plugins" \in added
                  <=> "dynamic-plugins" \in input.files /\ input.spec.plugins = ""
             /\ "db-secret" \in added <=> "db-secret" \in input.files /\ input.localDb
<1> DEFINE ri == RuntimeInput(input)
<1>1. \A k \in PodContributors \cup {"db-secret"} : k \in Kinds
  BY DEF PodContributors, Kinds
<1>2. \A k \in Kinds : /\ ri.default[k] = IF /\ k \in PodContributors \cup {"db-secret"}
                                            /\ k \notin input.files
                                         THEN "absent" ELSE "good"
                       /\ ri.overlay[k] = "absent"
  BY DEF RuntimeInput
<1>3. /\ ri.spec.plugins = (input.spec.plugins # "")
      /\ ri.spec.database = IF input.localDb THEN "on" ELSE "off"
  BY DEF RuntimeInput
<1> HIDE DEF ri
<1>4. \A k \in PodContributors \cup {"db-secret"} : LoadedObject(ri, k) = "nil" <=> k \notin input.files
  BY <1>1, <1>2 DEF LoadedObject
<1>5. \A k \in PodContributors \ {"dynamic-plugins"} :
        AddToModel(ri, k) = IF LoadedObject(ri, k) = "nil" THEN "skipped" ELSE "added"
  BY DEF PodContributors, AddToModel, AppConfigAdd, ConfigMapEnvsAdd, ConfigMapFilesAdd,
         SecretEnvsAdd, SecretFilesAdd
<1>6. AddToModel(ri, "dynamic-plugins") = DynamicPluginsAdd(ri)
  BY DEF AddToModel
<1>7. AddToModel(ri, "db-secret") = DbSecretAdd(ri)
  BY DEF AddToModel
<1>8. IsLocalDbEnabled(ri.spec) <=> input.localDb
  BY <1>3 DEF IsLocalDbEnabled
<1>9. "dynamic-plugins" \in PodContributors
  BY DEF PodContributors
<1>10. \A k \in PodContributors \ {"dynamic-plugins"} : k \in Added(ri) <=> k \in input.files
  BY <1>1, <1>4, <1>5 DEF Added
<1>11. "dynamic-plugins" \in Added(ri)
         <=> "dynamic-plugins" \in input.files /\ input.spec.plugins = ""
  BY <1>1, <1>3, <1>4, <1>6, <1>9 DEF Added, DynamicPluginsAdd
<1>12. "db-secret" \in Added(ri) <=> "db-secret" \in input.files /\ input.localDb
  BY <1>1, <1>4, <1>7, <1>8 DEF Added, DbSecretAdd
<1> QED BY <1>10, <1>11, <1>12 DEF ri

\* What the default object k contributes.
LEMMA DefaultIs ==
  ASSUME NEW input, NEW k \in PodContributors
  PROVE  LET c == DefaultContribution(input, k)
         IN  /\ c.name = DefaultName[k] /\ c.keys = input.keys[k]
             /\ c.op = CASE k = "app-config" -> "appConfig"
                         [] k \in {"configmap-envs", "secret-envs"} -> "env"
                         [] k \in {"configmap-files", "secret-files"} -> "files"
                         [] k = "dynamic-plugins" -> "plugins"
             /\ c.kind = IF k \in {"secret-envs", "secret-files"} THEN "Secret" ELSE "ConfigMap"
             /\ c.path = IF k = "dynamic-plugins" THEN PluginsContainer ELSE DefaultMountDir
             /\ c.key = IF k = "dynamic-plugins" THEN DynamicPluginsFile ELSE ""
<1>1. k \in SecretKinds <=> k \in {"secret-envs", "secret-files"}
  BY DEF SecretKinds, PodContributors
<1> QED BY <1>1 DEF DefaultContribution, Contribution, PodContributors

\* The contributions: of default objects, and of each list of the spec.
LEMMA Given ==
  ASSUME in \in PodInputType, NEW c
  PROVE  LET s == in.spec
             from(op, kind, path, refs) ==
               \E r \in Range(refs) :
                 c = Contribution(op, kind, r.name, path, r.key, DataOf(in, op, kind, r))
         IN  c \in Range(C) <=>
               \/ \E k \in PodContributors \cap Added(RuntimeInput(in)) :
                    c = DefaultContribution(in, k)
               \/ from("appConfig", "ConfigMap", MountDir(s.appPath), s.appConfigs)
               \/ from("files", "ConfigMap", MountDir(s.filesPath), s.files)
               \/ from("env", "ConfigMap", "", s.cmEnvs)
               \/ from("files", "Secret", MountDir(s.filesPath), s.secretFiles)
               \/ from("env", "Secret", "", s.secretEnvs)
               \/ /\ s.plugins # ""
                  /\ c = Contribution("plugins", "ConfigMap", s.plugins, PluginsContainer,
                                      DynamicPluginsFile, in.data[s.plugins])
<1> DEFINE s == in.spec
           from(op, kind, path, refs) ==
             \E r \in Range(refs) :
               c = Contribution(op, kind, r.name, path, r.key, DataOf(in, op, kind, r))
           listed(op, kind, path, refs) == c \in Range(Listed(in, refs, op, kind, path))
<1>1. \A op, kind, path, refs : listed(op, kind, path, refs) <=> from(op, kind, path, refs)
  BY ListedRange
<1>2. (\E k \in PodContributors : c \in Range(Default(in, k)))
        <=> \E k \in PodContributors \cap Added(RuntimeInput(in)) : c = DefaultContribution(in, k)
  <2>1. \A k : c \in Range(Default(in, k))
                 <=> k \in Added(RuntimeInput(in)) /\ c = DefaultContribution(in, k)
    BY OneElement, NoElement DEF Default
  <2> QED BY <2>1
<1>3. listed("plugins", "ConfigMap", PluginsContainer, PluginsRefs(s))
        <=> /\ s.plugins # ""
            /\ c = Contribution("plugins", "ConfigMap", s.plugins, PluginsContainer,
                                DynamicPluginsFile, in.data[s.plugins])
  <2>1. CASE s.plugins = ""
    <3>1. Range(PluginsRefs(s)) = {}
      BY <2>1, NoElement DEF PluginsRefs
    <3> QED BY <1>1, <2>1, <3>1
  <2>2. CASE s.plugins # ""
    <3> DEFINE r == [name |-> s.plugins, key |-> DynamicPluginsFile]
    <3>1. Range(PluginsRefs(s)) = {r}
      BY <2>2, OneElement DEF PluginsRefs
    <3>2. /\ r.name = s.plugins /\ r.key = DynamicPluginsFile
          /\ DataOf(in, "plugins", "ConfigMap", r) = in.data[s.plugins]
      BY DEF DataOf
    <3> HIDE DEF r
    <3>3. listed("plugins", "ConfigMap", PluginsContainer, PluginsRefs(s))
            <=> from("plugins", "ConfigMap", PluginsContainer, PluginsRefs(s))
      BY <1>1
    <3> HIDE DEF listed
    <3>4. from("plugins", "ConfigMap", PluginsContainer, PluginsRefs(s))
            <=> c = Contribution("plugins", "ConfigMap", s.plugins, PluginsContainer,
                                 DynamicPluginsFile, in.data[s.plugins])
      BY <3>1, <3>2
    <3> QED BY <2>2, <3>3, <3>4
  <2> QED BY <2>1, <2>2
<1>4. c \in Range(C) <=>
        \/ \E k \in PodContributors : c \in Range(Default(in, k))
        \/ listed("appConfig", "ConfigMap", MountDir(s.appPath), s.appConfigs)
        \/ listed("files", "ConfigMap", MountDir(s.filesPath), s.files)
        \/ listed("env", "ConfigMap", "", s.cmEnvs)
        \/ listed("files", "Secret", MountDir(s.filesPath), s.secretFiles)
        \/ listed("env", "Secret", "", s.secretEnvs)
        \/ listed("plugins", "ConfigMap", PluginsContainer, PluginsRefs(s))
  <2>1. c \in Range(C) <=>
          c \in Range(DefaultContributions(in)) \/ c \in Range(SpecContributions(in))
    BY ContributionsAre DEF C
  <2>2. c \in Range(DefaultContributions(in))
          <=> \E k \in PodContributors : c \in Range(Default(in, k))
    <3>1. Range(DefaultContributions(in)) = UNION {Range(Default(in, k)) : k \in PodContributors}
      BY ContributionsAre
    <3> QED BY <3>1
  <2>3. c \in Range(SpecContributions(in)) <=>
          \/ listed("appConfig", "ConfigMap", MountDir(s.appPath), s.appConfigs)
          \/ listed("files", "ConfigMap", MountDir(s.filesPath), s.files)
          \/ listed("env", "ConfigMap", "", s.cmEnvs)
          \/ listed("files", "Secret", MountDir(s.filesPath), s.secretFiles)
          \/ listed("env", "Secret", "", s.secretEnvs)
          \/ listed("plugins", "ConfigMap", PluginsContainer, PluginsRefs(s))
    <3> DEFINE l1 == Listed(in, s.appConfigs, "appConfig", "ConfigMap", MountDir(s.appPath))
               l2 == Listed(in, s.files, "files", "ConfigMap", MountDir(s.filesPath))
               l3 == Listed(in, s.cmEnvs, "env", "ConfigMap", "")
               l4 == Listed(in, s.secretFiles, "files", "Secret", MountDir(s.filesPath))
               l5 == Listed(in, s.secretEnvs, "env", "Secret", "")
               l6 == Listed(in, PluginsRefs(s), "plugins", "ConfigMap", PluginsContainer)
    <3>1. Range(SpecContributions(in))
            = Range(l1) \cup Range(l2) \cup Range(l3) \cup Range(l4) \cup Range(l5) \cup Range(l6)
      BY ContributionsAre
    <3> HIDE DEF l1, l2, l3, l4, l5, l6
    <3>2. c \in Range(SpecContributions(in)) <=>
            \/ c \in Range(l1) \/ c \in Range(l2) \/ c \in Range(l3)
            \/ c \in Range(l4) \/ c \in Range(l5) \/ c \in Range(l6)
      BY <3>1
    <3> QED BY <3>2 DEF l1, l2, l3, l4, l5, l6
  <2> HIDE DEF listed
  <2> QED BY <2>1, <2>2, <2>3
<1> HIDE DEF listed
<1> QED BY <1>1, <1>2, <1>3, <1>4

\* The files of c are those FilesOf says.
LEMMA MountsOfAre ==
  ASSUME NEW c
  PROVE  {MountOf(c, f) : f \in MountedFiles(c)} = FilesOf(c.name, c.keys, c.key, c.path)
<1>1. MountedFiles(c) = IF c.keys = {} THEN {c.name} ELSE {g \in c.keys : c.key \in {"", g}}
  BY DEF MountedFiles, Selected
<1> QED BY <1>1 DEF MountOf, FilesOf

\* The elements of each list of a finished pod.
LEMMA RangesAre ==
  ASSUME in \in PodInputType, NEW p \in PodType, Finished(p)
  PROVE  /\ Range(p.mounts) = UNION {FilesOf(c.name, c.keys, c.key, c.path) :
                                       c \in {x \in Range(C) : OfBackend(x)}}
         /\ Range(p.initMounts) = UNION {FilesOf(c.name, c.keys, c.key, c.path) :
                                           c \in {x \in Range(C) : OfPlugins(x)}}
         /\ Range(p.env) =
              {[kind |-> "value", name |-> "", var |-> e] : e \in Range(in.spec.envs)}
              \cup {[kind |-> c.kind, name |-> c.name, var |-> c.key] :
                      c \in {x \in Range(C) : x.op = "env" /\ x.key # ""}}
         /\ Range(p.envFrom) =
              {[kind |-> c.kind, name |-> c.name] :
                 c \in {x \in Range(C) : x.op = "env" /\ x.key = ""}}
              \cup (IF HasDbSecret THEN {DbSecretRef} ELSE {})
<1> DEFINE Things == Keys \cup Names \cup Range(DefaultName) \cup {""}
<1>1. /\ p.mounts \in Seq(MountType) /\ p.initMounts \in Seq(MountType)
      /\ Lists(p.mounts, MountEntries, FileItem) /\ Lists(p.initMounts, InitMountEntries, FileItem)
  BY PodFields DEF Finished, MadeOf
<1>2. \A n \in DOMAIN C : MountedFiles(C[n]) \subseteq Things
  BY Contributed DEF MountedFiles, Selected, ContributionType
<1>3. /\ Entries = (DOMAIN C) \X Things
      /\ \A n \in DOMAIN C, x \in Things : /\ <<n, x>> \in Entries
                                           /\ <<n, x>>[1] = n /\ <<n, x>>[2] = x
      /\ \A k \in Entries : k[1] \in DOMAIN C /\ k[2] \in Things
  BY DEF Entries
<1>4. "" \in Things
  OBVIOUS
<1> HIDE DEF Things
<1>5. (\A n \in DOMAIN C : C[n] \in Range(C)) /\ (\A c \in Range(C) : \E n \in DOMAIN C : c = C[n])
  BY DEF Range
<1>6. Range(p.mounts) = UNION {FilesOf(c.name, c.keys, c.key, c.path) :
                                 c \in {x \in Range(C) : OfBackend(x)}}
  <2>1. Range(p.mounts) = {FileItem[k] : k \in MountEntries}
    BY <1>1, ListsLen
  <2>2. {FileItem[k] : k \in MountEntries}
          = UNION {{MountOf(C[n], f) : f \in MountedFiles(C[n])} : n \in {m \in DOMAIN C : OfBackend(C[m])}}
    <3>1. ASSUME NEW k \in MountEntries
          PROVE  /\ k[1] \in DOMAIN C /\ OfBackend(C[k[1]]) /\ k[2] \in MountedFiles(C[k[1]])
                 /\ FileItem[k] = MountOf(C[k[1]], k[2])
      BY <1>3 DEF MountEntries, FileItem
    <3>2. ASSUME NEW n \in DOMAIN C, OfBackend(C[n]), NEW f \in MountedFiles(C[n])
          PROVE  \E k \in MountEntries : FileItem[k] = MountOf(C[n], f)
      <4>1. <<n, f>> \in Entries /\ <<n, f>>[1] = n /\ <<n, f>>[2] = f
        BY <1>2, <1>3
      <4>2. <<n, f>> \in MountEntries /\ FileItem[<<n, f>>] = MountOf(C[n], f)
        BY <3>2, <4>1 DEF MountEntries, FileItem
      <4> QED BY <4>2
    <3> QED BY <3>1, <3>2
  <2>3. {{MountOf(C[n], f) : f \in MountedFiles(C[n])} : n \in {m \in DOMAIN C : OfBackend(C[m])}}
          = {FilesOf(c.name, c.keys, c.key, c.path) : c \in {x \in Range(C) : OfBackend(x)}}
    <3> DEFINE mounts(c) == {MountOf(c, f) : f \in MountedFiles(c)}
               files(c) == FilesOf(c.name, c.keys, c.key, c.path)
               N == {m \in DOMAIN C : OfBackend(C[m])}
               D == {x \in Range(C) : OfBackend(x)}
    <3>1. \A c : mounts(c) = files(c)
      BY MountsOfAre
    <3>2. (\A n \in N : C[n] \in D) /\ (\A c \in D : \E n \in N : c = C[n])
      BY <1>5
    <3> HIDE DEF mounts, files, N, D
    <3>3. {mounts(C[n]) : n \in N} = {files(c) : c \in D}
      BY <3>1, <3>2
    <3> QED BY <3>3 DEF mounts, files, N, D
  <2> QED BY <2>1, <2>2, <2>3
<1>7. Range(p.initMounts) = UNION {FilesOf(c.name, c.keys, c.key, c.path) :
                                     c \in {x \in Range(C) : OfPlugins(x)}}
  <2>1. Range(p.initMounts) = {FileItem[k] : k \in InitMountEntries}
    BY <1>1, ListsLen
  <2>2. {FileItem[k] : k \in InitMountEntries}
          = UNION {{MountOf(C[n], f) : f \in MountedFiles(C[n])} : n \in {m \in DOMAIN C : OfPlugins(C[m])}}
    <3>1. ASSUME NEW k \in InitMountEntries
          PROVE  /\ k[1] \in DOMAIN C /\ OfPlugins(C[k[1]]) /\ k[2] \in MountedFiles(C[k[1]])
                 /\ FileItem[k] = MountOf(C[k[1]], k[2])
      BY <1>3 DEF InitMountEntries, FileItem
    <3>2. ASSUME NEW n \in DOMAIN C, OfPlugins(C[n]), NEW f \in MountedFiles(C[n])
          PROVE  \E k \in InitMountEntries : FileItem[k] = MountOf(C[n], f)
      <4>1. <<n, f>> \in Entries /\ <<n, f>>[1] = n /\ <<n, f>>[2] = f
        BY <1>2, <1>3
      <4>2. <<n, f>> \in InitMountEntries /\ FileItem[<<n, f>>] = MountOf(C[n], f)
        BY <3>2, <4>1 DEF InitMountEntries, FileItem
      <4> QED BY <4>2
    <3> QED BY <3>1, <3>2
  <2>3. {{MountOf(C[n], f) : f \in MountedFiles(C[n])} : n \in {m \in DOMAIN C : OfPlugins(C[m])}}
          = {FilesOf(c.name, c.keys, c.key, c.path) : c \in {x \in Range(C) : OfPlugins(x)}}
    <3> DEFINE mounts(c) == {MountOf(c, f) : f \in MountedFiles(c)}
               files(c) == FilesOf(c.name, c.keys, c.key, c.path)
               N == {m \in DOMAIN C : OfPlugins(C[m])}
               D == {x \in Range(C) : OfPlugins(x)}
    <3>1. \A c : mounts(c) = files(c)
      BY MountsOfAre
    <3>2. (\A n \in N : C[n] \in D) /\ (\A c \in D : \E n \in N : c = C[n])
      BY <1>5
    <3> HIDE DEF mounts, files, N, D
    <3>3. {mounts(C[n]) : n \in N} = {files(c) : c \in D}
      BY <3>1, <3>2
    <3> QED BY <3>3 DEF mounts, files, N, D
  <2> QED BY <2>1, <2>2, <2>3
<1>8. Range(p.env) =
        {[kind |-> "value", name |-> "", var |-> e] : e \in Range(in.spec.envs)}
        \cup {[kind |-> c.kind, name |-> c.name, var |-> c.key] :
                c \in {x \in Range(C) : x.op = "env" /\ x.key # ""}}
  <2>1. PICK t \in Seq(EnvType) : p.env = Extra \o t /\ Lists(t, EnvEntries, EnvItem)
    BY DEF Finished, MadeOf, EnvIs
  <2>2. Range(t) = {EnvItem[k] : k \in EnvEntries}
    BY <2>1, ListsLen
  <2>3. {EnvItem[k] : k \in EnvEntries}
          = {[kind |-> c.kind, name |-> c.name, var |-> c.key] :
               c \in {x \in Range(C) : x.op = "env" /\ x.key # ""}}
    <3>1. ASSUME NEW k \in EnvEntries
          PROVE  /\ k[1] \in DOMAIN C /\ C[k[1]].op = "env" /\ C[k[1]].key # ""
                 /\ EnvItem[k] = [kind |-> C[k[1]].kind, name |-> C[k[1]].name, var |-> C[k[1]].key]
      BY <1>3 DEF EnvEntries, EnvItem
    <3>2. ASSUME NEW n \in DOMAIN C, C[n].op = "env", C[n].key # ""
          PROVE  \E k \in EnvEntries :
                   EnvItem[k] = [kind |-> C[n].kind, name |-> C[n].name, var |-> C[n].key]
      <4>1. <<n, "">> \in Entries /\ <<n, "">>[1] = n /\ <<n, "">>[2] = ""
        BY <1>3, <1>4
      <4>2. /\ <<n, "">> \in EnvEntries
            /\ EnvItem[<<n, "">>] = [kind |-> C[n].kind, name |-> C[n].name, var |-> C[n].key]
        BY <3>2, <4>1 DEF EnvEntries, EnvItem
      <4> QED BY <4>2
    <3> DEFINE item(c) == [kind |-> c.kind, name |-> c.name, var |-> c.key]
    <3>3. \A k \in EnvEntries : \E c \in Range(C) :
            c.op = "env" /\ c.key # "" /\ EnvItem[k] = item(c)
      BY <1>5, <3>1
    <3>4. \A c \in Range(C) : c.op = "env" /\ c.key # "" =>
            \E k \in EnvEntries : EnvItem[k] = item(c)
      BY <1>5, <3>2
    <3> HIDE DEF item
    <3>5. {EnvItem[k] : k \in EnvEntries}
            = {item(c) : c \in {x \in Range(C) : x.op = "env" /\ x.key # ""}}
      BY <3>3, <3>4
    <3> QED BY <3>5 DEF item
  <2>4. Extra \in Seq(EnvType)
    BY ExtraType
  <2>5. Range(p.env) = Range(Extra) \cup Range(t)
    BY <2>1, <2>4, ConcatRange
  <2>6. Range(Extra) = {[kind |-> "value", name |-> "", var |-> e] : e \in Range(in.spec.envs)}
    BY DEF Extra, Range
  <2> QED BY <2>2, <2>3, <2>5, <2>6
<1>9. {EnvFromItem[k] : k \in EnvFromEntries}
        = {[kind |-> c.kind, name |-> c.name] : c \in {x \in Range(C) : x.op = "env" /\ x.key = ""}}
  <2>1. ASSUME NEW k \in EnvFromEntries
        PROVE  /\ k[1] \in DOMAIN C /\ C[k[1]].op = "env" /\ C[k[1]].key = ""
               /\ EnvFromItem[k] = [kind |-> C[k[1]].kind, name |-> C[k[1]].name]
    BY <1>3 DEF EnvFromEntries, EnvFromItem
  <2>2. ASSUME NEW n \in DOMAIN C, C[n].op = "env", C[n].key = ""
        PROVE  \E k \in EnvFromEntries : EnvFromItem[k] = [kind |-> C[n].kind, name |-> C[n].name]
    <3>1. <<n, "">> \in Entries /\ <<n, "">>[1] = n /\ <<n, "">>[2] = ""
      BY <1>3, <1>4
    <3>2. /\ <<n, "">> \in EnvFromEntries
          /\ EnvFromItem[<<n, "">>] = [kind |-> C[n].kind, name |-> C[n].name]
      BY <2>2, <3>1 DEF EnvFromEntries, EnvFromItem
    <3> QED BY <3>2
  <2> DEFINE item(c) == [kind |-> c.kind, name |-> c.name]
             D == {x \in Range(C) : x.op = "env" /\ x.key = ""}
  <2>3. \A k \in EnvFromEntries : \E c \in D : EnvFromItem[k] = item(c)
    BY <1>5, <2>1
  <2>4. \A c \in D : \E k \in EnvFromEntries : EnvFromItem[k] = item(c)
    BY <1>5, <2>2
  <2> HIDE DEF item, D
  <2>5. {EnvFromItem[k] : k \in EnvFromEntries} = {item(c) : c \in D}
    BY <2>3, <2>4
  <2> QED BY <2>5 DEF item, D
<1>10. Range(p.envFrom)
        = {EnvFromItem[k] : k \in EnvFromEntries} \cup (IF HasDbSecret THEN {DbSecretRef} ELSE {})
  <2>1. CASE HasDbSecret
    <3>1. PICK t \in Seq(SourceType) :
            p.envFrom = Append(t, DbSecretRef) /\ Lists(t, EnvFromEntries, EnvFromItem)
      BY <2>1 DEF Finished
    <3>2. DbSecretRef \in SourceType
      BY DEF DbSecretRef, SourceType
    <3>3. Range(p.envFrom) = Range(t) \cup {DbSecretRef}
      BY <3>1, <3>2, AppendRange
    <3> QED BY <2>1, <3>1, <3>3, ListsLen
  <2>2. CASE ~HasDbSecret
    <3>1. p.envFrom \in Seq(SourceType)
      BY PodFields DEF SourceType
    <3>2. Lists(p.envFrom, EnvFromEntries, EnvFromItem)
      BY <2>2 DEF Finished
    <3> QED BY <2>2, <3>1, <3>2, ListsLen
  <2> QED BY <2>1, <2>2
<1> QED BY <1>6, <1>7, <1>8, <1>9, <1>10

LEMMA BackendAre ==
  ASSUME in \in PodInputType
  PROVE  LET s == in.spec
             own == in.files \cap {"app-config", "configmap-files", "secret-files"}
             from(op, kind, path, refs) ==
               {Contribution(op, kind, r.name, path, r.key, DataOf(in, op, kind, r)) : r \in Range(refs)}
         IN  {c \in Range(C) : OfBackend(c)}
               = {DefaultContribution(in, k) : k \in own}
                 \cup from("appConfig", "ConfigMap", MountDir(s.appPath), s.appConfigs)
                 \cup from("files", "ConfigMap", MountDir(s.filesPath), s.files)
                 \cup from("files", "Secret", MountDir(s.filesPath), s.secretFiles)
<1> DEFINE s == in.spec
           own == in.files \cap {"app-config", "configmap-files", "secret-files"}
           from(op, kind, path, refs) ==
             {Contribution(op, kind, r.name, path, r.key, DataOf(in, op, kind, r)) : r \in Range(refs)}
           d == {DefaultContribution(in, k) : k \in PodContributors \cap Added(RuntimeInput(in))}
           l1 == from("appConfig", "ConfigMap", MountDir(s.appPath), s.appConfigs)
           l2 == from("files", "ConfigMap", MountDir(s.filesPath), s.files)
           l3 == from("env", "ConfigMap", "", s.cmEnvs)
           l4 == from("files", "Secret", MountDir(s.filesPath), s.secretFiles)
           l5 == from("env", "Secret", "", s.secretEnvs)
           l6 == Contribution("plugins", "ConfigMap", s.plugins, PluginsContainer,
                              DynamicPluginsFile, in.data[s.plugins])
<1>1. \A c : c \in Range(C) <=>
        c \in d \/ c \in l1 \/ c \in l2 \/ c \in l3 \/ c \in l4 \/ c \in l5 \/ (s.plugins # "" /\ c = l6)
  <2> SUFFICES ASSUME NEW c
               PROVE  c \in Range(C) <=>
                        \/ c \in d \/ c \in l1 \/ c \in l2 \/ c \in l3 \/ c \in l4 \/ c \in l5
                        \/ s.plugins # "" /\ c = l6
    OBVIOUS
  <2> QED BY Given
<1>2. \A op, kind, path, refs : \A c \in from(op, kind, path, refs) : c.op = op
  BY Fields
<1> HIDE DEF from
<1>3. /\ \A c \in l1 \cup l2 \cup l4 : OfBackend(c)
      /\ \A c \in l3 \cup l5 : ~OfBackend(c)
      /\ ~OfBackend(l6)
  <2>1. ~OfBackend(l6)
    BY Fields DEF OfBackend
  <2>2. \A c \in l1 : c.op = "appConfig"
    BY <1>2
  <2>3. (\A c \in l2 : c.op = "files") /\ (\A c \in l4 : c.op = "files")
    BY <1>2
  <2>4. (\A c \in l3 : c.op = "env") /\ (\A c \in l5 : c.op = "env")
    BY <1>2
  <2> HIDE DEF l1, l2, l3, l4, l5, l6
  <2> QED BY <2>1, <2>2, <2>3, <2>4 DEF OfBackend
<1> HIDE DEF l1, l2, l3, l4, l5, l6
<1>4. {c \in d : OfBackend(c)} = {DefaultContribution(in, k) : k \in own}
  <2>1. \A k \in PodContributors :
          OfBackend(DefaultContribution(in, k)) <=> k \in {"app-config", "configmap-files", "secret-files"}
    BY DEF OfBackend, DefaultContribution, Contribution, PodContributors
  <2>2. \A k \in {"app-config", "configmap-files", "secret-files"} :
          k \in PodContributors /\ (k \in Added(RuntimeInput(in)) <=> k \in in.files)
    BY AddedAre DEF PodContributors
  <2> QED BY <2>1, <2>2
<1> HIDE DEF d
<1>5. {c \in Range(C) : OfBackend(c)} = {c \in d : OfBackend(c)} \cup l1 \cup l2 \cup l4
  <2>1. ASSUME NEW c
        PROVE  c \in Range(C) /\ OfBackend(c)
                 <=> (c \in d /\ OfBackend(c)) \/ c \in l1 \/ c \in l2 \/ c \in l4
    <3>1. (c \in l3 \/ c \in l5 \/ c = l6) => ~OfBackend(c)
      BY <1>3
    <3>2. (c \in l1 \/ c \in l2 \/ c \in l4) => OfBackend(c)
      BY <1>3
    <3> QED BY <1>1, <3>1, <3>2
  <2> QED BY <2>1
<1> QED BY <1>4, <1>5 DEF l1, l2, l4, from

LEMMA FilesAre ==
  ASSUME in \in PodInputType
  PROVE  UNION {FilesOf(c.name, c.keys, c.key, c.path) : c \in {x \in Range(C) : OfBackend(x)}}
           = FilesAsked(in)
<1> DEFINE s == in.spec
           own == in.files \cap {"app-config", "configmap-files", "secret-files"}
           files(c) == FilesOf(c.name, c.keys, c.key, c.path)
           from(op, kind, path, refs) ==
             {Contribution(op, kind, r.name, path, r.key, DataOf(in, op, kind, r)) : r \in Range(refs)}
           d  == {DefaultContribution(in, k) : k \in own}
           l1 == from("appConfig", "ConfigMap", MountDir(s.appPath), s.appConfigs)
           l2 == from("files", "ConfigMap", MountDir(s.filesPath), s.files)
           l4 == from("files", "Secret", MountDir(s.filesPath), s.secretFiles)
           f0 == {FilesOf(DefaultName[k], in.keys[k], "", DefaultMountDir) : k \in own}
           f1 == {FilesOf(r.name, in.data[r.name], r.key, MountDir(s.appPath)) : r \in Range(s.appConfigs)}
           f2 == {FilesOf(r.name, in.data[r.name], r.key, MountDir(s.filesPath)) : r \in Range(s.files)}
           f4 == {FilesOf(r.name, {r.key}, r.key, MountDir(s.filesPath)) : r \in Range(s.secretFiles)}
<1>1. {c \in Range(C) : OfBackend(c)} = d \cup l1 \cup l2 \cup l4
  BY BackendAre
<1>2. {files(c) : c \in d} = f0
  <2>1. \A k \in own : files(DefaultContribution(in, k))
                         = FilesOf(DefaultName[k], in.keys[k], "", DefaultMountDir)
    <3> SUFFICES ASSUME NEW k \in own
                 PROVE  files(DefaultContribution(in, k))
                          = FilesOf(DefaultName[k], in.keys[k], "", DefaultMountDir)
      OBVIOUS
    <3> DEFINE c == DefaultContribution(in, k)
    <3>1. k \in PodContributors /\ k # "dynamic-plugins"
      BY DEF PodContributors
    <3>2. c.name = DefaultName[k] /\ c.keys = in.keys[k] /\ c.key = "" /\ c.path = DefaultMountDir
      BY <3>1, DefaultIs
    <3> HIDE DEF c
    <3>3. files(c) = FilesOf(DefaultName[k], in.keys[k], "", DefaultMountDir)
      BY <3>2
    <3> QED BY <3>3 DEF c
  <2> QED BY <2>1
<1>3. \A op, kind, path, r :
        files(Contribution(op, kind, r.name, path, r.key, DataOf(in, op, kind, r)))
          = FilesOf(r.name, DataOf(in, op, kind, r), r.key, path)
  BY Fields
<1>4. {files(c) : c \in l1} = f1
  <2> DEFINE item(r) == Contribution("appConfig", "ConfigMap", r.name, MountDir(s.appPath), r.key,
                                     DataOf(in, "appConfig", "ConfigMap", r))
             file(r) == FilesOf(r.name, in.data[r.name], r.key, MountDir(s.appPath))
  <2>1. \A r : DataOf(in, "appConfig", "ConfigMap", r) = in.data[r.name]
    BY DEF DataOf
  <2>2. \A r : files(item(r)) = file(r)
    BY <1>3, <2>1
  <2> HIDE DEF item, file, files
  <2>3. {files(c) : c \in {item(r) : r \in Range(s.appConfigs)}} = {file(r) : r \in Range(s.appConfigs)}
    BY <2>2
  <2> QED BY <2>3 DEF item, file
<1>5. {files(c) : c \in l2} = f2
  <2> DEFINE item(r) == Contribution("files", "ConfigMap", r.name, MountDir(s.filesPath), r.key,
                                     DataOf(in, "files", "ConfigMap", r))
             file(r) == FilesOf(r.name, in.data[r.name], r.key, MountDir(s.filesPath))
  <2>1. \A r : DataOf(in, "files", "ConfigMap", r) = in.data[r.name]
    BY DEF DataOf
  <2>2. \A r : files(item(r)) = file(r)
    BY <1>3, <2>1
  <2> HIDE DEF item, file, files
  <2>3. {files(c) : c \in {item(r) : r \in Range(s.files)}} = {file(r) : r \in Range(s.files)}
    BY <2>2
  <2> QED BY <2>3 DEF item, file
<1>6. {files(c) : c \in l4} = f4
  <2> DEFINE item(r) == Contribution("files", "Secret", r.name, MountDir(s.filesPath), r.key,
                                     DataOf(in, "files", "Secret", r))
             file(r) == FilesOf(r.name, {r.key}, r.key, MountDir(s.filesPath))
  <2>1. \A r : DataOf(in, "files", "Secret", r) = {r.key}
    BY DEF DataOf
  <2>2. \A r : files(item(r)) = file(r)
    BY <1>3, <2>1
  <2> HIDE DEF item, file, files
  <2>3. {files(c) : c \in {item(r) : r \in Range(s.secretFiles)}} = {file(r) : r \in Range(s.secretFiles)}
    BY <2>2
  <2> QED BY <2>3 DEF item, file
<1>7. FilesAsked(in) = (UNION f0) \cup (UNION f1) \cup (UNION f2) \cup (UNION f4)
  BY DEF FilesAsked
<1> HIDE DEF files, d, l1, l2, l4, f0, f1, f2, f4
<1>8. UNION {files(c) : c \in d \cup l1 \cup l2 \cup l4}
        = (UNION f0) \cup (UNION f1) \cup (UNION f2) \cup (UNION f4)
  BY <1>2, <1>4, <1>5, <1>6
<1> QED BY <1>1, <1>7, <1>8 DEF files

\* The plugins of the spec or else the default ones; where nothing fails there is
\* the init container for them.
LEMMA PluginsAre ==
  ASSUME in \in PodInputType, ~SomeFails, ~PluginsFail
  PROVE  UNION {FilesOf(c.name, c.keys, c.key, c.path) : c \in {x \in Range(C) : OfPlugins(x)}}
           = PluginsAsked(in)
<1> DEFINE files(c) == FilesOf(c.name, c.keys, c.key, c.path)
           own  == DefaultContribution(in, "dynamic-plugins")
           mine == Contribution("plugins", "ConfigMap", in.spec.plugins, PluginsContainer,
                                DynamicPluginsFile, in.data[in.spec.plugins])
           P == {x \in Range(C) : OfPlugins(x)}
<1>1. "dynamic-plugins" \in PodContributors
  BY DEF PodContributors
<1>2. /\ own.name = DefaultName["dynamic-plugins"] /\ own.keys = in.keys["dynamic-plugins"]
      /\ own.key = DynamicPluginsFile /\ own.path = PluginsContainer /\ own.op = "plugins"
  BY <1>1 DEF DefaultContribution, Contribution
<1>3. /\ mine.name = in.spec.plugins /\ mine.keys = in.data[in.spec.plugins]
      /\ mine.key = DynamicPluginsFile /\ mine.path = PluginsContainer /\ mine.op = "plugins"
  BY DEF Contribution
<1>4. ASSUME NEW c, c \in Range(C), c.op = "plugins"
      PROVE  \/ \E k \in PodContributors \cap Added(RuntimeInput(in)) : c = DefaultContribution(in, k)
             \/ in.spec.plugins # "" /\ c = mine
  <2>1. ASSUME NEW op \in {"appConfig", "files", "env"}, NEW kind, NEW path, NEW refs
        PROVE  ~\E r \in Range(refs) :
                   c = Contribution(op, kind, r.name, path, r.key, DataOf(in, op, kind, r))
    BY <1>4, Fields
  <2> HIDE DEF mine
  <2> QED BY <1>4, <2>1, Given DEF mine
<1>5. mine \in Range(C) <=> in.spec.plugins # ""
  <2>1. in.spec.plugins # "" => mine \in Range(C)
    BY Given
  <2>2. ASSUME mine \in Range(C), in.spec.plugins = "" PROVE FALSE
    <3>1. PICK k \in PodContributors \cap Added(RuntimeInput(in)) : mine = DefaultContribution(in, k)
      BY <1>3, <1>4, <2>2
    <3>2. DefaultName[k] = in.spec.plugins
      BY <1>3, <3>1 DEF DefaultContribution, Contribution
    <3>3. DefaultName[k] # ""
      BY DEF DefaultName, PodContributors
    <3> QED BY <2>2, <3>2, <3>3
  <2> QED BY <2>1, <2>2
<1>6. ASSUME NEW c, c \in Range(C), c.op = "plugins"
      PROVE  \/ c = own /\ "dynamic-plugins" \in in.files /\ in.spec.plugins = ""
             \/ c = mine /\ in.spec.plugins # ""
  <2>1. \/ \E k \in PodContributors \cap Added(RuntimeInput(in)) : c = DefaultContribution(in, k)
        \/ in.spec.plugins # "" /\ c = mine
    BY <1>4, <1>6
  <2>2. ASSUME NEW k \in PodContributors \cap Added(RuntimeInput(in)), c = DefaultContribution(in, k)
        PROVE  k = "dynamic-plugins" /\ k \in in.files /\ in.spec.plugins = ""
    <3>1. k = "dynamic-plugins"
      BY <1>6, <2>2, DefaultIs DEF PodContributors
    <3> QED BY <2>2, <3>1, AddedAre
  <2> QED BY <2>1, <2>2
<1>7. "dynamic-plugins" \in in.files /\ in.spec.plugins = "" => own \in Range(C)
  <2> SUFFICES ASSUME "dynamic-plugins" \in in.files, in.spec.plugins = "" PROVE own \in Range(C)
    OBVIOUS
  <2>1. "dynamic-plugins" \in PodContributors \cap Added(RuntimeInput(in))
    BY <1>1, AddedAre
  <2> HIDE DEF mine
  <2> QED BY <2>1, Given
<1>8. (\E c \in Range(C) : c.op = "plugins") => HasPluginsContainer(in)
  <2>1. CASE in.spec.plugins # ""
    <3>1. ~Fails(mine)
      BY <1>5, <2>1 DEF SomeFails, C
    <3> QED BY <1>3, <3>1 DEF Fails
  <2>2. CASE in.spec.plugins = "" /\ "dynamic-plugins" \in in.files
    BY <2>2, AddedAre DEF PluginsFail, HasDefaultPlugins
  <2>3. CASE in.spec.plugins = "" /\ "dynamic-plugins" \notin in.files
    BY <1>6, <2>3
  <2> QED BY <2>1, <2>2, <2>3
<1>9. P = {x \in Range(C) : x.op = "plugins"}
  BY <1>8 DEF OfPlugins, Ignored
<1> HIDE DEF files, own, mine, P
<1>10. CASE in.spec.plugins # ""
  <2>1. P = {mine}
    BY <1>3, <1>5, <1>6, <1>9, <1>10
  <2>2. UNION {files(c) : c \in P} = files(mine)
    BY <2>1
  <2> QED BY <1>3, <1>10, <2>2 DEF PluginsAsked, files, P
<1>11. CASE in.spec.plugins = "" /\ "dynamic-plugins" \in in.files
  <2>1. P = {own}
    BY <1>2, <1>6, <1>7, <1>9, <1>11
  <2>2. UNION {files(c) : c \in P} = files(own)
    BY <2>1
  <2> QED BY <1>2, <1>11, <2>2 DEF PluginsAsked, files, P
<1>12. CASE in.spec.plugins = "" /\ "dynamic-plugins" \notin in.files
  <2>1. P = {}
    BY <1>6, <1>9, <1>12
  <2>2. UNION {files(c) : c \in P} = {}
    BY <2>1
  <2> QED BY <1>12, <2>2 DEF PluginsAsked, files, P
<1> QED BY <1>10, <1>11, <1>12

\* What becomes a variable or a source: the default objects without a key, and the
\* references of the two lists.
LEMMA EnvAre ==
  ASSUME in \in PodInputType, NEW c
  PROVE  LET from(kind, refs) ==
               \E r \in Range(refs) :
                 c = Contribution("env", kind, r.name, "", r.key, {})
         IN  c \in Range(C) /\ c.op = "env" <=>
               \/ \E k \in in.files \cap {"configmap-envs", "secret-envs"} :
                    c = DefaultContribution(in, k)
               \/ from("ConfigMap", in.spec.cmEnvs)
               \/ from("Secret", in.spec.secretEnvs)
<1> DEFINE from(op, kind, path, refs) ==
             \E r \in Range(refs) :
               c = Contribution(op, kind, r.name, path, r.key, DataOf(in, op, kind, r))
           some(kind, refs) == \E r \in Range(refs) : c = Contribution("env", kind, r.name, "", r.key, {})
           s == in.spec
           mine == Contribution("plugins", "ConfigMap", s.plugins, PluginsContainer,
                                DynamicPluginsFile, in.data[s.plugins])
<1>1. \A op, kind, path, refs : from(op, kind, path, refs) => c.op = op
  BY Fields
<1>2. \A kind, refs : from("env", kind, "", refs) <=> some(kind, refs)
  BY DEF DataOf
<1>3. mine.op = "plugins"
  BY DEF Contribution
<1>4. c \in Range(C) <=>
        \/ \E k \in PodContributors \cap Added(RuntimeInput(in)) : c = DefaultContribution(in, k)
        \/ from("appConfig", "ConfigMap", MountDir(s.appPath), s.appConfigs)
        \/ from("files", "ConfigMap", MountDir(s.filesPath), s.files)
        \/ from("env", "ConfigMap", "", s.cmEnvs)
        \/ from("files", "Secret", MountDir(s.filesPath), s.secretFiles)
        \/ from("env", "Secret", "", s.secretEnvs)
        \/ s.plugins # "" /\ c = mine
  BY Given
<1> HIDE DEF from, some, mine
<1>5. (\E k \in PodContributors \cap Added(RuntimeInput(in)) : c = DefaultContribution(in, k))
        /\ c.op = "env"
        <=> \E k \in in.files \cap {"configmap-envs", "secret-envs"} : c = DefaultContribution(in, k)
  <2>1. \A k \in PodContributors :
          DefaultContribution(in, k).op = "env" <=> k \in {"configmap-envs", "secret-envs"}
    BY DEF DefaultContribution, Contribution, PodContributors
  <2>2. \A k \in {"configmap-envs", "secret-envs"} :
          k \in PodContributors /\ (k \in Added(RuntimeInput(in)) <=> k \in in.files)
    BY AddedAre DEF PodContributors
  <2> QED BY <2>1, <2>2
<1>6. c \in Range(C) /\ c.op = "env" <=>
        \/ \E k \in in.files \cap {"configmap-envs", "secret-envs"} : c = DefaultContribution(in, k)
        \/ from("env", "ConfigMap", "", s.cmEnvs)
        \/ from("env", "Secret", "", s.secretEnvs)
  BY <1>1, <1>3, <1>4, <1>5
<1> QED BY <1>2, <1>6 DEF some

LEMMA VariablesAre ==
  ASSUME in \in PodInputType
  PROVE  {[kind |-> "value", name |-> "", var |-> e] : e \in Range(in.spec.envs)}
           \cup {[kind |-> c.kind, name |-> c.name, var |-> c.key] :
                   c \in {x \in Range(C) : x.op = "env" /\ x.key # ""}}
           = EnvAsked(in)
<1> DEFINE item(c) == [kind |-> c.kind, name |-> c.name, var |-> c.key]
           made(kind, r) == Contribution("env", kind, r.name, "", r.key, {})
           keyed(refs) == {x \in Range(refs) : x.key # ""}
           variables(kind, refs) == {[kind |-> kind, name |-> r.name, var |-> r.key] : r \in keyed(refs)}
           E == {x \in Range(C) : x.op = "env" /\ x.key # ""}
           cms == in.spec.cmEnvs
           secrets == in.spec.secretEnvs
<1>1. \A k \in {"configmap-envs", "secret-envs"} : DefaultContribution(in, k).key = ""
  BY DEF DefaultContribution, Contribution
<1>2. \A kind, r : /\ item(made(kind, r)) = [kind |-> kind, name |-> r.name, var |-> r.key]
                   /\ made(kind, r).key = r.key
  BY DEF Contribution
<1>3. \A c : c \in E <=> \/ \E r \in keyed(cms) : c = made("ConfigMap", r)
                         \/ \E r \in keyed(secrets) : c = made("Secret", r)
  <2> SUFFICES ASSUME NEW c
               PROVE  c \in E <=> \/ \E r \in keyed(cms) : c = made("ConfigMap", r)
                                  \/ \E r \in keyed(secrets) : c = made("Secret", r)
    OBVIOUS
  <2>1. c \in Range(C) /\ c.op = "env" <=>
          \/ \E k \in in.files \cap {"configmap-envs", "secret-envs"} : c = DefaultContribution(in, k)
          \/ \E r \in Range(cms) : c = made("ConfigMap", r)
          \/ \E r \in Range(secrets) : c = made("Secret", r)
    BY EnvAre
  <2> HIDE DEF made
  <2>2. \A kind, r : c = made(kind, r) => c.key = r.key
    BY <1>2
  <2> HIDE DEF made
  <2> QED BY <1>1, <2>1, <2>2
<1> HIDE DEF made, E
<1>4. {item(c) : c \in E} = variables("ConfigMap", cms) \cup variables("Secret", secrets)
  <2> DEFINE fields(kind, r) == [kind |-> kind, name |-> r.name, var |-> r.key]
  <2>1. \A kind, r : item(made(kind, r)) = fields(kind, r)
    BY <1>2
  <2> HIDE DEF item, fields, keyed
  <2>2. {item(c) : c \in E}
          = {fields("ConfigMap", r) : r \in keyed(cms)} \cup {fields("Secret", r) : r \in keyed(secrets)}
    BY <1>3, <2>1
  <2> QED BY <2>2 DEF fields
<1> QED BY <1>4 DEF EnvAsked, E

LEMMA SourcesAre ==
  ASSUME in \in PodInputType
  PROVE  {[kind |-> c.kind, name |-> c.name] : c \in {x \in Range(C) : x.op = "env" /\ x.key = ""}}
           \cup (IF HasDbSecret THEN {DbSecretRef} ELSE {})
           = EnvFromAsked(in)
<1> DEFINE item(c) == [kind |-> c.kind, name |-> c.name]
           made(kind, r) == Contribution("env", kind, r.name, "", r.key, {})
           source(kind, name) == [kind |-> kind, name |-> name]
           keyless(refs) == {x \in Range(refs) : x.key = ""}
           E == {x \in Range(C) : x.op = "env" /\ x.key = ""}
           own == DefaultContribution(in, "configmap-envs")
           ownSecret == DefaultContribution(in, "secret-envs")
           cms == in.spec.cmEnvs
           secrets == in.spec.secretEnvs
           s1 == {source("ConfigMap", DefaultName[k]) : k \in in.files \cap {"configmap-envs"}}
           s2 == {source("Secret", DefaultName[k]) : k \in in.files \cap {"secret-envs"}}
           s3 == {source("ConfigMap", r.name) : r \in keyless(cms)}
           s4 == {source("Secret", r.name) : r \in keyless(secrets)}
<1>1. /\ own.key = "" /\ item(own) = source("ConfigMap", DefaultName["configmap-envs"])
      /\ ownSecret.key = "" /\ item(ownSecret) = source("Secret", DefaultName["secret-envs"])
  BY DEF DefaultContribution, Contribution, SecretKinds
<1>2. \A kind, r : item(made(kind, r)) = source(kind, r.name) /\ made(kind, r).key = r.key
  BY DEF Contribution
<1>3. \A c : c \in E <=> \/ "configmap-envs" \in in.files /\ c = own
                         \/ "secret-envs" \in in.files /\ c = ownSecret
                         \/ \E r \in keyless(cms) : c = made("ConfigMap", r)
                         \/ \E r \in keyless(secrets) : c = made("Secret", r)
  <2> SUFFICES ASSUME NEW c
               PROVE  c \in E <=> \/ "configmap-envs" \in in.files /\ c = own
                                  \/ "secret-envs" \in in.files /\ c = ownSecret
                                  \/ \E r \in keyless(cms) : c = made("ConfigMap", r)
                                  \/ \E r \in keyless(secrets) : c = made("Secret", r)
    OBVIOUS
  <2>1. c \in Range(C) /\ c.op = "env" <=>
          \/ \E k \in in.files \cap {"configmap-envs", "secret-envs"} : c = DefaultContribution(in, k)
          \/ \E r \in Range(cms) : c = made("ConfigMap", r)
          \/ \E r \in Range(secrets) : c = made("Secret", r)
    BY EnvAre
  <2> HIDE DEF made
  <2>2. \A kind, r : c = made(kind, r) => c.key = r.key
    BY <1>2
  <2>3. (\E k \in in.files \cap {"configmap-envs", "secret-envs"} : c = DefaultContribution(in, k))
          <=> \/ "configmap-envs" \in in.files /\ c = own
              \/ "secret-envs" \in in.files /\ c = ownSecret
    <3> DEFINE K == in.files \cap {"configmap-envs", "secret-envs"}
    <3>1. ASSUME NEW k \in K, c = DefaultContribution(in, k)
          PROVE  \/ "configmap-envs" \in in.files /\ c = own
                 \/ "secret-envs" \in in.files /\ c = ownSecret
      BY <3>1
    <3>2. ASSUME "configmap-envs" \in in.files, c = own
          PROVE  \E k \in K : c = DefaultContribution(in, k)
      <4>1. "configmap-envs" \in K
        BY <3>2
      <4> QED BY <3>2, <4>1
    <3>3. ASSUME "secret-envs" \in in.files, c = ownSecret
          PROVE  \E k \in K : c = DefaultContribution(in, k)
      <4>1. "secret-envs" \in K
        BY <3>3
      <4> QED BY <3>3, <4>1
    <3> HIDE DEF own, ownSecret
    <3> QED BY <3>1, <3>2, <3>3
  <2>4. own.key = "" /\ ownSecret.key = ""
    BY <1>1
  <2> HIDE DEF made, own, ownSecret
  <2> QED BY <2>1, <2>2, <2>3, <2>4
<1> HIDE DEF made, E, own, ownSecret
<1>4. {item(c) : c \in E} = s1 \cup s2 \cup s3 \cup s4
  <2>1. \A x : x \in {item(c) : c \in E} <=> \E c \in E : x = item(c)
    OBVIOUS
  <2>2. \A x : x \in s1 <=> "configmap-envs" \in in.files /\ x = item(own)
    BY <1>1
  <2>3. \A x : x \in s2 <=> "secret-envs" \in in.files /\ x = item(ownSecret)
    BY <1>1
  <2>4. \A x : x \in s3 <=> \E r \in keyless(cms) : x = item(made("ConfigMap", r))
    <3>1. \A r : item(made("ConfigMap", r)) = source("ConfigMap", r.name)
      BY <1>2
    <3>2. \A x : x \in s3 <=> \E r \in keyless(cms) : x = source("ConfigMap", r.name)
      OBVIOUS
    <3> HIDE DEF item, source, s3, keyless
    <3> QED BY <3>1, <3>2
  <2>5. \A x : x \in s4 <=> \E r \in keyless(secrets) : x = item(made("Secret", r))
    <3>1. \A r : item(made("Secret", r)) = source("Secret", r.name)
      BY <1>2
    <3>2. \A x : x \in s4 <=> \E r \in keyless(secrets) : x = source("Secret", r.name)
      OBVIOUS
    <3> HIDE DEF item, source, s4, keyless
    <3> QED BY <3>1, <3>2
  <2> HIDE DEF item, s1, s2, s3, s4, keyless
  <2>6. ASSUME NEW x PROVE x \in {item(c) : c \in E} <=> x \in s1 \cup s2 \cup s3 \cup s4
    BY <1>3, <2>1, <2>2, <2>3, <2>4, <2>5
  <2> QED BY <2>6
<1>5. HasDbSecret <=> in.localDb /\ "db-secret" \in in.files
  BY AddedAre DEF HasDbSecret
<1>6. EnvFromAsked(in) = s1 \cup s2 \cup s3 \cup s4
                           \cup (IF in.localDb /\ "db-secret" \in in.files THEN {DbSecretRef} ELSE {})
  BY DEF EnvFromAsked
<1> HIDE DEF s1, s2, s3, s4
<1> QED BY <1>4, <1>5, <1>6 DEF E

\* For every template, default files and spec, and for every order in which Go runs
\* through the data of a ConfigMap: the containers of a finished pod have the files,
\* variables and sources that are asked for, and no others.
THEOREM AllThatIsAsked == Spec => []HasWhatIsAsked
<1>1. IInv /\ FormInv => HasWhatIsAsked
  <2> SUFFICES ASSUME IInv, FormInv, pc = "done"
               PROVE  /\ Range(pod.mounts) = FilesAsked(in)
                      /\ Range(pod.initMounts) = PluginsAsked(in)
                      /\ Range(pod.env) = EnvAsked(in)
                      /\ Range(pod.envFrom) = EnvFromAsked(in)
    BY DEF HasWhatIsAsked
  <2>1. /\ in \in PodInputType /\ pod \in PodType /\ Finished(pod)
        /\ ~SomeFails /\ ~PluginsFail
    BY Inputs1 DEF FormInv, IInv, FailInv
  <2>2. Range(pod.mounts) = FilesAsked(in)
    BY <2>1, RangesAre, FilesAre
  <2>3. Range(pod.initMounts) = PluginsAsked(in)
    BY <2>1, RangesAre, PluginsAre
  <2>4. Range(pod.env) = EnvAsked(in)
    BY <2>1, RangesAre, VariablesAre
  <2>5. Range(pod.envFrom) = EnvFromAsked(in)
    BY <2>1, RangesAre, SourcesAre
  <2> QED BY <2>2, <2>3, <2>4, <2>5
<1> QED BY <1>1, Form, PTL
==================================================================================
