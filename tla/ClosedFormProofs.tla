---------------------------- MODULE ClosedFormProofs ----------------------------
(* What a call of InitObjects comes to, for every set of inputs: the closed     *)
(* form that Reconcile uses, the credentials of the two pods, and the order of  *)
(* the list, sorted with a comparison that is no order.                         *)
EXTENDS InitObjectsProofs

(***************************************************************************)
(* The two orders.                                                         *)
(***************************************************************************)

\* The place of a kind in the order of registration.
RegRank == [k \in Kinds |-> CHOOSE n \in 1..12 : RuntimeConfig[n] = k]

LEMMA RegRanks == \A k \in Kinds : RegRank[k] \in 1..12 /\ RuntimeConfig[RegRank[k]] = k
<1> SUFFICES ASSUME NEW k \in Kinds
             PROVE  RegRank[k] \in 1..12 /\ RuntimeConfig[RegRank[k]] = k
  OBVIOUS
<1>1. \E n \in 1..12 : RuntimeConfig[n] = k
  BY ConfigKinds
<1> QED BY <1>1 DEF RegRank

LEMMA ApplyRanks == \A k \in Kinds : ApplyRank[k] \in 1..12 /\ ApplyOrder[ApplyRank[k]] = k
<1> SUFFICES ASSUME NEW k \in Kinds
             PROVE  ApplyRank[k] \in 1..12 /\ ApplyOrder[ApplyRank[k]] = k
  OBVIOUS
<1>1. \E n \in 1..12 : ApplyOrder[n] = k
  <2>1. /\ ApplyOrder[1] = "deployment" /\ ApplyOrder[2] = "service"
        /\ ApplyOrder[3] = "secret-files" /\ ApplyOrder[4] = "secret-envs"
        /\ ApplyOrder[5] = "route" /\ ApplyOrder[6] = "dynamic-plugins"
        /\ ApplyOrder[7] = "db-service" /\ ApplyOrder[8] = "db-secret"
        /\ ApplyOrder[9] = "configmap-files" /\ ApplyOrder[10] = "configmap-envs"
        /\ ApplyOrder[11] = "app-config" /\ ApplyOrder[12] = "db-statefulset"
    BY DEF ApplyOrder
  <2> QED BY <2>1 DEF Kinds
<1> QED BY <1>1 DEF ApplyRank

\* Among objects in the order of registration, the comparison of the sort is
\* that of the ranks.
LEMMA LessIsRank ==
  ASSUME NEW a \in Kinds, NEW b \in Kinds, RegRank[b] < RegRank[a]
  PROVE  IF Less(a, b) THEN ApplyRank[a] < ApplyRank[b] ELSE ApplyRank[b] < ApplyRank[a]
<1>1. \A k \in Kinds :
        /\ k = "app-config" => RegRank[k] = 1 /\ ApplyRank[k] = 11
        /\ k = "configmap-envs" => RegRank[k] = 2 /\ ApplyRank[k] = 10
        /\ k = "configmap-files" => RegRank[k] = 3 /\ ApplyRank[k] = 9
        /\ k = "db-secret" => RegRank[k] = 4 /\ ApplyRank[k] = 8
        /\ k = "db-service" => RegRank[k] = 5 /\ ApplyRank[k] = 7
        /\ k = "db-statefulset" => RegRank[k] = 6 /\ ApplyRank[k] = 12
        /\ k = "deployment" => RegRank[k] = 7 /\ ApplyRank[k] = 1
        /\ k = "dynamic-plugins" => RegRank[k] = 8 /\ ApplyRank[k] = 6
        /\ k = "route" => RegRank[k] = 9 /\ ApplyRank[k] = 5
        /\ k = "secret-envs" => RegRank[k] = 10 /\ ApplyRank[k] = 4
        /\ k = "secret-files" => RegRank[k] = 11 /\ ApplyRank[k] = 3
        /\ k = "service" => RegRank[k] = 12 /\ ApplyRank[k] = 2
  BY RegRanks, ApplyRanks DEF RuntimeConfig, ApplyOrder
<1>2. Less(a, b) <=> a # "db-statefulset" /\ b # "deployment"
  BY DEF Less
<1>3. CASE a = "db-statefulset"
  BY <1>1, <1>2, <1>3 DEF Kinds
<1>4. CASE b = "deployment"
  BY <1>1, <1>2, <1>4 DEF Kinds
<1>5. CASE a # "db-statefulset" /\ b # "deployment" /\ (b = "db-statefulset" \/ a = "deployment")
  BY <1>1, <1>2, <1>5 DEF Kinds
<1>6. CASE {a, b} \cap {"db-statefulset", "deployment"} = {}
  BY <1>1, <1>2, <1>6 DEF Kinds
<1> QED BY <1>3, <1>4, <1>5, <1>6

(***************************************************************************)
(* The sort.  Up to i, the list is sorted but for the element at j, which  *)
(* is less than those behind it and was registered after all of them; the  *)
(* rest is still in the order of registration.                             *)
(***************************************************************************)
RegAt(s, n)   == RegRank[s[n]]
ApplyAt(s, n) == ApplyRank[s[n]]

InOrder(s) == \A m, n \in 1..Len(s) : m < n => RegAt(s, m) < RegAt(s, n)

InSortedOrder(s) == \A m, n \in 1..Len(s) : m < n => ApplyAt(s, m) < ApplyAt(s, n)

Inserting(s, a, b) ==
  /\ b \in 1..a /\ a \in 1..Len(s)
  /\ \A m, n \in 1..a : m < n /\ m # b /\ n # b => ApplyAt(s, m) < ApplyAt(s, n)
  /\ \A n \in 1..a : b < n => ApplyAt(s, b) < ApplyAt(s, n)
  /\ \A m \in 1..a : m # b => RegAt(s, m) < RegAt(s, b)
  /\ \A m \in 1..a, n \in 1..Len(s) : a < n => RegAt(s, m) < RegAt(s, n)
  /\ \A m, n \in 1..Len(s) : a < m /\ m < n => RegAt(s, m) < RegAt(s, n)

SortInv ==
  /\ phase = "load" =>
       InOrder(runtimeObjects) /\ \A n \in 1..Len(runtimeObjects) : RegAt(runtimeObjects, n) < i
  /\ phase = "validate" => InOrder(runtimeObjects)
  /\ phase = "sort" =>
       IF i <= Len(runtimeObjects) THEN Inserting(runtimeObjects, i, j)
                                   ELSE InSortedOrder(runtimeObjects)
  /\ phase = "done" => InSortedOrder(runtimeObjects)

LEMMA RanksAt ==
  ASSUME NEW s \in Seq(Kinds), NEW n \in 1..Len(s)
  PROVE  RegAt(s, n) \in 1..12 /\ ApplyAt(s, n) \in 1..12 /\ s[n] \in Kinds
<1>1. s[n] \in Kinds
  OBVIOUS
<1> QED BY <1>1, RegRanks, ApplyRanks DEF RegAt, ApplyAt

\* The element at b moves down by one.
LEMMA MovesDown ==
  ASSUME NEW s \in Seq(Kinds), NEW t \in Seq(Kinds), NEW a \in Nat, NEW b \in Nat,
         Inserting(s, a, b), b > 1, Less(s[b], s[b - 1]),
         Len(t) = Len(s), t[b] = s[b - 1], t[b - 1] = s[b],
         \A n \in 1..Len(s) : n # b /\ n # b - 1 => t[n] = s[n]
  PROVE  Inserting(t, a, b - 1)
<1>1. Len(s) \in Nat /\ b \in 1..a /\ a \in 1..Len(s) /\ b - 1 \in 1..a
  BY DEF Inserting
<1>2. \A n \in 1..Len(s) : RegAt(s, n) \in 1..12 /\ ApplyAt(s, n) \in 1..12 /\ s[n] \in Kinds
  BY RanksAt
<1>3. RegAt(s, b - 1) < RegAt(s, b)
  BY <1>1 DEF Inserting
<1>4. ApplyAt(s, b) < ApplyAt(s, b - 1)
  <2>1. b - 1 \in 1..Len(s) /\ b \in 1..Len(s)
    BY <1>1
  <2> QED BY <1>2, <1>3, <2>1, LessIsRank DEF RegAt, ApplyAt
<1>5. /\ RegAt(t, b) = RegAt(s, b - 1) /\ RegAt(t, b - 1) = RegAt(s, b)
      /\ ApplyAt(t, b) = ApplyAt(s, b - 1) /\ ApplyAt(t, b - 1) = ApplyAt(s, b)
      /\ \A n \in 1..Len(s) : n # b /\ n # b - 1 =>
           RegAt(t, n) = RegAt(s, n) /\ ApplyAt(t, n) = ApplyAt(s, n)
  BY DEF RegAt, ApplyAt
<1>6. ASSUME NEW m \in 1..a, NEW n \in 1..a, m < n, m # b - 1, n # b - 1
      PROVE  ApplyAt(t, m) < ApplyAt(t, n)
  <2>1. CASE m = b
    <3>1. ApplyAt(s, b - 1) < ApplyAt(s, n)
      BY <1>1, <1>6, <2>1 DEF Inserting
    <3> QED BY <1>1, <1>5, <1>6, <2>1, <3>1
  <2>2. CASE n = b
    <3>1. ApplyAt(s, m) < ApplyAt(s, b - 1)
      BY <1>1, <1>6, <2>2 DEF Inserting
    <3> QED BY <1>1, <1>5, <1>6, <2>2, <3>1
  <2>3. CASE m # b /\ n # b
    <3>1. ApplyAt(s, m) < ApplyAt(s, n)
      BY <1>6, <2>3 DEF Inserting
    <3> QED BY <1>1, <1>5, <1>6, <2>3, <3>1
  <2> QED BY <2>1, <2>2, <2>3
<1>7. ASSUME NEW n \in 1..a, b - 1 < n PROVE ApplyAt(t, b - 1) < ApplyAt(t, n)
  <2>1. CASE n = b
    BY <1>4, <1>5, <2>1
  <2>2. CASE n # b
    <3>1. b < n /\ ApplyAt(s, b) < ApplyAt(s, n)
      BY <1>1, <1>7, <2>2 DEF Inserting
    <3> QED BY <1>1, <1>5, <1>7, <2>2, <3>1
  <2> QED BY <2>1, <2>2
<1>8. ASSUME NEW m \in 1..a, m # b - 1 PROVE RegAt(t, m) < RegAt(t, b - 1)
  <2>1. CASE m = b
    BY <1>3, <1>5, <2>1
  <2>2. CASE m # b
    <3>1. RegAt(s, m) < RegAt(s, b)
      BY <1>8, <2>2 DEF Inserting
    <3> QED BY <1>1, <1>5, <1>8, <2>2, <3>1
  <2> QED BY <2>1, <2>2
<1>9. ASSUME NEW m \in 1..a, NEW n \in 1..Len(s), a < n PROVE RegAt(t, m) < RegAt(t, n)
  <2>1. RegAt(t, n) = RegAt(s, n)
    BY <1>1, <1>5, <1>9
  <2>2. \A o \in 1..a : RegAt(s, o) < RegAt(s, n)
    BY <1>9 DEF Inserting
  <2>3. \E o \in 1..a : RegAt(t, m) = RegAt(s, o)
    BY <1>1, <1>5
  <2> QED BY <2>1, <2>2, <2>3
<1>10. ASSUME NEW m \in 1..Len(s), NEW n \in 1..Len(s), a < m, m < n
       PROVE  RegAt(t, m) < RegAt(t, n)
  <2>1. RegAt(s, m) < RegAt(s, n)
    BY <1>10 DEF Inserting
  <2> QED BY <1>1, <1>5, <1>10, <2>1
<1> QED BY <1>1, <1>6, <1>7, <1>8, <1>9, <1>10 DEF Inserting

\* The element at b is in its place.
LEMMA InPlace ==
  ASSUME NEW s \in Seq(Kinds), NEW a \in Nat, NEW b \in Nat,
         Inserting(s, a, b), b > 1 => ~Less(s[b], s[b - 1])
  PROVE  /\ \A m, n \in 1..a : m < n => ApplyAt(s, m) < ApplyAt(s, n)
         /\ IF a + 1 <= Len(s) THEN Inserting(s, a + 1, a + 1) ELSE InSortedOrder(s)
<1>1. Len(s) \in Nat /\ b \in 1..a /\ a \in 1..Len(s)
  BY DEF Inserting
<1>2. \A n \in 1..Len(s) : RegAt(s, n) \in 1..12 /\ ApplyAt(s, n) \in 1..12 /\ s[n] \in Kinds
  BY RanksAt
<1>3. b > 1 => ApplyAt(s, b - 1) < ApplyAt(s, b)
  <2> SUFFICES ASSUME b > 1 PROVE ApplyAt(s, b - 1) < ApplyAt(s, b)
    OBVIOUS
  <2>1. b - 1 \in 1..Len(s) /\ b \in 1..Len(s) /\ b - 1 \in 1..a
    BY <1>1
  <2>2. RegAt(s, b - 1) < RegAt(s, b)
    BY <1>1, <2>1 DEF Inserting
  <2> QED BY <1>2, <2>1, <2>2, LessIsRank DEF RegAt, ApplyAt
<1>4. ASSUME NEW m \in 1..a, NEW n \in 1..a, m < n
      PROVE  ApplyAt(s, m) < ApplyAt(s, n)
  <2>1. CASE m # b /\ n # b
    BY <1>4, <2>1 DEF Inserting
  <2>2. CASE m = b
    BY <1>4, <2>2 DEF Inserting
  <2>3. CASE n = b
    <3>1. b > 1 /\ b - 1 \in 1..a
      BY <1>1, <1>4, <2>3
    <3>2. m = b - 1 \/ ApplyAt(s, m) < ApplyAt(s, b - 1)
      BY <1>1, <1>4, <2>3, <3>1 DEF Inserting
    <3>3. ApplyAt(s, m) \in Int /\ ApplyAt(s, b) \in Int /\ ApplyAt(s, b - 1) \in Int
      <4>1. m \in 1..Len(s) /\ b \in 1..Len(s) /\ b - 1 \in 1..Len(s)
        BY <1>1, <1>4, <3>1
      <4> QED BY <1>2, <4>1
    <3> QED BY <1>3, <2>3, <3>1, <3>2, <3>3
  <2> QED BY <2>1, <2>2, <2>3
<1>5. CASE a + 1 <= Len(s)
  <2>1. \A m \in 1..(a + 1) : m # a + 1 => m \in 1..a
    BY <1>1
  <2>2. a + 1 \in 1..Len(s) /\ a < a + 1 /\ a + 1 \in 1..(a + 1)
    BY <1>1, <1>5
  <2>3. \A m \in 1..(a + 1) : m # a + 1 => RegAt(s, m) < RegAt(s, a + 1)
    BY <2>1, <2>2 DEF Inserting
  <2>4. \A m \in 1..(a + 1), n \in 1..Len(s) : a + 1 < n => RegAt(s, m) < RegAt(s, n)
    <3> SUFFICES ASSUME NEW m \in 1..(a + 1), NEW n \in 1..Len(s), a + 1 < n
                 PROVE  RegAt(s, m) < RegAt(s, n)
      OBVIOUS
    <3>1. CASE m = a + 1
      BY <1>1, <2>2, <3>1 DEF Inserting
    <3>2. CASE m # a + 1
      <4>1. m \in 1..a /\ a < n
        BY <1>1, <2>1, <3>2
      <4> QED BY <4>1 DEF Inserting
    <3> QED BY <3>1, <3>2
  <2>5. \A m, n \in 1..Len(s) : a + 1 < m /\ m < n => RegAt(s, m) < RegAt(s, n)
    BY <1>1 DEF Inserting
  <2>6. \A m, n \in 1..(a + 1) : m < n /\ m # a + 1 /\ n # a + 1 => ApplyAt(s, m) < ApplyAt(s, n)
    BY <1>4, <2>1
  <2>7. \A n \in 1..(a + 1) : ~(a + 1 < n)
    BY <1>1
  <2> QED BY <1>4, <1>5, <2>2, <2>3, <2>4, <2>5, <2>6, <2>7 DEF Inserting
<1>6. CASE ~(a + 1 <= Len(s))
  <2>1. a = Len(s)
    BY <1>1, <1>6
  <2> QED BY <1>4, <1>6, <2>1 DEF InSortedOrder
<1> QED BY <1>4, <1>5, <1>6

LEMMA InitSorted == Init => SortInv
<1> SUFFICES ASSUME Init PROVE SortInv
  OBVIOUS
<1>1. phase = "load" /\ runtimeObjects = << >>
  BY DEF Init
<1>2. 1..Len(runtimeObjects) = {}
  BY <1>1
<1> QED BY <1>1, <1>2 DEF SortInv, InOrder

LEMMA LoadSorted == IInv /\ SortInv /\ Load => SortInv'
<1> SUFFICES ASSUME IInv, SortInv, NEW k \in Kinds,
                    ReadFails(k) \/ AddFails(k) \/ AddSkips(k) \/ Adds(k)
             PROVE  SortInv'
  BY DEF Load
<1>1. /\ phase = "load" /\ i \in 1..12 /\ k = RuntimeConfig[i]
      /\ runtimeObjects \in Seq(Kinds)
  <2>1. phase = "load" /\ i <= Len(RuntimeConfig) /\ k = RuntimeConfig[i]
    BY DEF ReadFails, AddFails, AddSkips, Adds, Loading
  <2>2. i \in 1..13 /\ runtimeObjects \in Seq(Kinds)
    BY DEF IInv, TypeOK
  <2> QED BY <2>1, <2>2, ConfigKinds
<1>2. InOrder(runtimeObjects) /\ \A n \in 1..Len(runtimeObjects) : RegAt(runtimeObjects, n) < i
  BY <1>1 DEF SortInv
<1>3. RegRank[k] = i
  <2>1. RegRank[k] \in 1..12 /\ RuntimeConfig[RegRank[k]] = RuntimeConfig[i]
    BY <1>1, RegRanks
  <2> QED BY <1>1, <2>1 DEF RuntimeConfig
<1>4. CASE ReadFails(k) \/ AddFails(k)
  <2>1. phase' = "error"
    BY <1>4 DEF ReadFails, AddFails
  <2> QED BY <2>1 DEF SortInv
<1>5. Len(runtimeObjects) \in Nat
      /\ \A n \in 1..Len(runtimeObjects) : RegAt(runtimeObjects, n) \in 1..12
  BY <1>1, RanksAt
<1>6. CASE AddSkips(k)
  <2>1. phase' = "load" /\ i' = i + 1 /\ UNCHANGED runtimeObjects
    BY <1>1, <1>6 DEF AddSkips
  <2>2. \A n \in 1..Len(runtimeObjects) : RegAt(runtimeObjects, n) < i + 1
    BY <1>1, <1>2, <1>5
  <2>3. InOrder(runtimeObjects') /\ \A n \in 1..Len(runtimeObjects') : RegAt(runtimeObjects', n) < i'
    BY <1>2, <2>1, <2>2
  <2> QED BY <2>1, <2>3 DEF SortInv
<1>7. CASE Adds(k)
  <2>1. phase' = "panic" \/ (phase' = "load" /\ i' = i + 1)
    BY <1>1, <1>7 DEF Adds
  <2>2. \A n \in 1..Len(runtimeObjects) : runtimeObjects[n] # k
    BY <1>1, <1>2, <1>3, <1>5 DEF RegAt
  <2>3. DOMAIN runtimeObjects = 1..Len(runtimeObjects)
    BY <1>1
  <2>4. runtimeObjects' = Append(runtimeObjects, k)
    BY <1>7, <2>2, <2>3 DEF Adds, SetRuntimeObject
  <2>5. /\ Len(runtimeObjects') = Len(runtimeObjects) + 1
        /\ RegAt(runtimeObjects', Len(runtimeObjects) + 1) = i
        /\ \A n \in 1..Len(runtimeObjects) : RegAt(runtimeObjects', n) = RegAt(runtimeObjects, n)
    BY <1>1, <1>3, <2>4 DEF RegAt
  <2>6. \A n \in 1..Len(runtimeObjects') : n = Len(runtimeObjects) + 1 \/ n \in 1..Len(runtimeObjects)
    BY <1>5, <2>5
  <2>7. \A n \in 1..Len(runtimeObjects') : RegAt(runtimeObjects', n) < i + 1
    BY <1>1, <1>2, <1>5, <2>5, <2>6
  <2>8. InOrder(runtimeObjects')
    <3> SUFFICES ASSUME NEW m \in 1..Len(runtimeObjects'), NEW n \in 1..Len(runtimeObjects'), m < n
                 PROVE  RegAt(runtimeObjects', m) < RegAt(runtimeObjects', n)
      BY DEF InOrder
    <3>1. m \in 1..Len(runtimeObjects)
      BY <1>5, <2>5
    <3>2. CASE n = Len(runtimeObjects) + 1
      BY <1>2, <2>5, <3>1, <3>2
    <3>3. CASE n \in 1..Len(runtimeObjects)
      BY <1>2, <2>5, <3>1, <3>3 DEF InOrder
    <3> QED BY <2>6, <3>2, <3>3
  <2> QED BY <2>1, <2>7, <2>8 DEF SortInv
<1> QED BY <1>4, <1>6, <1>7

LEMMA SortStarts ==
  ASSUME NEW s \in Seq(Kinds), InOrder(s)
  PROVE  IF 2 <= Len(s) THEN Inserting(s, 2, 2) ELSE InSortedOrder(s)
<1>1. Len(s) \in Nat
  OBVIOUS
<1>2. CASE 2 <= Len(s)
  <2>1. \A m \in 1..2 : m = 1 \/ m = 2
    OBVIOUS
  <2>2. 1 \in 1..Len(s) /\ 2 \in 1..Len(s) /\ 2 \in 1..2 /\ 1..2 \subseteq 1..Len(s)
    BY <1>1, <1>2
  <2>3. \A m \in 1..2 : m # 2 => RegAt(s, m) < RegAt(s, 2)
    BY <2>1, <2>2 DEF InOrder
  <2>4. \A m \in 1..2, n \in 1..Len(s) : 2 < n => RegAt(s, m) < RegAt(s, n)
    BY <2>1, <2>2 DEF InOrder
  <2>5. /\ \A m, n \in 1..2 : ~(m < n /\ m # 2 /\ n # 2)
        /\ \A n \in 1..2 : ~(2 < n)
    BY <2>1
  <2> QED BY <1>2, <2>2, <2>3, <2>4, <2>5 DEF Inserting, InOrder
<1>3. CASE ~(2 <= Len(s))
  <2>1. \A m, n \in 1..Len(s) : ~(m < n)
    BY <1>1, <1>3
  <2> QED BY <1>3, <2>1 DEF InSortedOrder
<1> QED BY <1>2, <1>3

LEMMA NextSorted == IInv /\ SortInv /\ [Next]_vars => SortInv'
<1> SUFFICES ASSUME IInv, SortInv, [Next]_vars PROVE SortInv'
  OBVIOUS
<1>1. runtimeObjects \in Seq(Kinds) /\ Len(runtimeObjects) \in Nat /\ i \in Nat /\ j \in Nat
  <2>1. runtimeObjects \in Seq(Kinds) /\ i \in 1..13 /\ j \in 0..12
    BY DEF IInv, TypeOK
  <2> QED BY <2>1
<1>2. CASE Load
  BY <1>2, LoadSorted
<1>3. CASE LoadEnds
  <2>1. phase = "load" /\ phase' = "validate" /\ UNCHANGED runtimeObjects
    BY <1>3 DEF LoadEnds
  <2>2. InOrder(runtimeObjects')
    BY <2>1 DEF SortInv
  <2> QED BY <2>1, <2>2 DEF SortInv
<1>4. CASE Validate
  <2>1. phase = "validate" /\ phase' \in {"validate", "error", "panic"} /\ UNCHANGED runtimeObjects
    BY <1>4 DEF Validate, Validating, Refer, Return, ValidateDeployment, ValidateDbSecret,
                ValidateDbStatefulSet, ValidateDynamicPlugins, ValidateRoute, ValidateOther
  <2>2. InOrder(runtimeObjects')
    BY <2>1 DEF SortInv
  <2> QED BY <2>1, <2>2 DEF SortInv
<1>5. CASE ValidateEnds
  <2>1. phase = "validate" /\ phase' = "sort" /\ i' = 2 /\ j' = 2 /\ UNCHANGED runtimeObjects
    BY <1>5 DEF ValidateEnds
  <2>2. InOrder(runtimeObjects)
    BY <2>1 DEF SortInv
  <2>3. IF i' <= Len(runtimeObjects') THEN Inserting(runtimeObjects', i', j')
                                      ELSE InSortedOrder(runtimeObjects')
    BY <1>1, <2>1, <2>2, SortStarts
  <2> QED BY <2>1, <2>3 DEF SortInv
<1>6. CASE SwapDown
  <2>1. /\ phase = "sort" /\ phase' = "sort" /\ i' = i /\ j' = j - 1 /\ i <= Len(runtimeObjects)
        /\ j > 1 /\ Less(runtimeObjects[j], runtimeObjects[j - 1])
        /\ runtimeObjects' = [runtimeObjects EXCEPT ![j] = runtimeObjects[j - 1],
                                                    ![j - 1] = runtimeObjects[j]]
    BY <1>6 DEF SwapDown, Sorting
  <2>2. Inserting(runtimeObjects, i, j)
    BY <2>1 DEF SortInv
  <2>3. j \in 1..Len(runtimeObjects) /\ j - 1 \in 1..Len(runtimeObjects)
    BY <1>1, <2>1, <2>2 DEF Inserting
  <2>4. /\ runtimeObjects' \in Seq(Kinds) /\ Len(runtimeObjects') = Len(runtimeObjects)
        /\ runtimeObjects'[j] = runtimeObjects[j - 1]
        /\ runtimeObjects'[j - 1] = runtimeObjects[j]
        /\ \A n \in 1..Len(runtimeObjects) :
             n # j /\ n # j - 1 => runtimeObjects'[n] = runtimeObjects[n]
    BY <1>1, <2>1, <2>3
  <2>5. Inserting(runtimeObjects', i', j')
    BY <1>1, <2>1, <2>2, <2>4, MovesDown
  <2> QED BY <2>1, <2>4, <2>5 DEF SortInv
<1>7. CASE NextElement
  <2>1. /\ phase = "sort" /\ phase' = "sort" /\ i <= Len(runtimeObjects) /\ i' = i + 1
        /\ j' = IF i < 12 THEN i + 1 ELSE j
        /\ j > 1 => ~Less(runtimeObjects[j], runtimeObjects[j - 1])
        /\ UNCHANGED runtimeObjects
    BY <1>7 DEF NextElement, Sorting
  <2>2. Inserting(runtimeObjects, i, j)
    BY <2>1 DEF SortInv
  <2>3. IF i + 1 <= Len(runtimeObjects) THEN Inserting(runtimeObjects, i + 1, i + 1)
                                        ELSE InSortedOrder(runtimeObjects)
    BY <1>1, <2>1, <2>2, InPlace
  <2>4. i + 1 <= Len(runtimeObjects) => i < 12
    <3>1. Len(runtimeObjects) <= 12
      BY DEF IInv, IndexInv
    <3> QED BY <1>1, <3>1
  <2>5. IF i' <= Len(runtimeObjects') THEN Inserting(runtimeObjects', i', j')
                                      ELSE InSortedOrder(runtimeObjects')
    BY <2>1, <2>3, <2>4
  <2> QED BY <2>1, <2>5 DEF SortInv
<1>8. CASE SortEnds
  <2>1. phase = "sort" /\ i > Len(runtimeObjects) /\ phase' = "done" /\ UNCHANGED runtimeObjects
    BY <1>8 DEF SortEnds
  <2>2. InSortedOrder(runtimeObjects')
    BY <1>1, <2>1 DEF SortInv
  <2> QED BY <2>1, <2>2 DEF SortInv
<1>9. CASE UNCHANGED vars
  BY <1>9 DEF SortInv, vars
<1> QED BY <1>2, <1>3, <1>4, <1>5, <1>6, <1>7, <1>8, <1>9 DEF Next, Sort, Returned

LEMMA AlwaysSorted == Spec => []SortInv
<1> QED BY InitSorted, NextSorted, Inductive, PTL DEF Spec

(***************************************************************************)
(* Theorem: the list of a successful call is in the order that the         *)
(* reconciler relies on.                                                   *)
(***************************************************************************)

\* For every configuration and spec, sort.Slice with the inconsistent comparison of
\* sortRuntimeObjects returns each object once, the Deployment first and the
\* StatefulSet last.
THEOREM Sorts == Spec => []SortedForReconcile
<1>1. IInv /\ SortInv => SortedForReconcile
  <2> SUFFICES ASSUME IInv, SortInv, phase = "done" PROVE SortedForReconcile
    BY DEF SortedForReconcile
  <2>1. runtimeObjects \in Seq(Kinds)
    BY DEF IInv, TypeOK
  <2>2. DOMAIN runtimeObjects = 1..Len(runtimeObjects)
    BY <2>1
  <2>3. InSortedOrder(runtimeObjects)
    BY DEF SortInv
  <2> QED BY <2>2, <2>3 DEF SortedForReconcile, InSortedOrder, ApplyAt
<1> QED BY <1>1, Inductive, AlwaysSorted, PTL

(***************************************************************************)
(* The outcome.  validate has been passed by the objects up to the index,  *)
(* and a call that fails has the outcome of the closed form.               *)
(***************************************************************************)
Validated(k) ==
  /\ ~ValidateFails(in, k)
  /\ k \in {"deployment", "db-statefulset"} /\ "db-secret" \in model =>
       <<k, "db-secret">> \in references

OutcomeInv ==
  /\ phase \in {"error", "panic"} => InitOutcome(in) = phase
  /\ phase = "validate" =>
       \A n \in 1..Len(runtimeObjects) : n < i => Validated(runtimeObjects[n])
  /\ phase \in {"sort", "done"} => \A k \in Range(runtimeObjects) : Validated(k)

\* The first iteration that does not end well decides.
LEMMA FirstFailure ==
  ASSUME NEW n \in 1..12, LoadStep(in, RuntimeConfig[n]) # "ok",
         \A m \in 1..12 : m < n => LoadStep(in, RuntimeConfig[m]) = "ok"
  PROVE  InitOutcome(in) = LoadStep(in, RuntimeConfig[n])
<1> DEFINE failing == {m \in 1..12 : LoadStep(in, RuntimeConfig[m]) # "ok"}
<1>1. n \in failing /\ \A m \in failing : n <= m
  OBVIOUS
<1>2. \A m \in failing : (\A l \in failing : m <= l) => m = n
  <2> SUFFICES ASSUME NEW m \in failing, \A l \in failing : m <= l PROVE m = n
    OBVIOUS
  <2>1. m <= n /\ n <= m /\ m \in 1..12
    BY <1>1
  <2> QED BY <2>1
<1>3. (CHOOSE m \in failing : \A l \in failing : m <= l) = n
  BY <1>1, <1>2
<1> QED BY <1>1, <1>3 DEF InitOutcome

\* Once every object is loaded, validate decides.
LEMMA AllLoaded ==
  ASSUME \A k \in Kinds : LoadStep(in, k) = "ok"
  PROVE  InitOutcome(in) = IF \E k \in Added(in) : ValidateFails(in, k) THEN "error" ELSE "ok"
<1>1. {n \in 1..12 : LoadStep(in, RuntimeConfig[n]) # "ok"} = {}
  BY ConfigKinds
<1> QED BY <1>1 DEF InitOutcome

LEMMA LoadOutcome == IInv /\ OutcomeInv /\ Load => OutcomeInv'
<1> SUFFICES ASSUME IInv, NEW k \in Kinds,
                    ReadFails(k) \/ AddFails(k) \/ AddSkips(k) \/ Adds(k)
             PROVE  OutcomeInv'
  BY DEF Load
<1>1. /\ phase = "load" /\ i \in 1..12 /\ k = RuntimeConfig[i] /\ in' = in
      /\ \A m \in 1..12 : m < i => LoadStep(in, RuntimeConfig[m]) = "ok"
  <2>1. phase = "load" /\ i <= Len(RuntimeConfig) /\ k = RuntimeConfig[i] /\ in' = in
    BY DEF ReadFails, AddFails, AddSkips, Adds, Loading
  <2>2. i \in 1..13 /\ ModelInv
    BY <2>1 DEF IInv, TypeOK
  <2>3. i \in 1..12
    BY <2>1, <2>2, ConfigKinds
  <2>4. ASSUME NEW m \in 1..12, m < i PROVE LoadStep(in, RuntimeConfig[m]) = "ok"
    <3>1. m \in 1..(i - 1)
      BY <2>3, <2>4
    <3>2. RuntimeConfig[m] \in LoadedKinds
      BY <2>1, <3>1 DEF LoadedKinds
    <3> QED BY <2>2, <3>2 DEF ModelInv
  <2> QED BY <2>1, <2>3, <2>4
<1>2. CASE ReadFails(k) \/ AddFails(k)
  <2>1. phase' = "error" /\ LoadStep(in, k) = "error"
    BY <1>2 DEF ReadFails, AddFails, LoadStep
  <2>2. InitOutcome(in) = "error"
    BY <1>1, <2>1, FirstFailure
  <2> QED BY <1>1, <2>1, <2>2 DEF OutcomeInv
<1>3. CASE AddSkips(k)
  <2>1. phase' = "load"
    BY <1>1, <1>3 DEF AddSkips
  <2> QED BY <2>1 DEF OutcomeInv
<1>4. CASE Adds(k)
  <2>1. /\ ~Malformed(in, k) /\ AddToModel(in, k) = "added"
        /\ object' = [object EXCEPT ![k] = AddedObject(in, k)]
        /\ phase' = IF object'[k] = "nil" THEN "panic" ELSE "load"
    BY <1>1, <1>4 DEF Adds
  <2>2. object'[k] = AddedObject(in, k)
    BY <2>1 DEF IInv, TypeOK
  <2>3. CASE object'[k] = "nil"
    <3>1. phase' = "panic" /\ LoadStep(in, k) = "panic"
      BY <2>1, <2>2, <2>3 DEF LoadStep
    <3>2. InitOutcome(in) = "panic"
      BY <1>1, <3>1, FirstFailure
    <3> QED BY <1>1, <3>1, <3>2 DEF OutcomeInv
  <2>4. CASE object'[k] # "nil"
    BY <2>1, <2>4 DEF OutcomeInv
  <2> QED BY <2>3, <2>4
<1> QED BY <1>2, <1>3, <1>4

\* One object passes validate.
LEMMA ReferOutcome ==
  ASSUME IInv, OutcomeInv, NEW k \in Kinds, NEW ks,
         Validating(k), Refer(k, ks), ~ValidateFails(in, k),
         k \in {"deployment", "db-statefulset"} => model \cap {"db-secret"} \subseteq ks,
         UNCHANGED <<in, j, object, name, model, runtimeObjects>>
  PROVE  OutcomeInv'
<1>1. /\ phase = "validate" /\ phase' = "validate" /\ i' = i + 1 /\ k = runtimeObjects[i]
      /\ references' = references \cup {<<k, name[t]>> : t \in ks}
  BY DEF Validating, Refer
<1>2. i \in 1..13 /\ runtimeObjects \in Seq(Kinds) /\ ModelInv
  BY <1>1 DEF IInv, TypeOK
<1>3. \A l : Validated(l) => Validated(l)'
  BY <1>1 DEF Validated
<1>4. Validated(k)'
  <2>1. ASSUME k \in {"deployment", "db-statefulset"}, "db-secret" \in model
        PROVE  <<k, "db-secret">> \in references'
    <3>1. "db-secret" \in ks /\ name["db-secret"] = "db-secret"
      BY <1>2, <2>1 DEF ModelInv
    <3> QED BY <1>1, <3>1
  <2> QED BY <2>1 DEF Validated
<1>5. ASSUME NEW n \in 1..Len(runtimeObjects), n < i + 1 PROVE Validated(runtimeObjects[n])'
  <2>1. n = i \/ n < i
    BY <1>2, <1>5
  <2>2. CASE n = i
    <3>1. runtimeObjects[n] = k /\ runtimeObjects'[n] = k
      BY <1>1, <2>2
    <3> QED BY <1>4, <3>1 DEF Validated
  <2>3. CASE n < i
    <3>1. Validated(runtimeObjects[n])
      BY <1>1, <2>3 DEF OutcomeInv
    <3> QED BY <1>1, <3>1 DEF Validated
  <2> QED BY <2>1, <2>2, <2>3
<1> QED BY <1>1, <1>5 DEF OutcomeInv

\* validate of one object fails.
LEMMA ReturnOutcome ==
  ASSUME IInv, NEW k \in Kinds, Validating(k), Return("error"), ValidateFails(in, k),
         UNCHANGED in
  PROVE  OutcomeInv'
<1>1. phase = "validate" /\ phase' = "error" /\ i <= Len(runtimeObjects) /\ k = runtimeObjects[i]
  BY DEF Validating, Return
<1>2. i \in 1..13 /\ runtimeObjects \in Seq(Kinds) /\ ModelInv /\ LoadedKinds = Kinds
  BY <1>1 DEF IInv, TypeOK, LoadedKinds
<1>3. k \in Added(in)
  <2>1. i \in DOMAIN runtimeObjects
    BY <1>1, <1>2
  <2>2. k \in Range(runtimeObjects)
    BY <1>1, <2>1 DEF Range
  <2> QED BY <1>2, <2>2 DEF ModelInv
<1>4. InitOutcome(in) = "error"
  BY <1>2, <1>3, AllLoaded DEF ModelInv
<1> QED BY <1>1, <1>4 DEF OutcomeInv

LEMMA ValidateOutcome == IInv /\ OutcomeInv /\ Validate => OutcomeInv'
<1> SUFFICES ASSUME IInv, OutcomeInv, Validate PROVE OutcomeInv'
  OBVIOUS
<1>1. phase = "validate" /\ UNCHANGED <<in, j, object, name, model, runtimeObjects>>
  BY DEF Validate, Validating, ValidateDeployment, ValidateDbSecret, ValidateDbStatefulSet,
         ValidateDynamicPlugins, ValidateRoute, ValidateOther
<1>2. /\ {"deployment", "service"} \subseteq model
      /\ IsLocalDbEnabled(in.spec) => "db-service" \in model
  BY <1>1, ModelComplete
<1>3. /\ "deployment" \in Kinds /\ "db-secret" \in Kinds /\ "db-statefulset" \in Kinds
      /\ "dynamic-plugins" \in Kinds /\ "route" \in Kinds
  BY DEF Kinds
<1>4. \A k \in Kinds \ {"deployment", "dynamic-plugins"} : ~ValidateFails(in, k)
  BY DEF ValidateFails
<1>5. CASE ValidateDeployment
  <2>1. /\ Validating("deployment")
        /\ IF ValidateFails(in, "deployment") THEN Return("error")
           ELSE Refer("deployment", Contributors \cup (model \cap {"db-secret"}))
    BY <1>5 DEF ValidateDeployment
  <2>2. CASE ValidateFails(in, "deployment")
    BY <1>1, <1>3, <2>1, <2>2, ReturnOutcome
  <2>3. CASE ~ValidateFails(in, "deployment")
    <3>1. model \cap {"db-secret"} \subseteq Contributors \cup (model \cap {"db-secret"})
      OBVIOUS
    <3> QED BY <1>1, <1>3, <2>1, <2>3, <3>1, ReferOutcome
  <2> QED BY <2>2, <2>3
<1>6. CASE ValidateDbSecret
  <2>1. Validating("db-secret") /\ \E ks : Refer("db-secret", ks)
    BY <1>2, <1>6 DEF ValidateDbSecret
  <2> QED BY <1>1, <1>3, <1>4, <2>1, ReferOutcome
<1>7. CASE ValidateDbStatefulSet
  <2>1. Validating("db-statefulset") /\ Refer("db-statefulset", model \cap {"db-secret"})
    BY <1>7 DEF ValidateDbStatefulSet
  <2> QED BY <1>1, <1>3, <1>4, <2>1, ReferOutcome
<1>8. CASE ValidateDynamicPlugins
  <2>1. /\ Validating("dynamic-plugins")
        /\ IF ValidateFails(in, "dynamic-plugins") THEN Return("error")
           ELSE Refer("dynamic-plugins", {})
    BY <1>2, <1>8 DEF ValidateDynamicPlugins
  <2> QED BY <1>1, <1>3, <2>1, ReturnOutcome, ReferOutcome
<1>9. CASE ValidateRoute
  <2>1. Validating("route") /\ Refer("route", {"service"})
    BY <1>2, <1>9 DEF ValidateRoute
  <2> QED BY <1>1, <1>3, <1>4, <2>1, ReferOutcome
<1>10. ASSUME NEW k \in Kinds, ValidateOther(k) PROVE OutcomeInv'
  <2>1. /\ Validating(k) /\ Refer(k, {}) /\ ~ValidateFails(in, k)
        /\ k \notin {"deployment", "db-statefulset"}
    BY <1>4, <1>10 DEF ValidateOther
  <2> QED BY <1>1, <2>1, ReferOutcome
<1> QED BY <1>5, <1>6, <1>7, <1>8, <1>9, <1>10 DEF Validate

LEMMA NextOutcome == IInv /\ OutcomeInv /\ [Next]_vars => OutcomeInv'
<1> SUFFICES ASSUME IInv, OutcomeInv, [Next]_vars PROVE OutcomeInv'
  OBVIOUS
<1>1. i \in 1..13 /\ runtimeObjects \in Seq(Kinds)
  BY DEF IInv, TypeOK
<1>2. CASE LoadEnds
  <2>1. phase' = "validate" /\ i' = 1
    BY <1>2 DEF LoadEnds
  <2>2. \A n \in 1..Len(runtimeObjects') : ~(n < 1)
    OBVIOUS
  <2> QED BY <2>1, <2>2 DEF OutcomeInv
<1>3. CASE ValidateEnds
  <2>1. /\ phase = "validate" /\ phase' = "sort" /\ i > Len(runtimeObjects)
        /\ UNCHANGED <<in, model, runtimeObjects, references>>
    BY <1>3 DEF ValidateEnds
  <2>2. \A k \in Range(runtimeObjects) : Validated(k)
    <3>1. DOMAIN runtimeObjects = 1..Len(runtimeObjects) /\ Len(runtimeObjects) \in Nat
      BY <1>1
    <3>2. \A n \in 1..Len(runtimeObjects) : Validated(runtimeObjects[n])
      BY <1>1, <2>1, <3>1 DEF OutcomeInv
    <3> QED BY <3>1, <3>2 DEF Range
  <2> QED BY <2>1, <2>2 DEF OutcomeInv, Validated
<1>4. CASE Sort \/ SortEnds
  <2>1. /\ phase = "sort" /\ phase' \in {"sort", "done"}
        /\ UNCHANGED <<in, model, references>>
    BY <1>4 DEF Sort, SwapDown, NextElement, Sorting, SortEnds
  <2>2. Range(runtimeObjects') = Range(runtimeObjects)
    <3>1. IInv'
      BY <1>4, SwapDownInv, NextElementInv, PhaseEndsInv DEF Sort
    <3>2. LoadedKinds' = Kinds /\ LoadedKinds = Kinds
      BY <2>1 DEF LoadedKinds
    <3> QED BY <2>1, <3>1, <3>2 DEF IInv, ModelInv
  <2> QED BY <2>1, <2>2 DEF OutcomeInv, Validated
<1>5. CASE UNCHANGED vars
  BY <1>5 DEF OutcomeInv, Validated, vars
<1> QED BY <1>2, <1>3, <1>4, <1>5, LoadOutcome, ValidateOutcome DEF Next, Returned

LEMMA AlwaysOutcome == Spec => []OutcomeInv
<1>1. Init => OutcomeInv
  BY DEF Init, OutcomeInv
<1> QED BY <1>1, NextOutcome, Inductive, PTL DEF Spec

(***************************************************************************)
(* Theorems: what a call returns.                                          *)
(***************************************************************************)

\* For every configuration and spec, the loops of InitObjects report the failure
\* of the closed form, and a success returns the objects of the closed form: what
\* Reconcile takes for the result of the call is what the loops compute.
THEOREM ClosedForm == Spec => []ComputesClosedForm
<1>1. IInv /\ OutcomeInv => ComputesClosedForm
  <2> SUFFICES ASSUME IInv, OutcomeInv PROVE ComputesClosedForm
    OBVIOUS
  <2>1. CASE phase = "done"
    <3>1. ModelInv /\ LoadedKinds = Kinds
      BY <2>1 DEF IInv, LoadedKinds
    <3>2. Range(runtimeObjects) = Added(in)
      BY <3>1 DEF ModelInv, Added
    <3>3. InitOutcome(in) = "ok"
      BY <2>1, <3>1, <3>2, AllLoaded DEF ModelInv, OutcomeInv, Validated
    <3> QED BY <2>1, <3>2, <3>3 DEF ComputesClosedForm, Applied, Ended
  <2>2. CASE phase # "done"
    BY <2>2 DEF ComputesClosedForm, OutcomeInv, Ended
  <2> QED BY <2>1, <2>2
<1> QED BY <1>1, Inductive, AlwaysOutcome, PTL

\* For every configuration and spec, the Backstage pod and the database pod of a
\* successful InitObjects read their credentials from the same secret.
THEOREM CredentialsAgree == Spec => []SameCredentials
<1>1. IInv /\ OutcomeInv => SameCredentials
  <2> SUFFICES ASSUME IInv, OutcomeInv, phase = "done", "db-statefulset" \in Applied
               PROVE  <<"deployment", "db-secret">> \in references
                        <=> <<"db-statefulset", "db-secret">> \in references
    BY DEF SameCredentials
  <2>1. ModelInv /\ LoadedKinds = Kinds
    BY DEF IInv, LoadedKinds
  <2>2. "deployment" \in Range(runtimeObjects)
    <3>1. "deployment" \in Added(in)
      BY <2>1, MandatoryAdded DEF ModelInv
    <3> QED BY <2>1, <3>1 DEF ModelInv, Added
  <2>3. \A k \in {"deployment", "db-statefulset"} :
          "db-secret" \in model => <<k, "db-secret">> \in references
    BY <2>2 DEF OutcomeInv, Validated, Applied
  <2>4. \A k \in {"deployment", "db-statefulset"} :
          <<k, "db-secret">> \in references => "db-secret" \in model
    BY <2>1 DEF ModelInv, ModelFields
  <2> QED BY <2>3, <2>4
<1> QED BY <1>1, Inductive, AlwaysOutcome, PTL
====================================================================================
