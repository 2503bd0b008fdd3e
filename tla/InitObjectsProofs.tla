----------------------------- MODULE InitObjectsProofs -----------------------------
(* Theorems about InitObjects, for every set of inputs: any default and raw     *)
(* configuration, any spec, with and without OpenShift.                         *)
EXTENDS InitObjects, TLAPS

(***************************************************************************)
(* The registered objects.                                                 *)
(***************************************************************************)

LEMMA ConfigKinds ==
  /\ Len(RuntimeConfig) = 12
  /\ \A n \in 1..12 : RuntimeConfig[n] \in Kinds
  /\ \A k \in Kinds : \E n \in 1..12 : RuntimeConfig[n] = k
  /\ \A n \in 1..12 : RuntimeConfig[n] = "route" => n = 9
<1>1. /\ RuntimeConfig[1] = "app-config" /\ RuntimeConfig[2] = "configmap-envs"
      /\ RuntimeConfig[3] = "configmap-files" /\ RuntimeConfig[4] = "db-secret"
      /\ RuntimeConfig[5] = "db-service" /\ RuntimeConfig[6] = "db-statefulset"
      /\ RuntimeConfig[7] = "deployment" /\ RuntimeConfig[8] = "dynamic-plugins"
      /\ RuntimeConfig[9] = "route" /\ RuntimeConfig[10] = "secret-envs"
      /\ RuntimeConfig[11] = "secret-files" /\ RuntimeConfig[12] = "service"
      /\ Len(RuntimeConfig) = 12
  BY DEF RuntimeConfig
<1>2. 1..12 = {1, 2, 3, 4, 5, 6, 7, 8, 9, 10, 11, 12}
  OBVIOUS
<1>3. \A k \in Kinds : \E n \in 1..12 : RuntimeConfig[n] = k
  BY <1>1, <1>2 DEF Kinds
<1>4. \A n \in 1..12 : RuntimeConfig[n] \in Kinds
  BY <1>1, <1>2 DEF Kinds
<1>5. \A n \in 1..12 : RuntimeConfig[n] = "route" => n = 9
  BY <1>1, <1>2
<1> QED BY <1>1, <1>3, <1>4, <1>5

\* Swapping two elements keeps the elements.
LEMMA SwapKeepsRange ==
  ASSUME NEW S, NEW s \in Seq(S), NEW a \in 1..Len(s), NEW b \in 1..Len(s),
         NEW t \in Seq(S), Len(t) = Len(s), t[a] = s[b], t[b] = s[a],
         \A n \in 1..Len(s) : n \notin {a, b} => t[n] = s[n]
  PROVE  Range(t) = Range(s)
<1>1. DOMAIN t = 1..Len(s) /\ DOMAIN s = 1..Len(s)
  OBVIOUS
<1>2. \A n \in 1..Len(s) : t[n] = IF n = b THEN s[a] ELSE IF n = a THEN s[b] ELSE s[n]
  OBVIOUS
<1>3. Range(t) \subseteq Range(s)
  BY <1>1, <1>2 DEF Range
<1>4. Range(s) \subseteq Range(t)
  <2> SUFFICES ASSUME NEW n \in 1..Len(s) PROVE \E m \in 1..Len(s) : t[m] = s[n]
    <3>1. Range(s) = {s[n] : n \in 1..Len(s)} /\ Range(t) = {t[m] : m \in 1..Len(s)}
      BY <1>1 DEF Range
    <3> QED BY <3>1
  <2>1. CASE n = a
    BY <1>2, <2>1
  <2>2. CASE n = b
    BY <1>2, <2>2
  <2>3. CASE n # a /\ n # b
    BY <1>2, <2>3
  <2> QED BY <2>1, <2>2, <2>3
<1> QED BY <1>3, <1>4

LEMMA AppendRange ==
  ASSUME NEW S, NEW s \in Seq(S), NEW e \in S
  PROVE  /\ Append(s, e) \in Seq(S) /\ Len(Append(s, e)) = Len(s) + 1
         /\ Range(Append(s, e)) = Range(s) \cup {e}
<1>1. Append(s, e) \in Seq(S) /\ Len(Append(s, e)) = Len(s) + 1
  OBVIOUS
<1>2. /\ Append(s, e)[Len(s) + 1] = e
      /\ \A n \in 1..Len(s) : Append(s, e)[n] = s[n]
      /\ DOMAIN Append(s, e) = 1..(Len(s) + 1) /\ DOMAIN s = 1..Len(s)
  OBVIOUS
<1>3. Range(Append(s, e)) \subseteq Range(s) \cup {e}
  BY <1>2 DEF Range
<1>4. e \in Range(Append(s, e)) /\ Range(s) \subseteq Range(Append(s, e))
  BY <1>2 DEF Range
<1> QED BY <1>1, <1>3, <1>4

(***************************************************************************)
(* What addToModel adds.                                                   *)
(***************************************************************************)

\* Only the Route can be added without an object: see PanicsOnlyOnFullRoute.
LEMMA AddedIsNil ==
  ASSUME NEW k \in Kinds, AddToModel(in, k) = "added", AddedObject(in, k) = "nil"
  PROVE  /\ k = "route" /\ IsRouteEnabled(in.spec) /\ IsRouteEmpty(in.spec)
         /\ LoadedObject(in, "route") = "nil"
<1>1. LoadedObject(in, k) = "nil" /\ (k = "route" => ~SetsRoute(in))
  BY DEF AddedObject
<1>2. k = "route"
  BY <1>1 DEF Kinds, AddToModel, AppConfigAdd, ConfigMapEnvsAdd, ConfigMapFilesAdd,
              SecretEnvsAdd, SecretFilesAdd, DbSecretAdd, DbServiceAdd, DbStatefulSetAdd,
              DeploymentAdd, ServiceAdd, DynamicPluginsAdd
<1>3. IsRouteEnabled(in.spec)
  BY <1>1, <1>2 DEF AddToModel, RouteAdd
<1> QED BY <1>1, <1>2, <1>3 DEF SetsRoute

LEMMA ObjectTypes == \A k \in Kinds : AddedObject(in, k) \in ObjectType
  BY DEF AddedObject, LoadedObject, ObjectType

\* The objects of the local database are added only if it is enabled.
LEMMA DbAdded ==
  ASSUME NEW k \in DbKinds \cap Added(in) PROVE IsLocalDbEnabled(in.spec)
  BY DEF DbKinds, Added, AddToModel, DbSecretAdd, DbServiceAdd, DbStatefulSetAdd

\* The objects that others rely on: they are added or the call ends.
LEMMA MandatoryAdded ==
  ASSUME \A k \in Kinds : LoadStep(in, k) = "ok"
  PROVE  /\ "deployment" \in Added(in) /\ "service" \in Added(in)
         /\ IsLocalDbEnabled(in.spec) => "db-service" \in Added(in)
<1>1. \A k \in Kinds : AddToModel(in, k) # "error"
  BY DEF LoadStep
<1>2. "deployment" \in Kinds /\ "service" \in Kinds /\ "db-service" \in Kinds
  BY DEF Kinds
<1>3. AddToModel(in, "deployment") = "added"
  BY <1>1, <1>2 DEF AddToModel, DeploymentAdd
<1>4. AddToModel(in, "service") = "added"
  BY <1>1, <1>2 DEF AddToModel, ServiceAdd
<1>5. IsLocalDbEnabled(in.spec) => AddToModel(in, "db-service") = "added"
  BY <1>1, <1>2 DEF AddToModel, DbServiceAdd
<1> QED BY <1>2, <1>3, <1>4, <1>5 DEF Added

(***************************************************************************)
(* The inductive invariant: as long as the call goes on, the list holds    *)
(* the added ones of the kinds loaded so far, none of them has failed, the *)
(* model points to them, they have names, and references lead to them.     *)
(***************************************************************************)
LoadedKinds ==
  IF phase = "load" THEN {RuntimeConfig[n] : n \in 1..(i - 1)} ELSE Kinds

ModelInv ==
  /\ Range(runtimeObjects) = Added(in) \cap LoadedKinds
  /\ model = Range(runtimeObjects) \cap ModelFields
  /\ \A k \in LoadedKinds : LoadStep(in, k) = "ok"
  /\ \A k \in Range(runtimeObjects) : name[k] = k
  /\ \A r \in references : r[2] \in Range(runtimeObjects)

\* The bounds of the loops.
IndexInv ==
  /\ Len(runtimeObjects) <= 12
  /\ phase = "load" => Len(runtimeObjects) < i
  /\ phase = "sort" => j <= i

RefsNamed == \A r \in references : r[2] # ""

IInv ==
  /\ TypeOK /\ IndexInv /\ RefsNamed /\ PanicsOnlyOnFullRoute
  /\ phase \notin {"error", "panic"} => ModelInv

LEMMA InitInv == Init => IInv
<1> SUFFICES ASSUME Init PROVE IInv
  OBVIOUS
<1>1. /\ in \in InputType /\ phase = "load" /\ i = 1 /\ j = 0 /\ model = {}
      /\ runtimeObjects = << >> /\ references = {}
      /\ object \in [Kinds -> {"nil"}] /\ name \in [Kinds -> {""}]
  BY InputsAssumption DEF Init
<1>2. TypeOK
  <2>1. i \in 1..13 /\ j \in 0..12
    <3>1. i = 1 /\ j = 0
      BY <1>1
    <3> QED BY <3>1
  <2>2. runtimeObjects \in Seq(Kinds)
    <3>1. << >> \in Seq(Kinds)
      OBVIOUS
    <3> QED BY <1>1, <3>1
  <2>3. object \in [Kinds -> ObjectType] /\ name \in [Kinds -> Kinds \cup {""}]
    BY <1>1 DEF ObjectType
  <2> QED BY <1>1, <2>1, <2>2, <2>3 DEF TypeOK
<1>3. Range(runtimeObjects) = {} /\ LoadedKinds = {}
  <2>1. DOMAIN runtimeObjects = {} /\ 1..(i - 1) = {}
    <3>1. i = 1 /\ runtimeObjects = << >>
      BY <1>1
    <3> QED BY <3>1
  <2> QED BY <1>1, <2>1 DEF Range, LoadedKinds
<1>4. ModelInv
  BY <1>1, <1>3 DEF ModelInv
<1>5. IndexInv
  <2>1. i = 1 /\ phase = "load" /\ runtimeObjects = << >>
    BY <1>1
  <2>2. Len(runtimeObjects) = 0
    BY <2>1
  <2> QED BY <2>1, <2>2 DEF IndexInv
<1> QED BY <1>1, <1>2, <1>4, <1>5 DEF IInv, RefsNamed, PanicsOnlyOnFullRoute

\* A step that ends the call with an error.
LEMMA ErrorInv ==
  ASSUME IInv, phase' = "error",
         UNCHANGED <<in, i, j, object, name, model, runtimeObjects, references>>
  PROVE  IInv'
<1>1. TypeOK'
  BY DEF IInv, TypeOK, Ended
<1>2. IndexInv' /\ RefsNamed' /\ PanicsOnlyOnFullRoute'
  BY DEF IInv, IndexInv, RefsNamed, PanicsOnlyOnFullRoute
<1> QED BY <1>1, <1>2 DEF IInv

\* The next kind is loaded.
LEMMA LoadedNext ==
  ASSUME TypeOK, phase = "load", i <= 12, phase' = "load", i' = i + 1
  PROVE  LoadedKinds' = LoadedKinds \cup {RuntimeConfig[i]}
<1>1. i \in 1..12
  <2>1. i \in 1..13
    BY DEF TypeOK
  <2> QED BY <2>1
<1>2. 1..(i' - 1) = 1..(i - 1) \cup {i}
  BY <1>1
<1> QED BY <1>2 DEF LoadedKinds

LEMMA LoadInv == IInv /\ Load => IInv'
<1> SUFFICES ASSUME IInv, NEW k \in Kinds,
                    ReadFails(k) \/ AddFails(k) \/ AddSkips(k) \/ Adds(k)
             PROVE  IInv'
  BY DEF Load
<1>1. phase = "load" /\ i \in 1..12 /\ k = RuntimeConfig[i]
  <2>1. phase = "load" /\ i <= Len(RuntimeConfig) /\ k = RuntimeConfig[i]
    BY DEF ReadFails, AddFails, AddSkips, Adds, Loading
  <2>2. i \in 1..13
    BY DEF IInv, TypeOK
  <2> QED BY <2>1, <2>2, ConfigKinds
<1>2. TypeOK /\ IndexInv /\ RefsNamed /\ ModelInv
  BY <1>1 DEF IInv
<1>3. CASE ReadFails(k) \/ AddFails(k)
  BY <1>3, ErrorInv DEF ReadFails, AddFails
<1>4. CASE AddSkips(k)
  <2>1. /\ i' = i + 1
        /\ UNCHANGED <<in, phase, j, object, name, model, runtimeObjects, references>>
        /\ ~Malformed(in, k) /\ AddToModel(in, k) = "skipped"
    BY <1>4 DEF AddSkips
  <2>2. LoadedKinds' = LoadedKinds \cup {k}
    BY <1>1, <1>2, <2>1, LoadedNext
  <2>3. k \notin Added(in) /\ LoadStep(in, k) = "ok"
    BY <2>1 DEF Added, LoadStep
  <2>4. ModelInv'
    BY <1>2, <2>1, <2>2, <2>3 DEF ModelInv
  <2>5. TypeOK'
    <3>1. i' \in 1..13
      BY <1>1, <2>1
    <3> QED BY <1>2, <2>1, <3>1 DEF TypeOK
  <2>6. Len(runtimeObjects) < i + 1
    <3>1. runtimeObjects \in Seq(Kinds) /\ Len(runtimeObjects) < i
      BY <1>1, <1>2 DEF TypeOK, IndexInv
    <3>2. Len(runtimeObjects) \in Nat
      BY <3>1
    <3> QED BY <1>1, <3>1, <3>2
  <2>7. IndexInv' /\ RefsNamed' /\ PanicsOnlyOnFullRoute'
    BY <1>1, <1>2, <2>1, <2>6 DEF IndexInv, RefsNamed, PanicsOnlyOnFullRoute
  <2> QED BY <2>4, <2>5, <2>7 DEF IInv
<1>5. CASE Adds(k)
  <2>1. /\ ~Malformed(in, k) /\ AddToModel(in, k) = "added"
        /\ object' = [object EXCEPT ![k] = AddedObject(in, k)]
        /\ model' = model \cup ({k} \cap ModelFields)
        /\ runtimeObjects' = SetRuntimeObject(k)
        /\ UNCHANGED <<in, j, references>>
    BY <1>5 DEF Adds
  <2>2. k \in Added(in) /\ runtimeObjects \in Seq(Kinds) /\ Len(runtimeObjects) < i
    BY <1>1, <1>2, <2>1 DEF Added, TypeOK, IndexInv
  <2>3. /\ runtimeObjects' \in Seq(Kinds) /\ Len(runtimeObjects') <= i
        /\ Range(runtimeObjects') = Range(runtimeObjects) \cup {k}
    <3>1. CASE \E n \in DOMAIN runtimeObjects : runtimeObjects[n] = k
      <4>1. runtimeObjects' = runtimeObjects
        BY <2>1, <3>1 DEF SetRuntimeObject
      <4>2. k \in Range(runtimeObjects)
        BY <3>1 DEF Range
      <4>3. Len(runtimeObjects) \in Nat /\ i \in Nat
        BY <1>1, <2>2
      <4>4. Len(runtimeObjects') <= i
        BY <2>2, <4>1, <4>3
      <4> QED BY <2>2, <4>1, <4>2, <4>4
    <3>2. CASE ~\E n \in DOMAIN runtimeObjects : runtimeObjects[n] = k
      <4>1. runtimeObjects' = Append(runtimeObjects, k)
        BY <2>1, <3>2 DEF SetRuntimeObject
      <4>2. /\ runtimeObjects' \in Seq(Kinds)
            /\ Len(runtimeObjects') = Len(runtimeObjects) + 1
            /\ Range(runtimeObjects') = Range(runtimeObjects) \cup {k}
        BY <2>2, <4>1, AppendRange
      <4>3. Len(runtimeObjects) \in Nat /\ i \in Nat
        BY <1>1, <2>2
      <4>4. Len(runtimeObjects') <= i
        BY <2>2, <4>2, <4>3
      <4> QED BY <4>2, <4>4
    <3> QED BY <3>1, <3>2
  <2>4. object'[k] = AddedObject(in, k) /\ object' \in [Kinds -> ObjectType]
    BY <1>2, <2>1, ObjectTypes DEF TypeOK
  <2>5. model' \subseteq ModelFields
    BY <1>2, <2>1 DEF TypeOK
  <2>6. CASE object'[k] = "nil"
    <3>1. phase' = "panic" /\ UNCHANGED <<i, name>>
      BY <1>5, <2>6 DEF Adds
    <3>2. k = "route" /\ IsRouteEnabled(in.spec) /\ IsRouteEmpty(in.spec)
          /\ LoadedObject(in, "route") = "nil"
      BY <2>1, <2>4, <2>6, AddedIsNil
    <3>3. i = 9
      BY <1>1, <3>2, ConfigKinds
    <3>4. PanicsOnlyOnFullRoute'
      BY <2>1, <3>1, <3>2, <3>3 DEF PanicsOnlyOnFullRoute
    <3>5. TypeOK'
      BY <1>2, <2>1, <2>3, <2>4, <2>5, <3>1 DEF TypeOK, Ended
    <3>6. Len(runtimeObjects') <= 12
      BY <1>1, <2>3
    <3>7. IndexInv' /\ RefsNamed'
      BY <1>2, <2>1, <3>1, <3>6 DEF IndexInv, RefsNamed
    <3> QED BY <3>1, <3>4, <3>5, <3>7 DEF IInv
  <2>7. CASE object'[k] # "nil"
    <3>1. i' = i + 1 /\ name' = [name EXCEPT ![k] = k] /\ phase' = "load"
      BY <1>1, <1>5, <2>7 DEF Adds
    <3>2. LoadedKinds' = LoadedKinds \cup {k}
      BY <1>1, <1>2, <3>1, LoadedNext
    <3>3. LoadStep(in, k) = "ok"
      BY <2>1, <2>4, <2>7 DEF LoadStep
    <3>4. name'[k] = k /\ \A l \in Kinds : l # k => name'[l] = name[l]
      BY <1>2, <3>1 DEF TypeOK
    <3>5. Range(runtimeObjects) \subseteq Kinds
      BY <1>2 DEF ModelInv, Added
    <3>6. ModelInv'
      <4>1. Range(runtimeObjects') = Added(in') \cap LoadedKinds'
        BY <1>2, <2>1, <2>2, <2>3, <3>2 DEF ModelInv
      <4>2. model' = Range(runtimeObjects') \cap ModelFields
        BY <1>2, <2>1, <2>3 DEF ModelInv
      <4>3. \A l \in LoadedKinds' : LoadStep(in', l) = "ok"
        BY <1>2, <2>1, <3>2, <3>3 DEF ModelInv
      <4>4. \A l \in Range(runtimeObjects') : name'[l] = l
        BY <1>2, <2>3, <3>4, <3>5 DEF ModelInv
      <4>5. \A r \in references' : r[2] \in Range(runtimeObjects')
        BY <1>2, <2>1, <2>3 DEF ModelInv
      <4> QED BY <4>1, <4>2, <4>3, <4>4, <4>5 DEF ModelInv
    <3>7. i' \in 1..13 /\ name' \in [Kinds -> Kinds \cup {""}]
      <4>1. i' \in 1..13
        BY <1>1, <3>1
      <4>2. name \in [Kinds -> Kinds \cup {""}]
        BY <1>2 DEF TypeOK
      <4> QED BY <3>1, <4>1, <4>2
    <3>8. TypeOK'
      BY <1>2, <2>1, <2>3, <2>4, <2>5, <3>1, <3>7 DEF TypeOK
    <3>9. Len(runtimeObjects') <= 12 /\ Len(runtimeObjects') < i'
      <4>1. Len(runtimeObjects') \in Nat
        BY <2>3
      <4> QED BY <1>1, <2>3, <3>1, <4>1
    <3>10. IndexInv' /\ RefsNamed' /\ PanicsOnlyOnFullRoute'
      BY <1>2, <2>1, <3>1, <3>9 DEF IndexInv, RefsNamed, PanicsOnlyOnFullRoute
    <3> QED BY <3>6, <3>8, <3>10 DEF IInv
  <2> QED BY <2>6, <2>7
<1> QED BY <1>3, <1>4, <1>5


LEMMA LoadEndsInv == IInv /\ LoadEnds => IInv'
<1> SUFFICES ASSUME IInv, LoadEnds PROVE IInv'
  OBVIOUS
<1>1. /\ phase = "load" /\ phase' = "validate" /\ i' = 1
      /\ UNCHANGED <<in, j, object, name, model, runtimeObjects, references>>
  BY DEF LoadEnds
<1>2. TypeOK /\ IndexInv /\ RefsNamed /\ ModelInv
  BY <1>1 DEF IInv
<1>3. i = 13
  <2>1. i \in 1..13 /\ i > Len(RuntimeConfig)
    BY <1>2 DEF TypeOK, LoadEnds
  <2> QED BY <2>1, ConfigKinds
<1>4. LoadedKinds = Kinds /\ LoadedKinds' = Kinds
  <2>1. 1..(i - 1) = 1..12
    BY <1>3
  <2> QED BY <1>1, <2>1, ConfigKinds DEF LoadedKinds
<1>5. ModelInv'
  BY <1>1, <1>2, <1>4 DEF ModelInv
<1>6. TypeOK'
  <2>1. i' \in 1..13
    BY <1>1
  <2> QED BY <1>1, <1>2, <2>1 DEF TypeOK
<1>7. IndexInv' /\ RefsNamed' /\ PanicsOnlyOnFullRoute'
  BY <1>1, <1>2 DEF IndexInv, RefsNamed, PanicsOnlyOnFullRoute
<1> QED BY <1>5, <1>6, <1>7 DEF IInv

(***************************************************************************)
(* The second loop.                                                        *)
(***************************************************************************)

\* While validate runs, the objects it dereferences are in the model.
LEMMA ModelComplete ==
  ASSUME IInv, phase = "validate"
  PROVE  /\ {"deployment", "service"} \subseteq model
         /\ IsLocalDbEnabled(in.spec) => "db-service" \in model
<1>1. LoadedKinds = Kinds
  BY DEF LoadedKinds
<1>2. ModelInv
  BY DEF IInv
<1>3. \A k \in Kinds : LoadStep(in, k) = "ok"
  BY <1>1, <1>2 DEF ModelInv
<1>4. Range(runtimeObjects) = Added(in)
  BY <1>1, <1>2 DEF ModelInv, Added
<1>5. model = Added(in) \cap ModelFields
  BY <1>2, <1>4 DEF ModelInv
<1>6. /\ "deployment" \in Added(in) /\ "service" \in Added(in)
      /\ IsLocalDbEnabled(in.spec) => "db-service" \in Added(in)
  BY <1>3, MandatoryAdded
<1> QED BY <1>5, <1>6 DEF ModelFields

\* An object refers only to objects of the list.
LEMMA ReferInv ==
  ASSUME IInv, NEW k \in Kinds, NEW ks \in SUBSET Range(runtimeObjects),
         Validating(k), Refer(k, ks),
         UNCHANGED <<in, j, object, name, model, runtimeObjects>>
  PROVE  IInv'
<1>1. /\ phase = "validate" /\ phase' = "validate" /\ i' = i + 1
      /\ i <= Len(runtimeObjects)
      /\ references' = references \cup {<<k, name[t]>> : t \in ks}
  BY DEF Validating, Refer
<1>2. TypeOK /\ IndexInv /\ RefsNamed /\ ModelInv
  BY <1>1 DEF IInv
<1>3. \A t \in ks : name[t] = t /\ t \in Kinds /\ t \in Range(runtimeObjects)
  BY <1>2 DEF ModelInv, Added
<1>4. references' = references \cup {<<k, t>> : t \in ks}
  BY <1>1, <1>3
<1>5. "" \notin Kinds
  BY DEF Kinds
<1>6. RefsNamed' /\ \A r \in references' : r[2] \in Range(runtimeObjects)
  <2> SUFFICES ASSUME NEW r \in references' PROVE r[2] # "" /\ r[2] \in Range(runtimeObjects)
    BY DEF RefsNamed
  <2>1. CASE r \in references
    BY <1>2, <2>1 DEF RefsNamed, ModelInv
  <2>2. CASE r \notin references
    <3>1. PICK t \in ks : r = <<k, t>>
      BY <1>4, <2>2
    <3> QED BY <1>3, <1>5, <3>1
  <2> QED BY <2>1, <2>2
<1>7. ModelInv'
  BY <1>1, <1>2, <1>6 DEF ModelInv, LoadedKinds
<1>8. i' \in 1..13
  <2>1. i \in 1..13 /\ runtimeObjects \in Seq(Kinds) /\ Len(runtimeObjects) <= 12
    BY <1>2 DEF TypeOK, IndexInv
  <2>2. Len(runtimeObjects) \in Nat
    BY <2>1
  <2> QED BY <1>1, <2>1, <2>2
<1>9. references' \subseteq Kinds \X (Kinds \cup {""})
  <2>1. references \subseteq Kinds \X (Kinds \cup {""})
    BY <1>2 DEF TypeOK
  <2>2. \A t \in ks : <<k, t>> \in Kinds \X (Kinds \cup {""})
    BY <1>3
  <2> QED BY <1>4, <2>1, <2>2
<1>10. TypeOK'
  BY <1>1, <1>2, <1>8, <1>9 DEF TypeOK
<1>11. IndexInv' /\ PanicsOnlyOnFullRoute'
  BY <1>1, <1>2 DEF IndexInv, PanicsOnlyOnFullRoute
<1> QED BY <1>6, <1>7, <1>10, <1>11 DEF IInv

LEMMA ValidateInv == IInv /\ Validate => IInv'
<1> SUFFICES ASSUME IInv, Validate PROVE IInv'
  OBVIOUS
<1>1. phase = "validate" /\ UNCHANGED <<in, j, object, name, model, runtimeObjects>>
  BY DEF Validate, Validating, ValidateDeployment, ValidateDbSecret, ValidateDbStatefulSet,
         ValidateDynamicPlugins, ValidateRoute, ValidateOther
<1>2. model \subseteq Range(runtimeObjects)
  BY <1>1 DEF IInv, ModelInv
<1>3. /\ {"deployment", "service"} \subseteq model
      /\ IsLocalDbEnabled(in.spec) => "db-service" \in model
  BY <1>1, ModelComplete
<1>4. /\ "deployment" \in Kinds /\ "db-secret" \in Kinds /\ "db-statefulset" \in Kinds
      /\ "dynamic-plugins" \in Kinds /\ "route" \in Kinds
  BY DEF Kinds
<1>5. ASSUME Return("error") PROVE IInv'
  BY <1>1, <1>5, ErrorInv DEF Return
<1>6. CASE ValidateDeployment
  <2>1. /\ Validating("deployment")
        /\ \/ Return("error")
           \/ Refer("deployment", Contributors \cup (model \cap {"db-secret"}))
    BY <1>6 DEF ValidateDeployment
  <2>2. Contributors \cup (model \cap {"db-secret"}) \in SUBSET Range(runtimeObjects)
    BY <1>2 DEF Contributors
  <2> QED BY <1>1, <1>4, <1>5, <2>1, <2>2, ReferInv
<1>7. CASE ValidateDbSecret
  <2>1. /\ Validating("db-secret")
        /\ Refer("db-secret", {}) \/ Refer("db-secret", {"db-service"})
        /\ Refer("db-secret", {}) \/ "db-service" \in model
    BY <1>3, <1>7 DEF ValidateDbSecret
  <2>2. CASE Refer("db-secret", {})
    BY <1>1, <1>4, <2>1, <2>2, ReferInv
  <2>3. CASE Refer("db-secret", {"db-service"}) /\ "db-service" \in model
    <3>1. {"db-service"} \in SUBSET Range(runtimeObjects)
      BY <1>2, <2>3
    <3> QED BY <1>1, <1>4, <2>1, <2>3, <3>1, ReferInv
  <2> QED BY <2>1, <2>2, <2>3
<1>8. CASE ValidateDbStatefulSet
  <2>1. Validating("db-statefulset") /\ Refer("db-statefulset", model \cap {"db-secret"})
    BY <1>8 DEF ValidateDbStatefulSet
  <2>2. model \cap {"db-secret"} \in SUBSET Range(runtimeObjects)
    BY <1>2
  <2> QED BY <1>1, <1>4, <2>1, <2>2, ReferInv
<1>9. CASE ValidateDynamicPlugins
  <2>1. /\ Validating("dynamic-plugins")
        /\ Return("error") \/ Refer("dynamic-plugins", {})
    BY <1>3, <1>9 DEF ValidateDynamicPlugins
  <2> QED BY <1>1, <1>4, <1>5, <2>1, ReferInv
<1>10. CASE ValidateRoute
  <2>1. Validating("route") /\ Refer("route", {"service"})
    BY <1>3, <1>10 DEF ValidateRoute
  <2>2. {"service"} \in SUBSET Range(runtimeObjects)
    BY <1>2, <1>3
  <2> QED BY <1>1, <1>4, <2>1, <2>2, ReferInv
<1>11. ASSUME NEW k \in Kinds, ValidateOther(k) PROVE IInv'
  <2>1. Validating(k) /\ Refer(k, {})
    BY <1>11 DEF ValidateOther
  <2> QED BY <1>1, <2>1, ReferInv
<1> QED BY <1>6, <1>7, <1>8, <1>9, <1>10, <1>11 DEF Validate

(***************************************************************************)
(* The sort, and the ends of the phases.                                   *)
(***************************************************************************)

\* Only the indices and a phase that does not reload change, and the list at
\* most to one with the same elements.
LEMMA ReorderInv ==
  ASSUME IInv, phase \in {"validate", "sort"}, phase' \in {"validate", "sort", "done"},
         UNCHANGED <<in, object, name, model, references>>,
         i' \in 1..13, j' \in 0..12, phase' = "sort" => j' <= i',
         runtimeObjects' \in Seq(Kinds),
         Len(runtimeObjects') = Len(runtimeObjects),
         Range(runtimeObjects') = Range(runtimeObjects)
  PROVE  IInv'
<1>1. TypeOK /\ IndexInv /\ RefsNamed /\ ModelInv
  BY DEF IInv
<1>2. TypeOK'
  BY <1>1 DEF TypeOK, Ended
<1>3. ModelInv'
  BY <1>1 DEF ModelInv, LoadedKinds
<1>4. IndexInv' /\ RefsNamed' /\ PanicsOnlyOnFullRoute'
  BY <1>1 DEF IndexInv, RefsNamed, PanicsOnlyOnFullRoute
<1> QED BY <1>2, <1>3, <1>4 DEF IInv

LEMMA SwapDownInv == IInv /\ SwapDown => IInv'
<1> SUFFICES ASSUME IInv, SwapDown PROVE IInv'
  OBVIOUS
<1>1. /\ phase = "sort" /\ i <= Len(runtimeObjects) /\ j > 1 /\ j' = j - 1
      /\ runtimeObjects' = [runtimeObjects EXCEPT ![j] = runtimeObjects[j - 1],
                                                  ![j - 1] = runtimeObjects[j]]
      /\ UNCHANGED <<in, phase, i, object, name, model, references>>
  BY DEF SwapDown, Sorting
<1>2. i \in 1..13 /\ j \in 0..12 /\ j <= i /\ runtimeObjects \in Seq(Kinds)
  BY <1>1 DEF IInv, TypeOK, IndexInv
<1>3. Len(runtimeObjects) \in Nat
  BY <1>2
<1>4. j \in 1..Len(runtimeObjects) /\ j - 1 \in 1..Len(runtimeObjects)
  BY <1>1, <1>2, <1>3
<1>5. /\ runtimeObjects' \in Seq(Kinds) /\ Len(runtimeObjects') = Len(runtimeObjects)
      /\ Range(runtimeObjects') = Range(runtimeObjects)
  <2>1. /\ runtimeObjects' \in Seq(Kinds) /\ Len(runtimeObjects') = Len(runtimeObjects)
        /\ runtimeObjects'[j] = runtimeObjects[j - 1]
        /\ runtimeObjects'[j - 1] = runtimeObjects[j]
        /\ \A n \in 1..Len(runtimeObjects) :
             n \notin {j, j - 1} => runtimeObjects'[n] = runtimeObjects[n]
    BY <1>1, <1>2, <1>4
  <2>2. Range(runtimeObjects') = Range(runtimeObjects)
    BY <1>2, <1>4, <2>1, SwapKeepsRange
  <2> QED BY <2>1, <2>2
<1>6. i' \in 1..13 /\ j' \in 0..12 /\ j' <= i'
  BY <1>1, <1>2
<1> QED BY <1>1, <1>5, <1>6, ReorderInv

LEMMA NextElementInv == IInv /\ NextElement => IInv'
<1> SUFFICES ASSUME IInv, NextElement PROVE IInv'
  OBVIOUS
<1>1. /\ phase = "sort" /\ i <= Len(runtimeObjects)
      /\ i' = i + 1 /\ j' = IF i < 12 THEN i + 1 ELSE j
      /\ UNCHANGED <<in, phase, object, name, model, runtimeObjects, references>>
  BY DEF NextElement, Sorting
<1>2. /\ i \in 1..13 /\ j \in 0..12 /\ j <= i /\ runtimeObjects \in Seq(Kinds)
      /\ Len(runtimeObjects) <= 12
  BY <1>1 DEF IInv, TypeOK, IndexInv
<1>3. Len(runtimeObjects) \in Nat
  BY <1>2
<1>4. i' \in 1..13 /\ j' \in 0..12 /\ j' <= i'
  BY <1>1, <1>2, <1>3
<1> QED BY <1>1, <1>2, <1>4, ReorderInv

LEMMA PhaseEndsInv == IInv /\ (ValidateEnds \/ SortEnds) => IInv'
<1> SUFFICES ASSUME IInv, ValidateEnds \/ SortEnds PROVE IInv'
  OBVIOUS
<1>1. runtimeObjects \in Seq(Kinds) /\ i \in 1..13 /\ j \in 0..12
  BY DEF IInv, TypeOK
<1>2. CASE ValidateEnds
  <2>1. /\ phase = "validate" /\ phase' = "sort" /\ i' = 2 /\ j' = 2
        /\ UNCHANGED <<in, object, name, model, runtimeObjects, references>>
    BY <1>2 DEF ValidateEnds
  <2>2. i' \in 1..13 /\ j' \in 0..12 /\ j' <= i'
    BY <2>1
  <2> QED BY <1>1, <2>1, <2>2, ReorderInv
<1>3. CASE SortEnds
  <2>1. /\ phase = "sort" /\ phase' = "done"
        /\ UNCHANGED <<in, i, j, object, name, model, runtimeObjects, references>>
    BY <1>3 DEF SortEnds
  <2> QED BY <1>1, <2>1, ReorderInv
<1> QED BY <1>2, <1>3

LEMMA StutterInv == IInv /\ UNCHANGED vars => IInv'
  BY DEF IInv, TypeOK, IndexInv, RefsNamed, PanicsOnlyOnFullRoute, ModelInv, LoadedKinds, vars

LEMMA Inductive == Spec => []IInv
<1>1. IInv /\ [Next]_vars => IInv'
  BY LoadInv, LoadEndsInv, ValidateInv, PhaseEndsInv, SwapDownInv, NextElementInv, StutterInv
     DEF Next, Sort, Returned
<1> QED BY <1>1, InitInv, PTL DEF Spec

(***************************************************************************)
(* The theorems.                                                           *)
(***************************************************************************)

\* The state of the three phases of InitObjects is always of its type: the list
\* holds registered objects only, and no loop index leaves its bounds.
THEOREM TypeCorrect == Spec => []TypeOK
<1>1. IInv => TypeOK
  BY DEF IInv
<1> QED BY <1>1, Inductive, PTL

\* For every configuration and spec, a nil dereference in InitObjects is the one
\* of setMetaInfo on the Route: validate never reads a nil model pointer.
THEOREM PanicIsFullRoute == Spec => []PanicsOnlyOnFullRoute
<1>1. IInv => PanicsOnlyOnFullRoute
  BY DEF IInv
<1> QED BY <1>1, Inductive, PTL

\* For every configuration and spec, validate refers to objects by names that
\* setMetaInfo has set, and a successful InitObjects returns the target of every
\* reference among the objects to apply.
THEOREM NoDanglingReference == Spec => []ReferencesClosed
<1>1. IInv => ReferencesClosed
  BY DEF IInv, ReferencesClosed, RefsNamed, ModelInv, Applied
<1> QED BY <1>1, Inductive, PTL

\* For every configuration and spec, no object of the database that cleanObjects
\* deletes for a CR is among the objects that the same reconcile applies.
THEOREM DisabledIsNotApplied == Spec => []AppliedNotCleaned
<1>1. IInv => AppliedNotCleaned
  <2> SUFFICES ASSUME IInv, phase = "done",
                      NEW k \in Applied \cap CleanKinds(in.spec, in.openshift), k # "route"
               PROVE  FALSE
    BY DEF AppliedNotCleaned
  <2>1. k \in DbKinds /\ ~IsLocalDbEnabled(in.spec)
    BY DEF CleanKinds
  <2>2. k \in Added(in)
    BY DEF IInv, ModelInv, Applied
  <2> QED BY <2>1, <2>2, DbAdded
<1> QED BY <1>1, Inductive, PTL
====================================================================================
