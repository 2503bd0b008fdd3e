------------------------------ MODULE ReconcileProofs ------------------------------
(* Theorems about Reconcile, for every set of specs, ConfigMaps and passwords,  *)
(* every default configuration and every budget of the environment.             *)
EXTENDS Reconcile, TLAPS

(***************************************************************************)
(* The order of applyObjects.                                              *)
(***************************************************************************)

\* Every kind has a rank: the position at which ApplyOrder holds it.
LEMMA RankOfKind == \A k \in Kinds : ApplyRank[k] \in 1..12 /\ ApplyOrder[ApplyRank[k]] = k
<1>1. \A k \in Kinds : \E n \in 1..12 : ApplyOrder[n] = k
  <2>1. /\ ApplyOrder[1] = "deployment" /\ ApplyOrder[2] = "service"
        /\ ApplyOrder[3] = "secret-files" /\ ApplyOrder[4] = "secret-envs"
        /\ ApplyOrder[5] = "route" /\ ApplyOrder[6] = "dynamic-plugins"
        /\ ApplyOrder[7] = "db-service" /\ ApplyOrder[8] = "db-secret"
        /\ ApplyOrder[9] = "configmap-files" /\ ApplyOrder[10] = "configmap-envs"
        /\ ApplyOrder[11] = "app-config" /\ ApplyOrder[12] = "db-statefulset"
    BY DEF ApplyOrder
  <2>2. \A n \in {1, 2, 3, 4, 5, 6, 7, 8, 9, 10, 11, 12} : n \in 1..12
    OBVIOUS
  <2> QED BY <2>1, <2>2 DEF Kinds
<1> QED BY <1>1 DEF ApplyRank

\* At most one object is the next one: applyObjects goes through a slice.
LEMMA OneIsNext ==
  ASSUME NEW S \in SUBSET Kinds, NEW k, NEW l, NextToApply(k, S), NextToApply(l, S)
  PROVE  k = l
<1>1. k \in Kinds /\ l \in Kinds
  BY DEF NextToApply
<1>2. ApplyRank[k] \in 1..12 /\ ApplyRank[l] \in 1..12
  BY <1>1, RankOfKind
<1>3. ApplyRank[k] <= ApplyRank[l] /\ ApplyRank[l] <= ApplyRank[k]
  BY DEF NextToApply
<1>4. ApplyRank[k] = ApplyRank[l]
  BY <1>2, <1>3
<1> QED BY <1>1, <1>4, RankOfKind

(***************************************************************************)
(* Types of the operators.                                                 *)
(***************************************************************************)

LEMMA AbsentType == Absent \in ObjType /\ NoExt \in ExtType
  BY WorkloadAssumption DEF Absent, NoExt, ObjType, ExtType

LEMMA NoObjectsType == NoObjects \in [Kinds -> ObjType]
  BY AbsentType DEF NoObjects

\* A merge patch of objects is an object, and so is the whole of patchObject.
LEMMA PatchedType ==
  ASSUME NEW lv \in ObjType, NEW b \in ObjType, NEW obj \in ObjType
  PROVE  Patched(lv, b, obj) \in ObjType
<1>1. Restored(obj, b) \in ObjType
  BY DEF Restored, ObjType
<1>2. ASSUME NEW r \in ObjType PROVE MergePatch(lv, b, r) \in ObjType
  <2>1. Merged(lv.app, b.app, r.app) \in Apps \cup {Nothing}
    BY <1>2 DEF Merged, ObjType
  <2>2. Merged(lv.refs, b.refs, r.refs) \in SUBSET Kinds
    BY <1>2 DEF Merged, ObjType
  <2>3. Merged(lv.ext, b.ext, r.ext) \in ExtType
    BY <1>2 DEF Merged, ObjType
  <2>4. (lv.entries \ (b.entries \ r.entries)) \cup (r.entries \ b.entries) \in SUBSET Entries
    BY <1>2 DEF ObjType
  <2>5. Merged(lv.owner, b.owner, r.owner) \in Nat
    BY <1>2 DEF Merged, ObjType
  <2>6. Merged(lv.label, b.label, r.label) \in BOOLEAN
    BY <1>2 DEF Merged, ObjType
  <2> QED BY <2>1, <2>2, <2>3, <2>4, <2>5, <2>6 DEF MergePatch, ObjType
<1> QED BY <1>1, <1>2 DEF Patched

\* The content of the raw configuration is one that was read.
LEMMA FileEntriesType ==
  ASSUME NEW spec \in Specs, NEW e \in ExtType, NEW k \in Kinds,
         \A c \in Range(spec.cms) : e[c] # Nothing
  PROVE  FileEntries(InitInput(spec, e), k, e, spec) \in SUBSET Entries
<1>1. CASE spec.raw
  <2>1. spec.cms \in Seq(ConfigMaps) /\ spec.cms # << >>
    BY <1>1, WorkloadAssumption DEF CrSpecType
  <2>2. Head(spec.cms) \in ConfigMaps /\ Head(spec.cms) \in Range(spec.cms)
    BY <2>1 DEF Range
  <2>3. e[Head(spec.cms)] \in CmValues
    BY <2>2 DEF ExtType
  <2> QED BY <2>3 DEF FileEntries, Entries
<1>2. CASE ~spec.raw
  <2>1. InitInput(spec, e).overlay[k] = "absent"
    BY <1>2 DEF InitInput
  <2> QED BY <2>1 DEF FileEntries, Entries
<1>3. spec.raw \in BOOLEAN
  BY WorkloadAssumption DEF CrSpecType
<1> QED BY <1>1, <1>2, <1>3

\* What InitObjects makes is an object.
LEMMA DesiredType ==
  ASSUME NEW spec \in Specs, NEW e \in ExtType, NEW k \in Kinds,
         NEW uid \in Nat, NEW password \in Passwords,
         \A c \in Range(spec.cms) : e[c] # Nothing
  PROVE  DesiredObject(k, spec, uid, e, password) \in ObjType
<1> DEFINE in == InitInput(spec, e)
<1>1. Added(in) \cap (PodContributors \cup {"db-secret"}) \in SUBSET Kinds
  BY DEF Added
<1>2. FileEntries(in, k, e, spec) \cup SecretEntries(k, spec, password) \in SUBSET Entries
  BY FileEntriesType DEF SecretEntries, Entries
<1>3. OwnerOf(uid) \in Nat
  BY WorkloadAssumption DEF OwnerOf
<1>4. spec.app \in Apps
  BY WorkloadAssumption DEF CrSpecType
<1> HIDE DEF in
<1> QED
  BY <1>1, <1>2, <1>3, <1>4, AbsentType DEF DesiredObject, ObjType, in

(***************************************************************************)
(* Type correctness.  It needs ReadBeforeUse: only then is the content of  *)
(* a raw configuration one of CmValues.                                    *)
(***************************************************************************)
TypeInv == TypeOK /\ ReadBeforeUse

LEMMA NewVersionType ==
  ASSUME NEW c \in CrType PROVE NewVersion(c) \in CrType
  BY DEF NewVersion, CrType

LEMMA CrUpdateType ==
  ASSUME NEW c \in CrType
  PROVE  /\ \A s \in Specs : [c EXCEPT !.spec = s] \in CrType
         /\ \A b \in BOOLEAN : [c EXCEPT !.exists = b] \in CrType
         /\ \A d \in Conditions : [c EXCEPT !.cond = d] \in CrType
  BY DEF CrType

LEMMA SpendType ==
  ASSUME NEW e \in Events, left \in [Events -> Nat], Spend(e)
  PROVE  left' \in [Events -> Nat]
  BY DEF Spend

LEMMA InitType == Init => TypeInv
<1> SUFFICES ASSUME Init PROVE TypeInv
  OBVIOUS
<1>1. cr \in CrType
  <2>1. /\ cr.exists = FALSE /\ cr.uid = 0 /\ cr.rv = 0 /\ cr.spec \in Specs
        /\ cr.cond = "none"
        /\ cr = [exists |-> cr.exists, uid |-> cr.uid, rv |-> cr.rv,
                 spec |-> cr.spec, cond |-> cr.cond]
    BY DEF Init
  <2>2. 0 \in Nat /\ 0 \in Nat /\ cr.cond \in Conditions
    BY <2>1, WorkloadAssumption DEF Conditions
  <2> QED BY <2>1, <2>2 DEF CrType
<1>2. cms \in ExtType /\ ext \in ExtType
  BY ReconcileAssumption, AbsentType DEF Init, ScenarioType
<1>3. left \in [Events -> Nat] /\ unread \in Seq(ConfigMaps)
  BY ReconcileAssumption DEF Init, ScenarioType
<1> QED
  BY <1>1, <1>2, <1>3, AbsentType, NoObjectsType DEF Init, TypeInv, TypeOK, ReadBeforeUse

\* The steps of users, the garbage collector, the informers: no call moves.
LEMMA EnvironmentType ==
  TypeInv /\ (Users \/ Collector \/ Informers) => TypeInv'
<1> SUFFICES ASSUME TypeInv, Users \/ Collector \/ Informers PROVE TypeInv'
  OBVIOUS
<1> USE WorkloadAssumption
<1>0. UNCHANGED callVars => ReadBeforeUse'
  BY DEF TypeInv, ReadBeforeUse, callVars
<1>1. ASSUME NEW s \in Specs, CreateCr(s) PROVE TypeInv'
  <2>1. cr' \in CrType
    BY <1>1 DEF CreateCr, Created, TypeInv, TypeOK, CrType, Conditions
  <2>2. left' \in [Events -> Nat]
    BY <1>1, SpendType DEF CreateCr, Events, TypeInv, TypeOK
  <2> QED BY <1>0, <1>1, <2>1, <2>2 DEF CreateCr, TypeInv, TypeOK, mgrVars, callVars
<1>2. ASSUME NEW s \in Specs, EditCr(s) PROVE TypeInv'
  <2>1. cr' \in CrType
    BY <1>2, CrUpdateType, NewVersionType DEF EditCr, Edited, TypeInv, TypeOK
  <2>2. left' \in [Events -> Nat]
    BY <1>2, SpendType DEF EditCr, Events, TypeInv, TypeOK
  <2> QED BY <1>0, <1>2, <2>1, <2>2 DEF EditCr, TypeInv, TypeOK, mgrVars, callVars
<1>3. CASE DeleteCr
  <2>1. cr' \in CrType
    BY <1>3, CrUpdateType, NewVersionType DEF DeleteCr, Deleted, TypeInv, TypeOK
  <2> QED BY <1>0, <1>3, <2>1 DEF DeleteCr, TypeInv, TypeOK, mgrVars, callVars
<1>4. ASSUME NEW c \in ConfigMaps, NEW v \in CmValues \cup {Nothing}, WriteConfigMap(c, v)
      PROVE TypeInv'
  <2>1. cms' \in ExtType
    BY <1>4 DEF WriteConfigMap, TypeInv, TypeOK, ExtType
  <2>2. left' \in [Events -> Nat]
    BY <1>4, SpendType DEF WriteConfigMap, Events, TypeInv, TypeOK
  <2> QED BY <1>0, <1>4, <2>1, <2>2 DEF WriteConfigMap, TypeInv, TypeOK, mgrVars, callVars
<1>5. ASSUME NEW k \in Kinds, Label(k) \/ Change(k) \/ Delete(k) PROVE TypeInv'
  <2>1. live' \in [Kinds -> ObjType]
    <3>1. live[k] \in ObjType
      BY DEF TypeInv, TypeOK
    <3>2. [live[k] EXCEPT !.label = TRUE] \in ObjType
      BY <3>1 DEF ObjType
    <3>3. [live[k] EXCEPT !.entries = {}] \in ObjType
      BY <3>1 DEF ObjType
    <3>4. \E obj \in ObjType : live' = [live EXCEPT ![k] = obj]
      BY <1>5, <3>2, <3>3, AbsentType, Zenon DEF Label, Change, Delete
    <3> QED BY <3>4 DEF TypeInv, TypeOK
  <2>2. left' \in [Events -> Nat]
    BY <1>5, SpendType DEF Label, Change, Delete, Events, TypeInv, TypeOK
  <2> QED
    BY <1>0, <1>5, <2>1, <2>2 DEF Label, Change, Delete, TypeInv, TypeOK, mgrVars, callVars
<1>6. ASSUME NEW k \in Kinds, CollectGarbage(k) PROVE TypeInv'
  <2>1. live' \in [Kinds -> ObjType]
    BY <1>6, AbsentType DEF CollectGarbage, TypeInv, TypeOK
  <2> QED BY <1>0, <1>6, <2>1 DEF CollectGarbage, TypeInv, TypeOK, mgrVars, callVars
<1>7. CASE SyncCr
  BY <1>0, <1>7 DEF SyncCr, TypeInv, TypeOK, apiVars, callVars
<1>8. ASSUME NEW k \in Kinds, SyncObject(k) PROVE TypeInv'
  <2>1. objCache' \in [Kinds -> ObjType]
    BY <1>8 DEF SyncObject, TypeInv, TypeOK
  <2> QED BY <1>0, <1>8, <2>1 DEF SyncObject, TypeInv, TypeOK, apiVars, callVars
<1> QED
  BY <1>1, <1>2, <1>3, <1>4, <1>5, <1>6, <1>7, <1>8 DEF Users, Collector, Informers

\* The ways a call of Reconcile ends.
LEMMA EndCallType ==
  TypeInv /\ EndCall =>
    /\ pc' = "idle" /\ failed' \in BOOLEAN /\ unread' \in Seq(ConfigMaps)
    /\ ext' \in ExtType /\ todo' \in SUBSET Kinds
    /\ desired' \in [Kinds -> ObjType] /\ base' \in ObjType /\ backstage' \in CrType
    /\ ReadBeforeUse'
<1> SUFFICES ASSUME TypeInv, EndCall
             PROVE  /\ pc' = "idle" /\ failed' \in BOOLEAN /\ unread' \in Seq(ConfigMaps)
                    /\ ext' \in ExtType /\ todo' \in SUBSET Kinds
                    /\ desired' \in [Kinds -> ObjType] /\ base' \in ObjType
                    /\ backstage' \in CrType /\ ReadBeforeUse'
  OBVIOUS
<1>1. pc' = "idle" /\ ReadBeforeUse'
  BY DEF EndCall, ReadBeforeUse
<1>2. failed' \in BOOLEAN /\ unread' \in Seq(ConfigMaps) /\ todo' \in SUBSET Kinds
  <2>1. failed' = FALSE /\ unread' = << >> /\ todo' = {}
    BY DEF EndCall
  <2>2. << >> \in Seq(ConfigMaps)
    OBVIOUS
  <2>3. failed' \in BOOLEAN
    BY <2>1
  <2>4. unread' \in Seq(ConfigMaps)
    BY <2>1, <2>2
  <2>5. todo' \in SUBSET Kinds
    BY <2>1
  <2> QED BY <2>3, <2>4, <2>5
<1>3. ext' \in ExtType /\ desired' \in [Kinds -> ObjType] /\ base' \in ObjType
  BY AbsentType, NoObjectsType DEF EndCall
<1>4. backstage' \in CrType
  BY DEF EndCall, TypeInv, TypeOK
<1> QED BY <1>1, <1>2, <1>3, <1>4

LEMMA RestartType ==
  ASSUME TypeInv, NEW c \in CrType, Restart(c)
  PROVE  /\ crCache' \in CrType /\ objCache' \in [Kinds -> ObjType] /\ queued' \in BOOLEAN
         /\ EndCall
<1>1. c.exists \in BOOLEAN
  BY DEF CrType
<1> QED BY <1>1, AbsentType DEF Restart, TypeInv, TypeOK

LEMMA ReturnType ==
  ASSUME TypeInv, NEW c \in CrType, Return(c)
  PROVE  /\ crCache' \in CrType /\ objCache' \in [Kinds -> ObjType] /\ queued' \in BOOLEAN
         /\ EndCall
<1>1. CASE pc = "panic"
  BY <1>1, RestartType DEF Return
<1>2. CASE pc # "panic"
  BY <1>2 DEF Return, TypeInv, TypeOK
<1> QED BY <1>1, <1>2

LEMMA ErrorType ==
  TypeInv /\ ErrorAndStatus =>
    failed' \in BOOLEAN /\ backstage' \in CrType /\ pc' = "status" /\ ReadBeforeUse'
  BY DEF TypeInv, TypeOK, ErrorAndStatus, CrType, Conditions, ReadBeforeUse

(***************************************************************************)
(* The steps of a call that hold no object.                                *)
(***************************************************************************)

\* Taking the request: the ConfigMaps still to read are those of the spec.
LEMMA GetType ==
  TypeInv /\ (CrGone \/ GetCrFails \/ GetCr) => TypeInv'
<1> SUFFICES ASSUME TypeInv, CrGone \/ GetCrFails \/ GetCr PROVE TypeInv'
  OBVIOUS
<1>1. CASE CrGone
  BY <1>1 DEF CrGone, TypeInv, TypeOK, ReadBeforeUse, apiVars, callVars
<1>2. CASE GetCrFails
  <2>1. left' \in [Events -> Nat]
    BY <1>2, SpendType DEF GetCrFails, Events, TypeInv, TypeOK
  <2> QED
    BY <1>2, <2>1 DEF GetCrFails, TypeInv, TypeOK, ReadBeforeUse, apiVars, mgrVars, callVars
<1>3. CASE GetCr
  <2>1. crCache \in CrType /\ crCache.spec \in Specs
    BY DEF TypeInv, TypeOK, CrType
  <2>2. [crCache EXCEPT !.cond = "DeployInProgress"] \in CrType
    BY <2>1 DEF CrType, Conditions
  <2>3. backstage' \in CrType
    BY <1>3, <2>1, <2>2 DEF GetCr
  <2>4. backstage'.spec = crCache.spec
    BY <1>3, <2>1 DEF GetCr, CrType
  <2>5. unread' = crCache.spec.cms /\ crCache.spec.cms \in Seq(ConfigMaps)
    BY <1>3, <2>1, WorkloadAssumption DEF GetCr, CrSpecType
  <2>6. ReadBeforeUse'
    BY <2>4, <2>5 DEF ReadBeforeUse
  <2>7. TypeOK'
    BY <1>3, <2>3, <2>5 DEF GetCr, TypeInv, TypeOK, apiVars
  <2> QED BY <2>6, <2>7 DEF TypeInv
<1> QED BY <1>1, <1>2, <1>3

\* preprocessSpec: a ConfigMap leaves unread only when its content is in ext.
LEMMA ReadType ==
  TypeInv /\ ReadConfigMap => TypeInv'
<1> SUFFICES ASSUME TypeInv, ReadConfigMap PROVE TypeInv'
  OBVIOUS
<1> DEFINE c == Head(unread)
<1>1. unread \in Seq(ConfigMaps) /\ unread # << >> /\ c \in ConfigMaps
  BY DEF ReadConfigMap, TypeInv, TypeOK
<1>2. CASE cms[c] # Nothing
  <2>1. /\ ext' = [ext EXCEPT ![c] = cms[c]] /\ unread' = Tail(unread)
        /\ pc' = pc /\ backstage' = backstage /\ failed' = failed
    BY <1>2 DEF ReadConfigMap
  <2>2. ext' \in ExtType /\ ext'[c] = cms[c]
        /\ \A d \in ConfigMaps : d # c => ext'[d] = ext[d]
    BY <1>1, <2>1 DEF TypeInv, TypeOK, ExtType
  <2>3. Tail(unread) \in Seq(ConfigMaps)
    BY <1>1
  <2>4. \A d \in Range(unread) : d = c \/ d \in Range(Tail(unread))
    <3> SUFFICES ASSUME NEW n \in 1..Len(unread), unread[n] # c
                 PROVE  unread[n] \in Range(Tail(unread))
      BY <1>1 DEF Range
    <3>1. n # 1 /\ n - 1 \in 1..Len(Tail(unread)) /\ Tail(unread)[n - 1] = unread[n]
      BY <1>1
    <3> QED BY <3>1, <2>3 DEF Range
  <2>5. ASSUME pc = "preprocess", NEW d \in Range(backstage.spec.cms)
        PROVE  d \in Range(Tail(unread)) \/ ext'[d] # Nothing
    <3>1. backstage.spec.cms \in Seq(ConfigMaps)
      BY WorkloadAssumption DEF TypeInv, TypeOK, CrType, CrSpecType
    <3>2. d \in ConfigMaps
      BY <3>1, <2>5 DEF Range
    <3>3. d \in Range(unread) \/ ext[d] # Nothing
      BY <2>5 DEF TypeInv, ReadBeforeUse
    <3> QED BY <1>2, <2>2, <2>4, <3>2, <3>3
  <2>6. ReadBeforeUse'
    BY <2>1, <2>5 DEF ReadBeforeUse
  <2>7. TypeOK'
    BY <2>1, <2>2, <2>3 DEF ReadConfigMap, TypeInv, TypeOK, apiVars, mgrVars
  <2> QED BY <2>6, <2>7 DEF TypeInv
<1>3. CASE cms[c] = Nothing
  <2>1. ErrorAndStatus /\ UNCHANGED <<ext, unread>>
    BY <1>3 DEF ReadConfigMap
  <2> QED BY <2>1, ErrorType DEF ReadConfigMap, TypeInv, TypeOK, apiVars, mgrVars
<1> QED BY <1>2, <1>3

\* InitObjects is called when all is read, so that DesiredType applies.
LEMMA InitModelType ==
  ASSUME TypeInv, NEW password \in Passwords, InitModel(password)
  PROVE  TypeInv'
<1> DEFINE spec == backstage.spec
           in   == InitInput(spec, ext)
           made == [k \in Kinds |->
                      IF k \in Added(in)
                      THEN DesiredObject(k, spec, backstage.uid, ext, password)
                      ELSE Absent]
<1>1. UNCHANGED <<apiVars, mgrVars, unread, ext, base, left>>
  BY DEF InitModel
<1>2. CASE todo' = Added(in) /\ desired' = made /\ pc' = "apply"
             /\ UNCHANGED <<backstage, failed>>
  <2>1. spec \in Specs /\ backstage.uid \in Nat /\ ext \in ExtType
    BY DEF TypeInv, TypeOK, CrType
  <2>2. \A c \in Range(spec.cms) : ext[c] # Nothing
    <3>1. pc = "preprocess" /\ unread = << >>
      BY DEF InitModel
    <3>2. Range(unread) = {}
      BY <3>1 DEF Range
    <3> QED BY <3>1, <3>2 DEF TypeInv, ReadBeforeUse
  <2>3. \A k \in Kinds : DesiredObject(k, spec, backstage.uid, ext, password) \in ObjType
    BY <2>1, <2>2, DesiredType
  <2>4. made \in [Kinds -> ObjType]
    BY <2>3, AbsentType
  <2>5. todo' \in SUBSET Kinds
    BY <1>2 DEF Added
  <2> HIDE DEF in, made
  <2> QED
    BY <1>1, <1>2, <2>4, <2>5
       DEF TypeInv, TypeOK, ReadBeforeUse, apiVars, mgrVars
<1>3. CASE ErrorAndStatus /\ UNCHANGED <<todo, desired>>
  BY <1>1, <1>3, ErrorType DEF TypeInv, TypeOK, apiVars, mgrVars
<1>4. CASE pc' = "panic" /\ UNCHANGED <<backstage, failed, todo, desired>>
  BY <1>1, <1>4 DEF TypeInv, TypeOK, ReadBeforeUse, apiVars, mgrVars
<1> QED BY <1>2, <1>3, <1>4 DEF InitModel

(***************************************************************************)
(* The steps of a call on the objects.                                     *)
(***************************************************************************)

\* applyObjects: an object is created as desired, or patched.
LEMMA ApplyType ==
  TypeInv /\ Apply => TypeInv'
<1> SUFFICES ASSUME TypeInv, NEW k \in todo,
                    CreateSecret(k) \/ GetObject(k) \/ CreateObject(k) \/ PatchObject(k)
             PROVE  TypeInv'
  BY DEF Apply
<1>0. k \in Kinds /\ todo \ {k} \in SUBSET Kinds
  BY DEF TypeInv, TypeOK
<1>1. live[k] \in ObjType /\ objCache[k] \in ObjType /\ desired[k] \in ObjType /\ base \in ObjType
  BY <1>0 DEF TypeInv, TypeOK
<1>2. \A obj \in ObjType : [live EXCEPT ![k] = obj] \in [Kinds -> ObjType]
  BY <1>0 DEF TypeInv, TypeOK
<1>3. CASE CreateSecret(k)
  <2>1. live' \in [Kinds -> ObjType]
    BY <1>1, <1>2, <1>3 DEF CreateSecret, TypeInv, TypeOK
  <2>2. base' \in ObjType
    BY <1>3, AbsentType DEF CreateSecret, TypeInv, TypeOK
  <2>3. pc' \in {"apply", "patch"} /\ todo' \in SUBSET Kinds
    BY <1>0, <1>3 DEF CreateSecret, Applying, TypeInv, TypeOK
  <2> QED
    BY <1>3, <2>1, <2>2, <2>3 DEF CreateSecret, TypeInv, TypeOK, ReadBeforeUse, mgrVars
<1>4. CASE GetObject(k)
  <2>1. base' \in ObjType
    BY <1>1, <1>4 DEF GetObject, CachedObject
  <2>2. pc' \in {"patch", "create"}
    BY <1>4 DEF GetObject
  <2> QED
    BY <1>4, <2>1, <2>2 DEF GetObject, TypeInv, TypeOK, ReadBeforeUse, apiVars, mgrVars
<1>5. CASE CreateObject(k)
  <2>1. CASE ~live[k].exists
    <3>1. live' \in [Kinds -> ObjType]
      BY <1>1, <1>2, <1>5, <2>1 DEF CreateObject
    <3> QED
      BY <1>0, <1>5, <2>1, <3>1 DEF CreateObject, TypeInv, TypeOK, ReadBeforeUse, mgrVars
  <2>2. CASE live[k].exists
    BY <1>5, <2>2, ErrorType DEF CreateObject, TypeInv, TypeOK, mgrVars
  <2> QED BY <2>1, <2>2
<1>6. CASE PatchObject(k)
  <2>1. CASE live[k].exists
    <3>1. live' = [live EXCEPT ![k] = Patched(live[k], base, desired[k])]
      BY <1>6, <2>1 DEF PatchObject
    <3>2. live' \in [Kinds -> ObjType]
      BY <1>1, <1>2, <3>1, PatchedType
    <3>3. todo' = todo \ {k} /\ pc' = "apply" /\ UNCHANGED <<backstage, failed>>
      BY <1>6, <2>1 DEF PatchObject
    <3>4. UNCHANGED <<cr, cms, mgrVars, unread, ext, desired, base, left>>
      BY <1>6 DEF PatchObject
    <3> QED
      BY <1>0, <3>2, <3>3, <3>4 DEF TypeInv, TypeOK, ReadBeforeUse, mgrVars
  <2>2. CASE ~live[k].exists
    BY <1>6, <2>2, ErrorType DEF PatchObject, TypeInv, TypeOK, mgrVars
  <2> QED BY <2>1, <2>2
<1> QED BY <1>3, <1>4, <1>5, <1>6

\* The end of applyObjects, and cleanObjects.
LEMMA CleanType ==
  TypeInv /\ (ApplyEnds \/ Clean \/ CleanEnds) => TypeInv'
<1> SUFFICES ASSUME TypeInv, ApplyEnds \/ Clean \/ CleanEnds PROVE TypeInv'
  OBVIOUS
<1>1. CASE ApplyEnds
  <2>1. CleanKinds(backstage.spec.decisions, IsOpenShift) \in SUBSET Kinds
    BY DEF CleanKinds, DbKinds, Kinds
  <2> QED
    BY <1>1, <2>1 DEF ApplyEnds, TypeInv, TypeOK, ReadBeforeUse, apiVars, mgrVars
<1>2. ASSUME NEW k \in todo, TryToDelete(k) PROVE TypeInv'
  <2>1. live' \in [Kinds -> ObjType] /\ todo' \in SUBSET Kinds
    BY <1>2, AbsentType DEF TryToDelete, TypeInv, TypeOK
  <2> QED
    BY <1>2, <2>1 DEF TryToDelete, TypeInv, TypeOK, ReadBeforeUse, mgrVars
<1>3. CASE CleanEnds
  <2>1. backstage' \in CrType
    BY <1>3, CrUpdateType DEF CleanEnds, TypeInv, TypeOK, Conditions
  <2> QED
    BY <1>3, <2>1 DEF CleanEnds, TypeInv, TypeOK, ReadBeforeUse, apiVars, mgrVars
<1> QED BY <1>1, <1>2, <1>3 DEF Clean

LEMMA CallFailsType ==
  TypeInv /\ CallFails => TypeInv'
<1> SUFFICES ASSUME TypeInv, CallFails PROVE TypeInv'
  OBVIOUS
<1>1. left' \in [Events -> Nat]
  BY SpendType DEF CallFails, Events, TypeInv, TypeOK
<1>2. failed' \in BOOLEAN /\ backstage' \in CrType /\ pc' = "status" /\ ReadBeforeUse'
  BY ErrorType DEF CallFails
<1>3. UNCHANGED <<apiVars, mgrVars, unread, ext, todo, desired, base>>
  BY DEF CallFails
<1> QED BY <1>1, <1>2, <1>3 DEF TypeInv, TypeOK, apiVars, mgrVars

\* The end of a call: the deferred status update, or the death of the process.
LEMMA EndType ==
  TypeInv /\ (UpdateStatus \/ StatusConflict \/ StatusFails \/ Crash) => TypeInv'
<1> SUFFICES ASSUME TypeInv, UpdateStatus \/ StatusConflict \/ StatusFails \/ Crash
             PROVE  TypeInv'
  OBVIOUS
<1>0. ASSUME cr' \in CrType, cms' \in ExtType, live' \in [Kinds -> ObjType],
             left' \in [Events -> Nat], EndCall,
             crCache' \in CrType, objCache' \in [Kinds -> ObjType], queued' \in BOOLEAN
      PROVE  TypeInv'
  BY <1>0, EndCallType DEF TypeInv, TypeOK
<1>1. CASE UpdateStatus
  <2>1. cr' = cr \/ cr' = NewVersion([cr EXCEPT !.cond = backstage.cond])
    BY <1>1 DEF UpdateStatus
  <2>2. backstage.cond \in Conditions
    BY DEF TypeInv, TypeOK, CrType
  <2>3. cr' \in CrType
    BY <2>1, <2>2, CrUpdateType, NewVersionType DEF TypeInv, TypeOK
  <2>4. Return(cr') /\ UNCHANGED <<cms, live, left>>
    BY <1>1 DEF UpdateStatus
  <2>5. /\ crCache' \in CrType /\ objCache' \in [Kinds -> ObjType]
        /\ queued' \in BOOLEAN /\ EndCall
    BY <2>3, <2>4, ReturnType
  <2> QED BY <1>0, <2>3, <2>4, <2>5 DEF TypeInv, TypeOK
<1>2. CASE StatusConflict
  BY <1>0, <1>2, ReturnType DEF StatusConflict, TypeInv, TypeOK, apiVars
<1>3. CASE StatusFails
  <2>1. left' \in [Events -> Nat]
    BY <1>3, SpendType DEF StatusFails, Events, TypeInv, TypeOK
  <2> QED BY <1>0, <1>3, <2>1, ReturnType DEF StatusFails, TypeInv, TypeOK, apiVars
<1>4. CASE Crash
  <2>1. left' \in [Events -> Nat]
    BY <1>4, SpendType DEF Crash, Events, TypeInv, TypeOK
  <2> QED BY <1>0, <1>4, <2>1, RestartType DEF Crash, TypeInv, TypeOK, apiVars
<1> QED BY <1>1, <1>2, <1>3, <1>4

(***************************************************************************)
(* The theorems on types.                                                  *)
(***************************************************************************)

LEMMA TypeInvariant == Spec => []TypeInv
<1>1. TypeInv /\ [Next]_vars => TypeInv'
  <2> SUFFICES ASSUME TypeInv, [Next]_vars PROVE TypeInv'
    OBVIOUS
  <2>1. CASE UNCHANGED vars
    BY <2>1 DEF TypeInv, TypeOK, ReadBeforeUse, vars
  <2>2. CASE Users \/ Collector \/ Informers
    BY <2>2, EnvironmentType
  <2>3. CASE Crash
    BY <2>3, EndType
  <2>4. CASE Reconciler
    BY <2>4, GetType, ReadType, InitModelType, ApplyType, CleanType, CallFailsType, EndType
       DEF Reconciler
  <2> QED BY <2>1, <2>2, <2>3, <2>4 DEF Next
<1> QED BY <1>1, InitType, PTL DEF Spec

\* Every reachable state has the types of TypeOK.
THEOREM TypeCorrect == Spec => []TypeOK
<1>1. TypeInv => TypeOK
  BY DEF TypeInv
<1> QED BY <1>1, TypeInvariant, PTL

\* preprocessSpec (controllers/spec_preprocessor.go:31-115) never lets a pass go
\* on without a ConfigMap that its spec names.
THEOREM ConfigMapsRead == Spec => []ReadBeforeUse
<1>1. TypeInv => ReadBeforeUse
  BY DEF TypeInv
<1> QED BY <1>1, TypeInvariant, PTL

(***************************************************************************)
(* The DB secret.  The object at hand is the first of todo; for Create and *)
(* Patch it is never the DB secret, which applyObjects does not read.      *)
(***************************************************************************)
AtHand ==
  pc \in {"create", "patch"} => \E k \in Kinds \ {"db-secret"} : NextToApply(k, todo)

LEMMA AtHandInvariant == Spec => []AtHand
<1>1. Init => AtHand
  BY DEF Init, AtHand
<1>2. TypeInv /\ AtHand /\ [Next]_vars => AtHand'
  <2> SUFFICES ASSUME TypeInv, AtHand, [Next]_vars PROVE AtHand'
    OBVIOUS
  <2>1. CASE UNCHANGED <<pc, todo>>
    BY <2>1 DEF AtHand
  <2>2. CASE pc' \notin {"create", "patch"}
    BY <2>2 DEF AtHand
  <2>3. ASSUME NEW k \in todo, CreateSecret(k) PROVE AtHand'
    <3>1. k \in Kinds /\ NextToApply(k, todo)
      BY <2>3 DEF TypeInv, TypeOK, CreateSecret, Applying
    <3>2. pc' = "apply" \/ (k # "db-secret" /\ todo' = todo)
      BY <2>3 DEF CreateSecret, Applying
    <3> QED BY <3>1, <3>2 DEF AtHand
  <2>4. ASSUME NEW k \in todo, GetObject(k) PROVE AtHand'
    <3>1. k \in Kinds /\ NextToApply(k, todo)
      BY <2>4 DEF TypeInv, TypeOK, GetObject, Applying
    <3>2. k # "db-secret" /\ todo' = todo
      BY <2>4 DEF GetObject, SecretKinds
    <3> QED BY <3>1, <3>2 DEF AtHand
  <2>5. CASE UNCHANGED vars \/ Users \/ Collector \/ Informers
    BY <2>1, <2>5
       DEF vars, callVars, Users, Collector, Informers, CreateCr, EditCr, DeleteCr,
           WriteConfigMap, Label, Change, Delete, CollectGarbage, SyncCr, SyncObject
  <2>6. CASE Crash
    BY <2>2, <2>6 DEF Crash, Restart, EndCall
  <2>7. CASE CrGone \/ GetCrFails
    BY <2>1, <2>7 DEF CrGone, GetCrFails, callVars
  <2>8. CASE GetCr
    BY <2>2, <2>8 DEF GetCr
  <2>9. CASE ReadConfigMap
    BY <2>2, <2>9 DEF ReadConfigMap, ErrorAndStatus
  <2>10. ASSUME NEW password \in Passwords, InitModel(password) PROVE AtHand'
    BY <2>2, <2>10 DEF InitModel, ErrorAndStatus
  <2>11. ASSUME NEW k \in todo, CreateObject(k) \/ PatchObject(k) PROVE AtHand'
    BY <2>2, <2>11 DEF CreateObject, PatchObject, ErrorAndStatus
  <2>12. CASE ApplyEnds \/ CleanEnds \/ CallFails
    BY <2>2, <2>12 DEF ApplyEnds, CleanEnds, CallFails, ErrorAndStatus
  <2>13. ASSUME NEW k \in todo, TryToDelete(k) PROVE AtHand'
    BY <2>2, <2>13 DEF TryToDelete
  <2>14. CASE UpdateStatus \/ StatusConflict \/ StatusFails
    BY <2>2, <2>14 DEF UpdateStatus, StatusConflict, StatusFails, Return, Restart, EndCall
  <2> QED
    BY <2>3, <2>4, <2>5, <2>6, <2>7, <2>8, <2>9, <2>10, <2>11, <2>12, <2>13, <2>14
       DEF Next, Reconciler, Apply, Clean
<1> QED BY <1>1, <1>2, TypeInvariant, PTL DEF Spec

\* The steps of Reconcile that touch the objects.
LEMMA ReconcilerWrites ==
  ASSUME Reconciler, live' # live
  PROVE  \E k \in todo : CreateSecret(k) \/ CreateObject(k) \/ PatchObject(k) \/ TryToDelete(k)
<1> SUFFICES ASSUME ~Clean,
                    ~\E k \in todo : CreateSecret(k) \/ CreateObject(k) \/ PatchObject(k)
             PROVE  UNCHANGED live
  BY DEF Clean
<1>1. CASE CrGone \/ GetCrFails \/ GetCr \/ ReadConfigMap
  BY <1>1 DEF CrGone, GetCrFails, GetCr, ReadConfigMap, apiVars
<1>2. CASE \E password \in Passwords : InitModel(password)
  BY <1>2 DEF InitModel, apiVars
<1>3. CASE \E k \in todo : GetObject(k)
  BY <1>3 DEF GetObject, apiVars
<1>4. CASE ApplyEnds \/ CleanEnds \/ CallFails
  BY <1>4 DEF ApplyEnds, CleanEnds, CallFails, apiVars
<1>5. CASE UpdateStatus \/ StatusConflict \/ StatusFails
  BY <1>5 DEF UpdateStatus, StatusConflict, StatusFails, apiVars
<1> QED BY <1>1, <1>2, <1>3, <1>4, <1>5 DEF Reconciler, Apply

\* Whatever the order of crashes, retries, edits and recreations of the CR, no
\* step of Reconcile replaces the password of an existing DB secret
\* (backstage_controller.go:154-163 against db-secret.go:81).
THEOREM DbSecretIsKept == Spec => DbSecretKept
<1> DEFINE s == "db-secret"
           A == live[s].exists /\ live'[s].exists /\ live'[s] # live[s] => ~Reconciler
<1>1. TypeInv /\ AtHand /\ [Next]_vars => [A]_vars
  <2> SUFFICES ASSUME TypeInv, AtHand, Reconciler,
                      live[s].exists, live'[s].exists, live'[s] # live[s]
               PROVE  FALSE
    OBVIOUS
  <2>0. live \in [Kinds -> ObjType] /\ s \in Kinds /\ todo \in SUBSET Kinds
    BY DEF TypeInv, TypeOK, Kinds
  <2>1. PICK k \in todo :
          CreateSecret(k) \/ CreateObject(k) \/ PatchObject(k) \/ TryToDelete(k)
    BY ReconcilerWrites
  <2>2. CASE CreateSecret(k)
    BY <2>0, <2>2 DEF CreateSecret
  <2>3. CASE CreateObject(k)
    BY <2>0, <2>3 DEF CreateObject
  <2>4. CASE PatchObject(k)
    <3>1. pc = "patch" /\ NextToApply(k, todo)
      BY <2>4 DEF PatchObject, Applying
    <3>2. k # s
      BY <2>0, <3>1, OneIsNext DEF AtHand
    <3> QED BY <2>0, <2>4, <3>2 DEF PatchObject
  <2>5. CASE TryToDelete(k)
    BY <2>0, <2>5 DEF TryToDelete, Absent
  <2> QED BY <2>1, <2>2, <2>3, <2>4, <2>5
<1> QED BY <1>1, TypeInvariant, AtHandInvariant, PTL DEF Spec, DbSecretKept

(***************************************************************************)
(* The labels of others: the patch never takes one away, even one that was *)
(* put on the object after the base of the patch had been read.            *)
(***************************************************************************)
LEMMA PatchKeepsLabel ==
  ASSUME NEW lv \in ObjType, NEW b \in ObjType, NEW obj \in ObjType, lv.label
  PROVE  Patched(lv, b, obj).label
<1>1. Restored(obj, b).label = (obj.label \/ b.label)
  BY DEF Restored, ObjType
<1>2. Patched(lv, b, obj).label = Merged(lv.label, b.label, obj.label \/ b.label)
  BY <1>1 DEF Patched, MergePatch
<1>3. b.label \in BOOLEAN /\ obj.label \in BOOLEAN
  BY DEF ObjType
<1> QED BY <1>2, <1>3 DEF Merged

\* patchObject (backstage_controller.go:203-223) keeps the labels and the
\* annotations of others on every object, in every interleaving.
THEOREM LabelsAreKept == Spec => OthersLabelsKept
<1> DEFINE A == (\E k \in Kinds : live[k].exists /\ live'[k].exists
                                    /\ live[k].label /\ ~live'[k].label) => ~Reconciler
<1>1. TypeInv /\ [Next]_vars => [A]_vars
  <2> SUFFICES ASSUME TypeInv, Reconciler, NEW l \in Kinds,
                      live[l].exists, live'[l].exists, live[l].label, ~live'[l].label
               PROVE  FALSE
    OBVIOUS
  <2>0. /\ live \in [Kinds -> ObjType] /\ desired \in [Kinds -> ObjType]
        /\ base \in ObjType /\ todo \in SUBSET Kinds
    BY DEF TypeInv, TypeOK
  <2>1. PICK k \in todo :
          CreateSecret(k) \/ CreateObject(k) \/ PatchObject(k) \/ TryToDelete(k)
    BY ReconcilerWrites
  <2>2. CASE CreateSecret(k)
    BY <2>0, <2>2 DEF CreateSecret
  <2>3. CASE CreateObject(k)
    BY <2>0, <2>3 DEF CreateObject
  <2>4. CASE PatchObject(k)
    <3>1. live' = live \/ live' = [live EXCEPT ![k] = Patched(live[k], base, desired[k])]
      BY <2>4 DEF PatchObject
    <3>2. k = l /\ live'[l] = Patched(live[l], base, desired[l])
      BY <2>0, <3>1
    <3> QED BY <2>0, <3>2, PatchKeepsLabel
  <2>5. CASE TryToDelete(k)
    BY <2>0, <2>5 DEF TryToDelete, Absent
  <2> QED BY <2>1, <2>2, <2>3, <2>4, <2>5
<1> QED BY <1>1, TypeInvariant, PTL DEF Spec, OthersLabelsKept
================================================================================
