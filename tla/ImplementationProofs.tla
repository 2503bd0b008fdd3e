--------------------------- MODULE ImplementationProofs ---------------------------
(* Reconcile implements DesiredState, for every set of specs, ConfigMaps and    *)
(* passwords, every default configuration, and every number of edits, label     *)
(* changes, failing calls and crashes.                                          *)
EXTENDS ReconcileProofs

(***************************************************************************)
(* The definitions of Workload that DesiredState uses are those that       *)
(* Reconcile uses.                                                         *)
(***************************************************************************)
LEMMA SameAdded ==
  ASSUME NEW in PROVE Abstract!Added(in) = Added(in)
<1>1. Abstract!Kinds = Kinds
  BY DEF Abstract!Kinds, Kinds
<1>2. ASSUME NEW k PROVE Abstract!LoadedObject(in, k) = LoadedObject(in, k)
  BY DEF Abstract!LoadedObject, LoadedObject
<1>3. Abstract!IsLocalDbEnabled(in.spec) = IsLocalDbEnabled(in.spec)
  BY DEF Abstract!IsLocalDbEnabled, IsLocalDbEnabled
<1>4. Abstract!IsRouteEnabled(in.spec) = IsRouteEnabled(in.spec)
  BY DEF Abstract!IsRouteEnabled, IsRouteEnabled
<1>5. /\ Abstract!AppConfigAdd(in) = AppConfigAdd(in)
      /\ Abstract!ConfigMapEnvsAdd(in) = ConfigMapEnvsAdd(in)
      /\ Abstract!ConfigMapFilesAdd(in) = ConfigMapFilesAdd(in)
      /\ Abstract!SecretEnvsAdd(in) = SecretEnvsAdd(in)
      /\ Abstract!SecretFilesAdd(in) = SecretFilesAdd(in)
  BY <1>2
     DEF Abstract!AppConfigAdd, AppConfigAdd, Abstract!ConfigMapEnvsAdd, ConfigMapEnvsAdd,
         Abstract!ConfigMapFilesAdd, ConfigMapFilesAdd, Abstract!SecretEnvsAdd, SecretEnvsAdd,
         Abstract!SecretFilesAdd, SecretFilesAdd
<1>6. /\ Abstract!DbSecretAdd(in) = DbSecretAdd(in)
      /\ Abstract!DbServiceAdd(in) = DbServiceAdd(in)
      /\ Abstract!DbStatefulSetAdd(in) = DbStatefulSetAdd(in)
  BY <1>2, <1>3
     DEF Abstract!DbSecretAdd, DbSecretAdd, Abstract!DbServiceAdd, DbServiceAdd,
         Abstract!DbStatefulSetAdd, DbStatefulSetAdd
<1>7. /\ Abstract!DeploymentAdd(in) = DeploymentAdd(in)
      /\ Abstract!ServiceAdd(in) = ServiceAdd(in)
      /\ Abstract!DynamicPluginsAdd(in) = DynamicPluginsAdd(in)
      /\ Abstract!RouteAdd(in) = RouteAdd(in)
  BY <1>2, <1>4
     DEF Abstract!DeploymentAdd, DeploymentAdd, Abstract!ServiceAdd, ServiceAdd,
         Abstract!DynamicPluginsAdd, DynamicPluginsAdd, Abstract!RouteAdd, RouteAdd
<1>8. ASSUME NEW k PROVE Abstract!AddToModel(in, k) = AddToModel(in, k)
  BY <1>5, <1>6, <1>7 DEF Abstract!AddToModel, AddToModel
<1> QED BY <1>1, <1>8 DEF Abstract!Added, Added

LEMMA SameData ==
  /\ Abstract!Kinds = Kinds /\ Abstract!SecretKinds = SecretKinds
  /\ Abstract!DbKinds = DbKinds /\ Abstract!PodContributors = PodContributors
  /\ Abstract!NoExt = NoExt /\ Abstract!Absent = Absent /\ Abstract!NoObjects = NoObjects
  /\ Abstract!ExtType = ExtType /\ Abstract!Conditions = Conditions
<1>1. Abstract!Kinds = Kinds /\ Abstract!NoExt = NoExt
  BY DEF Abstract!Kinds, Kinds, Abstract!NoExt, NoExt
<1>2. Abstract!Absent = Absent
  BY <1>1 DEF Abstract!Absent, Absent
<1> QED
  BY <1>1, <1>2
     DEF Abstract!SecretKinds, SecretKinds, Abstract!DbKinds, DbKinds,
         Abstract!PodContributors, PodContributors, Abstract!NoObjects, NoObjects,
         Abstract!ExtType, ExtType, Abstract!Conditions, Conditions

LEMMA SameInput ==
  ASSUME NEW spec, NEW e PROVE Abstract!InitInput(spec, e) = InitInput(spec, e)
  BY SameData DEF Abstract!InitInput, InitInput

LEMMA SameDesired ==
  ASSUME NEW k, NEW spec, NEW uid, NEW e, NEW password
  PROVE  Abstract!DesiredObject(k, spec, uid, e, password) = DesiredObject(k, spec, uid, e, password)
<1>1. Abstract!Added(InitInput(spec, e)) = Added(InitInput(spec, e))
  BY SameAdded
<1>2. Abstract!FileEntries(InitInput(spec, e), k, e, spec) = FileEntries(InitInput(spec, e), k, e, spec)
  BY DEF Abstract!FileEntries, FileEntries
<1>3. Abstract!SecretEntries(k, spec, password) = SecretEntries(k, spec, password)
  BY DEF Abstract!SecretEntries, SecretEntries, Abstract!IsAuthSecretSpecified, IsAuthSecretSpecified
<1>4. Abstract!OwnerOf(uid) = OwnerOf(uid)
  BY DEF Abstract!OwnerOf, OwnerOf
<1> QED
  BY <1>1, <1>2, <1>3, <1>4, SameInput, SameData DEF Abstract!DesiredObject, DesiredObject

LEMMA SameReads ==
  ASSUME NEW spec PROVE Abstract!Reads(spec) = Reads(spec)
  BY SameData DEF Abstract!Reads, Reads, Abstract!Range, Range

LEMMA SameGone ==
  ASSUME NEW spec, NEW openshift
  PROVE  Abstract!CleanKinds(spec, openshift) = CleanKinds(spec, openshift)
  BY SameData
     DEF Abstract!CleanKinds, CleanKinds, Abstract!IsLocalDbEnabled, IsLocalDbEnabled,
         Abstract!IsRouteEnabled, IsRouteEnabled

LEMMA SameRealises ==
  ASSUME NEW obj, NEW k, NEW spec, NEW uid, NEW e
  PROVE  Abstract!Realises(obj, k, spec, uid, e) <=> Realises(obj, k, spec, uid, e)
<1>1. Abstract!OwnerOf(uid) = OwnerOf(uid)
  BY DEF Abstract!OwnerOf, OwnerOf
<1> QED
  BY <1>1, SameDesired, SameData DEF Abstract!Realises, Realises

LEMMA SameInSync ==
  ASSUME NEW objects, NEW spec, NEW uid, NEW e
  PROVE  Abstract!InSync(objects, spec, uid, e) <=> InSync(objects, spec, uid, e)
  BY SameRealises, SameAdded, SameInput, SameGone DEF Abstract!InSync, InSync

LEMMA SameVersions ==
  ASSUME NEW c
  PROVE  /\ Abstract!VersionOf(c) = VersionOf(c) /\ Abstract!NewVersion(c) = NewVersion(c)
         /\ Abstract!Deleted(c) = Deleted(c)
         /\ \A s \in Specs : Abstract!Created(c, s) = Created(c, s)
         /\ \A s \in Specs : Abstract!Edited(c, s) = Edited(c, s)
  BY DEF Abstract!VersionOf, VersionOf, Abstract!NewVersion, NewVersion, Abstract!Deleted,
         Deleted, Abstract!Created, Created, Abstract!Edited, Edited

(***************************************************************************)
(* The theorems are about a workload that others label but do not change   *)
(* or delete, informers that do not lag, and a CR that is created once:    *)
(* the runs stale_base and secret_of_former_cr show what happens else.     *)
(***************************************************************************)
Undisturbed ==
  /\ LaggingKinds = {}
  /\ \A s \in Scenarios :
       s.budget["create"] <= 1 /\ s.budget["change"] = 0 /\ s.budget["delete"] = 0

(***************************************************************************)
(* The inductive invariant, beside TypeInv and AtHand.                     *)
(***************************************************************************)
\* There is at most one CR, and nobody else changes its objects.
Alone ==
  /\ LaggingKinds = {} /\ left["change"] = 0 /\ left["delete"] = 0
  /\ cr.uid + left["create"] <= 1
  /\ \A c \in {cr, crCache, backstage} : c.uid <= cr.uid /\ (c.exists => c.uid = 1)

\* Copies of the CR are older than the CR or equal to it, up to the condition
\* that the call is going to write.
Copies ==
  /\ crCache.rv <= cr.rv /\ backstage.rv <= cr.rv
  /\ crCache.rv = cr.rv => crCache = cr
  /\ backstage.rv = cr.rv => VersionOf(backstage) = VersionOf(cr)
  /\ pc # "idle" => backstage.exists
  /\ pc \notin {"idle", "status"} /\ backstage.rv = cr.rv
       => backstage.cond \in {cr.cond, "DeployInProgress"}

\* preprocessSpec reads the ConfigMaps of the spec and no other.
Reading ==
  /\ pc = "idle" => ext = NoExt
  /\ pc = "preprocess" =>
       /\ Range(unread) \subseteq Range(backstage.spec.cms)
       /\ \A c \in ConfigMaps : ext[c] # Nothing => c \in Range(backstage.spec.cms)

\* All live objects are of the one CR, and only the Deployment refers to others.
Owned(obj, k) ==
  /\ IF obj.exists THEN obj.owner = OwnerOf(1) ELSE obj = Absent
  /\ k # "deployment" => obj.app = Nothing /\ obj.refs = {} /\ obj.ext = NoExt

Objects == \A k \in Kinds : Owned(live[k], k)

\* The base of a patch is the object as it still is, but for a label; that of a
\* secret is empty.
BaseOf(b, obj, k) ==
  IF k \in SecretKinds THEN b = Absent
  ELSE /\ b.app = obj.app /\ b.refs = obj.refs /\ b.ext = obj.ext
       /\ b.entries = obj.entries /\ b.owner = obj.owner /\ (b.label => obj.label)

Base ==
  pc = "patch" =>
    \A k \in Kinds : NextToApply(k, todo) /\ live[k].exists => BaseOf(base, live[k], k)

\* What the call makes, and what it deletes.
Made == Added(InitInput(backstage.spec, ext))
Gone == CleanKinds(backstage.spec.decisions, IsOpenShift)

\* The object is as wanted, unless it was collected after the CR had gone.
Done(k) ==
  /\ cr.exists => live[k].exists
  /\ live[k].exists => Realises(live[k], k, backstage.spec, backstage.uid, ext)

InPass == pc \in {"apply", "create", "patch"}

Read == InPass \/ pc = "clean" => ext \in Reads(backstage.spec) /\ "deployment" \in Made

Applied ==
  InPass =>
    /\ todo \subseteq Made
    /\ \E password \in Passwords : \A k \in Made :
         desired[k] = DesiredObject(k, backstage.spec, backstage.uid, ext, password)
    /\ \A k \in Made \ todo : Done(k)

Cleaned ==
  pc = "clean" =>
    /\ todo \subseteq Gone
    /\ \A k \in Made \ Gone : Done(k)
    /\ \A k \in Gone \ todo : ~live[k].exists

Finished ==
  pc = "status" /\ backstage.cond = "Deployed" =>
    /\ ext \in Reads(backstage.spec)
    /\ \A k \in Made \ Gone : Done(k)
    /\ \A k \in Gone : ~live[k].exists

(***************************************************************************)
(* Which steps write what.                                                 *)
(***************************************************************************)
Outside == Users \/ Collector \/ Informers

\* Steps outside Reconcile leave the call alone.
LEMMA OutsideLeavesCall == Outside => UNCHANGED callVars
  BY DEF Outside, Users, Collector, Informers, CreateCr, EditCr, DeleteCr, WriteConfigMap,
         Label, Change, Delete, CollectGarbage, SyncCr, SyncObject

\* Steps of Reconcile but the last one leave the CR and its cache alone.
LEMMA InsideLeavesCr ==
  ASSUME Reconciler, ~UpdateStatus, ~StatusConflict, ~StatusFails
  PROVE  cr' = cr /\ crCache' = crCache /\ cms' = cms
<1>1. CASE CrGone \/ GetCrFails \/ GetCr \/ ReadConfigMap
  BY <1>1 DEF CrGone, GetCrFails, GetCr, ReadConfigMap, apiVars, mgrVars
<1>2. CASE \E password \in Passwords : InitModel(password)
  BY <1>2 DEF InitModel, apiVars, mgrVars
<1>3. CASE Apply
  BY <1>3 DEF Apply, CreateSecret, GetObject, CreateObject, PatchObject, apiVars, mgrVars
<1>4. CASE ApplyEnds \/ Clean \/ CleanEnds \/ CallFails
  BY <1>4 DEF ApplyEnds, Clean, TryToDelete, CleanEnds, CallFails, apiVars, mgrVars
<1> QED BY <1>1, <1>2, <1>3, <1>4 DEF Reconciler

LEMMA CrWrites ==
  ASSUME [Next]_vars
  PROVE  \/ cr' = cr
         \/ \E s \in Specs : CreateCr(s) \/ EditCr(s)
         \/ DeleteCr
         \/ UpdateStatus /\ cr' = NewVersion([cr EXCEPT !.cond = backstage.cond])
<1>1. CASE Users
  BY <1>1 DEF Users, WriteConfigMap, Label, Change, Delete
<1>2. CASE Collector \/ Informers \/ Crash \/ StatusConflict \/ StatusFails \/ UNCHANGED vars
  BY <1>2 DEF Collector, Informers, CollectGarbage, SyncCr, SyncObject, Crash, StatusConflict,
              StatusFails, apiVars, vars
<1>3. CASE UpdateStatus
  BY <1>3 DEF UpdateStatus
<1> QED BY <1>1, <1>2, <1>3, InsideLeavesCr DEF Next, Reconciler

LEMMA CacheWrites ==
  ASSUME [Next]_vars PROVE crCache' \in {crCache, cr'}
<1>1. CASE Users \/ Collector \/ Informers \/ UNCHANGED vars
  BY <1>1 DEF Users, Collector, Informers, CreateCr, EditCr, DeleteCr, WriteConfigMap,
              Label, Change, Delete, CollectGarbage, SyncCr, SyncObject, mgrVars, apiVars, vars
<1>2. CASE Crash \/ UpdateStatus \/ StatusConflict \/ StatusFails
  BY <1>2 DEF Crash, UpdateStatus, StatusConflict, StatusFails, Return, Restart, mgrVars, apiVars
<1> QED BY <1>1, <1>2, InsideLeavesCr DEF Next, Reconciler

\* The copy of the CR is taken by GetCr; later steps change its condition, and
\* then only the status is left to write.
LEMMA CopyWrites ==
  ASSUME [Next]_vars
  PROVE  \/ backstage' = backstage /\ (pc' = pc \/ pc' = "idle" \/ pc \notin {"idle", "status"})
         \/ GetCr
         \/ pc # "idle" /\ pc' = "status"
               /\ \E d \in Conditions : backstage' = [backstage EXCEPT !.cond = d]
<1>1. CASE Outside \/ UNCHANGED vars
  BY <1>1, OutsideLeavesCall DEF callVars, vars
<1>2. CASE Crash \/ UpdateStatus \/ StatusConflict \/ StatusFails
  BY <1>2 DEF Crash, UpdateStatus, StatusConflict, StatusFails, Return, Restart, EndCall
<1>3. CASE CrGone \/ GetCrFails
  BY <1>3 DEF CrGone, GetCrFails, callVars
<1>4. CASE ReadConfigMap \/ CallFails
  BY <1>4 DEF ReadConfigMap, CallFails, ErrorAndStatus, Conditions
<1>5. CASE \E password \in Passwords : InitModel(password)
  BY <1>5 DEF InitModel, ErrorAndStatus, Conditions
<1>6. CASE Apply
  BY <1>6 DEF Apply, Applying, CreateSecret, GetObject, CreateObject, PatchObject,
              ErrorAndStatus, Conditions
<1>7. CASE ApplyEnds \/ Clean
  BY <1>7 DEF ApplyEnds, Clean, TryToDelete
<1>8. CASE CleanEnds
  BY <1>8 DEF CleanEnds, Conditions
<1> QED
  BY <1>1, <1>2, <1>3, <1>4, <1>5, <1>6, <1>7, <1>8 DEF Next, Outside, Reconciler

\* Budgets are only spent.
LEMMA LeftWrites ==
  ASSUME [Next]_vars PROVE left' = left \/ \E e \in Events : Spend(e)
<1>1. CASE Users \/ Collector \/ Informers \/ Crash \/ UNCHANGED vars
  BY <1>1 DEF Users, Collector, Informers, CreateCr, EditCr, DeleteCr, WriteConfigMap, Label,
              Change, Delete, CollectGarbage, SyncCr, SyncObject, Crash, vars, Events
<1>2. CASE CrGone \/ GetCrFails \/ GetCr \/ ReadConfigMap
  BY <1>2 DEF CrGone, GetCrFails, GetCr, ReadConfigMap, Events
<1>3. CASE \E password \in Passwords : InitModel(password)
  BY <1>3 DEF InitModel
<1>4. CASE Apply
  BY <1>4 DEF Apply, CreateSecret, GetObject, CreateObject, PatchObject
<1>5. CASE ApplyEnds \/ Clean \/ CleanEnds \/ CallFails
  BY <1>5 DEF ApplyEnds, Clean, TryToDelete, CleanEnds, CallFails, Events
<1>6. CASE UpdateStatus \/ StatusConflict \/ StatusFails
  BY <1>6 DEF UpdateStatus, StatusConflict, StatusFails, Events
<1> QED BY <1>1, <1>2, <1>3, <1>4, <1>5, <1>6 DEF Next, Reconciler

LEMMA LeftShrinks ==
  ASSUME TypeInv, [Next]_vars
  PROVE  \A e \in Events : left[e] \in Nat /\ left'[e] \in Nat /\ left'[e] <= left[e]
  BY LeftWrites DEF Spend, TypeInv, TypeOK

(***************************************************************************)
(* The CR and its copies.                                                  *)
(***************************************************************************)
LEMMA AloneStep ==
  ASSUME TypeInv, Alone, [Next]_vars PROVE Alone'
<1>0. /\ cr \in CrType /\ crCache \in CrType /\ backstage \in CrType
      /\ left \in [Events -> Nat]
  BY DEF TypeInv, TypeOK
<1>1. /\ left["create"] \in Nat /\ left'["create"] \in Nat /\ left'["create"] <= left["create"]
      /\ left'["change"] = 0 /\ left'["delete"] = 0
  BY LeftShrinks DEF Alone, Events
<1> DEFINE P == /\ cr.uid \in Nat /\ cr'.uid \in Nat /\ cr.uid <= cr'.uid
                /\ cr'.uid + left'["create"] <= 1
                /\ cr'.exists => cr'.uid = 1
           Q == /\ backstage'.uid \in {backstage.uid, crCache.uid}
                /\ backstage'.exists => backstage'.uid = 1
<1>2. P
  <2>1. CASE cr' = cr
    BY <1>0, <1>1, <2>1 DEF Alone, CrType
  <2>2. ASSUME NEW s \in Specs, CreateCr(s) PROVE P
    <3>1. left["create"] > 0 /\ left'["create"] = left["create"] - 1
      BY <1>0, <2>2 DEF CreateCr, Spend, Events
    <3>2. cr'.uid = cr.uid + 1
      BY <2>2 DEF CreateCr, Created
    <3> QED BY <1>0, <1>1, <3>1, <3>2 DEF Alone, CrType
  <2>3. ASSUME NEW s \in Specs, EditCr(s) PROVE P
    <3>1. cr'.uid = cr.uid /\ cr'.exists = cr.exists
      BY <1>0, <2>3 DEF EditCr, Edited, NewVersion, CrType
    <3> QED BY <1>0, <1>1, <3>1 DEF Alone, CrType
  <2>4. CASE DeleteCr
    <3>1. cr'.uid = cr.uid /\ cr'.exists = FALSE
      BY <1>0, <2>4 DEF DeleteCr, Deleted, NewVersion, CrType
    <3> QED BY <1>0, <1>1, <3>1 DEF Alone, CrType
  <2>5. CASE cr' = NewVersion([cr EXCEPT !.cond = backstage.cond])
    <3>1. cr'.uid = cr.uid /\ cr'.exists = cr.exists
      BY <1>0, <2>5 DEF NewVersion, CrType
    <3> QED BY <1>0, <1>1, <3>1 DEF Alone, CrType
  <2> QED BY <2>1, <2>2, <2>3, <2>4, <2>5, CrWrites
<1>3. crCache'.uid <= cr'.uid /\ (crCache'.exists => crCache'.uid = 1)
  BY <1>0, <1>2, CacheWrites DEF Alone, CrType
<1>4. Q
  <2>1. CASE backstage' = backstage
    BY <2>1 DEF Alone
  <2>2. CASE GetCr
    <3>1. backstage'.uid = crCache.uid /\ backstage'.exists = crCache.exists
      BY <1>0, <2>2 DEF GetCr, CrType
    <3> QED BY <3>1 DEF Alone
  <2>3. ASSUME NEW d \in Conditions, backstage' = [backstage EXCEPT !.cond = d] PROVE Q
    BY <1>0, <2>3 DEF Alone, CrType
  <2> QED BY <2>1, <2>2, <2>3, CopyWrites
<1>5. backstage'.uid <= cr'.uid
  BY <1>0, <1>2, <1>4 DEF Alone, CrType
<1> QED BY <1>1, <1>2, <1>3, <1>4, <1>5 DEF Alone

LEMMA NewVersionOf ==
  ASSUME [Next]_vars, TypeInv
  PROVE  cr' = cr \/ (cr'.rv = cr.rv + 1 /\ ((pc' = pc /\ UNCHANGED backstage) \/ pc' = "idle"))
<1>0. cr \in CrType
  BY DEF TypeInv, TypeOK
<1>1. ASSUME NEW s \in Specs, CreateCr(s) \/ EditCr(s)
      PROVE  cr'.rv = cr.rv + 1 /\ pc' = pc /\ UNCHANGED backstage
  <2>1. CASE CreateCr(s)
    BY <1>0, <2>1 DEF CreateCr, Created, CrType, callVars
  <2>2. CASE EditCr(s)
    BY <1>0, <2>2 DEF EditCr, Edited, NewVersion, CrType, callVars
  <2> QED BY <1>1, <2>1, <2>2
<1>2. ASSUME DeleteCr PROVE cr'.rv = cr.rv + 1 /\ pc' = pc /\ UNCHANGED backstage
  BY <1>0, <1>2 DEF DeleteCr, Deleted, NewVersion, CrType, callVars
<1>3. ASSUME UpdateStatus PROVE pc' = "idle"
  BY <1>3 DEF UpdateStatus, Return, Restart, EndCall
<1>4. ASSUME cr' = NewVersion([cr EXCEPT !.cond = backstage.cond]) PROVE cr'.rv = cr.rv + 1
  BY <1>0, <1>4 DEF NewVersion, CrType
<1> QED BY <1>1, <1>2, <1>3, <1>4, CrWrites

LEMMA CopiesStep ==
  ASSUME TypeInv, Copies, [Next]_vars PROVE Copies'
<1>0. /\ cr \in CrType /\ crCache \in CrType /\ backstage \in CrType
      /\ cr.rv \in Nat /\ crCache.rv \in Nat /\ backstage.rv \in Nat
  BY DEF TypeInv, TypeOK, CrType
<1>1. cr.rv <= cr'.rv /\ cr'.rv \in Nat /\ (cr' = cr \/ cr.rv < cr'.rv)
  BY <1>0, NewVersionOf
<1>2. crCache'.rv <= cr'.rv /\ (crCache'.rv = cr'.rv => crCache' = cr')
  BY <1>0, <1>1, CacheWrites DEF Copies
<1>3. CASE GetCr
  <2>1. cr' = cr /\ pc' = "preprocess" /\ crCache.exists
    BY <1>3 DEF GetCr, apiVars
  <2>2. backstage' = crCache \/ backstage' = [crCache EXCEPT !.cond = "DeployInProgress"]
    BY <1>3 DEF GetCr
  <2>3. VersionOf(backstage') = VersionOf(crCache) /\ backstage'.rv = crCache.rv
        /\ backstage'.exists = crCache.exists
        /\ backstage'.cond \in {crCache.cond, "DeployInProgress"}
    BY <1>0, <2>2 DEF VersionOf, CrType
  <2> QED BY <1>0, <1>2, <2>1, <2>3 DEF Copies
<1>4. ASSUME pc # "idle", pc' = "status", NEW d \in Conditions,
             backstage' = [backstage EXCEPT !.cond = d]
      PROVE  Copies'
  <2>1. VersionOf(backstage') = VersionOf(backstage) /\ backstage'.rv = backstage.rv
        /\ backstage'.exists = backstage.exists
    BY <1>0, <1>4 DEF VersionOf, CrType
  <2> QED BY <1>0, <1>1, <1>2, <1>4, <2>1 DEF Copies
<1>5. ASSUME backstage' = backstage,
             pc' = pc \/ pc' = "idle" \/ pc \notin {"idle", "status"}
      PROVE  Copies'
  <2>1. backstage'.rv <= cr'.rv
        /\ (backstage'.rv = cr'.rv => VersionOf(backstage') = VersionOf(cr'))
    BY <1>0, <1>1, <1>5 DEF Copies
  <2>2. pc' # "idle" => backstage'.exists
    BY <1>5 DEF Copies
  <2>3. ASSUME pc' \notin {"idle", "status"}, backstage'.rv = cr'.rv
        PROVE  backstage'.cond \in {cr'.cond, "DeployInProgress"}
    <3>1. cr' = cr
      BY <1>0, <1>1, <1>5, <2>3 DEF Copies
    <3>2. pc \notin {"idle", "status"}
      BY <1>5, <2>3
    <3> QED BY <1>5, <2>3, <3>1, <3>2 DEF Copies
  <2> QED BY <1>2, <2>1, <2>2, <2>3 DEF Copies
<1> QED BY <1>3, <1>4, <1>5, CopyWrites

\* The ConfigMaps read are those of the spec.
LEMMA ReadingStep ==
  ASSUME TypeInv, Reading, [Next]_vars PROVE Reading'
<1>1. CASE Outside \/ UNCHANGED vars
  BY <1>1, OutsideLeavesCall DEF callVars, vars, Reading
<1>2. CASE Crash \/ UpdateStatus \/ StatusConflict \/ StatusFails
  BY <1>2 DEF Crash, UpdateStatus, StatusConflict, StatusFails, Return, Restart, EndCall, Reading
<1>3. CASE CrGone \/ GetCrFails
  BY <1>3 DEF CrGone, GetCrFails, callVars, Reading
<1>4. CASE GetCr
  <2>1. backstage'.spec = crCache.spec
    BY <1>4 DEF GetCr, TypeInv, TypeOK, CrType
  <2>2. \A c \in ConfigMaps : ext'[c] = Nothing
    BY <1>4 DEF GetCr, Reading, NoExt
  <2> QED BY <1>4, <2>1, <2>2 DEF GetCr, Reading
<1>5. CASE ReadConfigMap
  <2>1. unread \in Seq(ConfigMaps) /\ unread # << >> /\ pc = "preprocess"
    BY <1>5 DEF ReadConfigMap, TypeInv, TypeOK
  <2>2. Head(unread) \in Range(unread) /\ Range(Tail(unread)) \subseteq Range(unread)
    BY <2>1 DEF Range
  <2>3. CASE cms[Head(unread)] # Nothing
    <3>1. ext' = [ext EXCEPT ![Head(unread)] = cms[Head(unread)]] /\ unread' = Tail(unread)
          /\ UNCHANGED <<pc, backstage, failed>>
      BY <1>5, <2>3 DEF ReadConfigMap
    <3> QED BY <2>1, <2>2, <3>1 DEF Reading, TypeInv, TypeOK, ExtType
  <2>4. CASE cms[Head(unread)] = Nothing
    BY <1>5, <2>4 DEF ReadConfigMap, ErrorAndStatus, Reading
  <2> QED BY <2>3, <2>4
<1>6. CASE \E password \in Passwords : InitModel(password)
  BY <1>6 DEF InitModel, ErrorAndStatus, Reading
<1>7. CASE Apply
  BY <1>7 DEF Apply, Applying, CreateSecret, GetObject, CreateObject, PatchObject,
              ErrorAndStatus, Reading
<1>8. CASE ApplyEnds \/ Clean \/ CleanEnds \/ CallFails
  BY <1>8 DEF ApplyEnds, Clean, TryToDelete, CleanEnds, CallFails, ErrorAndStatus, Reading
<1> QED
  BY <1>1, <1>2, <1>3, <1>4, <1>5, <1>6, <1>7, <1>8 DEF Next, Outside, Reconciler

(***************************************************************************)
(* The objects.                                                            *)
(***************************************************************************)

LEMMA SameFields ==
  ASSUME NEW a \in ObjType, NEW b \in ObjType, a.exists = b.exists, a.app = b.app,
         a.refs = b.refs, a.ext = b.ext, a.entries = b.entries, a.owner = b.owner,
         a.label = b.label
  PROVE  a = b
  BY DEF ObjType

\* patchObject with a base that is not stale brings the object to what is wanted.
LEMMA PatchIsBrought ==
  ASSUME NEW lv \in ObjType, NEW b \in ObjType, NEW want \in ObjType, NEW k \in Kinds,
         lv.exists, want.exists, ~want.label, BaseOf(b, lv, k), Owned(lv, k),
         want.owner = OwnerOf(1)
  PROVE  Patched(lv, b, want) = Abstract!Brought(lv, k, want)
<1> DEFINE new == Abstract!Brought(lv, k, want)
           old == Patched(lv, b, want)
<1>0. Abstract!SecretKinds = SecretKinds
  BY SameData
<1>1. new \in ObjType
  <2>1. (IF k \in Abstract!SecretKinds THEN lv.entries \cup want.entries ELSE want.entries)
          \in SUBSET Entries
    BY DEF ObjType
  <2> QED BY <2>1 DEF Abstract!Brought, ObjType
<1>2. /\ new.exists = TRUE /\ new.app = want.app /\ new.refs = want.refs /\ new.ext = want.ext
      /\ new.owner = want.owner /\ new.label = lv.label
      /\ new.entries = IF k \in SecretKinds THEN lv.entries \cup want.entries ELSE want.entries
  BY <1>0 DEF Abstract!Brought, ObjType
<1>3. /\ Restored(want, b).label = b.label
      /\ Restored(want, b).app = want.app /\ Restored(want, b).refs = want.refs
      /\ Restored(want, b).ext = want.ext /\ Restored(want, b).entries = want.entries
      /\ Restored(want, b).owner = want.owner
  BY DEF Restored, ObjType
<1>4. old \in ObjType
  BY PatchedType
<1>5. /\ old.exists = TRUE
      /\ old.app = Merged(lv.app, b.app, want.app) /\ old.refs = Merged(lv.refs, b.refs, want.refs)
      /\ old.ext = Merged(lv.ext, b.ext, want.ext)
      /\ old.entries = (lv.entries \ (b.entries \ want.entries)) \cup (want.entries \ b.entries)
      /\ old.owner = Merged(lv.owner, b.owner, want.owner)
      /\ old.label = Merged(lv.label, b.label, b.label)
  BY <1>3 DEF Patched, MergePatch
<1>6. ASSUME k \in SecretKinds
      PROVE  /\ old.app = new.app /\ old.refs = new.refs /\ old.ext = new.ext
             /\ old.owner = new.owner /\ old.label = new.label /\ old.entries = new.entries
  <2>1. b = Absent /\ lv.app = Nothing /\ lv.refs = {} /\ lv.ext = NoExt /\ lv.owner = OwnerOf(1)
    BY <1>6 DEF BaseOf, Owned, SecretKinds
  <2>2. old.app = want.app /\ old.refs = want.refs /\ old.ext = want.ext /\ old.label = lv.label
    BY <1>5, <2>1 DEF Merged, Absent
  <2>3. old.owner = want.owner
    BY <1>5, <2>1 DEF Merged
  <2>4. old.entries = lv.entries \cup want.entries
    BY <1>5, <2>1 DEF Absent
  <2> QED BY <1>2, <1>6, <2>2, <2>3, <2>4
<1>7. ASSUME k \notin SecretKinds
      PROVE  /\ old.app = new.app /\ old.refs = new.refs /\ old.ext = new.ext
             /\ old.owner = new.owner /\ old.label = new.label /\ old.entries = new.entries
  <2>1. /\ b.app = lv.app /\ b.refs = lv.refs /\ b.ext = lv.ext
        /\ b.entries = lv.entries /\ b.owner = lv.owner
    BY <1>7 DEF BaseOf
  <2>2. /\ old.app = want.app /\ old.refs = want.refs /\ old.ext = want.ext
        /\ old.owner = want.owner /\ old.label = lv.label
    BY <1>5, <2>1 DEF Merged
  <2>3. old.entries = want.entries
    BY <1>5, <2>1
  <2> QED BY <1>2, <1>7, <2>2, <2>3
<1>8. old = new
  <2>1. old.exists = new.exists
    BY <1>2, <1>5
  <2> HIDE DEF new, old
  <2> QED BY <1>1, <1>4, <1>6, <1>7, <2>1, SameFields
<1> QED BY <1>8

\* What a pass wants is owned by the CR.
LEMMA DesiredFields ==
  ASSUME NEW k, NEW spec, NEW uid, NEW e, NEW password
  PROVE  LET want == DesiredObject(k, spec, uid, e, password)
         IN  /\ want.exists /\ ~want.label /\ want.owner = OwnerOf(uid)
             /\ k # "deployment" => want.app = Nothing /\ want.refs = {} /\ want.ext = NoExt
  BY DEF DesiredObject

\* What a pass brings an object to realises the spec.
LEMMA DesiredRealises ==
  ASSUME NEW k \in Kinds, NEW spec \in Specs, NEW uid \in Nat, NEW e \in ExtType,
         NEW password \in Passwords
  PROVE  LET want == DesiredObject(k, spec, uid, e, password)
         IN  /\ Realises(want, k, spec, uid, e)
             /\ \A obj \in ObjType : k # "db-secret" =>
                  Realises(Abstract!Brought(obj, k, want), k, spec, uid, e)
<1> DEFINE want == DesiredObject(k, spec, uid, e, password)
           none == DesiredObject(k, spec, uid, e, Nothing)
<1>1. want.exists /\ want.owner = OwnerOf(uid)
      /\ want.app = none.app /\ want.refs = none.refs /\ want.ext = none.ext
  BY DEF DesiredObject
<1>2. k # "db-secret" => want.entries = none.entries
  BY DEF DesiredObject, SecretEntries
<1>3. Realises(want, k, spec, uid, e)
  BY <1>1, <1>2 DEF Realises
<1>4. ASSUME NEW obj \in ObjType, k # "db-secret"
      PROVE  Realises(Abstract!Brought(obj, k, want), k, spec, uid, e)
  <2> DEFINE new == Abstract!Brought(obj, k, want)
  <2>1. /\ new.exists = want.exists /\ new.app = want.app /\ new.refs = want.refs
        /\ new.ext = want.ext /\ new.owner = want.owner
        /\ new.entries = IF k \in SecretKinds THEN obj.entries \cup want.entries ELSE want.entries
    BY SameData DEF Abstract!Brought, DesiredObject
  <2> HIDE DEF new, want
  <2>2. none.entries \subseteq new.entries /\ (k \notin SecretKinds => new.entries = none.entries)
    BY <1>2, <1>4, <2>1
  <2> QED BY <1>1, <1>4, <2>1, <2>2 DEF Realises, none, new
<1> QED BY <1>3, <1>4

\* What the call is working on, at any of its steps that hold an object.
Want(k, password) == DesiredObject(k, backstage.spec, backstage.uid, ext, password)

\* The step applies k.
Applies(k) ==
  /\ InPass /\ NextToApply(k, todo) /\ todo' = todo \ {k} /\ pc' = "apply"
  /\ UNCHANGED <<cr, cms, crCache, backstage, ext, desired, left>>
  /\ live[k].exists => k # "db-secret"
  /\ \E password \in Passwords :
       live' = [live EXCEPT ![k] =
                  IF live[k].exists THEN Abstract!Brought(live[k], k, Want(k, password))
                                    ELSE Want(k, password)]

\* The step leaves k as it is: the DB secret is there, the object is to be
\* patched, or it has come or gone since it was looked for.
Leaves(k) ==
  /\ live' = live
  /\ UNCHANGED <<cr, cms, crCache, ext, desired, left>>
  /\ \/ pc' = "patch" /\ UNCHANGED <<todo, backstage>>
     \/ /\ k = "db-secret" /\ live[k].exists /\ todo' = todo \ {k} /\ pc' = "apply"
        /\ UNCHANGED backstage
     \/ pc' = "status" /\ backstage' = [backstage EXCEPT !.cond = "DeployFailed"]

PassInv == Read /\ Applied /\ Cleaned /\ Finished

CallType == TypeInv /\ AtHand /\ Alone /\ Copies /\ Reading

LEMMA CallFacts ==
  ASSUME CallType, pc # "idle"
  PROVE  /\ backstage.exists /\ backstage.uid = 1 /\ backstage.spec \in Specs
         /\ ext \in ExtType /\ todo \in SUBSET Kinds /\ live \in [Kinds -> ObjType]
         /\ desired \in [Kinds -> ObjType] /\ base \in ObjType
         /\ left["create"] = 0 /\ (cr.exists => cr.uid = 1)
<1>1. backstage.exists /\ backstage.uid = 1 /\ backstage.uid <= cr.uid
      /\ cr.uid + left["create"] <= 1 /\ (cr.exists => cr.uid = 1)
  BY DEF CallType, Copies, Alone
<1>2. left["create"] \in Nat /\ cr.uid \in Nat
  BY DEF CallType, TypeInv, TypeOK, Events, CrType
<1> QED BY <1>1, <1>2 DEF CallType, TypeInv, TypeOK, CrType

LEMMA ApplySteps ==
  ASSUME CallType, Objects, Base, PassInv, NEW k \in todo,
         CreateSecret(k) \/ CreateObject(k) \/ PatchObject(k)
  PROVE  (Applies(k) \/ Leaves(k)) /\ k \in Made /\ InPass
<1>1. InPass /\ NextToApply(k, todo) /\ pc # "idle"
  BY DEF CreateSecret, CreateObject, PatchObject, Applying, InPass
<1>2. /\ k \in Kinds /\ live[k] \in ObjType /\ desired[k] \in ObjType /\ base \in ObjType
      /\ backstage.uid = 1
  BY <1>1, CallFacts
<1>3. k \in Made /\ \E password \in Passwords : desired[k] = Want(k, password)
  BY <1>1 DEF PassInv, Applied, Want
<1>4. UNCHANGED <<cr, cms, crCache, ext, desired, left>>
  BY DEF CreateSecret, CreateObject, PatchObject, mgrVars
<1>5. CASE CreateSecret(k)
  BY <1>1, <1>3, <1>4, <1>5 DEF CreateSecret, Applying, Applies, Leaves
<1>6. CASE CreateObject(k)
  <2>1. CASE ~live[k].exists
    BY <1>1, <1>3, <1>4, <1>6, <2>1 DEF CreateObject, Applies
  <2>2. CASE live[k].exists
    <3>1. ErrorAndStatus /\ live' = live
      BY <1>6, <2>2 DEF CreateObject
    <3> QED BY <1>1, <1>3, <1>4, <3>1 DEF ErrorAndStatus, Leaves
  <2> QED BY <1>1, <1>3, <2>1, <2>2
<1>7. CASE PatchObject(k)
  <2>1. CASE live[k].exists
    <3>1. k # "db-secret"
      BY <1>1, <1>2, <1>7, OneIsNext, CallFacts DEF PatchObject, Applying, CallType, AtHand
    <3>2. PICK password \in Passwords : desired[k] = Want(k, password)
      BY <1>3
    <3>3. desired[k].exists /\ ~desired[k].label /\ desired[k].owner = OwnerOf(1)
      BY <1>2, <3>2, DesiredFields DEF Want
    <3>4. BaseOf(base, live[k], k) /\ Owned(live[k], k)
      BY <1>1, <1>2, <1>7, <2>1 DEF PatchObject, Applying, Base, Objects
    <3>5. Patched(live[k], base, desired[k]) = Abstract!Brought(live[k], k, desired[k])
      BY <1>2, <2>1, <3>3, <3>4, PatchIsBrought
    <3>6. /\ live' = [live EXCEPT ![k] = Patched(live[k], base, desired[k])]
          /\ todo' = todo \ {k} /\ pc' = "apply" /\ UNCHANGED backstage
      BY <1>7, <2>1 DEF PatchObject
    <3> QED BY <1>1, <1>3, <1>4, <2>1, <3>1, <3>2, <3>5, <3>6 DEF Applies
  <2>2. CASE ~live[k].exists
    <3>1. ErrorAndStatus /\ live' = live
      BY <1>7, <2>2 DEF PatchObject
    <3> QED BY <1>1, <1>3, <1>4, <3>1 DEF ErrorAndStatus, Leaves
  <2> QED BY <1>1, <1>3, <2>1, <2>2
<1> QED BY <1>1, <1>3, <1>5, <1>6, <1>7

\* The steps that write objects.
LEMMA OutsideWrites ==
  ASSUME Alone, Outside \/ UNCHANGED vars, live' # live
  PROVE  \E k \in Kinds : Label(k) \/ CollectGarbage(k)
<1>1. ASSUME NEW k \in Kinds PROVE ~Change(k) /\ ~Delete(k)
  BY DEF Alone, Change, Delete, Spend
<1> QED
  BY <1>1 DEF Outside, Users, Collector, Informers, CreateCr, EditCr, DeleteCr,
              WriteConfigMap, SyncCr, SyncObject, apiVars, vars

LEMMA LiveWrites ==
  ASSUME Alone, TypeInv, [Next]_vars, live' # live
  PROVE  \/ \E k \in Kinds : Label(k) \/ CollectGarbage(k)
         \/ \E k \in todo : CreateSecret(k) \/ CreateObject(k) \/ PatchObject(k) \/ TryToDelete(k)
<1>1. CASE Outside \/ UNCHANGED vars
  BY <1>1, OutsideWrites
<1>2. CASE Crash
  BY <1>2 DEF Crash, apiVars
<1>3. CASE Reconciler
  BY <1>3, ReconcilerWrites
<1> QED BY <1>1, <1>2, <1>3 DEF Next, Outside

LEMMA ObjectsStep ==
  ASSUME CallType, Objects, Base, PassInv, [Next]_vars PROVE Objects'
<1>0. live \in [Kinds -> ObjType] /\ todo \in SUBSET Kinds
  BY DEF CallType, TypeInv, TypeOK
<1>1. CASE live' = live
  BY <1>1 DEF Objects
<1>2. ASSUME NEW k \in Kinds, NEW obj, Owned(obj, k), live' = [live EXCEPT ![k] = obj]
      PROVE  Objects'
  BY <1>0, <1>2 DEF Objects
<1>3. \A k \in Kinds : Owned(Absent, k)
  BY DEF Owned, Absent
<1>4. ASSUME NEW k \in Kinds, Label(k) PROVE Objects'
  <2>1. Owned([live[k] EXCEPT !.label = TRUE], k)
    BY <1>0, <1>4 DEF Label, Objects, Owned, ObjType
  <2> QED BY <1>2, <1>4, <2>1 DEF Label
<1>5. ASSUME NEW k \in Kinds, CollectGarbage(k) PROVE Objects'
  BY <1>2, <1>3, <1>5 DEF CollectGarbage
<1>6. ASSUME NEW k \in todo, TryToDelete(k) PROVE Objects'
  BY <1>0, <1>2, <1>3, <1>6 DEF TryToDelete
<1>7. ASSUME NEW k \in todo, CreateSecret(k) \/ CreateObject(k) \/ PatchObject(k)
      PROVE  Objects'
  <2>1. CASE Leaves(k)
    BY <1>1, <2>1 DEF Leaves
  <2>2. CASE Applies(k)
    <3>1. backstage.uid = 1 /\ live[k] \in ObjType /\ k \in Kinds
      BY <1>0, <2>2, CallFacts DEF Applies, InPass
    <3>2. PICK password \in Passwords :
            live' = [live EXCEPT ![k] =
                       IF live[k].exists THEN Abstract!Brought(live[k], k, Want(k, password))
                                         ELSE Want(k, password)]
      BY <2>2 DEF Applies
    <3> DEFINE want == Want(k, password)
               new  == Abstract!Brought(live[k], k, want)
    <3>3. /\ want.exists /\ want.owner = OwnerOf(1)
          /\ k # "deployment" => want.app = Nothing /\ want.refs = {} /\ want.ext = NoExt
      BY <3>1, DesiredFields DEF Want
    <3>4. /\ new.exists = want.exists /\ new.app = want.app /\ new.refs = want.refs
          /\ new.ext = want.ext /\ new.owner = want.owner
      BY DEF Abstract!Brought, Want, DesiredObject
    <3> HIDE DEF want, new
    <3>5. Owned(want, k) /\ Owned(new, k)
      BY <3>3, <3>4 DEF Owned
    <3> QED BY <1>2, <3>1, <3>2, <3>5 DEF want, new
  <2> QED BY <1>7, <2>1, <2>2, ApplySteps
<1> QED BY <1>1, <1>4, <1>5, <1>6, <1>7, LiveWrites DEF CallType

LEMMA BaseStep ==
  ASSUME CallType, Objects, Base, PassInv, [Next]_vars PROVE Base'
<1> SUFFICES ASSUME pc' = "patch", NEW l \in Kinds, NextToApply(l, todo'), live'[l].exists
             PROVE  BaseOf(base', live'[l], l)
  BY DEF Base
<1>0. live \in [Kinds -> ObjType] /\ todo \in SUBSET Kinds /\ LaggingKinds = {}
  BY DEF CallType, TypeInv, TypeOK, Alone
<1>1. CASE Outside \/ UNCHANGED vars
  <2>1. UNCHANGED callVars
    BY <1>1, OutsideLeavesCall DEF callVars, vars
  <2>2. pc = "patch" /\ NextToApply(l, todo) /\ base' = base
    BY <2>1 DEF callVars
  <2>3. CASE live' = live
    BY <2>2, <2>3 DEF Base
  <2>4. ASSUME NEW k \in Kinds, Label(k) PROVE BaseOf(base', live'[l], l)
    <3>1. live' = [live EXCEPT ![k].label = TRUE]
      BY <2>4 DEF Label
    <3>2. live[l].exists /\ live[l] \in ObjType
      BY <1>0, <3>1 DEF ObjType
    <3>3. BaseOf(base, live[l], l)
      BY <2>2, <3>2 DEF Base
    <3>4. /\ live'[l].app = live[l].app /\ live'[l].refs = live[l].refs
          /\ live'[l].ext = live[l].ext /\ live'[l].entries = live[l].entries
          /\ live'[l].owner = live[l].owner /\ (live[l].label => live'[l].label)
      BY <1>0, <3>1, <3>2 DEF ObjType
    <3> QED BY <2>2, <3>3, <3>4 DEF BaseOf
  <2>5. ASSUME NEW k \in Kinds, CollectGarbage(k) PROVE BaseOf(base', live'[l], l)
    <3>1. k # l /\ live'[l] = live[l]
      BY <1>0, <2>5 DEF CollectGarbage, Absent
    <3> QED BY <2>2, <3>1 DEF Base
  <2> QED BY <1>1, <2>3, <2>4, <2>5, OutsideWrites DEF CallType
<1>2. ASSUME NEW k \in todo, CreateSecret(k) PROVE BaseOf(base', live'[l], l)
  <2>1. k \in SecretKinds /\ base' = Absent /\ NextToApply(k, todo) /\ todo' = todo
    BY <1>2 DEF CreateSecret, Applying
  <2> QED BY <1>0, <2>1, OneIsNext DEF BaseOf
<1>3. ASSUME NEW k \in todo, GetObject(k) PROVE BaseOf(base', live'[l], l)
  <2>1. k \notin SecretKinds /\ base' = live[k] /\ NextToApply(k, todo) /\ todo' = todo /\ live' = live
    BY <1>0, <1>3 DEF GetObject, Applying, CachedObject, apiVars
  <2>2. l = k
    BY <1>0, <2>1, OneIsNext
  <2> QED BY <2>1, <2>2 DEF BaseOf
<1>4. CASE Crash \/ UpdateStatus \/ StatusConflict \/ StatusFails
  BY <1>4 DEF Crash, UpdateStatus, StatusConflict, StatusFails, Return, Restart, EndCall
<1>5. CASE CrGone \/ GetCrFails \/ GetCr \/ ReadConfigMap
  BY <1>1, <1>5 DEF CrGone, GetCrFails, GetCr, ReadConfigMap, ErrorAndStatus, callVars
<1>6. CASE \E password \in Passwords : InitModel(password)
  BY <1>6 DEF InitModel, ErrorAndStatus
<1>7. ASSUME NEW k \in todo, CreateObject(k) \/ PatchObject(k) PROVE FALSE
  BY <1>7 DEF CreateObject, PatchObject, ErrorAndStatus
<1>8. CASE ApplyEnds \/ Clean \/ CleanEnds \/ CallFails
  BY <1>8 DEF ApplyEnds, Clean, TryToDelete, CleanEnds, CallFails, ErrorAndStatus
<1> QED
  BY <1>1, <1>2, <1>3, <1>4, <1>5, <1>6, <1>7, <1>8 DEF Next, Outside, Reconciler, Apply

(***************************************************************************)
(* What a pass has done stays done.                                        *)
(***************************************************************************)
LEMMA NoNewCr ==
  ASSUME CallType, pc # "idle", [Next]_vars, cr'.exists PROVE cr.exists
<1>1. cr \in CrType /\ left["create"] = 0
  BY CallFacts DEF CallType, TypeInv, TypeOK
<1>2. ASSUME NEW s \in Specs, CreateCr(s) PROVE FALSE
  BY <1>1, <1>2 DEF CreateCr, Spend
<1>3. ASSUME NEW s \in Specs, EditCr(s) PROVE cr.exists
  BY <1>3 DEF EditCr
<1>4. CASE DeleteCr
  BY <1>4 DEF DeleteCr
<1>5. CASE cr' = NewVersion([cr EXCEPT !.cond = backstage.cond])
  BY <1>1, <1>5 DEF NewVersion, CrType
<1> QED BY <1>2, <1>3, <1>4, <1>5, CrWrites

\* Others do not undo it.
LEMMA OutsideKeeps ==
  ASSUME CallType, Objects, pc # "idle", Outside \/ UNCHANGED vars, NEW l \in Kinds
  PROVE  /\ Done(l) => Done(l)'
         /\ ~live[l].exists => ~live'[l].exists
         /\ live'[l].exists => live'[l].refs = live[l].refs
<1>0. /\ live \in [Kinds -> ObjType] /\ live[l] \in ObjType
      /\ (cr.exists => cr.uid = 1)
  BY CallFacts
<1>1. [Next]_vars /\ (cr'.exists => cr.exists)
  BY NoNewCr DEF Outside, Next
<1>2. UNCHANGED <<backstage, ext>>
  BY OutsideLeavesCall DEF callVars, vars
<1>3. CASE live' = live
  BY <1>1, <1>2, <1>3 DEF Done, Made
<1>4. ASSUME NEW k \in Kinds, Label(k)
      PROVE  /\ Done(l) => Done(l)'
             /\ ~live[l].exists => ~live'[l].exists
             /\ live'[l].exists => live'[l].refs = live[l].refs
  <2>1. /\ live'[l].exists = live[l].exists /\ live'[l].app = live[l].app
        /\ live'[l].refs = live[l].refs /\ live'[l].ext = live[l].ext
        /\ live'[l].entries = live[l].entries /\ live'[l].owner = live[l].owner
    BY <1>0, <1>4 DEF Label, ObjType
  <2>2. ASSUME NEW spec, NEW uid, NEW e, Realises(live[l], l, spec, uid, e)
        PROVE  Realises(live'[l], l, spec, uid, e)
    BY <2>1, <2>2 DEF Realises
  <2> QED BY <1>1, <1>2, <2>1, <2>2 DEF Done
<1>5. ASSUME NEW k \in Kinds, CollectGarbage(k)
      PROVE  /\ Done(l) => Done(l)'
             /\ ~live[l].exists => ~live'[l].exists
             /\ live'[l].exists => live'[l].refs = live[l].refs
  <2>1. live[k].owner = 1
    BY <1>5 DEF CollectGarbage, Objects, Owned, OwnerOf
  <2>2. ~cr.exists /\ cr' = cr
    BY <1>0, <1>5, <2>1 DEF CollectGarbage
  <2>3. live'[l] = Absent \/ live'[l] = live[l]
    BY <1>0, <1>5 DEF CollectGarbage
  <2> QED BY <1>2, <2>2, <2>3 DEF Done, Absent
<1> QED BY <1>3, <1>4, <1>5, OutsideWrites DEF CallType

LEMMA PassOutside ==
  ASSUME CallType, Objects, PassInv, Outside \/ UNCHANGED vars PROVE PassInv'
<1>1. UNCHANGED <<pc, backstage, ext, todo, desired>>
  BY OutsideLeavesCall DEF callVars, vars
<1>2. Made' = Made /\ Gone' = Gone /\ Made \in SUBSET Kinds /\ Gone \in SUBSET Kinds
  BY <1>1 DEF Made, Gone, Added, CleanKinds, DbKinds, Kinds
<1>3. ASSUME pc # "idle", NEW k \in Kinds
      PROVE  (Done(k) => Done(k)') /\ (~live[k].exists => ~live'[k].exists)
  BY <1>3, OutsideKeeps
<1>4. Read'
  BY <1>1, <1>2 DEF PassInv, Read, InPass
<1>5. Applied'
  BY <1>1, <1>2, <1>3 DEF PassInv, Applied, InPass
<1>6. Cleaned'
  BY <1>1, <1>2, <1>3 DEF PassInv, Cleaned
<1>7. Finished'
  BY <1>1, <1>2, <1>3 DEF PassInv, Finished
<1> QED BY <1>4, <1>5, <1>6, <1>7 DEF PassInv

\* Steps after which nothing is claimed: before the model is made, and on the
\* way out of a call that has failed.
LEMMA PassElsewhere ==
  ASSUME pc' \in {"idle", "preprocess", "panic"}
           \/ (pc' = "status" /\ backstage'.cond # "Deployed")
  PROVE  PassInv'
  BY DEF PassInv, Read, Applied, Cleaned, Finished, InPass

\* InitObjects has the ConfigMaps of the spec, and makes a Deployment.
LEMMA PassInit ==
  ASSUME CallType, NEW password \in Passwords, InitModel(password) PROVE PassInv'
<1> DEFINE in == InitInput(backstage.spec, ext)
<1>1. pc = "preprocess" /\ unread = << >> /\ ext' = ext
  BY DEF InitModel
<1>2. CASE pc' = "panic"
  BY <1>2, PassElsewhere
<1>3. CASE ErrorAndStatus
  <2>1. backstage \in CrType
    BY DEF CallType, TypeInv, TypeOK
  <2>2. pc' = "status" /\ backstage'.cond = "DeployFailed"
    BY <1>3, <2>1 DEF ErrorAndStatus, CrType
  <2> QED BY <2>2, PassElsewhere
<1>4. CASE /\ InitOutcome(in) = "ok" /\ todo' = Added(in) /\ pc' = "apply"
           /\ desired' = [k \in Kinds |->
                            IF k \in Added(in)
                            THEN DesiredObject(k, backstage.spec, backstage.uid, ext, password)
                            ELSE Absent]
           /\ UNCHANGED <<backstage, failed>>
  <2>1. Made' = Added(in) /\ Made' \in SUBSET Kinds
    BY <1>1, <1>4 DEF Made, Added
  <2>2. ext \in Reads(backstage.spec)
    <3>1. Range(unread) = {}
      BY <1>1 DEF Range
    <3>2. \A c \in Range(backstage.spec.cms) : ext[c] # Nothing
      BY <1>1, <3>1 DEF CallType, TypeInv, ReadBeforeUse
    <3>3. \A c \in ConfigMaps : ext[c] # Nothing => c \in Range(backstage.spec.cms)
      BY <1>1 DEF CallType, Reading
    <3> QED BY <3>2, <3>3 DEF Reads, CallType, TypeInv, TypeOK
  <2>3. "deployment" \in Added(in)
    <3>1. \A n \in 1..12 : LoadStep(in, RuntimeConfig[n]) = "ok"
      BY <1>4 DEF InitOutcome, LoadStep
    <3>2. LoadStep(in, "deployment") = "ok"
      <4>1. RuntimeConfig[7] = "deployment" /\ 7 \in 1..12
        BY DEF RuntimeConfig
      <4> QED BY <3>1, <4>1
    <3>3. AddToModel(in, "deployment") # "error"
      BY <3>2 DEF LoadStep
    <3>4. AddToModel(in, "deployment") = "added"
      BY <3>3 DEF AddToModel, DeploymentAdd
    <3> QED BY <3>4 DEF Added, Kinds
  <2>4. Read'
    BY <1>1, <1>4, <2>1, <2>2, <2>3 DEF Read
  <2>5. Applied'
    <3>1. todo' = Made'
      BY <1>4, <2>1
    <3>2. \A k \in Made' :
            desired'[k] = DesiredObject(k, backstage'.spec, backstage'.uid, ext', password)
      BY <1>1, <1>4, <2>1
    <3> QED BY <3>1, <3>2 DEF Applied
  <2>6. Cleaned' /\ Finished'
    BY <1>4 DEF Cleaned, Finished
  <2> QED BY <2>4, <2>5, <2>6 DEF PassInv
<1> QED BY <1>2, <1>3, <1>4 DEF InitModel

LEMMA PassApply ==
  ASSUME CallType, Objects, Base, PassInv, NEW k \in todo,
         CreateSecret(k) \/ CreateObject(k) \/ PatchObject(k)
  PROVE  PassInv'
<1>0. /\ InPass /\ pc # "idle" /\ k \in Made /\ (Applies(k) \/ Leaves(k))
      /\ Made \in SUBSET Kinds
  BY ApplySteps DEF InPass, Made, Added
<1>1. /\ live \in [Kinds -> ObjType] /\ backstage.uid = 1 /\ backstage.spec \in Specs
      /\ ext \in ExtType /\ k \in Kinds /\ live[k] \in ObjType
  BY <1>0, CallFacts
<1>2. CASE pc' = "status" /\ backstage' = [backstage EXCEPT !.cond = "DeployFailed"]
  <2>1. backstage'.cond = "DeployFailed"
    BY <1>2 DEF CallType, TypeInv, TypeOK, CrType
  <2> QED BY <1>2, <2>1, PassElsewhere
<1>3. ASSUME pc' \in {"apply", "patch"}, UNCHANGED <<cr, backstage, ext, desired>>,
             todo' \in SUBSET todo,
             \A l \in Made \ todo' : Done(l)'
      PROVE  PassInv'
  <2>1. Made' = Made
    BY <1>3 DEF Made
  <2>2. Read' /\ Cleaned' /\ Finished'
    BY <1>0, <1>3, <2>1 DEF PassInv, Read, Cleaned, Finished
  <2>3. Applied'
    BY <1>0, <1>3, <2>1 DEF PassInv, Applied
  <2> QED BY <2>2, <2>3 DEF PassInv
<1>4. CASE Leaves(k) /\ pc' = "patch"
  <2>1. UNCHANGED <<live, cr, backstage, ext, desired, todo>>
    BY <1>4 DEF Leaves
  <2>2. \A l \in Made \ todo' : Done(l)'
    BY <1>0, <2>1 DEF PassInv, Applied, Done
  <2> QED BY <1>3, <1>4, <2>1, <2>2
<1>5. CASE Leaves(k) /\ pc' = "apply"
  <2>1. /\ UNCHANGED <<live, cr, backstage, ext, desired>> /\ todo' = todo \ {k}
        /\ k = "db-secret" /\ live[k].exists
    BY <1>5 DEF Leaves
  <2>2. Owned(live[k], k)
    BY <1>1 DEF Objects
  <2>3. Realises(live[k], k, backstage.spec, 1, ext)
    BY <2>1, <2>2 DEF Owned, Realises, DesiredObject
  <2>4. Done(k)
    BY <1>1, <2>1, <2>3 DEF Done
  <2>5. \A l \in Made \ todo' : Done(l)'
    BY <1>0, <2>1, <2>4 DEF PassInv, Applied, Done
  <2> QED BY <1>3, <1>5, <2>1, <2>5
<1>6. CASE Applies(k)
  <2>1. /\ UNCHANGED <<cr, backstage, ext, desired>> /\ todo' = todo \ {k} /\ pc' = "apply"
        /\ (live[k].exists => k # "db-secret")
    BY <1>6 DEF Applies
  <2>2. PICK password \in Passwords :
          live' = [live EXCEPT ![k] =
                     IF live[k].exists THEN Abstract!Brought(live[k], k, Want(k, password))
                                       ELSE Want(k, password)]
    BY <1>6 DEF Applies
  <2> DEFINE want == Want(k, password)
             new  == Abstract!Brought(live[k], k, want)
  <2>3. live'[k] = IF live[k].exists THEN new ELSE want
    BY <1>1, <2>2
  <2>4. Realises(want, k, backstage.spec, backstage.uid, ext) /\ want.exists
    BY <1>1, DesiredRealises DEF Want, DesiredObject
  <2>5. live[k].exists => Realises(new, k, backstage.spec, backstage.uid, ext) /\ new.exists
    <3>1. live[k].exists => Realises(new, k, backstage.spec, backstage.uid, ext)
      BY <1>1, <2>1, DesiredRealises DEF Want
    <3> QED BY <3>1 DEF Realises
  <2> HIDE DEF new, want
  <2>6. Done(k)'
    BY <2>1, <2>3, <2>4, <2>5 DEF Done
  <2>7. \A l \in Kinds : l # k => live'[l] = live[l]
    BY <1>1, <2>2
  <2>8. \A l \in Made \ todo' : l # k => Done(l)'
    BY <1>0, <2>1, <2>7 DEF PassInv, Applied, Done
  <2> QED BY <1>3, <2>1, <2>6, <2>8
<1> QED BY <1>0, <1>2, <1>4, <1>5, <1>6 DEF Leaves

LEMMA PassClean ==
  ASSUME CallType, PassInv, ApplyEnds \/ Clean \/ CleanEnds PROVE PassInv'
<1>0. pc # "idle" /\ backstage \in CrType
  BY DEF ApplyEnds, Clean, TryToDelete, CleanEnds, CallType, TypeInv, TypeOK
<1>1. /\ live \in [Kinds -> ObjType] /\ todo \in SUBSET Kinds
      /\ Made \in SUBSET Kinds /\ Gone \in SUBSET Kinds
  BY <1>0, CallFacts DEF Made, Gone, Added, CleanKinds, DbKinds, Kinds
<1>2. CASE ApplyEnds
  <2>1. /\ pc = "apply" /\ todo = {} /\ pc' = "clean" /\ todo' = Gone
        /\ UNCHANGED <<live, cr, backstage, ext>>
    BY <1>2 DEF ApplyEnds, apiVars, Gone
  <2>2. Made' = Made /\ Gone' = Gone /\ \A k \in Kinds : Done(k) => Done(k)'
    BY <2>1 DEF Made, Gone, Done
  <2>3. Read' /\ Applied' /\ Finished'
    BY <2>1, <2>2 DEF PassInv, Read, Applied, Finished, InPass
  <2>4. Cleaned'
    BY <1>1, <2>1, <2>2 DEF PassInv, Applied, Cleaned, InPass
  <2> QED BY <2>3, <2>4 DEF PassInv
<1>3. ASSUME NEW k \in todo, TryToDelete(k) PROVE PassInv'
  <2>1. /\ pc = "clean" /\ pc' = "clean" /\ live' = [live EXCEPT ![k] = Absent]
        /\ todo' = todo \ {k} /\ UNCHANGED <<cr, backstage, ext>>
    BY <1>3 DEF TryToDelete
  <2>2. Made' = Made /\ Gone' = Gone /\ k \in Gone
    BY <2>1 DEF Made, Gone, PassInv, Cleaned
  <2>3. \A l \in Kinds : l # k => live'[l] = live[l] /\ (Done(l) => Done(l)')
    BY <1>1, <2>1 DEF Done
  <2>4. ~live'[k].exists
    BY <1>1, <2>1 DEF Absent
  <2>5. Read' /\ Applied' /\ Finished'
    BY <2>1, <2>2 DEF PassInv, Read, Applied, Finished, InPass
  <2>6. Cleaned'
    BY <1>1, <2>1, <2>2, <2>3, <2>4 DEF PassInv, Cleaned
  <2> QED BY <2>5, <2>6 DEF PassInv
<1>4. CASE CleanEnds
  <2>1. /\ pc = "clean" /\ todo = {} /\ pc' = "status" /\ UNCHANGED <<live, cr, ext>>
        /\ backstage' = [backstage EXCEPT !.cond = "Deployed"]
    BY <1>4 DEF CleanEnds, apiVars
  <2>2. backstage'.spec = backstage.spec /\ backstage'.uid = backstage.uid
    BY <1>0, <2>1 DEF CrType
  <2>3. Made' = Made /\ Gone' = Gone /\ \A k \in Kinds : Done(k) => Done(k)'
    BY <2>1, <2>2 DEF Made, Gone, Done
  <2>4. Read' /\ Applied' /\ Cleaned'
    BY <2>1 DEF Read, Applied, Cleaned, InPass
  <2>5. Finished'
    BY <1>1, <2>1, <2>2, <2>3 DEF PassInv, Read, Cleaned, Finished
  <2> QED BY <2>4, <2>5 DEF PassInv
<1> QED BY <1>2, <1>3, <1>4 DEF Clean

LEMMA PassStep ==
  ASSUME CallType, Objects, Base, PassInv, [Next]_vars PROVE PassInv'
<1>0. backstage \in CrType
  BY DEF CallType, TypeInv, TypeOK
<1>1. CASE Outside \/ UNCHANGED vars
  BY <1>1, PassOutside
<1>2. CASE Crash \/ UpdateStatus \/ StatusConflict \/ StatusFails
  <2>1. pc' = "idle"
    BY <1>2 DEF Crash, UpdateStatus, StatusConflict, StatusFails, Return, Restart, EndCall
  <2> QED BY <2>1, PassElsewhere
<1>3. CASE CrGone \/ GetCrFails \/ GetCr
  <2>1. pc' \in {"idle", "preprocess"}
    BY <1>3 DEF CrGone, GetCrFails, GetCr, callVars
  <2> QED BY <2>1, PassElsewhere
<1>4. CASE ReadConfigMap \/ CallFails
  <2>1. pc' = "preprocess" \/ ErrorAndStatus
    BY <1>4 DEF ReadConfigMap, CallFails
  <2>2. ErrorAndStatus => pc' = "status" /\ backstage'.cond = "DeployFailed"
    BY <1>0 DEF ErrorAndStatus, CrType
  <2> QED BY <2>1, <2>2, PassElsewhere
<1>5. ASSUME NEW k \in todo, GetObject(k) PROVE PassInv'
  <2>1. /\ pc = "apply" /\ pc' \in {"patch", "create"}
        /\ UNCHANGED <<live, cr, backstage, ext, desired, todo>>
    BY <1>5 DEF GetObject, Applying, apiVars
  <2>2. Made' = Made /\ \A l : Done(l) => Done(l)'
    BY <2>1 DEF Made, Done
  <2>3. Read' /\ Cleaned' /\ Finished'
    BY <2>1, <2>2 DEF PassInv, Read, Cleaned, Finished, InPass
  <2>4. Applied'
    BY <2>1, <2>2 DEF PassInv, Applied, InPass
  <2> QED BY <2>3, <2>4 DEF PassInv
<1>6. CASE \E password \in Passwords : InitModel(password)
  BY <1>6, PassInit
<1>7. CASE ApplyEnds \/ Clean \/ CleanEnds
  BY <1>7, PassClean
<1>8. ASSUME NEW k \in todo, CreateSecret(k) \/ CreateObject(k) \/ PatchObject(k)
      PROVE  PassInv'
  BY <1>8, PassApply
<1> QED
  BY <1>1, <1>2, <1>3, <1>4, <1>5, <1>6, <1>7, <1>8 DEF Next, Outside, Reconciler, Apply

(***************************************************************************)
(* The invariant.                                                          *)
(***************************************************************************)
Inv == Alone /\ Copies /\ Reading /\ Objects /\ Base /\ PassInv

LEMMA InitInv == ASSUME Undisturbed, Init PROVE Inv
<1>1. /\ cr.exists = FALSE /\ cr.uid = 0 /\ cr.rv = 0 /\ crCache = cr /\ backstage = cr
      /\ pc = "idle" /\ ext = NoExt /\ live = NoObjects
  BY DEF Init
<1>2. Alone
  <2>1. PICK s \in Scenarios : left = s.budget
    BY DEF Init
  <2>2. left \in [Events -> Nat]
    BY <2>1, ReconcileAssumption DEF ScenarioType
  <2>3. left["create"] \in Nat /\ left["create"] <= 1 /\ left["change"] = 0 /\ left["delete"] = 0
    BY <2>1, <2>2 DEF Undisturbed, Events
  <2> QED BY <1>1, <2>3 DEF Alone, Undisturbed
<1>3. Copies
  BY <1>1 DEF Copies
<1>4. Reading /\ Base /\ PassInv
  BY <1>1 DEF Reading, Base, PassInv, Read, Applied, Cleaned, Finished, InPass
<1>5. Objects
  BY <1>1 DEF Objects, Owned, NoObjects, Absent
<1> QED BY <1>2, <1>3, <1>4, <1>5 DEF Inv

LEMMA Invariance == ASSUME Undisturbed PROVE Spec => [](TypeInv /\ AtHand /\ Inv)
<1>1. Init => Inv
  BY InitInv
<1>2. TypeInv /\ AtHand /\ Inv /\ [Next]_vars => Inv'
  <2> SUFFICES ASSUME TypeInv, AtHand, Inv, [Next]_vars PROVE Inv'
    OBVIOUS
  <2>1. CallType /\ Objects /\ Base /\ PassInv /\ Copies /\ Reading /\ Alone
    BY DEF CallType, Inv
  <2> QED
    BY <2>1, AloneStep, CopiesStep, ReadingStep, ObjectsStep, BaseStep, PassStep DEF Inv
<1> QED BY <1>1, <1>2, TypeInvariant, AtHandInvariant, PTL DEF Spec

\* Reconcile writes Deployed only on a version of the CR whose objects are all
\* applied, and whose others are all deleted (backstage_controller.go:77-139), in
\* every interleaving with users, failing calls, crashes and labels of others.
THEOREM DeployedIsTrue == ASSUME Undisturbed PROVE Spec => []DeployedMeansApplied
<1>1. TypeInv /\ AtHand /\ Inv => DeployedMeansApplied
  <2> SUFFICES ASSUME CallType, Inv, pc = "status", backstage.cond = "Deployed", SameVersion
               PROVE  InSync(live, cr.spec, cr.uid, ext)
    BY DEF CallType, Inv, DeployedMeansApplied
  <2>1. cr.exists /\ cr.uid = backstage.uid /\ cr.spec = backstage.spec
    <3>1. VersionOf(backstage) = VersionOf(cr)
      BY DEF SameVersion, Inv, Copies
    <3> QED BY <3>1 DEF SameVersion, VersionOf
  <2>2. /\ \A k \in Made \ Gone : Done(k)
        /\ \A k \in Gone : ~live[k].exists
    BY DEF Inv, PassInv, Finished
  <2> QED BY <2>1, <2>2 DEF InSync, Made, Gone, Done
<1> QED BY <1>1, Invariance, PTL

(***************************************************************************)
(* The refinement: every step is one of DesiredState, or leaves its        *)
(* variables alone.                                                        *)
(***************************************************************************)
Implemented == Abstract!Next \/ UNCHANGED Abstract!vars

\* Steps that only change what the controller knows.
LEMMA Unseen ==
  ASSUME UNCHANGED <<cr, cms, live>>, crCache' \in {crCache, cr},
         VersionOf(backstage)' = VersionOf(backstage)
  PROVE  Implemented
<1>1. Abstract!VersionOf(backstage)' = Abstract!VersionOf(backstage)
  BY SameVersions DEF VersionOf, Abstract!VersionOf
<1>2. CASE crCache' = crCache
  BY <1>1, <1>2 DEF Implemented, Abstract!vars, VersionOf
<1>3. CASE crCache' = cr
  BY <1>1, <1>3 DEF Implemented, Abstract!Next, Abstract!Learn, VersionOf
<1> QED BY <1>2, <1>3

LEMMA UsersImplement ==
  ASSUME CallType, Outside \/ UNCHANGED vars PROVE Implemented
<1>1. VersionOf(backstage)' = VersionOf(backstage)
  BY OutsideLeavesCall DEF callVars, vars, VersionOf
<1>2. ASSUME NEW s \in Specs, CreateCr(s) PROVE Implemented
  BY <1>1, <1>2, SameVersions
     DEF CreateCr, mgrVars, Implemented, Abstract!Next, Abstract!WriteCr
<1>3. ASSUME NEW s \in Specs, EditCr(s) PROVE Implemented
  BY <1>1, <1>3, SameVersions
     DEF EditCr, mgrVars, Implemented, Abstract!Next, Abstract!WriteCr
<1>4. CASE DeleteCr
  BY <1>1, <1>4, SameVersions
     DEF DeleteCr, mgrVars, Implemented, Abstract!Next, Abstract!WriteCr
<1>5. ASSUME NEW c \in ConfigMaps, NEW v \in CmValues \cup {Nothing}, WriteConfigMap(c, v)
      PROVE  Implemented
  <2>1. Abstract!WriteConfigMap(c, v)
    BY <1>1, <1>5 DEF WriteConfigMap, mgrVars, Abstract!WriteConfigMap
  <2> QED BY <2>1 DEF Implemented, Abstract!Next
<1>6. ASSUME NEW k \in Kinds, Label(k) PROVE Implemented
  <2>1. Abstract!Label(k)
    BY <1>1, <1>6 DEF Label, mgrVars, Abstract!Label
  <2> QED BY <2>1, SameData DEF Implemented, Abstract!Next
<1>7. ASSUME NEW k \in Kinds, CollectGarbage(k) PROVE Implemented
  <2>1. Abstract!Collect(k)
    BY <1>1, <1>7, SameData DEF CollectGarbage, mgrVars, Abstract!Collect
  <2> QED BY <2>1, SameData DEF Implemented, Abstract!Next
<1>8. CASE Informers \/ UNCHANGED vars
  BY <1>1, <1>8, Unseen DEF Informers, SyncCr, SyncObject, apiVars, vars
<1>9. ASSUME NEW k \in Kinds PROVE ~Change(k) /\ ~Delete(k)
  BY DEF CallType, Alone, Change, Delete, Spend
<1> QED
  BY <1>2, <1>3, <1>4, <1>5, <1>6, <1>7, <1>8, <1>9 DEF Outside, Users, Collector

LEMMA GetCrImplements ==
  ASSUME CallType, GetCr PROVE Implemented
<1>1. VersionOf(backstage)' = VersionOf(crCache)
  BY DEF GetCr, VersionOf, CallType, TypeInv, TypeOK, CrType
<1> QED
  BY <1>1, SameVersions
     DEF GetCr, apiVars, Implemented, Abstract!Next, Abstract!Look

\* A step of applyObjects realises one object of the version at hand.
LEMMA ApplyImplements ==
  ASSUME CallType, Inv, NEW k \in todo,
         CreateSecret(k) \/ CreateObject(k) \/ PatchObject(k)
  PROVE  Implemented
<1>0. (Applies(k) \/ Leaves(k)) /\ k \in Made /\ InPass /\ pc # "idle"
  BY ApplySteps DEF Inv, InPass
<1>1. /\ backstage.exists /\ backstage \in CrType /\ k \in Kinds
      /\ ext \in Reads(backstage.spec)
  BY <1>0, CallFacts DEF CallType, TypeInv, TypeOK, Inv, PassInv, Read
<1>2. CASE Leaves(k)
  <2>1. VersionOf(backstage)' = VersionOf(backstage)
    BY <1>1, <1>2 DEF Leaves, VersionOf, CrType
  <2> QED BY <1>2, <2>1, Unseen DEF Leaves
<1>3. CASE Applies(k)
  <2> DEFINE copy == VersionOf(backstage)
  <2>1. copy.exists /\ copy.spec = backstage.spec /\ copy.uid = backstage.uid
    BY <1>1 DEF VersionOf
  <2>2. k \in Abstract!Added(Abstract!InitInput(copy.spec, ext))
    BY <1>0, <2>1, SameInput, SameAdded DEF Made
  <2>3. PICK password \in Passwords :
          live' = [live EXCEPT ![k] =
                     IF live[k].exists THEN Abstract!Brought(live[k], k, Want(k, password))
                                       ELSE Want(k, password)]
    BY <1>3 DEF Applies
  <2>4. Want(k, password)
          = Abstract!DesiredObject(k, copy.spec, copy.uid, ext, password)
    BY <2>1, SameDesired DEF Want
  <2>5. ext \in Abstract!Reads(copy.spec)
    BY <1>1, <2>1, SameReads
  <2>6. VersionOf(backstage)' = VersionOf(backstage) /\ UNCHANGED <<cr, cms, crCache>>
    BY <1>3 DEF Applies, VersionOf
  <2>7. live[k].exists => k # "db-secret"
    BY <1>3 DEF Applies
  <2> HIDE DEF copy
  <2>8. \E e \in Abstract!Reads(copy.spec) :
          /\ k \in Abstract!Added(Abstract!InitInput(copy.spec, e))
          /\ \E p \in Passwords :
               live' = [live EXCEPT ![k] =
                          IF live[k].exists
                          THEN Abstract!Brought(live[k], k,
                                 Abstract!DesiredObject(k, copy.spec, copy.uid, e, p))
                          ELSE Abstract!DesiredObject(k, copy.spec, copy.uid, e, p)]
    BY <2>2, <2>3, <2>4, <2>5
  <2>9. Abstract!Realise(k)
    BY <2>1, <2>6, <2>7, <2>8 DEF Abstract!Realise, copy
  <2> QED BY <1>1, <2>9, SameData DEF Implemented, Abstract!Next
<1> QED BY <1>0, <1>2, <1>3

\* When the database is being deleted the Deployment has been applied before,
\* and does not use it.
LEMMA DeploymentOffDatabase ==
  ASSUME CallType, Inv, NEW k \in todo, TryToDelete(k), k \in DbKinds, live["deployment"].exists
  PROVE  "db-secret" \notin live["deployment"].refs
<1>1. pc = "clean" /\ k \in Gone /\ "deployment" \in Made
  BY DEF TryToDelete, Inv, PassInv, Cleaned, Read
<1>2. ~IsLocalDbEnabled(backstage.spec.decisions) /\ "deployment" \notin Gone
  BY <1>1 DEF Gone, CleanKinds, DbKinds
<1>3. Realises(live["deployment"], "deployment", backstage.spec, backstage.uid, ext)
  BY <1>1, <1>2 DEF Inv, PassInv, Cleaned, Done
<1>4. live["deployment"].refs \subseteq Made
  BY <1>3 DEF Realises, DesiredObject, Made
<1>5. "db-secret" \notin Made
  BY <1>2 DEF Made, Added, AddToModel, DbSecretAdd, InitInput
<1> QED BY <1>4, <1>5

\* A step of cleanObjects deletes what the version does not ask for.
LEMMA CleanImplements ==
  ASSUME CallType, Inv, NEW k \in todo, TryToDelete(k) PROVE Implemented
<1>1. /\ pc = "clean" /\ live' = [live EXCEPT ![k] = Absent]
      /\ UNCHANGED <<cr, cms, crCache, backstage>>
  BY DEF TryToDelete, mgrVars
<1>2. backstage.exists /\ k \in Kinds /\ k \in Gone
  BY <1>1, CallFacts DEF Inv, PassInv, Cleaned
<1>3. Abstract!Remove(k)
  <2>1. VersionOf(backstage).exists
          /\ k \in Abstract!CleanKinds(VersionOf(backstage).spec.decisions, IsOpenShift)
    BY <1>2, SameGone DEF VersionOf, Gone
  <2>2. ~Abstract!InUse(k)
    BY DeploymentOffDatabase, SameData DEF Abstract!InUse
  <2>3. VersionOf(backstage)' = VersionOf(backstage)
    BY <1>1 DEF VersionOf
  <2> QED BY <1>1, <2>1, <2>2, <2>3, SameData DEF Abstract!Remove
<1> QED BY <1>2, <1>3, SameData DEF Implemented, Abstract!Next

\* The status that is written is true of the objects.
LEMMA ReportImplements ==
  ASSUME CallType, Inv, UpdateStatus PROVE Implemented
<1>0. cr \in CrType /\ backstage \in CrType
  BY DEF CallType, TypeInv, TypeOK
<1>1. /\ SameVersion /\ pc \in {"status", "panic"} /\ UNCHANGED <<cms, live, backstage>>
      /\ crCache' \in {crCache, cr'}
  BY DEF UpdateStatus, Return, Restart, EndCall
<1>2. VersionOf(backstage) = VersionOf(cr) /\ VersionOf(backstage)' = VersionOf(backstage)
  BY <1>1 DEF Inv, Copies, SameVersion, VersionOf
<1>3. CASE cr' = cr
  BY <1>1, <1>2, <1>3, Unseen
<1>4. CASE cr.cond # backstage.cond /\ cr' = NewVersion([cr EXCEPT !.cond = backstage.cond])
  <2> DEFINE d == backstage.cond
  <2>1. ASSUME d = "Deployed"
        PROVE  ext \in Reads(cr.spec) /\ InSync(live, cr.spec, cr.uid, ext)
    <3>1. pc = "status"
      BY <1>1, <1>4, <2>1 DEF SameVersion, Inv, Copies
    <3>2. /\ ext \in Reads(backstage.spec)
          /\ \A k \in Made \ Gone : Done(k)
          /\ \A k \in Gone : ~live[k].exists
      BY <2>1, <3>1 DEF Inv, PassInv, Finished
    <3>3. cr.exists /\ cr.uid = backstage.uid /\ cr.spec = backstage.spec
      BY <1>1, <1>2 DEF SameVersion, VersionOf
    <3> QED BY <3>2, <3>3 DEF InSync, Made, Gone, Done
  <2>2. d = "Deployed" =>
          \E e \in Abstract!Reads(cr.spec) : Abstract!InSync(live, cr.spec, cr.uid, e)
    BY <2>1, SameReads, SameInSync
  <2>3. d \in Conditions /\ cr.exists
    BY <1>0, <1>1 DEF CrType, SameVersion
  <2>4. cr' = Abstract!NewVersion([cr EXCEPT !.cond = d])
    BY <1>4, SameVersions
  <2>5. VersionOf(backstage) = Abstract!VersionOf(cr)
    BY <1>2, SameVersions
  <2> HIDE DEF d
  <2>6. Abstract!Report(d)
    BY <1>1, <1>2, <2>2, <2>3, <2>4, <2>5 DEF Abstract!Report
  <2> QED BY <2>3, <2>6, SameData DEF Implemented, Abstract!Next
<1> QED BY <1>3, <1>4 DEF UpdateStatus

LEMMA StepImplements ==
  ASSUME TypeInv, AtHand, Inv, [Next]_vars PROVE Implemented
<1>0. CallType /\ backstage \in CrType
  BY DEF CallType, Inv, TypeInv, TypeOK
<1>1. CASE Outside \/ UNCHANGED vars
  BY <1>0, <1>1, UsersImplement
<1>2. CASE Crash \/ StatusConflict \/ StatusFails
  <2>1. UNCHANGED <<cr, cms, live, backstage>> /\ crCache' \in {crCache, cr}
    BY <1>2 DEF Crash, StatusConflict, StatusFails, Return, Restart, EndCall, apiVars, mgrVars
  <2> QED BY <2>1, Unseen DEF VersionOf
<1>3. CASE UpdateStatus
  BY <1>0, <1>3, ReportImplements
<1>4. CASE CrGone \/ GetCrFails
  BY <1>4, Unseen DEF CrGone, GetCrFails, apiVars, mgrVars, callVars, VersionOf
<1>5. CASE GetCr
  BY <1>0, <1>5, GetCrImplements
<1>6. CASE ReadConfigMap \/ CallFails \/ \E password \in Passwords : InitModel(password)
  <2>1. UNCHANGED <<cr, cms, live, crCache>> /\ (UNCHANGED backstage \/ ErrorAndStatus)
    BY <1>6 DEF ReadConfigMap, CallFails, InitModel, apiVars, mgrVars
  <2>2. VersionOf(backstage)' = VersionOf(backstage)
    BY <1>0, <2>1 DEF ErrorAndStatus, VersionOf, CrType
  <2> QED BY <2>1, <2>2, Unseen
<1>7. CASE (\E k \in todo : GetObject(k)) \/ ApplyEnds \/ CleanEnds
  <2>1. UNCHANGED <<cr, cms, live, crCache>>
        /\ (UNCHANGED backstage \/ backstage' = [backstage EXCEPT !.cond = "Deployed"])
    BY <1>7 DEF GetObject, ApplyEnds, CleanEnds, apiVars, mgrVars
  <2>2. VersionOf(backstage)' = VersionOf(backstage)
    BY <1>0, <2>1 DEF VersionOf, CrType
  <2> QED BY <2>1, <2>2, Unseen
<1>8. ASSUME NEW k \in todo, CreateSecret(k) \/ CreateObject(k) \/ PatchObject(k)
      PROVE  Implemented
  BY <1>0, <1>8, ApplyImplements
<1>9. ASSUME NEW k \in todo, TryToDelete(k) PROVE Implemented
  BY <1>0, <1>9, CleanImplements
<1> QED
  BY <1>1, <1>2, <1>3, <1>4, <1>5, <1>6, <1>7, <1>8, <1>9
     DEF Next, Outside, Reconciler, Apply, Clean

\* The steps of Reconcile, with whatever comes between them, move the objects
\* only towards the version of the CR at hand, take the database away only from
\* under a Deployment that does not use it, and report what is so.
THEOREM Implements == ASSUME Undisturbed PROVE Spec => ImplementsDesiredState
<1>1. Init => Abstract!Init
  BY SameData, SameVersions, ReconcileAssumption DEF Init, Abstract!Init, ScenarioType
<1>2. TypeInv /\ AtHand /\ Inv /\ [Next]_vars => [Abstract!Next]_(Abstract!vars)
  BY StepImplements DEF Implemented
<1> QED
  BY <1>1, <1>2, Invariance, PTL DEF Spec, ImplementsDesiredState, Abstract!Spec

\* The database is deleted only when the live Deployment does not use it
\* (backstage_controller.go:121-133), also by a pass for a version of the CR that
\* has been edited since.
THEOREM DatabaseIsSafe == ASSUME Undisturbed PROVE Spec => DbDeletedAfterSwitch
<1> DEFINE db == "db-statefulset"
           A  == live[db].exists /\ ~live'[db].exists
                   /\ live["deployment"].exists /\ "db-secret" \in live["deployment"].refs
                     => ~Reconciler
<1>1. TypeInv /\ AtHand /\ Inv /\ [Next]_vars => [A]_vars
  <2> SUFFICES ASSUME TypeInv, AtHand, Inv, Reconciler, live[db].exists, ~live'[db].exists,
                      live["deployment"].exists, "db-secret" \in live["deployment"].refs
               PROVE  FALSE
    OBVIOUS
  <2>0. CallType /\ live \in [Kinds -> ObjType] /\ db \in Kinds
    BY DEF CallType, Inv, TypeInv, TypeOK, Kinds
  <2>1. PICK k \in todo :
          CreateSecret(k) \/ CreateObject(k) \/ PatchObject(k) \/ TryToDelete(k)
    BY ReconcilerWrites
  <2>2. CASE TryToDelete(k)
    <3>1. k = db
      BY <2>0, <2>2 DEF TryToDelete
    <3> QED BY <2>0, <2>2, <3>1, DeploymentOffDatabase DEF DbKinds
  <2>3. CASE CreateSecret(k) \/ CreateObject(k) \/ PatchObject(k)
    <3>1. Applies(k) \/ Leaves(k)
      BY <2>0, <2>3, ApplySteps DEF Inv
    <3>2. live' # live
      OBVIOUS
    <3>3. PICK password \in Passwords :
            live' = [live EXCEPT ![k] =
                       IF live[k].exists THEN Abstract!Brought(live[k], k, Want(k, password))
                                         ELSE Want(k, password)]
      BY <3>1, <3>2 DEF Applies, Leaves
    <3>4. Want(k, password).exists /\ Abstract!Brought(live[k], k, Want(k, password)).exists
      BY DEF Want, DesiredObject, Abstract!Brought
    <3> QED BY <2>0, <3>3, <3>4
  <2> QED BY <2>1, <2>2, <2>3
<1> QED BY <1>1, Invariance, PTL DEF Spec, DbDeletedAfterSwitch

(***************************************************************************)
(* Level triggering.                                                       *)
(***************************************************************************)

\* While there is no newer version in the queue or on its way to it, the call is
\* working on the last one.
Fresh == pc # "idle" /\ ~queued /\ crCache = cr => VersionOf(backstage) = VersionOf(cr)

\* A call that does not return an error has succeeded.
Outcome ==
  /\ failed => pc = "status"
  /\ pc = "status" /\ ~failed => backstage.cond = "Deployed"

Trigger == Fresh /\ Outcome /\ SettledInSync

LEMMA FreshStep ==
  ASSUME CallType, Trigger, [Next]_vars PROVE Fresh'
<1>0. backstage \in CrType /\ crCache \in CrType /\ cr \in CrType
  BY DEF CallType, TypeInv, TypeOK
<1> SUFFICES ASSUME pc' # "idle", ~queued', crCache' = cr'
             PROVE  VersionOf(backstage)' = VersionOf(cr)'
  BY DEF Fresh
<1>1. CASE Crash \/ UpdateStatus \/ StatusConflict \/ StatusFails
  BY <1>1 DEF Crash, UpdateStatus, StatusConflict, StatusFails, Return, Restart, EndCall
<1>2. CASE Outside \/ UNCHANGED vars
  <2>1. UNCHANGED callVars
    BY <1>2, OutsideLeavesCall DEF callVars, vars
  <2>2. CASE cr' = cr /\ crCache' = crCache /\ queued' = queued
    BY <2>1, <2>2 DEF callVars, Trigger, Fresh, VersionOf
  <2>3. cr' # cr => crCache' = crCache /\ (cr'.rv # cr.rv)
    <3>1. (\E s \in Specs : CreateCr(s) \/ EditCr(s)) \/ DeleteCr => crCache' = crCache
      BY DEF CreateCr, EditCr, DeleteCr, mgrVars
    <3>2. cr' # cr => cr'.rv = cr.rv + 1
      BY <1>2, NewVersionOf DEF CallType
    <3>3. cr'.rv # cr.rv \/ cr' = cr
      BY <1>0, <3>2 DEF CrType
    <3>4. UpdateStatus => pc' = "idle"
      BY DEF UpdateStatus, Return, Restart, EndCall
    <3> QED BY <3>1, <3>3, <3>4, CrWrites
  <2>4. CASE cr' # cr
    <3>1. crCache.rv <= cr.rv /\ cr'.rv = cr.rv + 1
      BY <2>4, NewVersionOf DEF CallType, Copies
    <3> QED BY <1>0, <2>3, <2>4, <3>1 DEF CrType
  <2>5. CASE cr' = cr /\ ~(crCache' = crCache /\ queued' = queued)
    <3>1. SyncCr
      BY <1>2, <2>5
         DEF Outside, Users, Collector, Informers, CreateCr, EditCr, DeleteCr, WriteConfigMap,
             Label, Change, Delete, CollectGarbage, SyncObject, mgrVars, vars
    <3> QED BY <3>1 DEF SyncCr
  <2> QED BY <2>2, <2>4, <2>5
<1>3. CASE GetCr
  <2>1. cr' = cr /\ crCache' = crCache
    BY <1>3 DEF GetCr, apiVars
  <2>2. VersionOf(backstage)' = VersionOf(crCache)
    BY <1>0, <1>3 DEF GetCr, VersionOf, CrType
  <2> QED BY <2>1, <2>2
<1>4. CASE CrGone \/ GetCrFails
  BY <1>4 DEF CrGone, GetCrFails, callVars, mgrVars, apiVars, Trigger, Fresh, Applying, VersionOf
<1>5. ASSUME Reconciler,
             ~(UpdateStatus \/ StatusConflict \/ StatusFails \/ GetCr \/ CrGone \/ GetCrFails)
      PROVE  VersionOf(backstage)' = VersionOf(cr)'
  <2>1. pc # "idle" /\ cr' = cr /\ crCache' = crCache /\ queued' = queued
    <3>1. CASE ReadConfigMap \/ CallFails \/ \E password \in Passwords : InitModel(password)
      BY <3>1 DEF ReadConfigMap, CallFails, InitModel, apiVars, mgrVars
    <3>2. CASE Apply
      BY <3>2 DEF Apply, Applying, CreateSecret, GetObject, CreateObject, PatchObject, apiVars, mgrVars
    <3>3. CASE ApplyEnds \/ Clean \/ CleanEnds
      BY <3>3 DEF ApplyEnds, Clean, TryToDelete, CleanEnds, apiVars, mgrVars
    <3> QED BY <1>5, <3>1, <3>2, <3>3 DEF Reconciler
  <2>2. VersionOf(backstage)' = VersionOf(backstage)
    BY <1>0, <1>5, CopyWrites DEF VersionOf, CrType
  <2> QED BY <2>1, <2>2 DEF Trigger, Fresh
<1> QED BY <1>1, <1>2, <1>3, <1>4, <1>5 DEF Next, Outside

LEMMA OutcomeStep ==
  ASSUME CallType, Trigger, [Next]_vars PROVE Outcome'
<1>0. backstage \in CrType
  BY DEF CallType, TypeInv, TypeOK
<1> USE DEF Trigger, Outcome
<1>1. CASE Outside \/ UNCHANGED vars
  BY <1>1, OutsideLeavesCall DEF callVars, vars
<1>2. CASE Crash \/ UpdateStatus \/ StatusConflict \/ StatusFails
  BY <1>2 DEF Crash, UpdateStatus, StatusConflict, StatusFails, Return, Restart, EndCall
<1>3. CASE CrGone \/ GetCrFails
  BY <1>3 DEF CrGone, GetCrFails, callVars
<1>4. CASE GetCr
  BY <1>4 DEF GetCr
<1>5. ErrorAndStatus => Outcome'
  BY DEF ErrorAndStatus
<1>6. CASE ReadConfigMap \/ CallFails
  BY <1>5, <1>6 DEF ReadConfigMap, CallFails
<1>7. CASE \E password \in Passwords : InitModel(password)
  BY <1>5, <1>7 DEF InitModel
<1>8. CASE Apply
  BY <1>5, <1>8 DEF Apply, Applying, CreateSecret, GetObject, CreateObject, PatchObject
<1>9. CASE ApplyEnds \/ Clean
  BY <1>9 DEF ApplyEnds, Clean, TryToDelete
<1>10. CASE CleanEnds
  BY <1>0, <1>10 DEF CleanEnds, CrType
<1> QED
  BY <1>1, <1>2, <1>3, <1>4, <1>6, <1>7, <1>8, <1>9, <1>10 DEF Next, Outside, Reconciler

\* Objects in sync stay so as long as the worker is at rest.
LEMMA RestKeeps ==
  ASSUME CallType, Inv, SettledInSync, Settled, cr.exists, Outside \/ UNCHANGED vars,
         cr' = cr
  PROVE  SettledInSync'
<1>0. live \in [Kinds -> ObjType] /\ (cr.exists => cr.uid = 1)
  BY DEF CallType, TypeInv, TypeOK, Alone
<1>1. PICK e \in Reads(cr.spec) : InSync(live, cr.spec, cr.uid, e)
  BY DEF SettledInSync
<1>2. ASSUME NEW k \in Kinds, Label(k) PROVE InSync(live', cr.spec, cr.uid, e)
  <2>1. \A l \in Kinds :
          /\ live'[l].exists = live[l].exists /\ live'[l].app = live[l].app
          /\ live'[l].refs = live[l].refs /\ live'[l].ext = live[l].ext
          /\ live'[l].entries = live[l].entries /\ live'[l].owner = live[l].owner
    BY <1>0, <1>2 DEF Label, ObjType
  <2>2. \A l \in Kinds :
          Realises(live[l], l, cr.spec, cr.uid, e) => Realises(live'[l], l, cr.spec, cr.uid, e)
    BY <2>1 DEF Realises
  <2>3. Added(InitInput(cr.spec, e)) \subseteq Kinds
          /\ CleanKinds(cr.spec.decisions, IsOpenShift) \subseteq Kinds
    BY DEF Added, CleanKinds, DbKinds, Kinds
  <2> QED BY <1>1, <2>1, <2>2, <2>3 DEF InSync
<1>3. ASSUME NEW k \in Kinds, CollectGarbage(k) PROVE FALSE
  <2>1. live[k].owner = 1
    BY <1>3 DEF CollectGarbage, Inv, Objects, Owned, OwnerOf
  <2> QED BY <1>0, <1>3, <2>1 DEF CollectGarbage
<1>4. InSync(live', cr.spec, cr.uid, e)
  BY <1>1, <1>2, <1>3, OutsideWrites DEF CallType
<1> QED BY <1>1, <1>4 DEF SettledInSync

LEMMA SettledStep ==
  ASSUME CallType, Inv, Trigger, [Next]_vars PROVE SettledInSync'
<1>0. /\ backstage \in CrType /\ crCache \in CrType /\ cr \in CrType
      /\ queued \in BOOLEAN /\ failed \in BOOLEAN
  BY DEF CallType, TypeInv, TypeOK
<1> SUFFICES ASSUME Settled', cr'.exists PROVE SettledInSync'
  BY DEF SettledInSync
<1>1. pc' = "idle" /\ ~queued' /\ crCache' = cr'
  BY DEF Settled
<1>2. CASE Outside \/ UNCHANGED vars
  <2>1. UNCHANGED callVars
    BY <1>2, OutsideLeavesCall DEF callVars, vars
  <2>2. ~SyncCr
    BY <1>1 DEF SyncCr
  <2>3. crCache' = crCache /\ queued' = queued
    BY <1>2, <2>2
       DEF Outside, Users, Collector, Informers, CreateCr, EditCr, DeleteCr, WriteConfigMap,
           Label, Change, Delete, CollectGarbage, SyncObject, mgrVars, vars
  <2>4. cr' = cr
    <3>1. ~UpdateStatus \/ cr' = cr
      BY <1>1, <2>1 DEF UpdateStatus, callVars
    <3>2. cr' # cr => cr'.rv = cr.rv + 1 /\ crCache.rv <= cr.rv
      BY NewVersionOf DEF CallType, Copies
    <3> QED BY <1>0, <1>1, <2>3, <3>2 DEF CrType
  <2>5. Settled /\ cr.exists
    BY <1>1, <2>1, <2>3, <2>4 DEF Settled, callVars
  <2> QED BY <1>2, <2>4, <2>5, RestKeeps DEF Trigger
<1>3. CASE UpdateStatus \/ StatusConflict \/ StatusFails
  <2>1. pc # "panic"
    <3>1. pc = "panic" => queued' = crCache'.exists
      BY <1>3 DEF UpdateStatus, StatusConflict, StatusFails, Return, Restart
    <3> QED BY <1>1, <3>1
  <2>2. /\ pc = "status" /\ queued' = (queued \/ failed) /\ crCache' = crCache
        /\ UNCHANGED <<live, backstage>>
    BY <1>3, <2>1 DEF UpdateStatus, StatusConflict, StatusFails, Return, EndCall, apiVars
  <2>3. ~queued /\ ~failed /\ backstage.cond = "Deployed"
    BY <1>0, <1>1, <2>2 DEF Trigger, Outcome
  <2>4. cr' = cr
    <3>1. cr' # cr => cr'.rv = cr.rv + 1 /\ crCache.rv <= cr.rv
      BY NewVersionOf DEF CallType, Copies
    <3> QED BY <1>0, <1>1, <2>2, <3>1 DEF CrType
  <2>5. VersionOf(backstage) = VersionOf(cr)
    BY <1>1, <2>2, <2>3, <2>4 DEF Trigger, Fresh
  <2>6. cr.exists /\ cr.uid = backstage.uid /\ cr.spec = backstage.spec
    BY <2>4, <2>5 DEF VersionOf
  <2>7. /\ ext \in Reads(backstage.spec)
        /\ \A k \in Made \ Gone : Done(k)
        /\ \A k \in Gone : ~live[k].exists
    BY <2>2, <2>3 DEF Inv, PassInv, Finished
  <2>8. ext \in Reads(cr.spec) /\ InSync(live, cr.spec, cr.uid, ext)
    BY <2>6, <2>7 DEF InSync, Made, Gone, Done
  <2> QED BY <2>2, <2>4, <2>8 DEF SettledInSync
<1>4. CASE Crash
  BY <1>1, <1>4 DEF Crash, Restart, apiVars
<1>5. CASE CrGone
  BY <1>1, <1>5 DEF CrGone, apiVars
<1>6. CASE GetCrFails
  BY <1>1, <1>6 DEF GetCrFails, mgrVars
<1>7. CASE GetCr \/ ReadConfigMap \/ CallFails \/ \E password \in Passwords : InitModel(password)
  BY <1>1, <1>7 DEF GetCr, ReadConfigMap, CallFails, InitModel, ErrorAndStatus
<1>8. CASE Apply
  BY <1>1, <1>8
     DEF Apply, Applying, CreateSecret, GetObject, CreateObject, PatchObject, ErrorAndStatus
<1>9. CASE ApplyEnds \/ Clean \/ CleanEnds
  BY <1>1, <1>9 DEF ApplyEnds, Clean, TryToDelete, CleanEnds
<1> QED
  BY <1>2, <1>3, <1>4, <1>5, <1>6, <1>7, <1>8, <1>9 DEF Next, Outside, Reconciler

\* Level triggering loses nothing (backstage_controller.go:77-139): whatever was
\* edited, failed or crashed while Reconcile ran, the worker is not at rest
\* before the objects are those of the last version of the CR.
THEOREM SettledIsInSync == ASSUME Undisturbed PROVE Spec => []SettledInSync
<1>1. Init => Trigger
  BY DEF Init, Trigger, Fresh, Outcome, SettledInSync
<1>2. TypeInv /\ AtHand /\ Inv /\ Trigger /\ [Next]_vars => Trigger'
  <2> SUFFICES ASSUME CallType, Inv, Trigger, [Next]_vars PROVE Trigger'
    BY DEF CallType, Inv
  <2> QED BY FreshStep, OutcomeStep, SettledStep DEF Trigger
<1>3. Trigger => SettledInSync
  BY DEF Trigger
<1> QED BY <1>1, <1>2, <1>3, Invariance, PTL DEF Spec

(***************************************************************************)
(* The condition.                                                          *)
(***************************************************************************)

\* InitObjects does not panic on any spec (see LoadStep for when it does).
NoPanic == \A s \in Specs, e \in ExtType : InitOutcome(InitInput(s, e)) # "panic"

Verdicts ==
  /\ StoredStatusIsVerdict /\ pc # "panic"
  /\ pc = "status" => backstage.cond \in {"DeployFailed", "Deployed"}

\* Each way out of Reconcile replaces the "in progress" of line 111 of
\* backstage_controller.go before the deferred update stores the condition.
THEOREM VerdictIsStored == ASSUME NoPanic PROVE Spec => []StoredStatusIsVerdict
<1>1. Init => Verdicts
  BY DEF Init, Verdicts, StoredStatusIsVerdict
<1>2. TypeInv /\ Verdicts /\ [Next]_vars => Verdicts'
  <2> SUFFICES ASSUME TypeInv, Verdicts, [Next]_vars PROVE Verdicts'
    OBVIOUS
  <2> USE DEF Verdicts, StoredStatusIsVerdict
  <2>0. cr \in CrType /\ backstage \in CrType
    BY DEF TypeInv, TypeOK
  <2>1. cr'.cond # "DeployInProgress"
    <3>1. ASSUME NEW s \in Specs, CreateCr(s) \/ EditCr(s) PROVE cr'.cond \in {"none", cr.cond}
      <4>1. CreateCr(s) => cr'.cond = "none"
        BY DEF CreateCr, Created
      <4>2. EditCr(s) => cr'.cond = cr.cond
        BY <2>0 DEF EditCr, Edited, NewVersion, CrType
      <4> QED BY <3>1, <4>1, <4>2
    <3>2. ASSUME DeleteCr PROVE cr'.cond = cr.cond
      BY <2>0, <3>2 DEF DeleteCr, Deleted, NewVersion, CrType
    <3>3. ASSUME UpdateStatus, cr' = NewVersion([cr EXCEPT !.cond = backstage.cond])
          PROVE  cr'.cond \in {"DeployFailed", "Deployed"}
      <4>1. cr'.cond = backstage.cond
        BY <2>0, <3>3 DEF NewVersion, CrType
      <4> QED BY <3>3, <4>1 DEF UpdateStatus
    <3> QED BY <3>1, <3>2, <3>3, CrWrites
  <2>2. pc' # "panic" /\ (pc' = "status" => backstage'.cond \in {"DeployFailed", "Deployed"})
    <3>1. ErrorAndStatus => pc' = "status" /\ backstage'.cond = "DeployFailed"
      BY <2>0 DEF ErrorAndStatus, CrType
    <3>2. CASE Outside \/ UNCHANGED vars
      BY <3>2, OutsideLeavesCall DEF callVars, vars
    <3>3. CASE Crash \/ UpdateStatus \/ StatusConflict \/ StatusFails
      BY <3>3 DEF Crash, UpdateStatus, StatusConflict, StatusFails, Return, Restart, EndCall
    <3>4. CASE CrGone \/ GetCrFails \/ GetCr
      BY <3>4 DEF CrGone, GetCrFails, GetCr, callVars
    <3>5. CASE ReadConfigMap \/ CallFails
      BY <3>1, <3>5 DEF ReadConfigMap, CallFails
    <3>6. CASE \E password \in Passwords : InitModel(password)
      <4>1. InitOutcome(InitInput(backstage.spec, ext)) # "panic"
        BY <2>0 DEF NoPanic, TypeInv, TypeOK, CrType
      <4> QED BY <3>1, <3>6, <4>1 DEF InitModel
    <3>7. CASE Apply
      BY <3>1, <3>7 DEF Apply, Applying, CreateSecret, GetObject, CreateObject, PatchObject
    <3>8. CASE ApplyEnds \/ Clean
      BY <3>8 DEF ApplyEnds, Clean, TryToDelete
    <3>9. CASE CleanEnds
      BY <2>0, <3>9 DEF CleanEnds, CrType
    <3> QED
      BY <3>2, <3>3, <3>4, <3>5, <3>6, <3>7, <3>8, <3>9 DEF Next, Outside, Reconciler
  <2> QED BY <2>1, <2>2
<1>3. Verdicts => StoredStatusIsVerdict
  BY DEF Verdicts
<1> QED BY <1>1, <1>2, <1>3, TypeInvariant, PTL DEF Spec

================================================================================
