-------------------------------- MODULE Reconcile --------------------------------
(* BackstageReconciler (controllers/) against the Kubernetes API server: one    *)
(* worker, one Backstage CR of a given name, the ConfigMaps its spec names, and *)
(* the objects the operator applies for it.  One step is one call to the API    *)
(* server or to a cache, or one step of the environment: users, the garbage     *)
(* collector, watches, failing calls, the death of the process.                 *)
EXTENDS Workload

CONSTANTS
  LaggingKinds,     \* objects whose informers may lag behind the API server
  Scenarios         \* how behaviours start, and bounds of what happens to them

\* The kinds of bounded events.
Events == {"create", "edit", "configmap", "callFault", "statusFault", "crash",
           "label", "change", "delete"}

ScenarioType == [cms : ExtType, budget : [Events -> Nat]]

ASSUME ReconcileAssumption ==
  LaggingKinds \subseteq Kinds \ SecretKinds /\ Scenarios \subseteq ScenarioType

VARIABLES
  \* the API server
  cr,        \* the Backstage CR
  cms,       \* ConfigMap -> content
  live,      \* the runtime objects
  \* the manager
  crCache,   \* the informer's copy of the CR
  objCache,  \* the informers' copies of the runtime objects
  queued,    \* the request is in the work queue, or waits to be retried
  \* the call of Reconcile
  pc,        \* what it does next
  backstage, \* its copy of the CR
  unread,    \* the ConfigMaps preprocessSpec has not read yet
  ext,       \* ExternalConfig: the contents read so far
  todo,      \* the objects still to apply, or to delete
  desired,   \* the objects of the model
  base,      \* baseObject of applyObjects
  failed,    \* it returns an error
  \* events of the environment that may still happen, for the bounds
  left

apiVars  == <<cr, cms, live>>
mgrVars  == <<crCache, objCache, queued>>
callVars == <<pc, backstage, unread, ext, todo, desired, base, failed>>
vars     == <<cr, cms, live, crCache, objCache, queued, pc, backstage, unread,
              ext, todo, desired, base, failed, left>>

(***************************************************************************)
(* patchObject: labels and annotations that obj does not set are taken     *)
(* from the base; the merge patch holds the differences of obj from the    *)
(* base and is applied to whatever the object is by then.  The base of a   *)
(* secret is the empty object, so its patch only adds entries.             *)
(***************************************************************************)
\* Wrong variant: only what the operator sets is kept.
RestoredNothing(obj, b) == obj

Restored(obj, b) == [obj EXCEPT !.label = obj.label \/ b.label]

Merged(lv, b, obj) == IF obj = b THEN lv ELSE obj

MergePatch(lv, b, obj) ==
  [ exists  |-> TRUE,
    app     |-> Merged(lv.app, b.app, obj.app),
    refs    |-> Merged(lv.refs, b.refs, obj.refs),
    ext     |-> Merged(lv.ext, b.ext, obj.ext),
    entries |-> (lv.entries \ (b.entries \ obj.entries)) \cup (obj.entries \ b.entries),
    owner   |-> Merged(lv.owner, b.owner, obj.owner),
    label   |-> Merged(lv.label, b.label, obj.label) ]

Patched(lv, b, obj) == MergePatch(lv, b, Restored(obj, b))

--------------------------------------------------------------------------------
Init ==
  /\ cr \in [exists : {FALSE}, uid : {0}, rv : {0}, spec : Specs, cond : {"none"}]
  /\ live = NoObjects /\ objCache = NoObjects
  /\ crCache = cr
  /\ queued = FALSE
  /\ pc = "idle" /\ backstage = cr
  /\ unread = << >> /\ ext = NoExt
  /\ todo = {} /\ desired = NoObjects /\ base = Absent /\ failed = FALSE
  /\ \E s \in Scenarios : cms = s.cms /\ left = s.budget

Spend(e) == left[e] > 0 /\ left' = [left EXCEPT ![e] = @ - 1]

--------------------------------------------------------------------------------
(* Users, the garbage collector and the other clients of the API server.        *)

CreateCr(s) ==
  /\ ~cr.exists
  /\ Spend("create")
  /\ cr' = Created(cr, s)
  /\ UNCHANGED <<cms, live, mgrVars, callVars>>

EditCr(s) ==
  /\ cr.exists /\ s # cr.spec
  /\ Spend("edit")
  /\ cr' = Edited(cr, s)
  /\ UNCHANGED <<cms, live, mgrVars, callVars>>

DeleteCr ==
  /\ cr.exists
  /\ cr' = Deleted(cr)
  /\ UNCHANGED <<cms, live, mgrVars, callVars, left>>

WriteConfigMap(c, v) ==
  /\ cms[c] # v
  /\ Spend("configmap")
  /\ cms' = [cms EXCEPT ![c] = v]
  /\ UNCHANGED <<cr, live, mgrVars, callVars>>

\* The owner of k is gone.
CollectGarbage(k) ==
  /\ live[k].exists /\ live[k].owner # 0
  /\ ~(cr.exists /\ cr.uid = live[k].owner)
  /\ live' = [live EXCEPT ![k] = Absent]
  /\ UNCHANGED <<cr, cms, mgrVars, callVars, left>>

\* Others label an object, change it or delete it.
Label(k) ==
  /\ live[k].exists
  /\ Spend("label")
  /\ live' = [live EXCEPT ![k].label = TRUE]
  /\ UNCHANGED <<cr, cms, mgrVars, callVars>>

Change(k) ==
  /\ live[k].exists /\ k \notin SecretKinds
  /\ Spend("change")
  /\ live' = [live EXCEPT ![k].entries = {}]
  /\ UNCHANGED <<cr, cms, mgrVars, callVars>>

Delete(k) ==
  /\ live[k].exists
  /\ Spend("delete")
  /\ live' = [live EXCEPT ![k] = Absent]
  /\ UNCHANGED <<cr, cms, mgrVars, callVars>>

--------------------------------------------------------------------------------
(* The manager: informers and the work queue.                                   *)

\* A watch event of the CR enqueues the request (For(&Backstage{})); events of
\* the runtime objects do not.
SyncCr ==
  /\ crCache # cr
  /\ crCache' = cr /\ queued' = TRUE
  /\ UNCHANGED <<apiVars, objCache, callVars, left>>

SyncObject(k) ==
  /\ k \in LaggingKinds /\ objCache[k] # live[k]
  /\ objCache' = [objCache EXCEPT ![k] = live[k]]
  /\ UNCHANGED <<apiVars, crCache, queued, callVars, left>>

CachedObject(k) == IF k \in LaggingKinds THEN objCache[k] ELSE live[k]

EndCall ==
  /\ pc' = "idle" /\ failed' = FALSE
  /\ unread' = << >> /\ ext' = NoExt
  /\ todo' = {} /\ desired' = NoObjects /\ base' = Absent
  /\ UNCHANGED backstage

\* A new process (or a new leader) lists the CRs and the objects before it
\* reconciles, and enqueues every CR it finds.
Restart(crNow) ==
  /\ crCache' = crNow /\ objCache' = [k \in Kinds |-> IF k \in LaggingKinds THEN live[k] ELSE Absent]
  /\ queued' = crNow.exists
  /\ EndCall

Crash ==
  /\ Spend("crash")
  /\ Restart(cr)
  /\ UNCHANGED apiVars

--------------------------------------------------------------------------------
(* Reconcile.                                                                   *)

\* Wrong variant: a reason that is no condition reason.
ErrorAndStatusNoReason ==
  /\ failed' = TRUE
  /\ backstage' = [backstage EXCEPT !.cond = ""]
  /\ pc' = "status"

\* Wrong variant: an early return that forgets the condition.
ErrorWithoutStatus ==
  failed' = TRUE /\ pc' = "status" /\ UNCHANGED backstage

\* errorAndStatus: the deferred function still has to write the status.
ErrorAndStatus ==
  /\ failed' = TRUE
  /\ backstage' = [backstage EXCEPT !.cond = "DeployFailed"]
  /\ pc' = "status"

\* The request is taken; the CR is gone.
CrGone ==
  /\ pc = "idle" /\ queued /\ ~crCache.exists
  /\ queued' = FALSE
  /\ UNCHANGED <<apiVars, crCache, objCache, callVars, left>>

\* The request is taken; Get fails otherwise and the request is retried.
GetCrFails ==
  /\ pc = "idle" /\ queued
  /\ Spend("callFault")
  /\ UNCHANGED <<apiVars, mgrVars, callVars>>

GetCr ==
  /\ pc = "idle" /\ queued /\ crCache.exists
  /\ queued' = FALSE
  /\ backstage' = IF crCache.cond = "none"
                  THEN [crCache EXCEPT !.cond = "DeployInProgress"] ELSE crCache
  /\ unread' = crCache.spec.cms
  /\ pc' = "preprocess"
  /\ UNCHANGED <<apiVars, crCache, objCache, ext, todo, desired, base, failed, left>>

\* Wrong variant: a ConfigMap that is missing is skipped.
ReadConfigMapOptional ==
  /\ pc = "preprocess" /\ unread # << >>
  /\ ext' = [ext EXCEPT ![Head(unread)] = cms[Head(unread)]]
  /\ unread' = Tail(unread)
  /\ UNCHANGED <<apiVars, mgrVars, pc, backstage, failed, todo, desired, base, left>>

\* One Get of preprocessSpec.
ReadConfigMap ==
  /\ pc = "preprocess" /\ unread # << >>
  /\ IF cms[Head(unread)] # Nothing
     THEN /\ ext' = [ext EXCEPT ![Head(unread)] = cms[Head(unread)]]
          /\ unread' = Tail(unread)
          /\ UNCHANGED <<pc, backstage, failed>>
     ELSE ErrorAndStatus /\ UNCHANGED <<ext, unread>>
  /\ UNCHANGED <<apiVars, mgrVars, todo, desired, base, left>>

\* InitObjects, and a new password for the DB secret.
InitModel(password) ==
  /\ pc = "preprocess" /\ unread = << >>
  /\ LET spec == backstage.spec
         in   == InitInput(spec, ext)
     IN \/ /\ InitOutcome(in) = "ok"
           /\ todo' = Added(in)
           /\ desired' = [k \in Kinds |->
                            IF k \in Added(in)
                            THEN DesiredObject(k, spec, backstage.uid, ext, password)
                            ELSE Absent]
           /\ pc' = "apply"
           /\ UNCHANGED <<backstage, failed>>
        \/ InitOutcome(in) = "error" /\ ErrorAndStatus /\ UNCHANGED <<todo, desired>>
        \/ InitOutcome(in) = "panic" /\ pc' = "panic"
             /\ UNCHANGED <<backstage, failed, todo, desired>>
  /\ UNCHANGED <<apiVars, mgrVars, unread, ext, base, left>>

Applying(step, k) == pc = step /\ NextToApply(k, todo)

\* Wrong variant: the DB secret is patched like the other secrets.
CreateSecretPatchesAll(k) ==
  /\ Applying("apply", k) /\ k \in SecretKinds
  /\ IF live[k].exists
     THEN base' = Absent /\ pc' = "patch" /\ UNCHANGED <<live, todo>>
     ELSE /\ live' = [live EXCEPT ![k] = desired[k]]
          /\ todo' = todo \ {k} /\ UNCHANGED <<pc, base>>
  /\ UNCHANGED <<cr, cms, mgrVars, backstage, unread, ext, desired, failed, left>>

\* applyObjects does not read secrets: it tries to create them, and leaves an
\* existing DB secret alone.
CreateSecret(k) ==
  /\ Applying("apply", k) /\ k \in SecretKinds
  /\ \/ /\ ~live[k].exists
        /\ live' = [live EXCEPT ![k] = desired[k]]
        /\ todo' = todo \ {k} /\ UNCHANGED <<pc, base>>
     \/ /\ live[k].exists /\ k = "db-secret"
        /\ todo' = todo \ {k} /\ UNCHANGED <<live, pc, base>>
     \/ /\ live[k].exists /\ k # "db-secret"
        /\ base' = Absent /\ pc' = "patch" /\ UNCHANGED <<live, todo>>
  /\ UNCHANGED <<cr, cms, mgrVars, backstage, unread, ext, desired, failed, left>>

GetObject(k) ==
  /\ Applying("apply", k) /\ k \notin SecretKinds
  /\ base' = CachedObject(k)
  /\ pc' = IF CachedObject(k).exists THEN "patch" ELSE "create"
  /\ UNCHANGED <<apiVars, mgrVars, backstage, unread, ext, todo, desired, failed, left>>

CreateObject(k) ==
  /\ Applying("create", k)
  /\ IF ~live[k].exists
     THEN /\ live' = [live EXCEPT ![k] = desired[k]]
          /\ todo' = todo \ {k} /\ pc' = "apply"
          /\ UNCHANGED <<backstage, failed>>
     ELSE ErrorAndStatus /\ UNCHANGED <<live, todo>>
  /\ UNCHANGED <<cr, cms, mgrVars, unread, ext, desired, base, left>>

PatchObject(k) ==
  /\ Applying("patch", k)
  /\ IF live[k].exists
     THEN /\ live' = [live EXCEPT ![k] = Patched(@, base, desired[k])]
          /\ todo' = todo \ {k} /\ pc' = "apply"
          /\ UNCHANGED <<backstage, failed>>
     ELSE ErrorAndStatus /\ UNCHANGED <<live, todo>>
  /\ UNCHANGED <<cr, cms, mgrVars, unread, ext, desired, base, left>>

\* Wrong variant: cleanObjects is forgotten.
ApplyEndsWithoutClean ==
  /\ pc = "apply" /\ todo = {}
  /\ pc' = "clean" /\ UNCHANGED todo
  /\ UNCHANGED <<apiVars, mgrVars, backstage, unread, ext, desired, base, failed, left>>

\* Wrong variant: the loop over the objects is left early.
ApplyEndsEarly ==
  /\ pc = "apply"
  /\ pc' = "clean"
  /\ todo' = CleanKinds(backstage.spec.decisions, IsOpenShift)
  /\ UNCHANGED <<apiVars, mgrVars, backstage, unread, ext, desired, base, failed, left>>

ApplyEnds ==
  /\ pc = "apply" /\ todo = {}
  /\ pc' = "clean"
  /\ todo' = CleanKinds(backstage.spec.decisions, IsOpenShift)
  /\ UNCHANGED <<apiVars, mgrVars, backstage, unread, ext, desired, base, failed, left>>

\* tryToDelete: an object that is not there is no error.
TryToDelete(k) ==
  /\ pc = "clean" /\ NextToClean(k, todo)
  /\ live' = [live EXCEPT ![k] = Absent]
  /\ todo' = todo \ {k}
  /\ UNCHANGED <<cr, cms, mgrVars, pc, backstage, unread, ext, desired, base,
                 failed, left>>

\* Wrong variant: a successful pass leaves the condition as it was.
CleanEndsSilently ==
  /\ pc = "clean" /\ todo = {}
  /\ pc' = "status"
  /\ UNCHANGED <<apiVars, mgrVars, backstage, unread, ext, todo, desired, base, failed, left>>

CleanEnds ==
  /\ pc = "clean" /\ todo = {}
  /\ backstage' = [backstage EXCEPT !.cond = "Deployed"]
  /\ pc' = "status"
  /\ UNCHANGED <<apiVars, mgrVars, unread, ext, todo, desired, base, failed, left>>

\* Any call for an object fails with an error that is not handled.
CallFails ==
  /\ \/ pc \in {"apply", "create", "patch", "clean"} /\ todo # {}
     \/ pc = "preprocess" /\ unread # << >>
  /\ Spend("callFault")
  /\ ErrorAndStatus
  /\ UNCHANGED <<apiVars, mgrVars, unread, ext, todo, desired, base>>

\* Wrong variant: the error is swallowed, and nothing is retried.
ReturnWithoutRetry(crNow) ==
  IF pc = "panic"
  THEN Restart(crNow)
  ELSE EndCall /\ UNCHANGED mgrVars

\* Reconcile returns: an error makes the request be retried, a panic goes on
\* and ends the process.
Return(crNow) ==
  IF pc = "panic"
  THEN Restart(crNow)
  ELSE EndCall /\ queued' = (queued \/ failed) /\ UNCHANGED <<crCache, objCache>>

SameVersion == cr.exists /\ cr.uid = backstage.uid /\ cr.rv = backstage.rv

\* The deferred Status().Update; an update that changes nothing makes no new
\* version.
UpdateStatus ==
  /\ pc \in {"status", "panic"} /\ SameVersion
  /\ cr' = IF cr.cond = backstage.cond THEN cr
           ELSE NewVersion([cr EXCEPT !.cond = backstage.cond])
  /\ Return(cr')
  /\ UNCHANGED <<cms, live, left>>

\* A conflict, or the CR is gone; the error is only logged.
StatusConflict ==
  /\ pc \in {"status", "panic"} /\ ~SameVersion
  /\ Return(cr)
  /\ UNCHANGED <<apiVars, left>>

StatusFails ==
  /\ pc \in {"status", "panic"}
  /\ Spend("statusFault")
  /\ Return(cr)
  /\ UNCHANGED apiVars

--------------------------------------------------------------------------------
Users ==
  \/ \E s \in Specs : CreateCr(s) \/ EditCr(s)
  \/ DeleteCr
  \/ \E c \in ConfigMaps, v \in CmValues \cup {Nothing} : WriteConfigMap(c, v)
  \/ \E k \in Kinds : Label(k) \/ Change(k) \/ Delete(k)

Collector == \E k \in Kinds : CollectGarbage(k)

Informers == SyncCr \/ \E k \in Kinds : SyncObject(k)

Apply ==
  \E k \in todo :
    CreateSecret(k) \/ GetObject(k) \/ CreateObject(k) \/ PatchObject(k)

Clean == \E k \in todo : TryToDelete(k)

Reconciler ==
  \/ CrGone \/ GetCrFails \/ GetCr
  \/ ReadConfigMap \/ \E password \in Passwords : InitModel(password)
  \/ Apply \/ ApplyEnds \/ Clean \/ CleanEnds \/ CallFails
  \/ UpdateStatus \/ StatusConflict \/ StatusFails

Next == Users \/ Collector \/ Informers \/ Crash \/ Reconciler

Spec == Init /\ [][Next]_vars

(***************************************************************************)
(* The worker goes on as long as it has work, informers deliver and the    *)
(* garbage collector collects; users, faults and crashes owe nothing.      *)
(***************************************************************************)
Fairness ==
  /\ WF_vars(Reconciler)
  /\ WF_vars(SyncCr)
  /\ \A k \in LaggingKinds : WF_vars(SyncObject(k))
  /\ WF_vars(Collector)

FairSpec == Spec /\ Fairness
--------------------------------------------------------------------------------
(* Properties.                                                                  *)

TypeOK ==
  /\ cr \in CrType /\ crCache \in CrType /\ backstage \in CrType
  /\ cms \in ExtType /\ ext \in ExtType
  /\ live \in [Kinds -> ObjType] /\ objCache \in [Kinds -> ObjType]
  /\ desired \in [Kinds -> ObjType] /\ base \in ObjType
  /\ queued \in BOOLEAN /\ failed \in BOOLEAN
  /\ pc \in {"idle", "preprocess", "apply", "create", "patch", "clean", "status", "panic"}
  /\ unread \in Seq(ConfigMaps)
  /\ todo \in SUBSET Kinds
  /\ left \in [Events -> Nat]

RefsPresent(spec) == \A c \in Range(spec.cms) : cms[c] # Nothing

\* Nothing is left to do: the worker is idle, the queue is empty and the cache
\* has seen the last version of the CR.
Settled == pc = "idle" /\ ~queued /\ crCache = cr

\* The model is never made from a ConfigMap that was not found: preprocessSpec
\* returns at the first missing one (spec_preprocessor.go:48-108), so each of
\* those the spec names is still to be read or has been read.
ReadBeforeUse ==
  pc = "preprocess" =>
    \A c \in Range(backstage.spec.cms) : c \in Range(unread) \/ ext[c] # Nothing

\* Level triggering loses nothing: whatever the order of edits, stale reads of
\* the CR, conflicts, failing calls and crashes (controllers/backstage_controller.go
\* 77-139), when nothing is left to do the objects are those of the last spec, all
\* made from one reading of its ConfigMaps.
SettledInSync ==
  Settled /\ cr.exists => \E e \in Reads(cr.spec) : InSync(live, cr.spec, cr.uid, e)

\* Deployed is true: when Reconcile is about to write Deployed on the version
\* of the CR it has read (line 136), all objects of that version are applied and
\* all others deleted, also those that were applied by earlier, failed passes.
DeployedMeansApplied ==
  (pc = "status" /\ backstage.cond = "Deployed" /\ SameVersion)
    => InSync(live, cr.spec, cr.uid, ext)

\* Only the verdict of a finished pass is ever stored: the "in progress" of line
\* 111 is replaced on each way out of Reconcile, the early returns included.  (A
\* panic of InitObjects does store it: the specs of the run do not cause one.)
StoredStatusIsVerdict == cr.cond # "DeployInProgress"

\* The generated password of an existing DB secret is never replaced, although
\* every pass generates a new one (db-secret.go:81): the database was
\* initialised with it (lines 160-163).
DbSecretKept ==
  [][ live["db-secret"].exists /\ live'["db-secret"].exists
        /\ live'["db-secret"] # live["db-secret"] => ~Reconciler ]_vars

\* patchObject never takes away a label or annotation that somebody else has
\* put on an object (lines 203-223), even after the base has been read.
OthersLabelsKept ==
  [][ (\E k \in Kinds : live[k].exists /\ live'[k].exists
                           /\ live[k].label /\ ~live'[k].label) => ~Reconciler ]_vars

\* The local database is deleted only after the Backstage pod has been moved
\* off it: applyObjects precedes cleanObjects in a pass, and no stale pass
\* deletes the database of a pod that uses it.
DbDeletedAfterSwitch ==
  [][ live["db-statefulset"].exists /\ ~live'["db-statefulset"].exists
        /\ live["deployment"].exists /\ "db-secret" \in live["deployment"].refs
          => ~Reconciler ]_vars

\* A pass that reads the objects anew is still to come.
Due == crCache # cr \/ queued \/ pc = "preprocess"

\* When users and faults come to an end and the ConfigMaps of the spec exist,
\* the objects become those of the spec, the worker comes to rest although each
\* status update it makes triggers another reconcile, and stays there.  Changes
\* of objects by others are not watched (line 285): they are undone by a pass
\* that begins later, and only by that.
Converges ==
  <>[](cr.exists => RefsPresent(cr.spec))
    => [](Due /\ left["change"] = 0 /\ left["delete"] = 0
            => <>[](cr.exists => Settled /\ SettledInSync))

\* ... and the status says so.
StatusConverges ==
  <>[](cr.exists => RefsPresent(cr.spec)) => <>[](cr.exists => cr.cond = "Deployed")

\* The objects of a deleted CR are collected, those included that a pass still
\* creates after the CR has gone (they are born with a dead owner).
Collected == <>[](cr.exists \/ \A k \in Kinds : ~live[k].exists)

(***************************************************************************)
(* What the steps of Reconcile amount to, seen from the API server: the    *)
(* objects move one by one to what the version of the CR at hand asks for, *)
(* never past it and never back, and the status is true.                   *)
(***************************************************************************)
Abstract ==
  INSTANCE DesiredState WITH known <- crCache, copy <- VersionOf(backstage)

\* applyObjects and cleanObjects (lines 142-246), with the stale base of a patch
\* and the calls that fail in between, do just that, and the condition stored is
\* one that the objects justify.  (Others may label the objects, not change or
\* delete them, and the CR is created once: see StaleBase and SecretOfFormerCr.)
ImplementsDesiredState == Abstract!Spec

--------------------------------------------------------------------------------
(* What the repository says and the code does not do (see README, findings).    *)

\* docs/design.md:3: the workload is kept "synced with the desired state defined
\* by configuration"; here with informers of the runtime objects that lag.
SyncedWithConfiguration ==
  Settled /\ (\A k \in LaggingKinds : objCache[k] = live[k]) => SettledInSync

\* api/v1alpha1/backstage_types.go:62: for a local database "a secret will be
\* auto generated if it does not exist"; here once the garbage is collected.
DbSecretGenerated ==
  /\ Settled /\ cr.exists /\ IsLocalDbEnabled(cr.spec.decisions)
  /\ \A k \in Kinds : live[k].exists => live[k].owner = cr.uid
  => live["db-secret"].exists

\* docs/admin.md:34 (route.yaml is the "Route exposing Backstage service") and
\* tests/e2e/e2e_test.go:125 ("ensuring the route is reachable", for a CR with
\* no spec): on OpenShift a CR that says nothing of the route gets the default.
DefaultRouteExposed ==
  Settled /\ cr.exists /\ cr.spec.decisions.route = "nil" /\ IsOpenShift
    /\ DefaultFiles["route"] = "good" => live["route"].exists
================================================================================
