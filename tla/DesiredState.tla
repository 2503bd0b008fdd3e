------------------------------- MODULE DesiredState -------------------------------
(* What the operator promises, without the steps of Reconcile: the controller   *)
(* looks at a version of the CR and moves the live objects towards what that    *)
(* version asks for, one object at a time and in no order, and says "Deployed"  *)
(* of a version only while the objects are the ones it asks for.                *)
EXTENDS Workload

VARIABLES
  cr,      \* the Backstage CR
  cms,     \* ConfigMap -> content
  live,    \* the runtime objects
  known,   \* the last version of the CR the controller has heard of
  copy     \* the version it works on

vars == <<cr, cms, live, known, copy>>

Init ==
  /\ cr \in [exists : {FALSE}, uid : {0}, rv : {0}, spec : Specs, cond : {"none"}]
  /\ cms \in ExtType
  /\ live = NoObjects
  /\ known = cr /\ copy = VersionOf(cr)

--------------------------------------------------------------------------------
(* Users, and the other clients of the API server.                              *)

WriteCr ==
  /\ \/ ~cr.exists /\ \E s \in Specs : cr' = Created(cr, s)
     \/ cr.exists /\ \E s \in Specs : cr' = Edited(cr, s)
     \/ cr.exists /\ cr' = Deleted(cr)
  /\ UNCHANGED <<cms, live, known, copy>>

WriteConfigMap(c, v) ==
  /\ cms' = [cms EXCEPT ![c] = v]
  /\ UNCHANGED <<cr, live, known, copy>>

Label(k) ==
  /\ live[k].exists
  /\ live' = [live EXCEPT ![k].label = TRUE]
  /\ UNCHANGED <<cr, cms, known, copy>>

\* Only objects whose owner is gone are collected.
Collect(k) ==
  /\ live[k].exists /\ live[k].owner # 0
  /\ ~(cr.exists /\ cr.uid = live[k].owner)
  /\ live' = [live EXCEPT ![k] = Absent]
  /\ UNCHANGED <<cr, cms, known, copy>>

--------------------------------------------------------------------------------
(* The controller.                                                              *)

Learn == known' = cr /\ UNCHANGED <<cr, cms, live, copy>>

Look ==
  /\ known.exists
  /\ copy' = VersionOf(known)
  /\ UNCHANGED <<cr, cms, live, known>>

\* An object that exists becomes the one that is wanted; what others put on it
\* stays, and so do the entries of a secret.
Brought(obj, k, want) ==
  [ want EXCEPT !.label   = obj.label,
                !.entries = IF k \in SecretKinds THEN obj.entries \cup @ ELSE @ ]

\* The password of an existing DB secret is not touched.
Realise(k) ==
  /\ copy.exists
  /\ live[k].exists => k # "db-secret"
  /\ UNCHANGED <<cr, cms, known, copy>>
  /\ \E e \in Reads(copy.spec) :
       /\ k \in Added(InitInput(copy.spec, e))
       /\ \E password \in Passwords :
            LET want == DesiredObject(k, copy.spec, copy.uid, e, password)
            IN  live' = [live EXCEPT ![k] = IF @.exists THEN Brought(@, k, want) ELSE want]

InUse(k) ==
  k \in DbKinds /\ live["deployment"].exists /\ "db-secret" \in live["deployment"].refs

\* What the version does not ask for is deleted, the database not before the pod
\* has stopped using it.
Remove(k) ==
  /\ copy.exists
  /\ k \in CleanKinds(copy.spec.decisions, IsOpenShift)
  /\ ~InUse(k)
  /\ live' = [live EXCEPT ![k] = Absent]
  /\ UNCHANGED <<cr, cms, known, copy>>

\* The status is written on the version the controller works on.
Report(c) ==
  /\ cr.exists /\ copy = VersionOf(cr)
  /\ c = "Deployed" => \E e \in Reads(cr.spec) : InSync(live, cr.spec, cr.uid, e)
  /\ cr' = NewVersion([cr EXCEPT !.cond = c])
  /\ known' \in {known, cr'}
  /\ UNCHANGED <<cms, live, copy>>

--------------------------------------------------------------------------------
Next ==
  \/ Learn \/ Look
  \/ WriteCr
  \/ \E c \in ConfigMaps, v \in CmValues \cup {Nothing} : WriteConfigMap(c, v)
  \/ \E k \in Kinds : Label(k) \/ Collect(k) \/ Remove(k) \/ Realise(k)
  \/ \E c \in Conditions : Report(c)

Spec == Init /\ [][Next]_vars
================================================================================
