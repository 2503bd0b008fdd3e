--------------------------------- MODULE Manager ---------------------------------
(* The manager process (main.go) serving several Backstage CRs: the informer of *)
(* the CRs, the work queue, retries with backoff, and the one worker that calls *)
(* Reconcile (controllers/backstage_controller.go), which is seen from outside  *)
(* here: it applies a good spec, fails as long as a ConfigMap is missing, or    *)
(* panics, which ends the process.  Reconcile.tla is what happens inside.       *)
EXTENDS Naturals, Sequences, Functions

CONSTANTS
  Crs,        \* the names of the CRs
  Good,       \* specs that can always be applied
  NeedsCm,    \* specs that name a ConfigMap that may be missing
  Panicking,  \* specs on which InitObjects panics
  Texts,      \* messages of failed passes
  NoCr,       \* no CR
  MaxEdits,   \* bounds: writes of CRs by users,
  MaxCrashes  \*   and deaths of the process from outside

Specs == Good \cup NeedsCm \cup Panicking

ASSUME ManagerAssumption ==
  /\ NoCr \notin Crs /\ NoCr \notin Specs
  /\ Texts \cap {"none", "DeployInProgress", "Deployed"} = {}
  /\ MaxEdits \in Nat /\ MaxCrashes \in Nat

VARIABLES
  \* the API server
  spec,      \* CR -> its spec, or NoCr
  status,    \* CR -> its condition: what was stored last
  present,   \* the ConfigMap exists
  \* the process
  alive,
  event,     \* CR -> the informer has not delivered the last write yet
  cached,    \* CR -> the spec in the informer's cache
  queue,     \* the work queue: requests in order,
  dirty,     \*   the set of what must be served, queued or not,
  waiting,   \*   and failed requests whose delay has not passed
  current,   \* the request that is being served
  reading,   \* the spec it has read
  outdated,  \* its copy of the CR is not the last version
  \* what has been achieved: CR -> the spec applied last
  applied,
  edits, crashes

apiVars   == <<spec, status, present>>
queueVars == <<queue, dirty, waiting>>
callVars  == <<current, reading, outdated>>
counters  == <<edits, crashes>>
vars == <<spec, status, present, alive, event, cached, queue, dirty, waiting,
          current, reading, outdated, applied, edits, crashes>>

Idle == NoCr

Init ==
  /\ spec \in [Crs -> Specs \cup {NoCr}] /\ status = [c \in Crs |-> "none"]
  /\ present \in BOOLEAN
  /\ alive = FALSE
  /\ event = [c \in Crs |-> FALSE] /\ cached = [c \in Crs |-> NoCr]
  /\ queue = << >> /\ dirty = {} /\ waiting = {}
  /\ current = Idle /\ reading = NoCr /\ outdated = FALSE
  /\ applied = [c \in Crs |-> NoCr]
  /\ edits = 0 /\ crashes = 0

--------------------------------------------------------------------------------
(* Users.                                                                       *)

\* A write of c: there will be an event, and a copy read before is outdated.
Written(c) ==
  /\ event' = [event EXCEPT ![c] = alive]
  /\ outdated' = (outdated \/ c = current)

WriteCr(c, s) ==
  /\ edits < MaxEdits /\ edits' = edits + 1
  /\ s # spec[c]
  /\ spec' = [spec EXCEPT ![c] = s]
  /\ status' = IF spec[c] = NoCr \/ s = NoCr THEN [status EXCEPT ![c] = "none"] ELSE status
  /\ applied' = IF s = NoCr THEN [applied EXCEPT ![c] = NoCr] ELSE applied
  /\ Written(c)
  /\ UNCHANGED <<present, alive, cached, queueVars, current, reading, crashes>>

\* ConfigMaps are not watched.
WriteConfigMap ==
  /\ edits < MaxEdits /\ edits' = edits + 1
  /\ present' = ~present
  /\ UNCHANGED <<spec, status, alive, event, cached, queueVars, callVars, applied, crashes>>

--------------------------------------------------------------------------------
(* The process.  A new one lists the CRs: each of them is an event.             *)

Start ==
  /\ ~alive
  /\ alive' = TRUE
  /\ cached' = [c \in Crs |-> NoCr]
  /\ event' = [c \in Crs |-> spec[c] # NoCr]
  /\ UNCHANGED <<apiVars, queueVars, callVars, applied, counters>>

\* What the process knows is lost with it.
Dies ==
  /\ alive' = FALSE
  /\ event' = [c \in Crs |-> FALSE] /\ cached' = [c \in Crs |-> NoCr]
  /\ queue' = << >> /\ dirty' = {} /\ waiting' = {}
  /\ current' = Idle /\ reading' = NoCr /\ outdated' = FALSE

Crash ==
  /\ alive
  /\ crashes < MaxCrashes /\ crashes' = crashes + 1
  /\ Dies
  /\ UNCHANGED <<apiVars, applied, edits>>

--------------------------------------------------------------------------------
(* The informer and the work queue.                                             *)

\* Wrong variant: a request under way is not marked again.
AddUnlessServed(c) ==
  IF c \in dirty \/ c = current THEN UNCHANGED <<queue, dirty>>
  ELSE queue' = Append(queue, c) /\ dirty' = dirty \cup {c}

\* Wrong variant: the newest request is served first.
AddFirst(c) ==
  IF c \in dirty THEN UNCHANGED <<queue, dirty>>
  ELSE /\ dirty' = dirty \cup {c}
       /\ queue' = IF c = current THEN queue ELSE <<c>> \o queue

\* A request that is being served is queued when that is done.
Add(c) ==
  IF c \in dirty THEN UNCHANGED <<queue, dirty>>
  ELSE /\ dirty' = dirty \cup {c}
       /\ queue' = IF c = current THEN queue ELSE Append(queue, c)

Deliver(c) ==
  /\ alive /\ event[c]
  /\ event' = [event EXCEPT ![c] = FALSE]
  /\ cached' = [cached EXCEPT ![c] = spec[c]]
  /\ Add(c)
  /\ UNCHANGED <<apiVars, alive, waiting, callVars, applied, counters>>

\* The delay of a failed request has passed.
RetryDue(c) ==
  /\ c \in waiting
  /\ waiting' = waiting \ {c}
  /\ Add(c)
  /\ UNCHANGED <<apiVars, alive, event, cached, callVars, applied, counters>>

--------------------------------------------------------------------------------
(* The worker.                                                                  *)

\* It takes a request, and Reconcile reads the CR from the cache.
Take ==
  /\ alive /\ current = Idle /\ queue # << >>
  /\ LET c == Head(queue)
     IN  /\ current' = c /\ dirty' = dirty \ {c}
         /\ reading' = cached[c] /\ outdated' = event[c]
  /\ queue' = Tail(queue)
  /\ UNCHANGED <<apiVars, alive, event, cached, waiting, applied, counters>>

\* Done: what became dirty meanwhile is queued.
DoneWith(c) ==
  /\ queue' = IF c \in dirty THEN Append(queue, c) ELSE queue
  /\ current' = Idle /\ reading' = NoCr /\ outdated' = FALSE
  /\ UNCHANGED dirty

\* Wrong variant: the status is written whatever the version of the copy.
StoreStatusAnyway(c, text) ==
  IF spec[c] = NoCr \/ status[c] = text
  THEN UNCHANGED <<status, event>>
  ELSE status' = [status EXCEPT ![c] = text] /\ event' = [event EXCEPT ![c] = TRUE]

\* Wrong variant: a status that says the same is a new version too.
StoreStatusAlways(c, text) ==
  IF outdated \/ spec[c] = NoCr THEN UNCHANGED <<status, event>>
  ELSE status' = [status EXCEPT ![c] = text] /\ event' = [event EXCEPT ![c] = TRUE]

\* The deferred Status().Update: a conflict if the copy is outdated; a text that
\* is new is a write like any other.
StoreStatus(c, text) ==
  IF outdated \/ spec[c] = NoCr \/ status[c] = text
  THEN UNCHANGED <<status, event>>
  ELSE status' = [status EXCEPT ![c] = text] /\ event' = [event EXCEPT ![c] = TRUE]

\* The CR is gone.
ServeGone ==
  /\ current # Idle /\ reading = NoCr
  /\ DoneWith(current)
  /\ UNCHANGED <<apiVars, alive, event, cached, waiting, applied, counters>>

Succeeds(s) == s \in Good \/ (s \in NeedsCm /\ present)

ServeWell ==
  /\ current # Idle /\ Succeeds(reading)
  /\ applied' = [applied EXCEPT ![current] = reading]
  /\ StoreStatus(current, "Deployed")
  /\ DoneWith(current)
  /\ UNCHANGED <<spec, present, alive, cached, waiting, counters>>

\* Wrong variant: a failed request is forgotten.
ServeFailsOnce(text) ==
  /\ current # Idle /\ reading \in NeedsCm /\ ~present
  /\ StoreStatus(current, text)
  /\ DoneWith(current)
  /\ UNCHANGED <<spec, present, alive, cached, waiting, applied, counters>>

\* Wrong variant: what waits is not the request.
ServeFailsWrongRequest(text) ==
  /\ current # Idle /\ reading \in NeedsCm /\ ~present
  /\ waiting' = waiting \cup {reading}
  /\ StoreStatus(current, text)
  /\ DoneWith(current)
  /\ UNCHANGED <<spec, present, alive, cached, applied, counters>>

\* An error: the request waits to be tried again.
ServeFails(text) ==
  /\ current # Idle /\ reading \in NeedsCm /\ ~present
  /\ waiting' = waiting \cup {current}
  /\ StoreStatus(current, text)
  /\ DoneWith(current)
  /\ UNCHANGED <<spec, present, alive, cached, applied, counters>>

\* A panic: the status is stored, and the process ends.
ServePanics ==
  /\ current # Idle /\ reading \in Panicking
  /\ status' = IF outdated \/ spec[current] = NoCr THEN status
               ELSE [status EXCEPT ![current] = IF @ = "none" THEN "DeployInProgress" ELSE @]
  /\ Dies
  /\ UNCHANGED <<spec, present, applied, counters>>

Worker ==
  \/ Take \/ ServeGone \/ ServeWell \/ ServePanics
  \/ \E text \in Texts : ServeFails(text)

--------------------------------------------------------------------------------
Next ==
  \/ \E c \in Crs, s \in Specs \cup {NoCr} : WriteCr(c, s)
  \/ WriteConfigMap
  \/ Start \/ Crash
  \/ \E c \in Crs : Deliver(c) \/ RetryDue(c)
  \/ Worker

Spec == Init /\ [][Next]_vars

(***************************************************************************)
(* The process is restarted, the worker works, informers deliver and       *)
(* delays pass.                                                            *)
(***************************************************************************)
Fairness ==
  /\ WF_vars(Start) /\ WF_vars(Worker)
  /\ \A c \in Crs : WF_vars(Deliver(c)) /\ WF_vars(RetryDue(c))

FairSpec == Spec /\ Fairness
--------------------------------------------------------------------------------
(* Properties.                                                                  *)

Conditions == {"none", "DeployInProgress", "Deployed"} \cup Texts

TypeOK ==
  /\ spec \in [Crs -> Specs \cup {NoCr}] /\ cached \in [Crs -> Specs \cup {NoCr}]
  /\ applied \in [Crs -> Specs \cup {NoCr}] /\ status \in [Crs -> Conditions]
  /\ event \in [Crs -> BOOLEAN]
  /\ present \in BOOLEAN /\ alive \in BOOLEAN /\ outdated \in BOOLEAN
  /\ queue \in Seq(Crs) /\ dirty \subseteq Crs /\ waiting \subseteq Crs
  /\ current \in Crs \cup {Idle} /\ reading \in Specs \cup {NoCr}
  /\ edits \in 0..MaxEdits /\ crashes \in 0..MaxCrashes

\* No write of a CR is ever forgotten: while what is applied is not its spec, an
\* event of it is on the way, or the request is marked, waits for a retry, or is
\* being served with that very spec.  Edits come in the middle of a pass, passes
\* read a cache that is behind, and conflicts of the status are not retried
\* (backstage_controller.go:100-108).
NothingForgotten ==
  \A c \in Crs : alive /\ spec[c] # NoCr /\ applied[c] # spec[c] =>
    \/ event[c]
    \/ c \in dirty \/ c \in waiting
    \/ c = current /\ reading = spec[c]

\* Deployed is stored only on the spec that has been applied, never on one the
\* user wrote while the pass was going on, nor on a CR that was deleted and
\* created again under the name: the update of the status carries the version of
\* the copy (backstage_controller.go:100-108).
DeployedOfThisSpec ==
  [][ \A c \in Crs : status[c] # "Deployed" /\ status'[c] = "Deployed"
                       => applied'[c] = spec'[c] ]_vars

\* Once no CR makes the process panic and the ConfigMap stays, each CR gets its
\* last spec applied, whatever the other CRs do: a CR whose passes fail with
\* changing texts, so that each of them triggers the next one without backoff,
\* does not keep the only worker from the others.
EachServed ==
  \A c \in Crs :
    <>[](\A d \in Crs : spec[d] \notin Panicking)
      => <>[](spec[c] \in Good => applied[c] = spec[c] /\ status[c] = "Deployed")

\* A CR that waits for a ConfigMap is served once that is there, although nobody
\* watches it: the retries go on.
ServedOnceComplete ==
  <>[](present /\ \A d \in Crs : spec[d] \notin Panicking)
    => <>[](\A c \in Crs : spec[c] # NoCr => applied[c] = spec[c])

\* ... and then the process comes to rest: the status of a pass does trigger
\* another one, but not for ever.
ComesToRest ==
  <>[](present /\ \A d \in Crs : spec[d] \notin Panicking)
    => <>[](queue = << >> /\ waiting = {} /\ current = Idle)
================================================================================
