------------------------------ MODULE ManagerProofs ------------------------------
(* Proofs about Manager, for any number of CRs and specs: types, that no write  *)
(* of a CR is forgotten, and that Deployed is stored only on the spec applied.  *)
EXTENDS Manager, TLAPS

USE DEF Idle

--------------------------------------------------------------------------------
(* Types.                                                                       *)

\* Adding to the work queue keeps its types.
LEMMA AddType ==
  ASSUME TypeOK, NEW c \in Crs, Add(c)
  PROVE  queue' \in Seq(Crs) /\ dirty' \subseteq Crs
BY DEF TypeOK, Add

\* So does the end of a request.
LEMMA DoneType ==
  ASSUME TypeOK, NEW c \in Crs, DoneWith(c)
  PROVE  /\ queue' \in Seq(Crs) /\ dirty' \subseteq Crs
         /\ current' \in Crs \cup {Idle} /\ reading' \in Specs \cup {NoCr}
         /\ outdated' \in BOOLEAN
<1>1. queue' \in Seq(Crs) /\ dirty' \subseteq Crs
  BY DEF TypeOK, DoneWith
<1>2. /\ current' \in Crs \cup {Idle} /\ reading' \in Specs \cup {NoCr}
      /\ outdated' \in BOOLEAN
  BY DEF DoneWith
<1> QED BY <1>1, <1>2

\* Storing a status keeps the types of what it writes.
LEMMA StoreType ==
  ASSUME TypeOK, NEW c \in Crs, NEW text \in Conditions, StoreStatus(c, text)
  PROVE  status' \in [Crs -> Conditions] /\ event' \in [Crs -> BOOLEAN]
BY DEF TypeOK, StoreStatus

\* The death of the process leaves everything in memory empty.
LEMMA DiesType ==
  ASSUME TypeOK, Dies
  PROVE  /\ alive' = FALSE
         /\ event' \in [Crs -> BOOLEAN] /\ cached' \in [Crs -> Specs \cup {NoCr}]
         /\ queue' \in Seq(Crs) /\ dirty' \subseteq Crs /\ waiting' \subseteq Crs
         /\ current' \in Crs \cup {Idle} /\ reading' \in Specs \cup {NoCr}
         /\ outdated' \in BOOLEAN
<1>1. event' \in [Crs -> BOOLEAN]
  BY DEF Dies
<1>2. cached' \in [Crs -> Specs \cup {NoCr}]
  BY DEF Dies
<1>3. queue' \in Seq(Crs) /\ dirty' \subseteq Crs /\ waiting' \subseteq Crs
  BY DEF Dies
<1>4. /\ current' \in Crs \cup {Idle} /\ reading' \in Specs \cup {NoCr}
      /\ outdated' \in BOOLEAN
  BY DEF Dies
<1>5. alive' = FALSE
  BY DEF Dies
<1> QED BY <1>1, <1>2, <1>3, <1>4, <1>5

\* Each step keeps the types.
LEMMA TypeStep == TypeOK /\ [Next]_vars => TypeOK'
<1> SUFFICES ASSUME TypeOK, [Next]_vars PROVE TypeOK'
  OBVIOUS
<1> USE ManagerAssumption
<1>1. ASSUME NEW c \in Crs, NEW s \in Specs \cup {NoCr}, WriteCr(c, s)
      PROVE  TypeOK'
  BY <1>1 DEF TypeOK, WriteCr, Written, queueVars, Conditions
<1>2. CASE WriteConfigMap
  BY <1>2 DEF TypeOK, WriteConfigMap, queueVars, callVars
<1>3. CASE Start
  BY <1>3 DEF TypeOK, Start, apiVars, queueVars, callVars, counters
<1>4. CASE Crash
  <2>1. UNCHANGED <<spec, status, present, applied, edits>> /\ crashes' \in 0..MaxCrashes
    BY <1>4 DEF Crash, apiVars, TypeOK
  <2>2. Dies
    BY <1>4 DEF Crash
  <2> HIDE DEF Idle
  <2>3. alive' \in BOOLEAN
    BY <2>2, DiesType
  <2> QED BY <2>1, <2>2, <2>3, DiesType DEF TypeOK
<1>5. ASSUME NEW c \in Crs, Deliver(c) PROVE TypeOK'
  BY <1>5, AddType DEF TypeOK, Deliver, apiVars, callVars, counters
<1>6. ASSUME NEW c \in Crs, RetryDue(c) PROVE TypeOK'
  BY <1>6, AddType DEF TypeOK, RetryDue, apiVars, callVars, counters
<1>7. CASE Take
  <2>1. Head(queue) \in Crs /\ Tail(queue) \in Seq(Crs)
    BY <1>7 DEF Take, TypeOK
  <2> QED BY <1>7, <2>1 DEF TypeOK, Take, apiVars, counters
<1>8. CASE ServeGone
  <2>1. current \in Crs
    BY <1>8 DEF TypeOK, ServeGone
  <2> QED BY <1>8, <2>1, DoneType DEF TypeOK, ServeGone, apiVars, counters
<1>9. CASE ServeWell
  <2>1. current \in Crs /\ "Deployed" \in Conditions
    BY <1>9 DEF TypeOK, ServeWell, Conditions
  <2>2. applied' \in [Crs -> Specs \cup {NoCr}]
    BY <1>9 DEF TypeOK, ServeWell
  <2> QED BY <1>9, <2>1, <2>2, DoneType, StoreType DEF TypeOK, ServeWell, counters
<1>10. CASE ServePanics
  <2>1. current \in Crs /\ status' \in [Crs -> Conditions]
    BY <1>10 DEF TypeOK, ServePanics, Conditions
  <2> QED BY <1>10, <2>1, DiesType DEF TypeOK, ServePanics, counters
<1>11. ASSUME NEW text \in Texts, ServeFails(text) PROVE TypeOK'
  <2>1. current \in Crs /\ text \in Conditions
    BY <1>11 DEF TypeOK, ServeFails, Conditions
  <2>2. waiting' \subseteq Crs
    BY <1>11, <2>1 DEF TypeOK, ServeFails
  <2> QED BY <1>11, <2>1, <2>2, DoneType, StoreType DEF TypeOK, ServeFails, counters
<1>12. CASE UNCHANGED vars
  BY <1>12 DEF TypeOK, vars
<1> QED
  BY <1>1, <1>2, <1>3, <1>4, <1>5, <1>6, <1>7, <1>8, <1>9, <1>10, <1>11, <1>12
  DEF Next, Worker

\* The variables of Manager keep their types, whatever the constants.
THEOREM Typing == Spec => []TypeOK
<1>1. Init => TypeOK
  <2> SUFFICES ASSUME Init PROVE TypeOK
    OBVIOUS
  <2>1. /\ spec \in [Crs -> Specs \cup {NoCr}] /\ cached \in [Crs -> Specs \cup {NoCr}]
        /\ applied \in [Crs -> Specs \cup {NoCr}]
    BY DEF Init
  <2>2. status \in [Crs -> Conditions]
    BY DEF Init, Conditions
  <2>3. event \in [Crs -> BOOLEAN]
    BY DEF Init
  <2>4. present \in BOOLEAN /\ alive \in BOOLEAN /\ outdated \in BOOLEAN
    BY DEF Init
  <2>5. queue \in Seq(Crs) /\ dirty \subseteq Crs /\ waiting \subseteq Crs
    BY DEF Init
  <2>6. /\ current \in Crs \cup {Idle} /\ reading \in Specs \cup {NoCr}
        /\ edits \in 0..MaxEdits /\ crashes \in 0..MaxCrashes
    BY ManagerAssumption DEF Init
  <2> QED BY <2>1, <2>2, <2>3, <2>4, <2>5, <2>6 DEF TypeOK
<1> QED BY <1>1, TypeStep, PTL DEF Spec

--------------------------------------------------------------------------------
(* Nothing is forgotten.                                                        *)

\* What the invariants rest on: an informer that owes no event has the last spec,
\* a copy that is not outdated is that of the last version, and a request whose
\* copy has another spec will be served again.
Fresh ==
  /\ \A c \in Crs : alive /\ ~event[c] => cached[c] = spec[c]
  /\ current # Idle => alive /\ (~outdated => reading = spec[current])
  /\ current # Idle /\ reading # spec[current] => event[current] \/ current \in dirty

\* Each step keeps Fresh.
LEMMA FreshStep == TypeOK /\ Fresh /\ [Next]_vars => Fresh'
<1> SUFFICES ASSUME TypeOK, Fresh, [Next]_vars PROVE Fresh'
  OBVIOUS
<1> USE ManagerAssumption DEF TypeOK, Fresh
<1>1. ASSUME NEW c \in Crs, NEW s \in Specs \cup {NoCr}, WriteCr(c, s)
      PROVE  Fresh'
  BY <1>1 DEF WriteCr, Written, queueVars
<1>2. CASE WriteConfigMap
  BY <1>2 DEF WriteConfigMap, queueVars, callVars
<1>3. CASE Start
  BY <1>3 DEF Start, apiVars, queueVars, callVars, counters
<1>4. CASE Dies
  BY <1>4 DEF Dies
<1>5. ASSUME NEW c \in Crs, Deliver(c) PROVE Fresh'
  BY <1>5 DEF Deliver, Add, apiVars, callVars, counters
<1>6. ASSUME NEW c \in Crs, RetryDue(c) PROVE Fresh'
  BY <1>6 DEF RetryDue, Add, apiVars, callVars, counters
<1>7. CASE Take
  <2>1. Head(queue) \in Crs
    BY <1>7 DEF Take
  <2> QED BY <1>7, <2>1 DEF Take, apiVars, counters
<1>8. ASSUME UNCHANGED <<spec, alive, cached>>, current' = Idle,
             NEW text, event' = event \/ StoreStatus(current, text), current \in Crs
      PROVE  Fresh'
  <2>1. \A c \in Crs : event[c] => event'[c]
    BY <1>8 DEF StoreStatus
  <2> QED BY <1>8, <2>1
<1>9. ServeGone \/ ServeWell \/ (\E text \in Texts : ServeFails(text)) => Fresh'
  BY <1>8 DEF ServeGone, ServeWell, ServeFails, DoneWith, apiVars
<1>10. Crash \/ ServePanics => Fresh'
  BY <1>4 DEF Crash, ServePanics
<1>11. CASE UNCHANGED vars
  BY <1>11 DEF vars
<1> QED
  BY <1>1, <1>2, <1>3, <1>5, <1>6, <1>7, <1>9, <1>10, <1>11 DEF Next, Worker

\* Each step keeps NothingForgotten.
LEMMA NothingForgottenStep ==
  TypeOK /\ Fresh /\ NothingForgotten /\ [Next]_vars => NothingForgotten'
<1> SUFFICES ASSUME TypeOK, Fresh, NothingForgotten, [Next]_vars,
                    NEW d \in Crs, alive', spec'[d] # NoCr, applied'[d] # spec'[d]
             PROVE  \/ event'[d]
                    \/ d \in dirty' \/ d \in waiting'
                    \/ d = current' /\ reading' = spec'[d]
  BY DEF NothingForgotten
<1> DEFINE Kept == \/ event'[d]
                   \/ d \in dirty' \/ d \in waiting'
                   \/ d = current' /\ reading' = spec'[d]
<1> USE ManagerAssumption DEF TypeOK
<1>1. ASSUME NEW c \in Crs, NEW s \in Specs \cup {NoCr}, WriteCr(c, s) PROVE Kept
  BY <1>1 DEF WriteCr, Written, queueVars, NothingForgotten
<1>2. CASE WriteConfigMap
  BY <1>2 DEF WriteConfigMap, queueVars, callVars, NothingForgotten
<1>3. CASE Start
  BY <1>3 DEF Start, apiVars
<1>4. CASE Crash \/ ServePanics
  BY <1>4 DEF Crash, ServePanics, Dies
<1>5. ASSUME NEW c \in Crs, Deliver(c) PROVE Kept
  BY <1>5 DEF Deliver, Add, apiVars, callVars, counters, NothingForgotten
<1>6. ASSUME NEW c \in Crs, RetryDue(c) PROVE Kept
  BY <1>6 DEF RetryDue, Add, apiVars, callVars, counters, NothingForgotten
<1>7. CASE Take
  BY <1>7 DEF Take, apiVars, counters, NothingForgotten, Fresh
<1>8. ASSUME NEW text, event' = event \/ StoreStatus(current, text), current \in Crs
      PROVE  event[d] => event'[d]
  BY <1>8 DEF StoreStatus
<1>9. CASE ServeGone
  BY <1>9, <1>8 DEF ServeGone, DoneWith, apiVars, NothingForgotten
<1>10. CASE ServeWell
  <2>1. CASE d = current
    BY <1>10, <1>8, <2>1 DEF ServeWell, DoneWith, Fresh
  <2>2. CASE d # current
    BY <1>10, <1>8, <2>2 DEF ServeWell, DoneWith, NothingForgotten
  <2> QED BY <2>1, <2>2
<1>11. ASSUME NEW text \in Texts, ServeFails(text) PROVE Kept
  BY <1>11, <1>8 DEF ServeFails, DoneWith, NothingForgotten
<1>12. CASE UNCHANGED vars
  BY <1>12 DEF vars, NothingForgotten
<1> QED
  BY <1>1, <1>2, <1>3, <1>4, <1>5, <1>6, <1>7, <1>9, <1>10, <1>11, <1>12 DEF Next, Worker

\* For any number of CRs, edits and crashes: whatever is not applied yet is on its
\* way to be.
THEOREM NeverForgotten == Spec => []NothingForgotten
<1>1. Init => Fresh /\ NothingForgotten
  BY DEF Init, Fresh, NothingForgotten
<1> QED BY <1>1, Typing, FreshStep, NothingForgottenStep, PTL DEF Spec

--------------------------------------------------------------------------------
(* Deployed.                                                                    *)

\* A step that stores Deployed is that of a pass whose copy is the last version.
LEMMA DeployedStep ==
  ASSUME TypeOK, Fresh, [Next]_vars, NEW c \in Crs,
         status[c] # "Deployed", status'[c] = "Deployed"
  PROVE  applied'[c] = spec'[c]
<1> USE ManagerAssumption DEF TypeOK
<1>1. CASE ServeWell
  <2>1. current = c /\ ~outdated
    BY <1>1 DEF ServeWell, StoreStatus
  <2> QED BY <1>1, <2>1 DEF ServeWell, Fresh
<1>2. ASSUME NEW text \in Texts, ServeFails(text) PROVE FALSE
  <2>1. text # "Deployed"
    BY ManagerAssumption, <1>2
  <2> QED BY <1>2, <2>1 DEF ServeFails, StoreStatus
<1>3. ~ServeWell /\ ~(\E text \in Texts : ServeFails(text)) => FALSE
  <2>1. ASSUME NEW d \in Crs, NEW s \in Specs \cup {NoCr}, WriteCr(d, s) PROVE FALSE
    BY <2>1 DEF WriteCr
  <2>2. ServePanics => FALSE
    BY DEF ServePanics
  <2> QED
    BY <2>1, <2>2 DEF Next, Worker, WriteConfigMap, Start, Crash, Deliver, RetryDue, Take,
       ServeGone, apiVars, vars
<1> QED BY <1>1, <1>2, <1>3

\* Deployed never appears on a spec that is not the one applied.
THEOREM DeployedIsOfThisSpec == Spec => DeployedOfThisSpec
<1>1. TypeOK /\ Fresh /\ [Next]_vars
        => [\A c \in Crs : status[c] # "Deployed" /\ status'[c] = "Deployed"
                             => applied'[c] = spec'[c]]_vars
  BY DeployedStep
<1>2. Init => Fresh
  BY DEF Init, Fresh
<1> QED BY <1>1, <1>2, Typing, FreshStep, PTL DEF Spec, DeployedOfThisSpec
================================================================================
