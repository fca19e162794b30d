-------------------------- MODULE KeeperCycleProofs --------------------------
(***************************************************************************)
(* Proofs about KeeperCycle, for any threshold, number of attempts and     *)
(* debounce: the health record says degraded exactly when the failures in  *)
(* a row have reached the threshold, so that is when a single node is      *)
(* trusted.                                                                *)
(***************************************************************************)
EXTENDS KeeperCycle, TLAPS

Health ==
  [degraded : BOOLEAN, failures : 0..DegradeThreshold, throttled : BOOLEAN]

\* The flag and the counter of the health record agree.
Sound(h) == h \in Health /\ (h.degraded <=> h.failures = DegradeThreshold)

-----------------------------------------------------------------------------
\* A record starts sound, and each registration keeps it sound.
LEMMA HealthySound == Sound(Healthy)
  BY CycleAssumption DEF Sound, Health, Healthy

LEMMA SucceededSound ==
  ASSUME NEW h
  PROVE  Sound(Succeeded(h))
  BY HealthySound DEF Succeeded

LEMMA FailedSound ==
  ASSUME NEW h, Sound(h)
  PROVE  Sound(Failed(h))
  <1> DEFINE n == IF h.failures < DegradeThreshold THEN h.failures + 1
                  ELSE h.failures
             d == h.degraded \/ n >= DegradeThreshold
  <1>1. n \in 0..DegradeThreshold /\ (h.degraded => n = DegradeThreshold)
    BY CycleAssumption DEF Sound, Health
  <1>2. d \in BOOLEAN /\ (d <=> n = DegradeThreshold)
    BY <1>1, CycleAssumption DEF Sound, Health
  <1> HIDE DEF n, d
  <1>3. Failed(h) = [h EXCEPT !.failures = n, !.degraded = d]
    BY DEF Failed, n, d
  <1>4. /\ Failed(h) \in Health
        /\ Failed(h).failures = n
        /\ Failed(h).degraded = d
    BY <1>1, <1>2, <1>3 DEF Sound, Health
  <1> QED BY <1>2, <1>4 DEF Sound

LEMMA ProbedSound ==
  ASSUME NEW h, Sound(h)
  PROVE  Sound(Probed(h))
  <1>1. CASE ~h.degraded \/ h.throttled
    BY <1>1 DEF Probed
  <1>2. CASE ~(~h.degraded \/ h.throttled) /\ secondary # "down"
    BY <1>2, SucceededSound DEF Probed
  <1>3. CASE ~(~h.degraded \/ h.throttled) /\ secondary = "down"
    <2>1. Probed(h) = [h EXCEPT !.throttled = TRUE]
      BY <1>3 DEF Probed
    <2> QED BY <2>1 DEF Sound, Health
  <1> QED BY <1>1, <1>2, <1>3

\* So is the record of a daemon that has just started.
LEMMA StartedSound == Sound(Started)
  BY HealthySound, SucceededSound, FailedSound DEF Started

-----------------------------------------------------------------------------
\* What going on, staying and deciding do to the place in the cycle.
Placed ==
  /\ step' \in Step \cup {"none"}
  /\ phase' \in {"idle", "read", "fallback", "act", "confirm"}
  /\ attempt' \in 1..MaxAttempts
  /\ sends' \in Nat

LEMMA EnterPlaces ==
  ASSUME NEW s \in Step \cup {"none"}, Enter(s)
  PROVE  Placed
  BY CycleAssumption DEF Enter, Placed

LEMMA GoOnPlaces ==
  ASSUME TypeOK, step \in Step, GoOn
  PROVE  Placed
  <1>1. Successor[step] \in Step \cup {"none"}
    BY DEF Successor, Step
  <1> QED BY <1>1, EnterPlaces DEF GoOn

\* A cycle that goes on is in a step, or over.
LEMMA GoOnStays ==
  ASSUME step \in Step, GoOn, phase' # "idle"
  PROVE  step' \in Step
  BY DEF GoOn, Enter, Successor, Step

LEMMA StayPlaces ==
  ASSUME TypeOK, NEW p \in {"fallback", "act"}, StayIn(p)
  PROVE  Placed
  BY CycleAssumption DEF StayIn, Placed, TypeOK

\* After the monitor's count the step is over or its transaction is due.
LEMMA DecidePlaces ==
  ASSUME TypeOK, step \in Step, Decide
  PROVE  Placed /\ observations' \in 0..Debounce
  <1>1. observations' \in 0..Debounce
    BY CycleAssumption DEF Decide, TypeOK
  <1>2. GoOn \/ StayIn("act")
    BY DEF Decide
  <1> QED BY <1>1, <1>2, GoOnPlaces, StayPlaces

LEMMA ProceedStays ==
  ASSUME step \in Step, Proceed, phase' # "idle"
  PROVE  step' \in Step
  BY GoOnStays DEF Proceed, Decide, StayIn

LEMMA ProceedPlaces ==
  ASSUME TypeOK, step \in Step, Proceed
  PROVE  Placed /\ observations' \in 0..Debounce
  <1>1. CASE step = "monitor"
    BY <1>1, DecidePlaces DEF Proceed
  <1>2. CASE step # "monitor"
    BY <1>2, StayPlaces DEF Proceed, TypeOK
  <1> QED BY <1>1, <1>2

-----------------------------------------------------------------------------
\* Where a cycle is under way, it is in one of its steps.
AtStep == phase # "idle" => step \in Step

IInv == TypeOK /\ Sound(health) /\ AtStep

LEMMA InitInvariant == Init => IInv
  <1> SUFFICES ASSUME Init PROVE IInv
    OBVIOUS
  <1>1. Sound(health)
    BY StartedSound DEF Init
  <1>2. TypeOK
    <2>1. /\ primary \in {"up", "down"}
          /\ secondary \in {"up", "lagging", "unreadable", "down"}
      BY CycleBounds DEF Init
    <2>2. {active, low, shutdown, in_flight, landed} \subseteq BOOLEAN
      BY DEF Init
    <2>3. attempt \in 1..MaxAttempts /\ observations \in 0..Debounce
      BY CycleAssumption DEF Init
    <2>4. restarts \in 0..MaxRestarts /\ sends \in Nat
      BY CycleBounds DEF Init
    <2>5. /\ mode \in {"Normal", "Degraded"}
          /\ step \in Step \cup {"none"}
          /\ phase \in {"idle", "read", "fallback", "act", "confirm"}
      BY DEF Init
    <2> QED
      BY <1>1, <2>1, <2>2, <2>3, <2>4, <2>5 DEF TypeOK, Sound, Health
  <1> QED BY <1>1, <1>2 DEF IInv, AtStep, Init

\* What a step must establish of its place, given that the rest of the state
\* keeps its types.
LEMMA InvariantByParts ==
  ASSUME TypeOK, Sound(health'), Placed,
         phase' # "idle" => step' \in Step,
         mode' \in {"Normal", "Degraded"},
         observations' \in 0..Debounce,
         {active', low', shutdown', in_flight', landed'} \subseteq BOOLEAN,
         restarts' \in 0..MaxRestarts,
         primary' \in {"up", "down"},
         secondary' \in {"up", "lagging", "unreadable", "down"}
  PROVE  IInv'
  BY DEF IInv, TypeOK, Sound, Health, Placed, AtStep

LEMMA BeginCycleInvariant == IInv /\ BeginCycle => IInv'
  <1> SUFFICES ASSUME IInv, BeginCycle PROVE IInv'
    OBVIOUS
  <1> DEFINE first == IF mode' = "Normal" THEN "oracle" ELSE "risk"
  <1>1. Sound(health')
    BY ProbedSound DEF BeginCycle, IInv
  <1>2. Placed /\ step' \in Step
    <2>1. first \in Step
      BY DEF Step
    <2>2. Enter(first)
      BY DEF BeginCycle
    <2> QED BY <2>1, <2>2, EnterPlaces DEF Enter
  <1> QED
    BY <1>1, <1>2, InvariantByParts
    DEF BeginCycle, IInv, TypeOK, ModeOf, nodeVars, chainVars

LEMMA ReadSucceedsInvariant == IInv /\ ReadSucceeds => IInv'
  <1> SUFFICES ASSUME IInv, ReadSucceeds PROVE IInv'
    OBVIOUS
  <1>1. TypeOK /\ step \in Step
    BY DEF IInv, AtStep, ReadSucceeds
  <1>2. Sound(health')
    BY SucceededSound DEF ReadSucceeds, IInv
  <1>3. Placed /\ observations' \in 0..Debounce
    BY <1>1, ProceedPlaces DEF ReadSucceeds
  <1>4. phase' # "idle" => step' \in Step
    BY <1>1, ProceedStays DEF ReadSucceeds
  <1> QED
    BY <1>1, <1>2, <1>3, <1>4, InvariantByParts
    DEF ReadSucceeds, TypeOK, nodeVars, chainVars

LEMMA FallbackInvariant == IInv /\ Fallback => IInv'
  <1> SUFFICES ASSUME IInv, Fallback PROVE IInv'
    OBVIOUS
  <1>1. TypeOK /\ step \in Step
    BY DEF IInv, AtStep, Fallback
  <1>2. /\ Placed
        /\ observations' \in 0..Debounce
        /\ phase' # "idle" => step' \in Step
    <2>1. CASE primary = "up"
      BY <1>1, <2>1, ProceedPlaces, ProceedStays DEF Fallback
    <2>2. CASE primary # "up"
      BY <1>1, <2>2, GoOnPlaces, GoOnStays DEF Fallback, TypeOK
    <2> QED BY <2>1, <2>2
  <1> QED
    BY <1>1, <1>2, InvariantByParts
    DEF Fallback, IInv, TypeOK, nodeVars, chainVars

LEMMA ReadFailsInvariant == IInv /\ ReadFails => IInv'
  <1> SUFFICES ASSUME IInv, ReadFails PROVE IInv'
    OBVIOUS
  <1>1. TypeOK /\ step \in Step
    BY DEF IInv, AtStep, ReadFails
  <1>2. Sound(health')
    BY FailedSound DEF ReadFails, ReadError, IInv
  <1>3. /\ Placed
        /\ observations' \in 0..Debounce
        /\ phase' # "idle" => step' \in Step
    <2>1. CASE MoreAttempts
      BY <1>1, <2>1, CycleAssumption
      DEF ReadFails, MoreAttempts, Placed, TypeOK
    <2>2. CASE ~MoreAttempts
      <3>1. Exhausted
        BY <2>2 DEF ReadFails
      <3>2. observations' \in 0..Debounce
        BY <1>1, <3>1, CycleAssumption DEF Exhausted, TypeOK
      <3>3. StayIn("fallback") \/ GoOn
        BY <3>1 DEF Exhausted
      <3> QED BY <1>1, <3>2, <3>3, StayPlaces, GoOnPlaces, GoOnStays DEF StayIn
    <2> QED BY <2>1, <2>2
  <1> QED
    BY <1>1, <1>2, <1>3, InvariantByParts
    DEF ReadFails, TypeOK, nodeVars, chainVars

LEMMA SubmitInvariant == IInv /\ Submit => IInv'
  <1> SUFFICES ASSUME IInv, Submit PROVE IInv'
    OBVIOUS
  <1>1. TypeOK /\ step \in Step
    BY DEF IInv, AtStep, Submit
  <1>2. Sound(health')
    BY ProbedSound DEF Submit, IInv
  <1>3. Placed /\ (phase' # "idle" => step' \in Step)
    <2>1. CASE primary = "up" \/ step \in Tolerant
      BY <1>1, <2>1 DEF Submit, Placed, TypeOK
    <2>2. CASE ~(primary = "up" \/ step \in Tolerant)
      BY <1>1, <2>2, GoOnPlaces, GoOnStays DEF Submit
    <2> QED BY <2>1, <2>2
  <1>4. {active', in_flight'} \subseteq BOOLEAN
    BY DEF Submit
  <1> QED
    BY <1>1, <1>2, <1>3, <1>4, InvariantByParts DEF Submit, TypeOK, nodeVars

LEMMA ConfirmInvariant ==
  ASSUME NEW p \in BOOLEAN, NEW s \in BOOLEAN, IInv, Confirm(p, s)
  PROVE  IInv'
  <1>1. TypeOK /\ step \in Step
    BY DEF IInv, AtStep, Confirm
  <1>2. Sound(health')
    BY SucceededSound, FailedSound DEF Confirm, IInv
  <1>3. StayIn("act") \/ GoOn
    BY DEF Confirm
  <1>4. Placed /\ (phase' # "idle" => step' \in Step)
    BY <1>1, <1>3, StayPlaces, GoOnPlaces, GoOnStays DEF StayIn
  <1> QED
    BY <1>1, <1>2, <1>4, InvariantByParts DEF Confirm, TypeOK, nodeVars

LEMMA FinishStepInvariant == IInv /\ FinishStep => IInv'
  <1> SUFFICES ASSUME IInv, FinishStep PROVE IInv'
    OBVIOUS
  <1>1. TypeOK /\ step \in Step
    BY DEF IInv, AtStep, FinishStep
  <1>2. Placed /\ (phase' # "idle" => step' \in Step)
    BY <1>1, GoOnPlaces, GoOnStays DEF FinishStep
  <1> QED
    BY <1>1, <1>2, InvariantByParts
    DEF FinishStep, IInv, TypeOK, nodeVars, chainVars

LEMMA EnvironmentInvariant == IInv /\ Environment => IInv'
  <1> SUFFICES ASSUME IInv, Environment PROVE IInv'
    OBVIOUS
  <1>1. CASE NodeChanges
    BY <1>1, CycleBounds
    DEF NodeChanges, IInv, TypeOK, Sound, Health, AtStep, daemonVars,
        placeVars, chainVars
  <1>2. CASE Land \/ Expire \/ Resume \/ Market
    BY <1>2
    DEF Land, AwaitsShutdown, Expire, Resume, Market, IInv, TypeOK, Sound,
        Health, AtStep, daemonVars, placeVars, nodeVars
  <1>3. CASE IntervalElapses
    <2>1. Sound(health')
      BY <1>3 DEF IntervalElapses, IInv, Sound, Health
    <2> QED
      BY <1>3, <2>1
      DEF IntervalElapses, IInv, TypeOK, Sound, Health, AtStep, placeVars,
          chainVars, nodeVars
  <1>4. CASE Restart
    <2>1. Sound(health')
      BY <1>4, StartedSound DEF Restart
    <2>2. Placed /\ phase' = "idle"
      BY <1>4, EnterPlaces DEF Restart, Enter
    <2>3. restarts' \in 0..MaxRestarts
      BY <1>4, CycleBounds DEF Restart, IInv, TypeOK
    <2>4. {active', low', shutdown', in_flight', landed'} \subseteq BOOLEAN
      BY <1>4 DEF Restart, IInv, TypeOK
    <2>5. observations' \in 0..Debounce
      BY <1>4, CycleAssumption DEF Restart
    <2>6. /\ mode' \in {"Normal", "Degraded"}
          /\ primary' \in {"up", "down"}
          /\ secondary' \in {"up", "lagging", "unreadable", "down"}
      BY <1>4 DEF Restart, IInv, TypeOK, nodeVars
    <2>7. TypeOK
      BY DEF IInv
    <2> QED
      BY <2>1, <2>2, <2>3, <2>4, <2>5, <2>6, <2>7, InvariantByParts
  <1> QED BY <1>1, <1>2, <1>3, <1>4 DEF Environment

LEMMA NextInvariant == IInv /\ [Next]_vars => IInv'
  <1> SUFFICES ASSUME IInv, [Next]_vars PROVE IInv'
    OBVIOUS
  <1>1. CASE Keeper
    BY <1>1, BeginCycleInvariant, ReadSucceedsInvariant, ReadFailsInvariant,
       FallbackInvariant, SubmitInvariant, ConfirmInvariant,
       FinishStepInvariant DEF Keeper
  <1>2. CASE Environment
    BY <1>2, EnvironmentInvariant
  <1>3. CASE UNCHANGED vars
    BY <1>3
    DEF vars, nodeVars, daemonVars, placeVars, chainVars, IInv, TypeOK, Sound,
        Health, AtStep
  <1> QED BY <1>1, <1>2, <1>3 DEF Next

\* The inductive invariant holds in every state.
THEOREM Invariance == Spec => []IInv
  <1>1. Init => IInv
    BY InitInvariant
  <1>2. IInv /\ [Next]_vars => IInv'
    BY NextInvariant
  <1> QED BY <1>1, <1>2, PTL DEF Spec

\* The types of the variables.
THEOREM TypeCorrectness == Spec => []TypeOK
  <1>1. IInv => TypeOK
    BY DEF IInv
  <1> QED BY <1>1, Invariance, PTL

-----------------------------------------------------------------------------
\* One node's word is accepted only from a record that says degraded.
LEMMA AcceptedFor ==
  ASSUME NEW p \in BOOLEAN, NEW s \in BOOLEAN, NEW h, Sound(h),
         Accepted(p, s, ModeOf(h))
  PROVE  (p /\ s) \/ h.failures >= DegradeThreshold
  <1>1. CASE h.degraded
    BY <1>1, CycleAssumption DEF Sound, Health
  <1>2. CASE ~h.degraded
    BY <1>2 DEF Accepted, ModeOf
  <1> QED BY <1>1, <1>2

\* A transaction is accepted on the word of one node only once the failures
\* of the secondary node have reached the threshold (send_instructions,
\* whichever step sends).
THEOREM SingleTrustEarned == Spec => SingleTrustIsEarned
  <1> DEFINE Earned ==
        \A primary_ok, secondary_ok \in BOOLEAN :
          /\ Confirm(primary_ok, secondary_ok)
          /\ Accepted(primary_ok, secondary_ok, ModeOf(health'))
          => \/ primary_ok /\ secondary_ok
             \/ health'.failures >= DegradeThreshold
  <1>1. IInv /\ [Next]_vars => [Earned]_vars
    <2> SUFFICES ASSUME IInv, [Next]_vars,
                        NEW p \in BOOLEAN, NEW s \in BOOLEAN, Confirm(p, s),
                        Accepted(p, s, ModeOf(health'))
                 PROVE  (p /\ s) \/ health'.failures >= DegradeThreshold
      OBVIOUS
    <2>1. Sound(health')
      BY NextInvariant DEF IInv
    <2> QED BY <2>1, AcceptedFor
  <1> QED BY <1>1, Invariance, PTL DEF Spec, SingleTrustIsEarned
=============================================================================
