------------------------ MODULE CircuitBreakerProofs ------------------------
(***************************************************************************)
(* Proofs about CircuitBreaker, for any number of callers, any thresholds  *)
(* and backoffs, any outages of the sink and calls of trip() and reset().  *)
(***************************************************************************)
EXTENDS CircuitBreaker, TLAPS

(* The three safety invariants hold one another up: a trial that is        *)
(* undecided keeps the count of successes in range, and a breaker that is  *)
(* closed or open is left only by steps that set the fields of the next    *)
(* state.                                                                  *)
Inv == TypeOK /\ ClosedIsHealthy /\ OpenIsTimed /\ HalfOpenIsUndecided

LEMMA CapIsHigh == FailureCap \in Nat /\ FailureCap >= FailureThreshold
BY FailureCapAssumption

LEMMA BackoffsAreTimes ==
    ASSUME NEW n, NEW b \in Backoffs(n)
    PROVE  b \in Nat /\ b # None
BY BackoffAssumption, NoneAssumption DEF Backoffs

LEMMA Elapsed ==
    ASSUME NEW t \in Nat \cup {None}
    PROVE  /\ Elapse(t) \in Nat \cup {None}
           /\ t \in Nat => Elapse(t) \in Nat
           /\ t # None => Elapse(t) # None
<1>1. CASE t = None
  BY <1>1, NoneAssumption DEF Elapse
<1>2. CASE t = 0
  BY <1>2, NoneAssumption DEF Elapse
<1>3. CASE t \in Nat /\ t # 0
  <2>1. Elapse(t) = t - 1 /\ t - 1 \in Nat
    BY <1>3, NoneAssumption DEF Elapse
  <2> QED
    BY <2>1, NoneAssumption
<1>4. t = None \/ t = 0 \/ (t \in Nat /\ t # 0)
  OBVIOUS
<1> QED
  BY <1>1, <1>2, <1>3, <1>4

LEMMA InvInit == Init => Inv
<1> SUFFICES ASSUME Init PROVE Inv
  OBVIOUS
<1>1. outage = FALSE /\ outage \in BOOLEAN
  BY DEF Init
<1>2. TypeOK
  BY <1>1, ThresholdAssumption, CapIsHigh, BoundsAssumption DEF Init, TypeOK, States
<1> QED
  BY <1>1, <1>2, ThresholdAssumption
  DEF Init, Inv, ClosedIsHealthy, OpenIsTimed, HalfOpenIsUndecided

LEMMA InvCall ==
    ASSUME Inv, NEW c \in Callers, Call(c) \/ Wake(c) \/ Answer(c)
    PROVE  Inv'
<1> USE ThresholdAssumption, CapIsHigh, NoneAssumption
    DEF Inv, TypeOK, ClosedIsHealthy, OpenIsTimed, HalfOpenIsUndecided, States,
        breakerVars, callVars, sinkVars, controlVars
<1>1. CASE CallPasses(c)
  BY <1>1 DEF CallPasses, Goto, Send
<1>2. CASE CallSleeps(c)
  BY <1>2 DEF CallSleeps, Goto, MustSleep
<1>3. CASE CallProbes(c)
  BY <1>3 DEF CallProbes, Goto, Send
<1>4. CASE Wake(c)
  BY <1>4 DEF Wake, Goto, Send
<1>5. CASE ProbeHealthy(c)
  BY <1>5 DEF ProbeHealthy, StateAfterProbe, SuccessesOnTrial, Goto, Send
<1>6. CASE ProbeUnhealthy(c)
  <2>1. nextAttempt' \in Nat /\ nextAttempt' # None
    BY <1>6, BackoffsAreTimes DEF ProbeUnhealthy
  <2>2. pc' = [pc EXCEPT ![c] = "idle"] /\ doomed' = doomed \ {c}
    BY <1>6 DEF ProbeUnhealthy, Goto
  <2>3. UNCHANGED <<state, failures, successes, outage, wait, sinkVars, controlVars>>
    BY <1>6 DEF ProbeUnhealthy
  <2> QED
    BY <2>1, <2>2, <2>3
<1>7. CASE Succeed(c)
  <2>1. /\ pc' = [pc EXCEPT ![c] = "idle"]
        /\ UNCHANGED <<wait, sinkVars, controlVars, doomed>>
    BY <1>7 DEF Succeed, Goto
  <2>2. CASE state = "HALF_OPEN" /\ successes + 1 >= HalfOpenSuccessThreshold
    <3>1. successes + 1 \in 0 .. HalfOpenSuccessThreshold
      BY <2>2
    <3>2. /\ successes' = successes + 1
          /\ state' = "CLOSED" /\ failures' = 0 /\ nextAttempt' = None /\ outage' = FALSE
      BY <1>7, <2>2 DEF Succeed, Close
    <3>3. outage' \in BOOLEAN
      BY <3>2
    <3> QED
      BY <2>1, <3>1, <3>2, <3>3
  <2>3. CASE state = "HALF_OPEN" /\ ~(successes + 1 >= HalfOpenSuccessThreshold)
    <3>1. /\ successes' = successes + 1 /\ successes' \in 0 .. HalfOpenSuccessThreshold
          /\ successes' < HalfOpenSuccessThreshold
          /\ UNCHANGED <<state, failures, nextAttempt, outage>>
      BY <1>7, <2>3 DEF Succeed
    <3> QED
      BY <2>1, <2>3, <3>1
  <2>4. CASE state = "CLOSED"
    <3>1. failures' = 0 /\ UNCHANGED <<state, successes, nextAttempt, outage>>
      BY <1>7, <2>4 DEF Succeed
    <3> QED
      BY <2>1, <2>4, <3>1
  <2>5. CASE state = "OPEN"
    <3>1. UNCHANGED breakerVars
      BY <1>7, <2>5 DEF Succeed
    <3> QED
      BY <2>1, <2>5, <3>1
  <2>6. state \in {"CLOSED", "OPEN", "HALF_OPEN"}
    OBVIOUS
  <2> QED
    BY <2>2, <2>3, <2>4, <2>5, <2>6
<1>8. CASE Fail(c)
  <2>1. /\ pc' = [pc EXCEPT ![c] = "idle"] /\ doomed' = doomed \ {c}
        /\ UNCHANGED <<wait, sinkVars, controlVars>>
    BY <1>8 DEF Fail, Goto
  <2>2. failures' = CountFailure /\ failures' \in 0 .. FailureCap /\ successes' = 0
    BY <1>8 DEF Fail, CountFailure
  <2>3. CASE Trips(CountFailure)
    <3>1. state' = "OPEN" /\ outage' = TRUE
      BY <1>8, <2>3 DEF Fail, OutageOnTrip
    <3>2. nextAttempt' \in Nat /\ nextAttempt' # None
      BY <1>8, <2>3, BackoffsAreTimes DEF Fail
    <3>3. outage' \in BOOLEAN
      BY <3>1
    <3> QED
      BY <2>1, <2>2, <3>1, <3>2, <3>3
  <2>4. CASE ~Trips(CountFailure)
    <3>1. UNCHANGED <<state, nextAttempt, outage>>
      BY <1>8, <2>4 DEF Fail
    <3>2. state # "HALF_OPEN" /\ failures' < FailureThreshold
      BY <2>2, <2>4 DEF Trips
    <3> QED
      BY <2>1, <2>2, <3>1, <3>2
  <2> QED
    BY <2>3, <2>4
<1> QED
  BY <1>1, <1>2, <1>3, <1>4, <1>5, <1>6, <1>7, <1>8 DEF Call, Answer

LEMMA InvNext ==
    ASSUME Inv, Next
    PROVE  Inv'
<1> USE ThresholdAssumption, CapIsHigh, NoneAssumption, TripAssumption,
        BoundsAssumption, CapIsHigh
    DEF Inv, TypeOK, ClosedIsHealthy, OpenIsTimed, HalfOpenIsUndecided, States,
        breakerVars, callVars, sinkVars, controlVars
<1>1. ASSUME NEW c \in Callers, Call(c) \/ Wake(c) \/ Answer(c)
      PROVE  Inv'
  <2> HIDE DEF Inv
  <2> QED
    BY <1>1, InvCall
<1>2. CASE Trip
  BY <1>2 DEF Trip, OutageOnTrip
<1>3. ASSUME NEW t \in 1 .. MaxTrips, TripTimer(t)
      PROVE  Inv'
  <2>1. tripTimer' \in [1 .. MaxTrips -> Nat \cup {None}]
    BY <1>3 DEF TripTimer
  <2>2. UNCHANGED <<failures, nextAttempt, outage, callVars, sinkVars, trips, resets, doomed>>
    BY <1>3 DEF TripTimer
  <2>3. \/ state' = "HALF_OPEN" /\ successes' = 0
        \/ UNCHANGED <<state, successes>>
    BY <1>3 DEF TripTimer, SuccessesOnTrial
  <2>4. CASE state' = "HALF_OPEN" /\ successes' = 0
    BY <2>1, <2>2, <2>4
  <2>5. CASE UNCHANGED <<state, successes>>
    BY <2>1, <2>2, <2>5
  <2> QED
    BY <2>3, <2>4, <2>5
<1>4. CASE Reset
  <2>1. /\ state' = "CLOSED" /\ failures' = 0 /\ nextAttempt' = None /\ outage' = FALSE
        /\ successes' = 0 /\ resets' = resets + 1
        /\ UNCHANGED <<callVars, sinkVars, tripTimer, trips, doomed>>
    BY <1>4 DEF Reset, Close
  <2>2. outage' \in BOOLEAN /\ resets' \in Nat
    <3>1. resets' \in Nat
      BY <2>1
    <3>2. outage' \in BOOLEAN
      BY <2>1
    <3> QED
      BY <3>1, <3>2
  <2> QED
    BY <2>1, <2>2
<1>5. CASE Tick
  <2>1. nextAttempt' \in Nat \cup {None} /\ (nextAttempt # None => nextAttempt' # None)
    BY <1>5, Elapsed DEF Tick
  <2>2. wait' \in [Callers -> Nat]
    BY <1>5, Elapsed DEF Tick
  <2>3. tripTimer' \in [1 .. MaxTrips -> Nat \cup {None}]
    BY <1>5, Elapsed DEF Tick
  <2> QED
    BY <1>5, <2>1, <2>2, <2>3 DEF Tick
<1>6. CASE SinkGoesDown
  BY <1>6 DEF SinkGoesDown
<1>7. CASE SinkComesBack
  BY <1>7 DEF SinkComesBack
<1> QED
  BY <1>1, <1>2, <1>3, <1>4, <1>5, <1>6, <1>7 DEF Next

LEMMA BreakerInvariance == Spec => []Inv
<1>1. Inv /\ UNCHANGED vars => Inv'
  BY DEF Inv, TypeOK, ClosedIsHealthy, OpenIsTimed, HalfOpenIsUndecided,
         vars, breakerVars, callVars, sinkVars, controlVars
<1> QED
  BY InvInit, InvNext, <1>1, PTL DEF Spec

(* Every field keeps its type: the counts never leave their ranges.        *)
THEOREM BreakerTypeCorrect == Spec => []TypeOK
<1>1. Inv => TypeOK
  BY DEF Inv
<1> QED
  BY BreakerInvariance, <1>1, PTL

(* A breaker is never left closed with its threshold reached, or with an   *)
(* outage still timed, however the answers of its callers interleave.      *)
THEOREM ClosedMeansHealthy == Spec => []ClosedIsHealthy
<1>1. Inv => ClosedIsHealthy
  BY DEF Inv
<1> QED
  BY BreakerInvariance, <1>1, PTL

(* A breaker is never left open without the time of its next attempt and   *)
(* the start of its outage.                                                *)
THEOREM OpenMeansTimed == Spec => []OpenIsTimed
<1>1. Inv => OpenIsTimed
  BY DEF Inv
<1> QED
  BY BreakerInvariance, <1>1, PTL

(* A breaker is never on trial with the successes that end the trial.      *)
THEOREM TrialsAreUndecided == Spec => []HalfOpenIsUndecided
<1>1. Inv => HalfOpenIsUndecided
  BY DEF Inv
<1> QED
  BY BreakerInvariance, <1>1, PTL

----------------------------------------------------------------------------
(* A breaker that is not shared *)

(* Nobody else moves the breaker while a caller sleeps or probes: it is    *)
(* still open, and its next attempt is the moment the sleep was computed   *)
(* from.                                                                   *)
Undisturbed(c) ==
    /\ pc[c] \in {"sleeping", "probing"} => state = "OPEN"
    /\ pc[c] = "sleeping" => wait[c] = nextAttempt /\ nextAttempt # None

NoTripTimer == \A t \in 1 .. MaxTrips : tripTimer[t] = None

AloneInv == Alone => NoTripTimer /\ \A c \in Callers : Undisturbed(c)

(* Calls of trip() and reset() are never taken back, and a runner that     *)
(* does not use the breaker does not start to.                             *)
LEMMA AloneBefore ==
    ASSUME Inv, [Next]_vars, Alone'
    PROVE  Alone /\ UNCHANGED <<trips, resets>>
<1> USE DEF vars, breakerVars, callVars, sinkVars, controlVars
<1>0. trips \in Nat /\ resets \in Nat /\ trips' = 0 /\ resets' = 0
  BY BoundsAssumption DEF Inv, TypeOK, Alone
<1>1. UNCHANGED <<trips, resets>>
  <2>1. CASE Trip \/ Reset
    BY <1>0, <2>1 DEF Trip, Reset
  <2>2. ASSUME NEW c \in Callers, Call(c) \/ Wake(c) \/ Answer(c)
        PROVE  UNCHANGED <<trips, resets>>
    BY <2>2 DEF Call, Wake, Answer, CallPasses, CallSleeps, CallProbes, ProbeHealthy,
                ProbeUnhealthy, Succeed, Fail
  <2>3. CASE (\E t \in 1 .. MaxTrips : TripTimer(t)) \/ Tick \/ SinkGoesDown \/ SinkComesBack
    BY <2>3 DEF TripTimer, Tick, SinkGoesDown, SinkComesBack
  <2>4. CASE UNCHANGED vars
    BY <2>4
  <2> QED
    BY <2>1, <2>2, <2>3, <2>4 DEF Next
<1>2. \A c \in Callers : pc'[c] = "absent" <=> pc[c] = "absent"
  <2>0. pc \in [Callers -> {"idle", "absent", "sleeping", "probing", "operating"}]
    BY DEF Inv, TypeOK
  <2>1. ASSUME NEW c \in Callers, Call(c) \/ Wake(c) \/ Answer(c)
        PROVE  \A d \in Callers : pc'[d] = "absent" <=> pc[d] = "absent"
    <3>1. pc[c] # "absent" /\ pc' = [pc EXCEPT ![c] = pc'[c]] /\ pc'[c] # "absent"
      BY <2>0, <2>1 DEF Call, Wake, Answer, CallPasses, CallSleeps, CallProbes, ProbeHealthy,
                        ProbeUnhealthy, Succeed, Fail, Goto
    <3> QED
      BY <2>0, <3>1
  <2>2. CASE \/ Trip \/ Reset \/ (\E t \in 1 .. MaxTrips : TripTimer(t)) \/ Tick
             \/ SinkGoesDown \/ SinkComesBack
    BY <2>2 DEF Trip, Reset, TripTimer, Tick, SinkGoesDown, SinkComesBack
  <2>3. CASE UNCHANGED vars
    BY <2>3
  <2> QED
    BY <2>1, <2>2, <2>3 DEF Next
<1> QED
  BY <1>0, <1>1, <1>2 DEF Alone

(* While a caller has the breaker for itself, the others are absent.       *)
LEMMA OthersAbsent ==
    ASSUME Alone, NEW c \in Callers, pc[c] # "absent"
    PROVE  \A d \in Callers \ {c} : pc[d] = "absent"
BY DEF Alone

(* What the steps of the one caller leave behind.                          *)
LEMMA AloneCall ==
    ASSUME Inv, Alone, AloneInv, NEW c \in Callers, Call(c) \/ Wake(c) \/ Answer(c)
    PROVE  NoTripTimer' /\ \A d \in Callers : Undisturbed(d)'
<1>0. /\ pc \in [Callers -> {"idle", "absent", "sleeping", "probing", "operating"}]
      /\ wait \in [Callers -> Nat] /\ Undisturbed(c) /\ NoTripTimer
      /\ state \in {"CLOSED", "OPEN", "HALF_OPEN"}
  BY DEF Inv, TypeOK, States, AloneInv
<1> USE DEF breakerVars, callVars, sinkVars, controlVars
<1>1. /\ pc[c] # "absent" /\ pc' = [pc EXCEPT ![c] = pc'[c]]
      /\ UNCHANGED tripTimer
  BY <1>0 DEF Call, Wake, Answer, CallPasses, CallSleeps, CallProbes, ProbeHealthy,
              ProbeUnhealthy, Succeed, Fail, Goto
<1>2. \A d \in Callers \ {c} : pc'[d] = "absent"
  BY <1>0, <1>1, OthersAbsent
<1>3. Undisturbed(c)'
  <2>1. CASE CallPasses(c) \/ ProbeHealthy(c) \/ ProbeUnhealthy(c) \/ Succeed(c) \/ Fail(c)
    <3>1. pc'[c] \in {"operating", "idle"}
      BY <1>0, <2>1 DEF CallPasses, ProbeHealthy, ProbeUnhealthy, Succeed, Fail, Goto
    <3> QED
      BY <3>1 DEF Undisturbed
  <2>2. CASE CallSleeps(c)
    BY <1>0, <2>2 DEF CallSleeps, Undisturbed, Goto, MustSleep
  <2>3. CASE CallProbes(c)
    BY <1>0, <2>3 DEF CallProbes, Undisturbed, Goto
  <2>4. CASE Wake(c)
    BY <1>0, <2>4 DEF Wake, Undisturbed, Goto
  <2> QED
    BY <2>1, <2>2, <2>3, <2>4 DEF Call, Answer
<1> QED
  BY <1>0, <1>1, <1>2, <1>3 DEF Undisturbed, NoTripTimer

LEMMA AloneNext ==
    ASSUME Inv, AloneInv, [Next]_vars
    PROVE  AloneInv'
<1> SUFFICES ASSUME Alone' PROVE NoTripTimer' /\ \A c \in Callers : Undisturbed(c)'
  BY DEF AloneInv
<1>0. /\ Alone /\ UNCHANGED <<trips, resets>>
      /\ NoTripTimer /\ \A c \in Callers : Undisturbed(c)
  BY AloneBefore DEF AloneInv
<1> USE DEF breakerVars, callVars, sinkVars, controlVars
<1>1. ASSUME NEW c \in Callers, Call(c) \/ Wake(c) \/ Answer(c)
      PROVE  NoTripTimer' /\ \A d \in Callers : Undisturbed(d)'
  BY <1>0, <1>1, AloneCall
<1>2. ~Trip /\ ~Reset
  BY <1>0, BoundsAssumption DEF Trip, Reset, Inv, TypeOK
<1>3. \A t \in 1 .. MaxTrips : ~TripTimer(t)
  BY <1>0, NoneAssumption DEF TripTimer, NoTripTimer
<1>4. CASE Tick
  <2>1. \A t \in 1 .. MaxTrips : tripTimer'[t] = None
    BY <1>0, <1>4 DEF Tick, Elapse, NoTripTimer
  <2>2. ASSUME NEW c \in Callers PROVE Undisturbed(c)'
    <3>1. /\ wait'[c] = Elapse(wait[c]) /\ nextAttempt' = Elapse(nextAttempt)
          /\ UNCHANGED <<state, pc>>
      BY <1>4 DEF Tick
    <3>2. nextAttempt \in Nat \cup {None}
      BY DEF Inv, TypeOK
    <3>3. nextAttempt # None => Elapse(nextAttempt) # None
      BY <3>2, Elapsed
    <3> QED
      BY <1>0, <3>1, <3>3 DEF Undisturbed
  <2> QED
    BY <2>1, <2>2 DEF NoTripTimer
<1>5. CASE SinkGoesDown \/ SinkComesBack
  BY <1>0, <1>5 DEF SinkGoesDown, SinkComesBack, Undisturbed, NoTripTimer
<1>6. CASE UNCHANGED vars
  BY <1>0, <1>6 DEF vars, Undisturbed, NoTripTimer
<1> QED
  BY <1>1, <1>2, <1>3, <1>4, <1>5, <1>6 DEF Next

LEMMA AloneInvariance == Spec => [](Inv /\ AloneInv)
<1>1. Init => AloneInv
  BY DEF Init, AloneInv, NoTripTimer, Undisturbed
<1>2. Inv /\ AloneInv /\ [Next]_vars => AloneInv'
  BY AloneNext
<1> QED
  BY <1>1, <1>2, BreakerInvariance, PTL DEF Spec

(* The breaker of one user goes round one way: it never closes without a   *)
(* trial, and never puts on trial a sink it takes for sound                *)
(* (circuit-breaker.ts:76-149).                                            *)
THEOREM BreakerGoesRound == Spec => StatesGoRound
<1>1. ASSUME Inv, AloneInv, [Next]_vars, Alone', state' # state
      PROVE  <<state, state'>> \in Cycle
  <2>0. /\ Alone /\ UNCHANGED <<trips, resets>>
        /\ NoTripTimer /\ \A c \in Callers : Undisturbed(c)
    BY <1>1, AloneBefore DEF AloneInv
  <2>1. state \in {"CLOSED", "OPEN", "HALF_OPEN"}
    BY <1>1 DEF Inv, TypeOK, States
  <2>2. ~Trip /\ ~Reset /\ \A t \in 1 .. MaxTrips : ~TripTimer(t)
    BY <1>1, <2>0, BoundsAssumption, NoneAssumption
    DEF Trip, Reset, TripTimer, NoTripTimer, Inv, TypeOK
  <2>3. ~Tick /\ ~SinkGoesDown /\ ~SinkComesBack /\ ~UNCHANGED vars
    BY <1>1 DEF Tick, SinkGoesDown, SinkComesBack, vars, breakerVars
  <2>4. PICK c \in Callers : Call(c) \/ Wake(c) \/ Answer(c)
    BY <1>1, <2>2, <2>3 DEF Next
  <2>5. ProbeHealthy(c) \/ Succeed(c) \/ Fail(c)
    BY <1>1, <2>4 DEF Call, Wake, Answer, CallPasses, CallSleeps, CallProbes, ProbeUnhealthy,
                      breakerVars
  <2>6. CASE ProbeHealthy(c)
    BY <2>0, <2>6 DEF ProbeHealthy, Undisturbed, StateAfterProbe, Cycle
  <2>7. CASE Succeed(c)
    BY <1>1, <2>7 DEF Succeed, Close, Cycle, breakerVars
  <2>8. CASE Fail(c)
    <3>1. state' = "OPEN"
      BY <1>1, <2>8 DEF Fail
    <3> QED
      BY <1>1, <2>1, <3>1 DEF Cycle
  <2> QED
    BY <2>5, <2>6, <2>7, <2>8
<1>2. Inv /\ AloneInv /\ [Next]_vars => (Alone' /\ state' # state => <<state, state'>> \in Cycle)
  BY <1>1
<1> QED
  BY <1>2, AloneInvariance, PTL DEF Spec, StatesGoRound

(* The one user of a breaker sends no probe before the backoff of the last *)
(* failure has elapsed (circuit-breaker.ts:78-91).                         *)
THEOREM ProbesAreNotEarly == Spec => ProbesWaitForBackoff
<1>1. ASSUME Inv, AloneInv, [Next]_vars, Alone PROVE ~EarlyProbe
  <2> SUFFICES ASSUME NEW c \in Callers, pc[c] # "probing", pc'[c] = "probing"
               PROVE  nextAttempt \in {0, None}
    BY DEF EarlyProbe
  <2>0. pc \in [Callers -> {"idle", "absent", "sleeping", "probing", "operating"}]
        /\ Undisturbed(c)
    BY <1>1 DEF Inv, TypeOK, AloneInv
  <2> USE DEF breakerVars, callVars, sinkVars, controlVars
  <2>1. CallProbes(c) \/ Wake(c)
    <3>1. ~UNCHANGED pc
      OBVIOUS
    <3>2. PICK d \in Callers : Call(d) \/ Wake(d) \/ Answer(d)
      BY <1>1, <3>1 DEF Next, Trip, TripTimer, Reset, Tick, SinkGoesDown, SinkComesBack, vars
    <3>3. pc' = [pc EXCEPT ![d] = pc'[d]]
      BY <2>0, <3>2 DEF Call, Wake, Answer, CallPasses, CallSleeps, CallProbes, ProbeHealthy,
                        ProbeUnhealthy, Succeed, Fail, Goto
    <3>4. c = d
      BY <2>0, <3>3
    <3> QED
      BY <2>0, <3>2, <3>4 DEF Call, Answer, CallPasses, CallSleeps, ProbeHealthy,
                              ProbeUnhealthy, Succeed, Fail, Goto
  <2>2. CASE CallProbes(c)
    BY <2>2 DEF CallProbes, MustSleep
  <2>3. CASE Wake(c)
    BY <2>0, <2>3 DEF Wake, Due, Undisturbed
  <2> QED
    BY <2>1, <2>2, <2>3
<1>2. Inv /\ AloneInv /\ [Next]_vars => (Alone => ~EarlyProbe)
  BY <1>1
<1> QED
  BY <1>2, AloneInvariance, PTL DEF Spec, ProbesWaitForBackoff
=============================================================================
