--------------------------- MODULE CircuitBreaker ---------------------------
(***************************************************************************)
(* apps/pipeline/src/resilience/circuit-breaker.ts: one breaker, the       *)
(* execute() calls of the runners that share it, and the sink behind it.   *)
(*                                                                         *)
(* An execute() call of a caller c awaits up to three things: the sleep,   *)
(* the health probe and the operation.  An action is one turn of the event *)
(* loop, from the end of an await to the next one; other callers move in   *)
(* between, on the same fields.                                            *)
(*                                                                         *)
(* Time is what is left to wait, in units of no particular length; a timer *)
(* fires some time after it is due.  The operation and the probe are       *)
(* decided by the sink: they fail if the sink is away when they are sent,  *)
(* and may fail if it goes away before they end.  What only telemetry      *)
(* reads (totalTrips, totalDowntimeMs, currentBackoffMs, lastFailureTime)  *)
(* is left out.                                                            *)
(***************************************************************************)
EXTENDS Naturals

CONSTANTS
    Callers,            \* concurrent users: a loop of each runner
    FailureThreshold,
    BaseBackoff,
    MaxBackoff,
    Jitter,
    HalfOpenSuccessThreshold,
    None,               \* null
    FailureCap,         \* bound: consecutive failures counted
    MaxOutages,         \* bound: times the sink goes away
    TripDurations,      \* durations given to trip()
    MaxTrips,           \* bound: calls of trip()
    MaxResets           \* bound: calls of reset()

ASSUME ThresholdAssumption ==
    /\ FailureThreshold \in Nat \ {0}
    /\ HalfOpenSuccessThreshold \in Nat \ {0}
ASSUME BackoffAssumption ==
    /\ BaseBackoff \in Nat
    /\ MaxBackoff \in Nat
    /\ Jitter \in Nat
ASSUME NoneAssumption == None \notin Nat
ASSUME TripAssumption == TripDurations \subseteq Nat \ {0}
ASSUME BoundsAssumption ==
    /\ MaxOutages \in Nat
    /\ MaxTrips \in Nat
    /\ MaxResets \in Nat

(* Counting failures further would change neither a comparison with the    *)
(* threshold nor a backoff.                                                *)
ASSUME FailureCapAssumption ==
    /\ FailureCap \in Nat
    /\ FailureCap >= FailureThreshold
    /\ BaseBackoff * 2 ^ (FailureCap - 1) >= MaxBackoff

VARIABLES
    \* fields of the breaker
    state,
    failures,       \* consecutiveFailures
    successes,      \* consecutiveSuccesses
    nextAttempt,    \* time left to nextAttemptTime, or null
    outage,         \* outageStartTime # null
    tripTimer,      \* per call of trip(): time left to its setTimeout, or null
    \* execute() calls
    pc,             \* "idle", "sleeping", "probing", "operating"; "absent": no
                    \* loop of that runner (the backfill is over, or paused)
    wait,           \* time left to sleep
    \* the sink
    sink,           \* "up", "down"
    doomed,         \* callers whose probe or operation will fail
    \* bounds
    outages, trips, resets

breakerVars == <<state, failures, successes, nextAttempt, outage>>
callVars    == <<pc, wait>>
sinkVars    == <<sink, outages>>
controlVars == <<tripTimer, trips, resets>>
vars        == <<breakerVars, callVars, sinkVars, controlVars, doomed>>

States == {"CLOSED", "OPEN", "HALF_OPEN"}

----------------------------------------------------------------------------
(* calculateBackoffMs: min(max, base * 2^(failures - 1)) plus a jitter. *)
CappedBackoff(n) ==
    LET exponential == BaseBackoff * 2 ^ (IF n = 0 THEN 0 ELSE n - 1)
    IN  IF exponential < MaxBackoff THEN exponential ELSE MaxBackoff

Backoffs(n) ==
    {b \in 0 .. (MaxBackoff + Jitter) :
        CappedBackoff(n) <= b /\ b <= CappedBackoff(n) + Jitter}

CountFailure == IF failures < FailureCap THEN failures + 1 ELSE failures

(* Faulty: one failure too many. *)
TripsLate(n) == state = "HALF_OPEN" \/ n > FailureThreshold

(* A failure opens the breaker. *)
Trips(n) == state = "HALF_OPEN" \/ n >= FailureThreshold

(* Faulty: only a breaker that was closed notes when the outage began. *)
OutageOnTripWhenClosed == outage \/ state = "CLOSED"

(* if (outageStartTime === null) outageStartTime = now *)
OutageOnTrip == TRUE

(* consecutiveSuccesses when the breaker goes to HALF_OPEN. *)
SuccessesOnTrial == 0

(* Faulty: the cooldown is enough. *)
StateAfterProbeClosed == "CLOSED"

(* Faulty: the state is left to the operation that follows. *)
StateAfterProbeAsIs == state

(* The state in which a healthy probe leaves the breaker. *)
StateAfterProbe == "HALF_OPEN"

(* Faulty: no sleep. *)
MustSleepNever == FALSE

(* nextAttemptTime !== null && now < nextAttemptTime *)
MustSleep == nextAttempt # None /\ nextAttempt # 0

(* Faulty: the sleeper goes by the breaker's clock, not by its own timer. *)
DueByBreaker(c) == nextAttempt = 0

(* The timer of the sleep is due. *)
Due(c) == wait[c] = 0

(* What is sent while the sink is away fails. *)
Send(c) == doomed' = IF sink = "down" THEN doomed \cup {c} ELSE doomed \ {c}

Goto(c, await) == pc' = [pc EXCEPT ![c] = await]

----------------------------------------------------------------------------
(* execute() *)

CallPasses(c) ==
    /\ pc[c] = "idle"
    /\ state # "OPEN"
    /\ Goto(c, "operating")
    /\ Send(c)
    /\ UNCHANGED <<breakerVars, wait, sinkVars, controlVars>>

CallSleeps(c) ==
    /\ pc[c] = "idle"
    /\ state = "OPEN"
    /\ MustSleep
    /\ Goto(c, "sleeping")
    /\ wait' = [wait EXCEPT ![c] = nextAttempt]
    /\ UNCHANGED <<breakerVars, sinkVars, controlVars, doomed>>

CallProbes(c) ==
    /\ pc[c] = "idle"
    /\ state = "OPEN"
    /\ ~MustSleep
    /\ Goto(c, "probing")
    /\ Send(c)
    /\ UNCHANGED <<breakerVars, wait, sinkVars, controlVars>>

(* The state is not looked at again after the sleep, nor after the probe.  *)
Wake(c) ==
    /\ pc[c] = "sleeping"
    /\ Due(c)
    /\ Goto(c, "probing")
    /\ wait' = [wait EXCEPT ![c] = 0]
    /\ Send(c)
    /\ UNCHANGED <<breakerVars, sinkVars, controlVars>>

ProbeHealthy(c) ==
    /\ pc[c] = "probing"
    /\ c \notin doomed
    /\ state' = StateAfterProbe
    /\ successes' = SuccessesOnTrial
    /\ Goto(c, "operating")
    /\ Send(c)
    /\ UNCHANGED <<failures, nextAttempt, outage, wait, sinkVars, controlVars>>

(* The call is rejected; whatever the state, the next attempt moves. *)
ProbeUnhealthy(c) ==
    /\ pc[c] = "probing"
    /\ c \in doomed
    /\ nextAttempt' \in Backoffs(failures)
    /\ Goto(c, "idle")
    /\ doomed' = doomed \ {c}
    /\ UNCHANGED <<state, failures, successes, outage, wait, sinkVars, controlVars>>

Close ==
    /\ state' = "CLOSED"
    /\ failures' = 0
    /\ nextAttempt' = None
    /\ outage' = FALSE

(* The operation resolves: what it does depends on the state it finds. *)
Succeed(c) ==
    /\ pc[c] = "operating"
    /\ c \notin doomed
    /\ Goto(c, "idle")
    /\ \/ /\ state = "HALF_OPEN"
          /\ successes' = successes + 1
          /\ IF successes + 1 >= HalfOpenSuccessThreshold
               THEN Close
               ELSE UNCHANGED <<state, failures, nextAttempt, outage>>
       \/ /\ state = "CLOSED"
          /\ failures' = 0
          /\ UNCHANGED <<state, successes, nextAttempt, outage>>
       \/ /\ state = "OPEN"
          /\ UNCHANGED breakerVars
    /\ UNCHANGED <<wait, sinkVars, controlVars, doomed>>

(* The operation rejects. *)
Fail(c) ==
    /\ pc[c] = "operating"
    /\ c \in doomed
    /\ Goto(c, "idle")
    /\ doomed' = doomed \ {c}
    /\ failures' = CountFailure
    /\ successes' = 0
    /\ \/ /\ Trips(CountFailure)
          /\ state' = "OPEN"
          /\ outage' = OutageOnTrip
          /\ nextAttempt' \in Backoffs(CountFailure)
       \/ /\ ~Trips(CountFailure)
          /\ UNCHANGED <<state, nextAttempt, outage>>
    /\ UNCHANGED <<wait, sinkVars, controlVars>>

----------------------------------------------------------------------------
(* trip(durationMs), as the chaos service calls it, and reset() *)

Trip ==
    /\ trips < MaxTrips
    /\ trips' = trips + 1
    /\ state' = "OPEN"
    /\ failures' = IF failures < FailureThreshold THEN FailureThreshold ELSE failures
    /\ outage' = OutageOnTrip
    /\ \E duration \in TripDurations :
         /\ nextAttempt' = duration
         /\ tripTimer' = [tripTimer EXCEPT ![trips + 1] = duration]
    /\ UNCHANGED <<successes, callVars, sinkVars, resets, doomed>>

(* The timer goes by the state alone: it also ends an OPEN that a later    *)
(* failure began.                                                          *)
TripTimer(t) ==
    /\ tripTimer[t] = 0
    /\ tripTimer' = [tripTimer EXCEPT ![t] = None]
    /\ \/ /\ state = "OPEN"
          /\ state' = "HALF_OPEN"
          /\ successes' = SuccessesOnTrial
       \/ /\ state # "OPEN"
          /\ UNCHANGED <<state, successes>>
    /\ UNCHANGED <<failures, nextAttempt, outage, callVars, sinkVars, trips, resets, doomed>>

Reset ==
    /\ resets < MaxResets
    /\ resets' = resets + 1
    /\ Close
    /\ successes' = 0
    /\ UNCHANGED <<callVars, sinkVars, tripTimer, trips, doomed>>

----------------------------------------------------------------------------
(* The world outside: time, and the sink *)

Elapse(t) == IF t = None \/ t = 0 THEN t ELSE t - 1

Tick ==
    /\ \/ MustSleep
       \/ \E c \in Callers : wait[c] # 0
       \/ \E t \in 1 .. MaxTrips : tripTimer[t] \notin {None, 0}
    /\ nextAttempt' = Elapse(nextAttempt)
    /\ wait' = [c \in Callers |-> Elapse(wait[c])]
    /\ tripTimer' = [t \in 1 .. MaxTrips |-> Elapse(tripTimer[t])]
    /\ UNCHANGED <<state, failures, successes, outage, pc, sinkVars, trips, resets, doomed>>

(* Probes and operations on their way may be lost with the sink, or have   *)
(* been served.                                                            *)
SinkGoesDown ==
    /\ sink = "up"
    /\ outages < MaxOutages
    /\ outages' = outages + 1
    /\ sink' = "down"
    /\ \E lost \in SUBSET {c \in Callers : pc[c] \in {"probing", "operating"}} :
         doomed' = doomed \cup lost
    /\ UNCHANGED <<breakerVars, callVars, controlVars>>

SinkComesBack ==
    /\ sink = "down"
    /\ sink' = "up"
    /\ UNCHANGED <<breakerVars, callVars, controlVars, outages, doomed>>

----------------------------------------------------------------------------
Init ==
    /\ state = "CLOSED"
    /\ failures = 0
    /\ successes = 0
    /\ nextAttempt = None
    /\ outage = FALSE
    /\ tripTimer = [t \in 1 .. MaxTrips |-> None]
    /\ pc \in [Callers -> {"idle", "absent"}]
    /\ \E c \in Callers : pc[c] = "idle"
    /\ wait = [c \in Callers |-> 0]
    /\ sink = "up"
    /\ doomed = {}
    /\ outages = 0
    /\ trips = 0
    /\ resets = 0

Call(c) == CallPasses(c) \/ CallSleeps(c) \/ CallProbes(c)

Answer(c) == ProbeHealthy(c) \/ ProbeUnhealthy(c) \/ Succeed(c) \/ Fail(c)

Next ==
    \/ \E c \in Callers : Call(c) \/ Wake(c) \/ Answer(c)
    \/ Trip
    \/ \E t \in 1 .. MaxTrips : TripTimer(t)
    \/ Reset
    \/ Tick
    \/ SinkGoesDown
    \/ SinkComesBack

Spec == Init /\ [][Next]_vars

(* Time passes, timers fire, probes and operations end (each carries a     *)
(* deadline), and there is traffic: the runners call again.  The sink and  *)
(* the operator owe nothing.                                               *)
Fairness ==
    /\ WF_vars(Tick)
    /\ \A c \in Callers : WF_vars(Call(c)) /\ WF_vars(Wake(c)) /\ WF_vars(Answer(c))
    /\ \A t \in 1 .. MaxTrips : WF_vars(TripTimer(t))

FairSpec == Spec /\ Fairness

----------------------------------------------------------------------------
(* Properties *)

(* The state is what the declarations say it is. *)
TypeOK ==
    /\ state \in States
    /\ failures \in 0 .. FailureCap
    /\ successes \in 0 .. HalfOpenSuccessThreshold
    /\ nextAttempt \in Nat \cup {None}
    /\ outage \in BOOLEAN
    /\ tripTimer \in [1 .. MaxTrips -> Nat \cup {None}]
    /\ pc \in [Callers -> {"idle", "absent", "sleeping", "probing", "operating"}]
    /\ wait \in [Callers -> Nat]
    /\ sink \in {"up", "down"}
    /\ doomed \subseteq Callers
    /\ outages \in Nat /\ trips \in 0 .. MaxTrips /\ resets \in Nat

(* A closed breaker is below its threshold and no outage is being timed,   *)
(* whatever late answers of calls made in other states it met (lines 115   *)
(* to 149).                                                                *)
ClosedIsHealthy == state = "CLOSED" => failures < FailureThreshold /\ ~outage

(* An open breaker knows when to try again and since when the sink is      *)
(* away: nothing that ends an outage leaves the breaker open (lines 78-85, *)
(* 140-148).                                                               *)
OpenIsTimed == state = "OPEN" => nextAttempt # None /\ outage

(* A trial never holds enough successes to be over: those of an earlier    *)
(* trial, or of before a failure, do not count (lines 106-117, 206-211).   *)
HalfOpenIsUndecided == state = "HALF_OPEN" => successes < HalfOpenSuccessThreshold

(* Nobody shares the breaker, and nobody has tripped or reset it by hand.  *)
Alone ==
    /\ \A c, d \in Callers : pc[c] # "absent" /\ pc[d] # "absent" => c = d
    /\ trips = 0 /\ resets = 0

(* A breaker that is not shared goes round one way: it never closes        *)
(* without a trial, and never puts on trial a sink it takes for sound.     *)
Cycle == {<<"CLOSED", "OPEN">>, <<"OPEN", "HALF_OPEN">>,
          <<"HALF_OPEN", "CLOSED">>, <<"HALF_OPEN", "OPEN">>}
StatesGoRound == [][Alone' /\ state' # state => <<state, state'>> \in Cycle]_vars

(* A caller does not send a probe before the backoff has elapsed.          *)
EarlyProbe ==
    \E c \in Callers :
        pc[c] # "probing" /\ pc'[c] = "probing" /\ nextAttempt \notin {0, None}

(* This holds of a breaker that is not shared: the moment the sleep was    *)
(* computed from is still the next attempt when it ends (lines 78-91).     *)
ProbesWaitForBackoff == [][Alone => ~EarlyProbe]_vars

(* The same of a breaker that two runners share.                           *)
ProbesWaitForBackoffShared == [][~EarlyProbe]_vars

(* A call ends, however long the sink is away: nobody sleeps for ever. *)
CallsReturn == \A c \in Callers : pc[c] \notin {"idle", "absent"} ~> pc[c] = "idle"

(* Self-healing: once the sink is back for good, traffic closes the        *)
(* breaker for good.                                                       *)
BreakerHeals == <>[](sink = "up") => <>[](state = "CLOSED")
=============================================================================
