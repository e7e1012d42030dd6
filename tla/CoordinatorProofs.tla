--------------------------- MODULE CoordinatorProofs ---------------------------
(***************************************************************************)
(* Proofs about Coordinator, for any number of loops, batch size, table,   *)
(* outages and requests.                                                   *)
(***************************************************************************)
EXTENDS Coordinator, TLAPS

(* The components a request has asked when it is about to ask pc. *)
Asked(pc) ==
    CASE pc = "elasticsearch" -> {"postgres"}
      [] pc = "rabbitmq"      -> {"postgres", "elasticsearch"}
      [] OTHER                -> {}

LEMMA HundredPercent == 0 \in Percents /\ 10000 \in Percents
BY DEF Percents

Requests ==
    [pc : {"idle", "postgres", "elasticsearch", "rabbitmq", "source", "dlq"},
     wasUp : SUBSET Services, wasDown : SUBSET Services, healths : SUBSET Services,
     overall : {"HEALTHY", "DOWN"}, cursor : Nat, pct : Percents]

(* What a request remembers is what was: the state of the moment is among  *)
(* the states it has met, a component it took for healthy was up at some   *)
(* time of it, and one it took for unhealthy was down.                     *)
WitnessInv(t, healthy) ==
    /\ t.pc # "idle" => healthy \subseteq t.wasUp /\ Services \ healthy \subseteq t.wasDown
    /\ t.pc \in Services => t.healths \subseteq t.wasUp /\ Asked(t.pc) \ t.healths \subseteq t.wasDown
    /\ t.pc \in {"source", "dlq"} =>
         IF t.overall = "HEALTHY" THEN t.wasUp = Services ELSE t.wasDown # {}

Telling == tele \in Requests /\ WitnessInv(tele, Healthy)

LEMMA HealthyAreServices == \A u, c, ended : HealthyWith(u, c, ended) \in SUBSET Services
BY DEF HealthyWith

(* A request that is told of a change has met what follows it. *)
LEMMA WitnessTells ==
    ASSUME NEW t \in Requests, NEW old, WitnessInv(t, old), NEW new \in SUBSET Services
    PROVE  Witness(t, new) \in Requests /\ WitnessInv(Witness(t, new), new)
<1>1. CASE t.pc = "idle"
  BY <1>1 DEF Witness, WitnessInv, Services
<1>2. CASE t.pc # "idle"
  <2> DEFINE n == Witness(t, new)
  <2>1. n = [t EXCEPT !.wasUp = t.wasUp \cup new, !.wasDown = t.wasDown \cup (Services \ new)]
    BY <1>2 DEF Witness
  <2>2. /\ n \in Requests
        /\ n.pc = t.pc /\ n.healths = t.healths /\ n.overall = t.overall
        /\ n.wasUp = t.wasUp \cup new /\ n.wasDown = t.wasDown \cup (Services \ new)
    <3> DEFINE m == [t EXCEPT !.wasUp = t.wasUp \cup new]
    <3>1. /\ m \in Requests /\ m.pc = t.pc /\ m.healths = t.healths /\ m.overall = t.overall
          /\ m.wasUp = t.wasUp \cup new /\ m.wasDown = t.wasDown
      BY DEF Requests
    <3>2. n = [m EXCEPT !.wasDown = t.wasDown \cup (Services \ new)]
      BY <2>1
    <3>3. t.wasDown \cup (Services \ new) \in SUBSET Services
      BY DEF Requests
    <3> HIDE DEF m, n
    <3> QED
      BY <3>1, <3>2, <3>3 DEF Requests
  <2>3. t.wasUp \subseteq Services
    BY DEF Requests
  <2> HIDE DEF n
  <2>4. WitnessInv(n, new)
    BY <2>2, <2>3 DEF WitnessInv
  <2> QED
    BY <2>2, <2>4 DEF n
<1> QED
  BY <1>1, <1>2

(* Steps of the services, the boot and the shutdown that change what a     *)
(* probe would find tell the request in flight; the others do not change   *)
(* it.                                                                     *)
LEMMA ServicesTell ==
    ASSUME Telling,
           \/ \E s \in Services : GoesDown(s) \/ ComesBack(s)
           \/ Boot \/ Close
    PROVE  Telling'
<1>1. tele' = Witness(tele, Healthy')
  <2>1. CASE \E s \in Services : GoesDown(s) \/ ComesBack(s)
    BY <2>1 DEF GoesDown, ComesBack, Healthy
  <2>2. CASE Boot
    BY <2>2 DEF Boot, Healthy
  <2>3. CASE Close
    BY <2>3 DEF Close, Healthy
  <2> QED
    BY <2>1, <2>2, <2>3
<1>2. Healthy' \in SUBSET Services
  BY HealthyAreServices DEF Healthy
<1> QED
  BY <1>1, <1>2, WitnessTells DEF Telling

LEMMA OthersKeep ==
    ASSUME Telling, UNCHANGED <<serviceVars, tele>>
    PROVE  Telling'
BY DEF Telling, serviceVars, Healthy

LEMMA MinOfTwo ==
    ASSUME NEW a \in Nat, NEW b \in Nat
    PROVE  Min({a, b}) \in Nat /\ Min({a, b}) <= a /\ Min({a, b}) <= b
<1> DEFINE IsMin(x) == x \in {a, b} /\ \A y \in {a, b} : x <= y
<1>1. \E x : IsMin(x)
  <2>1. CASE a <= b
    BY <2>1
  <2>2. CASE b <= a
    BY <2>2
  <2> QED
    BY <2>1, <2>2
<1>2. IsMin(Min({a, b}))
  BY <1>1, Zenon DEF Min
<1> QED
  BY <1>2

LEMMA QuotientIsNatural == \A a \in Nat, b \in Nat \ {0} : a \div b \in Nat
OBVIOUS

LEMMA PercentsReachHundred == \A x \in Nat : x <= 10000 => x \in Percents
BY SMTT(30) DEF Percents

LEMMA PctIsBounded ==
    ASSUME NEW at \in Nat, NEW of \in Nat \ {0}
    PROVE  Pct(at, of) \in Percents
<1>1. 2 * 10000 * at + of \in Nat /\ 2 * of \in Nat \ {0}
  OBVIOUS
<1>2. (2 * 10000 * at + of) \div (2 * of) \in Nat
  BY <1>1, QuotientIsNatural
<1> DEFINE q == (2 * 10000 * at + of) \div (2 * of)
<1>3. Pct(at, of) = Min({10000, q})
  BY DEF Pct
<1> HIDE DEF q
<1>4. Min({10000, q}) \in Nat /\ Min({10000, q}) <= 10000
  BY <1>2, MinOfTwo DEF q
<1> QED
  BY <1>3, <1>4, PercentsReachHundred

(* The steps of the request itself. *)
LEMMA RequestTells ==
    ASSUME Telling, cursor \in Nat, Telemetry \/ Probe \/ ReadSource \/ Answer
    PROVE  Telling'
<1>0. /\ Healthy' = Healthy /\ Healthy \in SUBSET Services
      /\ tele \in Requests /\ WitnessInv(tele, Healthy)
  BY HealthyAreServices DEF Telemetry, Probe, ReadSource, Answer, Healthy, serviceVars, Telling
<1>1. NoAnswer \in Requests /\ WitnessInv(NoAnswer, Healthy)
  BY HundredPercent DEF NoAnswer, Requests, WitnessInv, Services
<1>2. CASE Telemetry
  <2>1. /\ [NoAnswer EXCEPT !.pc = "postgres"] \in Requests
        /\ tele' = [[NoAnswer EXCEPT !.pc = "postgres"] EXCEPT
                      !.wasUp = {} \cup Healthy, !.wasDown = {} \cup (Services \ Healthy)]
    BY <1>1, <1>2 DEF Telemetry, Witness, NoAnswer, Requests, Services
  <2>2. /\ tele' \in Requests
        /\ tele'.pc = "postgres" /\ tele'.healths = {}
        /\ tele'.wasUp = Healthy /\ tele'.wasDown = Services \ Healthy
    BY <1>0, <2>1 DEF NoAnswer, Requests
  <2> QED
    BY <1>0, <2>2 DEF Telling, WitnessInv, Asked, Services
<1>3. CASE Probe
  <2> DEFINE healths == tele.healths \cup ({tele.pc} \cap Healthy)
             probed  == [tele EXCEPT !.pc = After[tele.pc], !.healths = healths]
  <2>1. tele.pc \in Services /\ healths \in SUBSET Services
        /\ After[tele.pc] \in {"elasticsearch", "rabbitmq", "source"}
    BY <1>0, <1>3 DEF Probe, Requests, Services, After
  <2>2. /\ healths \subseteq tele.wasUp
        /\ (Asked(tele.pc) \cup {tele.pc}) \ healths \subseteq tele.wasDown
        /\ Healthy \subseteq tele.wasUp /\ Services \ Healthy \subseteq tele.wasDown
    BY <1>0, <2>1 DEF WitnessInv, Services
  <2>3. CASE tele.pc # "rabbitmq"
    <3>1. tele' = probed
      BY <1>3, <2>3 DEF Probe
    <3>2. /\ tele' \in Requests
          /\ tele'.pc = After[tele.pc] /\ tele'.healths = healths
          /\ tele'.wasUp = tele.wasUp /\ tele'.wasDown = tele.wasDown
      BY <1>0, <2>1, <3>1 DEF Requests
    <3>3. /\ After[tele.pc] \in {"elasticsearch", "rabbitmq"}
          /\ Asked(After[tele.pc]) = Asked(tele.pc) \cup {tele.pc}
      BY <2>1, <2>3 DEF Services, After, Asked
    <3> QED
      BY <1>0, <2>2, <3>2, <3>3 DEF Telling, WitnessInv
  <2>4. CASE tele.pc = "rabbitmq"
    <3>1. tele' = [probed EXCEPT !.overall = Overall(healths), !.cursor = cursor, !.healths = {}]
      BY <1>3, <2>4 DEF Probe
    <3>2. probed \in Requests
      BY <1>0, <2>1 DEF Requests
    <3>3. Overall(healths) \in {"HEALTHY", "DOWN"}
      BY DEF Overall
    <3>4. /\ probed.pc = "source" /\ probed.wasUp = tele.wasUp /\ probed.wasDown = tele.wasDown
      BY <1>0, <2>4 DEF Requests, After
    <3> HIDE DEF probed, healths
    <3>5. /\ tele' \in Requests
          /\ tele'.pc = "source" /\ tele'.overall = Overall(healths)
          /\ tele'.wasUp = tele.wasUp /\ tele'.wasDown = tele.wasDown
      BY <3>1, <3>2, <3>3, <3>4 DEF Requests
    <3>6. Asked(tele.pc) \cup {tele.pc} = Services
      BY <2>4 DEF Asked, Services
    <3>7. tele.wasUp \subseteq Services
      BY <1>0 DEF Requests
    <3>8. IF tele'.overall = "HEALTHY" THEN tele'.wasUp = Services ELSE tele'.wasDown # {}
      BY <2>1, <2>2, <3>5, <3>6, <3>7 DEF Overall
    <3> QED
      BY <1>0, <2>2, <3>5, <3>8 DEF Telling, WitnessInv, Services
  <2> QED
    BY <2>3, <2>4
<1>4. CASE ReadSource
  <2> DEFINE pct == IF Database THEN Pct(tele.cursor, MaxId) ELSE 10000
  <2>1. pct \in Percents
    BY <1>0, HundredPercent, PctIsBounded, CoordinatorAssumption DEF Requests
  <2>2. tele.pc = "source" /\ tele' = [tele EXCEPT !.pc = "dlq", !.pct = pct]
    BY <1>4 DEF ReadSource
  <2> HIDE DEF pct
  <2>3. /\ tele' \in Requests
        /\ tele'.pc = "dlq" /\ tele'.overall = tele.overall
        /\ tele'.wasUp = tele.wasUp /\ tele'.wasDown = tele.wasDown
    BY <1>0, <2>1, <2>2 DEF Requests
  <2> QED
    BY <1>0, <2>2, <2>3 DEF Telling, WitnessInv, Services
<1>5. CASE Answer
  BY <1>0, <1>1, <1>5 DEF Answer, Telling
<1> QED
  BY <1>2, <1>3, <1>4, <1>5

(* The types of everything but the request. *)
LoopAwaits == {"none", "read", "setRunning", "batch", "setCompleted", "setFailed"}

LifeTypes ==
    /\ up \subseteq Services /\ channel \in BOOLEAN /\ poolEnded \in BOOLEAN
    /\ boot \in {"bootstrap", "esIndex", "rmqConnect", "launch", "ready"}
    /\ shutdown \in {"none", "pausing", "closing"}
    /\ exit \in {"none", "clean", "killed"}

RunnerTypes ==
    /\ field \in [Runners -> Statuses \cup {"IDLE"}]
    /\ stop \in [Runners -> BOOLEAN]
    /\ row \in [Runners -> Statuses \cup {"INITIALIZED"}]
    /\ loops \in [Runners -> [Slots -> LoopAwaits]]
    /\ pausing \in [Runners -> SUBSET {"operator", "shutdown"}]

LEMMA LifeIsTyped ==
    ASSUME LifeTypes, Next
    PROVE  LifeTypes'
<1> USE DEF LifeTypes
<1>1. CASE \E s \in Services : GoesDown(s) \/ ComesBack(s)
  BY <1>1 DEF GoesDown, ComesBack
<1>2. CASE \E p \in Runners : \/ Pause(p) \/ Resume(p) \/ OperatorPauseSettles(p)
                             \/ \E s \in Slots : LoopStep(p, s)
  BY <1>2 DEF Pause, Resume, OperatorPauseSettles, PauseRecorded, LoopStep, ReadCheckpoint,
              SetRunning, Batch, SetCompleted, SetFailed, serviceVars
<1>3. CASE Boot
  BY <1>3 DEF Boot, AfterSinkFailure
<1>4. CASE Signal
  BY <1>4 DEF Signal, serviceVars
<1>5. CASE Shutdown
  BY <1>5 DEF Shutdown, Close, Exit, ShutdownPauseSettles, PauseRecorded, PausesSettled, serviceVars
<1>6. CASE Telemetry \/ Probe \/ ReadSource \/ Answer
  BY <1>6 DEF Telemetry, Probe, ReadSource, Answer, serviceVars
<1> QED
  BY <1>1, <1>2, <1>3, <1>4, <1>5, <1>6 DEF Next

LEMMA StartsAreTyped ==
    ASSUME RunnerTypes, NEW P \in SUBSET Runners, Starts(P)
    PROVE  stop' \in [Runners -> BOOLEAN] /\ loops' \in [Runners -> [Slots -> LoopAwaits]]
BY DEF RunnerTypes, Starts, LoopAwaits

LEMMA PausesAreTyped ==
    ASSUME RunnerTypes, NEW P \in SUBSET Runners, NEW c \in {"operator", "shutdown"}, Pauses(P, c)
    PROVE  /\ stop' \in [Runners -> BOOLEAN]
           /\ field' \in [Runners -> Statuses \cup {"IDLE"}]
           /\ pausing' \in [Runners -> SUBSET {"operator", "shutdown"}]
<1> DEFINE Callers(p) == pausing[p] \cup {x \in {c} : p \in P}
<1>1. \A p \in Runners : Callers(p) \in SUBSET {"operator", "shutdown"}
  BY DEF RunnerTypes
<1>2. pausing' = [p \in Runners |-> Callers(p)]
  BY DEF Pauses
<1> HIDE DEF Callers
<1>3. pausing' \in [Runners -> SUBSET {"operator", "shutdown"}]
  BY <1>1, <1>2
<1> QED
  BY <1>3 DEF RunnerTypes, Pauses, Statuses

LEMMA OthersLeaveRunners ==
    ASSUME \/ \E s \in Services : GoesDown(s) \/ ComesBack(s)
           \/ Close \/ Exit \/ Telemetry \/ Probe \/ ReadSource \/ Answer
    PROVE  UNCHANGED runnerVars
<1>1. ASSUME NEW s \in Services, GoesDown(s) \/ ComesBack(s) PROVE UNCHANGED runnerVars
  BY <1>1 DEF GoesDown, ComesBack
<1>2. CASE Close \/ Exit
  BY <1>2 DEF Close, Exit
<1>3. CASE Telemetry \/ Probe \/ ReadSource \/ Answer
  BY <1>3 DEF Telemetry, Probe, ReadSource, Answer
<1> QED
  BY <1>1, <1>2, <1>3

LEMMA LoopStepIsTyped ==
    ASSUME RunnerTypes, NEW p \in Runners, NEW s \in Slots, LoopStep(p, s)
    PROVE  RunnerTypes'
<1>1. \A at, to \in LoopAwaits : Loop(p, s, at, to) => loops' \in [Runners -> [Slots -> LoopAwaits]]
  BY DEF RunnerTypes, Loop
<1>2. \A status \in Statuses :
        SetField(p, status) => field' \in [Runners -> Statuses \cup {"IDLE"}]
  BY DEF RunnerTypes, SetField
<1>3. \A status \in Statuses :
        Records(p, status) => row' \in [Runners -> Statuses \cup {"INITIALIZED"}]
  BY DEF RunnerTypes, Records
<1>4. loops' \in [Runners -> [Slots -> LoopAwaits]]
  <2> USE <1>1 DEF LoopAwaits
  <2>1. CASE ReadCheckpoint(p, s)
    BY <2>1 DEF ReadCheckpoint
  <2>2. CASE SetRunning(p, s)
    BY <2>2 DEF SetRunning
  <2>3. CASE Batch(p, s)
    BY <2>3 DEF Batch
  <2>4. CASE SetCompleted(p, s)
    BY <2>4 DEF SetCompleted
  <2>5. CASE SetFailed(p, s)
    BY <2>5 DEF SetFailed
  <2> QED
    BY <2>1, <2>2, <2>3, <2>4, <2>5 DEF LoopStep
<1>5. field' \in [Runners -> Statuses \cup {"IDLE"}]
  <2> USE <1>2 DEF Statuses
  <2>1. CASE field' = field
    BY <2>1 DEF RunnerTypes
  <2>2. CASE field' # field
    BY <2>2 DEF LoopStep, ReadCheckpoint, SetRunning, Batch, SetCompleted, SetFailed, Ends
  <2> QED
    BY <2>1, <2>2
<1>6. row' \in [Runners -> Statuses \cup {"INITIALIZED"}]
  <2> USE <1>3 DEF Statuses
  <2>1. CASE row' = row
    BY <2>1 DEF RunnerTypes
  <2>2. CASE row' # row
    BY <2>2 DEF LoopStep, ReadCheckpoint, SetRunning, Batch, SetCompleted, SetFailed
  <2> QED
    BY <2>1, <2>2
<1>7. UNCHANGED <<stop, pausing>>
  BY DEF LoopStep, ReadCheckpoint, SetRunning, Batch, SetCompleted, SetFailed
<1> QED
  BY <1>4, <1>5, <1>6, <1>7 DEF RunnerTypes

LEMMA PauseRecordedIsTyped ==
    ASSUME RunnerTypes, NEW p \in Runners, NEW c, PauseRecorded(p, c)
    PROVE  RunnerTypes'
BY DEF RunnerTypes, PauseRecorded, Records, Statuses

LEMMA RunnersAreTyped ==
    ASSUME RunnerTypes, Next
    PROVE  RunnerTypes'
<1>1. CASE UNCHANGED <<field, stop, row, loops, pausing>>
  BY <1>1 DEF RunnerTypes
<1>2. ASSUME NEW p \in Runners, Pause(p)
      PROVE  RunnerTypes'
  BY <1>2, PausesAreTyped DEF Pause, RunnerTypes
<1>3. ASSUME NEW p \in Runners, Resume(p)
      PROVE  RunnerTypes'
  BY <1>3, StartsAreTyped DEF Resume, RunnerTypes
<1>4. ASSUME NEW p \in Runners, OperatorPauseSettles(p) \/ ShutdownPauseSettles(p)
      PROVE  RunnerTypes'
  BY <1>4, PauseRecordedIsTyped DEF OperatorPauseSettles, ShutdownPauseSettles
<1>5. ASSUME NEW p \in Runners, NEW s \in Slots, LoopStep(p, s)
      PROVE  RunnerTypes'
  BY <1>5, LoopStepIsTyped
<1>6. CASE Boot
  <2>1. CASE UNCHANGED <<stop, loops>>
    BY <1>6, <2>1 DEF Boot, RunnerTypes
  <2>2. CASE Starts(Runners)
    BY <1>6, <2>2, StartsAreTyped DEF Boot, RunnerTypes
  <2> QED
    BY <1>6, <2>1, <2>2 DEF Boot
<1>7. CASE Signal
  <2>1. CASE UNCHANGED <<field, stop, pausing>>
    BY <1>7, <2>1 DEF Signal, RunnerTypes
  <2>2. CASE Pauses(Runners, "shutdown")
    BY <1>7, <2>2, PausesAreTyped DEF Signal, RunnerTypes
  <2> QED
    BY <1>7, <2>1, <2>2 DEF Signal
<1>8. CASE \/ \E s \in Services : GoesDown(s) \/ ComesBack(s)
           \/ Close \/ Exit \/ Telemetry \/ Probe \/ ReadSource \/ Answer
  BY <1>8, <1>1, OthersLeaveRunners DEF runnerVars
<1> QED
  BY <1>2, <1>3, <1>4, <1>5, <1>6, <1>7, <1>8 DEF Next, Shutdown

(* The backfill advances to no more than the largest id. *)
LEMMA CursorIsBounded ==
    ASSUME cursor \in 0..MaxId, Next
    PROVE  cursor' \in 0..MaxId
<1>1. ASSUME NEW p \in Runners, NEW s \in Slots, LoopStep(p, s)
      PROVE  cursor' \in 0..MaxId
  <2>1. cursor + BatchSize \in Nat /\ MaxId \in Nat /\ cursor \in Nat
    BY CoordinatorAssumption
  <2>2. Min({cursor + BatchSize, MaxId}) \in 0..MaxId
    BY <2>1, MinOfTwo
  <2>3. cursor' \in {cursor, Min({cursor + BatchSize, MaxId})}
    BY <1>1 DEF LoopStep, ReadCheckpoint, SetRunning, Batch, SetCompleted, SetFailed
  <2> QED
    BY <2>2, <2>3
<1>2. ASSUME ~ \E p \in Runners, s \in Slots : LoopStep(p, s)
      PROVE  cursor' = cursor
  <2>1. CASE \/ \E s \in Services : GoesDown(s) \/ ComesBack(s)
             \/ Close \/ Exit \/ Telemetry \/ Probe \/ ReadSource \/ Answer
    BY <2>1, OthersLeaveRunners DEF runnerVars
  <2>2. CASE \E p \in Runners : Pause(p) \/ Resume(p) \/ OperatorPauseSettles(p)
    BY <2>2 DEF Pause, Resume, OperatorPauseSettles, PauseRecorded
  <2>3. CASE Boot \/ Signal
    BY <2>3 DEF Boot, Signal
  <2>4. CASE \E p \in Runners : ShutdownPauseSettles(p)
    BY <2>4 DEF ShutdownPauseSettles, PauseRecorded
  <2> QED
    BY <1>2, <2>1, <2>2, <2>3, <2>4 DEF Next, Shutdown
<1> QED
  BY <1>1, <1>2

LEMMA RequestIsTold ==
    ASSUME Telling, cursor \in Nat, Next
    PROVE  Telling'
<1>1. CASE \/ \E s \in Services : GoesDown(s) \/ ComesBack(s)
           \/ Boot \/ Close
  BY <1>1, ServicesTell
<1>2. CASE Telemetry \/ Probe \/ ReadSource \/ Answer
  BY <1>2, RequestTells
<1>3. ASSUME ~ (\/ \E s \in Services : GoesDown(s) \/ ComesBack(s)
                \/ Boot \/ Close \/ Telemetry \/ Probe \/ ReadSource \/ Answer)
      PROVE  UNCHANGED <<serviceVars, tele>>
  <2>1. ASSUME NEW p \in Runners, Pause(p) \/ Resume(p) \/ OperatorPauseSettles(p)
        PROVE  UNCHANGED <<serviceVars, tele>>
    BY <2>1 DEF Pause, Resume, OperatorPauseSettles, PauseRecorded
  <2>2. ASSUME NEW p \in Runners, NEW s \in Slots, LoopStep(p, s)
        PROVE  UNCHANGED <<serviceVars, tele>>
    BY <2>2 DEF LoopStep, ReadCheckpoint, SetRunning, Batch, SetCompleted, SetFailed
  <2>3. CASE Signal \/ Exit
    BY <2>3 DEF Signal, Exit
  <2>4. ASSUME NEW p \in Runners, ShutdownPauseSettles(p)
        PROVE  UNCHANGED <<serviceVars, tele>>
    BY <2>4 DEF ShutdownPauseSettles, PauseRecorded
  <2> QED
    BY <1>3, <2>1, <2>2, <2>3, <2>4 DEF Next, Shutdown
<1> QED
  BY <1>1, <1>2, <1>3, OthersKeep

Inv == LifeTypes /\ RunnerTypes /\ cursor \in 0..MaxId /\ Telling

(* The types of every part, and the witnesses of the telemetry in work. *)
LEMMA InvHolds == Spec => []Inv
<1>1. Init => Inv
  <2> SUFFICES ASSUME Init PROVE Inv
    OBVIOUS
  <2>1. Telling
    BY HundredPercent DEF Init, NoAnswer, Telling, Requests, WitnessInv, Services
  <2>2. LifeTypes
    BY DEF Init, LifeTypes
  <2>3. RunnerTypes
    BY DEF Init, RunnerTypes, LoopAwaits
  <2>4. cursor \in 0..MaxId
    BY CoordinatorAssumption DEF Init
  <2> QED
    BY <2>1, <2>2, <2>3, <2>4 DEF Inv
<1>2. Inv /\ [Next]_vars => Inv'
  <2> SUFFICES ASSUME Inv, [Next]_vars PROVE Inv'
    OBVIOUS
  <2>1. CASE UNCHANGED vars
    <3>1. Telling'
      BY <2>1, OthersKeep DEF Inv, vars
    <3> QED
      BY <2>1, <3>1 DEF Inv, vars, serviceVars, runnerVars, LifeTypes, RunnerTypes
  <2>2. CASE Next
    <3>1. cursor \in Nat
      BY CoordinatorAssumption DEF Inv
    <3> QED
      BY <2>2, <3>1, LifeIsTyped, RunnersAreTyped, CursorIsBounded, RequestIsTold DEF Inv
  <2> QED
    BY <2>1, <2>2
<1> QED
  BY <1>1, <1>2, PTL DEF Spec

(* Every variable has its type: a percentage of the telemetry is one, and  *)
(* the backfill is never past the largest id of the table.                 *)
THEOREM TypeCorrect == Spec => []TypeOK
<1>1. Inv => TypeOK
  <2> SUFFICES ASSUME Inv PROVE TypeOK
    OBVIOUS
  <2>1. tele.pct \in Percents
    BY DEF Inv, Telling, Requests
  <2>2. /\ up \subseteq Services /\ channel \in BOOLEAN /\ poolEnded \in BOOLEAN
        /\ boot \in {"bootstrap", "esIndex", "rmqConnect", "launch", "ready"}
        /\ shutdown \in {"none", "pausing", "closing"}
        /\ exit \in {"none", "clean", "killed"}
    BY DEF Inv, LifeTypes
  <2>3. /\ field \in [Runners -> Statuses \cup {"IDLE"}]
        /\ stop \in [Runners -> BOOLEAN]
        /\ row \in [Runners -> Statuses \cup {"INITIALIZED"}]
        /\ loops \in [Runners -> [Slots -> {"none", "read", "setRunning", "batch", "setCompleted",
                                            "setFailed"}]]
        /\ pausing \in [Runners -> SUBSET {"operator", "shutdown"}]
        /\ cursor \in 0..MaxId
    BY DEF Inv, RunnerTypes, LoopAwaits
  <2> QED
    BY <2>1, <2>2, <2>3 DEF TypeOK
<1> QED
  BY <1>1, InvHolds, PTL

(* The verdict of GET /api/health and of the telemetry (getHealthStatus)   *)
(* is true of the time of the request, though the components are probed    *)
(* one after the other and may fail and come back between the probes:      *)
(* HEALTHY means that each was up at some moment of the request, DOWN that *)
(* one was down at some moment of it.                                      *)
THEOREM VerdictsAreWitnessed == Spec => []VerdictHasWitness
<1>1. Inv => VerdictHasWitness
  BY DEF Inv, Telling, WitnessInv, VerdictHasWitness
<1> QED
  BY <1>1, InvHolds, PTL
=============================================================================
