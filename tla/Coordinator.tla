----------------------------- MODULE Coordinator -----------------------------
(***************************************************************************)
(* The life of the pipeline daemon: bootstrap() and the signal handlers of *)
(* index.ts, PipelineCoordinator, and the control and telemetry endpoints  *)
(* of server.ts, over both runners and the three services.                 *)
(*                                                                         *)
(* A runner is what its start(), pause() and resume() do to its fields and *)
(* to its status row; what happens to a batch is BackfillRunner and        *)
(* IncrementalRunner.  One iteration of a loop is one step.  A statement   *)
(* fails when PostgreSQL is down or the pool has ended.  A second signal   *)
(* and the closing of the HTTP server are left out: requests come in until *)
(* the process exits.                                                      *)
(***************************************************************************)
EXTENDS Naturals, FiniteSets, FiniteSetsExt

CONSTANTS
    Slots,      \* bound: loops of a runner that may be alive at once
    BatchSize,  \* rows the backfill advances by
    MaxId,      \* largest id of source_records
    MaxOutages, \* bound: services that go down
    MaxRequests \* bound: control and telemetry requests

ASSUME CoordinatorAssumption ==
    /\ IsFiniteSet(Slots)
    /\ BatchSize \in Nat \ {0} /\ MaxId \in Nat \ {0}
    /\ MaxOutages \in Nat /\ MaxRequests \in Nat

Runners  == {"backfill", "incremental"}
Services == {"postgres", "elasticsearch", "rabbitmq"}

VARIABLES
    up,       \* services that answer
    channel,  \* the confirm channel of the RabbitMQ sink is open
    poolEnded,
    boot,     \* await of bootstrap()
    shutdown, \* await of shutdown()
    exit,     \* "none", "clean", "killed" (by a signal)
    field,    \* status of each runner object
    stop,     \* stopRequested of each runner
    row,      \* status column of each checkpoint
    loops,    \* [Runners -> [Slots -> await of that start()]]
    pausing,  \* callers whose pause() awaits its UPDATE
    operator, \* history: the last word of the operator to each runner
    cursor,   \* lastProcessedId of the backfill
    tele,     \* the GET /api/telemetry or /health in work
    outages, requests

serviceVars == <<up, channel, poolEnded>>
runnerVars  == <<field, stop, row, loops, pausing, operator, cursor>>
vars == <<serviceVars, boot, shutdown, exit, runnerVars, tele, outages, requests>>

Running == exit = "none"

(* Components a health probe would find up. *)
HealthyWith(u, c, ended) ==
    {x \in Services :
        CASE x = "postgres"      -> x \in u /\ ~ended
          [] x = "elasticsearch" -> x \in u
          [] x = "rabbitmq"      -> c}

Healthy  == HealthyWith(up, channel, poolEnded)
Database == "postgres" \in Healthy

(* History of a request in flight: components up, and down, at some time.  *)
Witness(t, healthy) ==
    IF t.pc = "idle" THEN t
    ELSE [t EXCEPT !.wasUp = @ \cup healthy, !.wasDown = @ \cup (Services \ healthy)]

----------------------------------------------------------------------------
(* Services *)

GoesDown(s) ==
    /\ s \in up /\ outages < MaxOutages
    /\ outages' = outages + 1
    /\ up' = up \ {s}
    /\ channel' = (channel /\ s # "rabbitmq")
    /\ tele' = Witness(tele, HealthyWith(up', channel', poolEnded))
    /\ UNCHANGED <<poolEnded, boot, shutdown, exit, runnerVars, requests>>

ComesBack(s) ==
    /\ s \notin up
    /\ up' = up \cup {s}
    /\ tele' = Witness(tele, HealthyWith(up', channel, poolEnded))
    /\ UNCHANGED <<channel, poolEnded, boot, shutdown, exit, runnerVars, outages, requests>>

----------------------------------------------------------------------------
(* Runners *)

(* start(), up to its first await. *)
Starts(P) ==
    /\ stop' = [p \in Runners |-> stop[p] /\ p \notin P]
    /\ \A p \in P : \E s \in Slots : loops[p][s] = "none"
    /\ loops' = [p \in Runners |->
                    IF p \notin P THEN loops[p]
                    ELSE [loops[p] EXCEPT
                            ![CHOOSE s \in Slots : loops[p][s] = "none"] = "read"]]

Loop(p, s, at, to) == loops[p][s] = at /\ loops' = [loops EXCEPT ![p][s] = to]

SetField(p, status) == field' = [field EXCEPT ![p] = status]

(* updateStatus that succeeds. *)
Records(p, status) == Database /\ row' = [row EXCEPT ![p] = status]

(* The end of the loop: "if (this.stopRequested) this.status = 'PAUSED'". *)
Ends(p) == IF stop[p] THEN SetField(p, "PAUSED") ELSE UNCHANGED field

(* getCheckpoint *)
ReadCheckpoint(p, s) ==
    /\ Running
    /\ \/ /\ ~Database
          /\ Loop(p, s, "read", "none")
          /\ UNCHANGED field
       \/ /\ Database /\ stop[p]
          /\ Loop(p, s, "read", "none")
          /\ SetField(p, "PAUSED")
       \/ /\ Database /\ ~stop[p]
          /\ Loop(p, s, "read", "setRunning")
          /\ SetField(p, "RUNNING")
    /\ UNCHANGED <<serviceVars, boot, shutdown, exit, stop, row, pausing, operator, cursor,
                   tele, outages, requests>>

(* updateStatus('RUNNING'), outside the try block. *)
SetRunning(p, s) ==
    /\ Running
    /\ \/ ~Database /\ Loop(p, s, "setRunning", "none") /\ UNCHANGED <<field, row>>
       \/ /\ Records(p, "RUNNING")
          /\ \/ stop[p] /\ Loop(p, s, "setRunning", "none") /\ SetField(p, "PAUSED")
             \/ ~stop[p] /\ Loop(p, s, "setRunning", "batch") /\ UNCHANGED field
    /\ UNCHANGED <<serviceVars, boot, shutdown, exit, stop, pausing, operator, cursor,
                   tele, outages, requests>>

(* An iteration, from the fetch to the commit. A statement that fails      *)
(* throws, and so does a dispatch of the backfill; the incremental runner  *)
(* catches its own, sleeps and polls again.                                *)
Batch(p, s) ==
    /\ Running
    /\ \/ /\ ~Database \/ (p = "backfill" /\ cursor < MaxId /\ Healthy # Services)
          /\ Loop(p, s, "batch", "setFailed")
          /\ SetField(p, "FAILED")
          /\ UNCHANGED cursor
       \/ /\ Database
          /\ p = "backfill" => cursor < MaxId /\ Healthy = Services
          /\ cursor' = IF p = "backfill" THEN Min({cursor + BatchSize, MaxId}) ELSE cursor
          /\ Loop(p, s, "batch", IF stop[p] THEN "none" ELSE "batch")
          /\ Ends(p)
       \/ /\ Database
          /\ p = "backfill" /\ cursor = MaxId
          /\ Loop(p, s, "batch", "setCompleted")
          /\ SetField(p, "COMPLETED")
          /\ UNCHANGED cursor
    /\ UNCHANGED <<serviceVars, boot, shutdown, exit, stop, row, pausing, operator,
                   tele, outages, requests>>

SetCompleted(p, s) ==
    /\ Running
    /\ \/ Records(p, "COMPLETED") /\ Loop(p, s, "setCompleted", "none") /\ Ends(p)
       \/ ~Database /\ Loop(p, s, "setCompleted", "setFailed") /\ SetField(p, "FAILED") /\ UNCHANGED row
    /\ UNCHANGED <<serviceVars, boot, shutdown, exit, stop, pausing, operator, cursor,
                   tele, outages, requests>>

(* The catch block; start() rejects, which the coordinator logs. *)
SetFailed(p, s) ==
    /\ Running
    /\ Loop(p, s, "setFailed", "none")
    /\ Records(p, "FAILED") \/ (~Database /\ UNCHANGED row)
    /\ UNCHANGED <<serviceVars, boot, shutdown, exit, field, stop, pausing, operator, cursor,
                   tele, outages, requests>>

----------------------------------------------------------------------------
(* Control requests *)

(* pause(), up to its await, for every runner of P. *)
Pauses(P, caller) ==
    /\ stop' = [p \in Runners |-> stop[p] \/ p \in P]
    /\ field' = [p \in Runners |-> IF p \in P THEN "PAUSED" ELSE field[p]]
    /\ pausing' = [p \in Runners |-> pausing[p] \cup {c \in {caller} : p \in P}]

Pause(p) ==
    /\ Running /\ boot # "bootstrap"
    /\ requests < MaxRequests /\ "operator" \notin pausing[p]
    /\ requests' = requests + 1
    /\ Pauses({p}, "operator")
    /\ operator' = [operator EXCEPT ![p] = "pausing"]
    /\ UNCHANGED <<serviceVars, boot, shutdown, exit, row, loops, cursor, tele, outages>>

(* The UPDATE of pause(): 200 PAUSED, or 500. *)
PauseRecorded(p, caller) ==
    /\ Running
    /\ caller \in pausing[p]
    /\ pausing' = [pausing EXCEPT ![p] = @ \ {caller}]
    /\ \/ /\ Records(p, "PAUSED")
          /\ operator' = [operator EXCEPT ![p] =
                            IF caller = "operator" /\ @ = "pausing" THEN "paused" ELSE @]
       \/ ~Database /\ UNCHANGED <<row, operator>>
    /\ UNCHANGED <<serviceVars, boot, exit, field, stop, loops, cursor, tele, outages, requests>>

(* resumeBackfill, resumeIncremental: answered RUNNING at once. *)
Resume(p) ==
    /\ Running /\ boot # "bootstrap"
    /\ requests < MaxRequests
    /\ requests' = requests + 1
    /\ Starts({p})
    /\ operator' = [operator EXCEPT ![p] = "resumed"]
    /\ UNCHANGED <<serviceVars, boot, shutdown, exit, field, row, pausing, cursor, tele, outages>>

----------------------------------------------------------------------------
(* bootstrap() and coordinator.start() *)

(* Faulty: the error of a sink ends coordinator.start(), and bootstrap(). *)
AfterSinkFailureExits == [boot |-> boot, exit |-> "died"]

(* Logged as a warning; the boot goes on. *)
AfterSinkFailure == [boot |-> IF boot = "esIndex" THEN "rmqConnect" ELSE "launch", exit |-> "none"]

Boot ==
    /\ Running
    /\ \/ /\ boot = "bootstrap" /\ boot' = "esIndex"
          /\ UNCHANGED <<channel, exit, stop, loops>>
       \/ /\ boot = "esIndex" /\ "elasticsearch" \in up
          /\ boot' = "rmqConnect"
          /\ UNCHANGED <<channel, exit, stop, loops>>
       \/ /\ boot = "rmqConnect" /\ "rabbitmq" \in up
          /\ boot' = "launch" /\ channel' = TRUE
          /\ UNCHANGED <<exit, stop, loops>>
       \/ /\ \/ boot = "esIndex" /\ "elasticsearch" \notin up
             \/ boot = "rmqConnect" /\ "rabbitmq" \notin up
          /\ boot' = AfterSinkFailure.boot /\ exit' = AfterSinkFailure.exit
          /\ UNCHANGED <<channel, stop, loops>>
       \/ /\ boot = "launch"
          /\ boot' = "ready"
          /\ Starts(Runners)
          /\ UNCHANGED <<channel, exit>>
    /\ tele' = Witness(tele, HealthyWith(up, channel', poolEnded))
    /\ UNCHANGED <<up, poolEnded, shutdown, field, row, pausing, operator, cursor, outages, requests>>

(* SIGTERM or SIGINT: the handlers are installed after the launch. *)
Signal ==
    /\ Running /\ shutdown = "none"
    /\ \/ /\ boot = "ready"
          /\ shutdown' = "pausing"
          /\ Pauses(Runners, "shutdown")
          /\ UNCHANGED exit
       \/ /\ boot # "ready"
          /\ exit' = "killed"
          /\ UNCHANGED <<shutdown, field, stop, pausing>>
    /\ UNCHANGED <<serviceVars, boot, row, loops, operator, cursor, tele, outages, requests>>

(* Faulty: Promise.all, whose rejection nobody handles. *)
PausesSettledAll(p) == IF Database THEN "pausing" ELSE "rejected"

(* Promise.allSettled: a rejected pause() changes nothing for shutdown(). *)
PausesSettled(p) == "pausing"

ShutdownPauseSettles(p) ==
    /\ shutdown \in {"pausing", "rejected"}
    /\ PauseRecorded(p, "shutdown")
    /\ shutdown' = IF shutdown = "rejected" THEN shutdown ELSE PausesSettled(p)

(* Channel, client and pool are closed; then process.exit(0). *)
Close ==
    /\ Running /\ shutdown = "pausing"
    /\ \A p \in Runners : "shutdown" \notin pausing[p]
    /\ shutdown' = "closing"
    /\ channel' = FALSE /\ poolEnded' = TRUE
    /\ tele' = Witness(tele, HealthyWith(up, FALSE, TRUE))
    /\ UNCHANGED <<up, boot, exit, runnerVars, outages, requests>>

Exit ==
    /\ Running /\ shutdown = "closing"
    /\ exit' = "clean"
    /\ UNCHANGED <<serviceVars, boot, shutdown, runnerVars, tele, outages, requests>>

----------------------------------------------------------------------------
(* getTelemetry *)

NoAnswer == [pc |-> "idle", wasUp |-> {}, wasDown |-> {}, healths |-> {}, overall |-> "DOWN",
             cursor |-> 0, pct |-> 0]

Telemetry ==
    /\ Running /\ boot # "bootstrap"
    /\ tele.pc = "idle" /\ requests < MaxRequests
    /\ requests' = requests + 1
    /\ tele' = Witness([NoAnswer EXCEPT !.pc = "postgres"], Healthy)
    /\ UNCHANGED <<serviceVars, boot, shutdown, exit, runnerVars, outages>>

After == [postgres |-> "elasticsearch", elasticsearch |-> "rabbitmq", rabbitmq |-> "source",
          source |-> "dlq"]

(* Faulty: PostgreSQL is left out of the verdict. *)
OverallOfSinks(healths) == IF {"elasticsearch", "rabbitmq"} \subseteq healths THEN "HEALTHY" ELSE "DOWN"

(* No component is ever DEGRADED, so neither is the whole. *)
Overall(healths) == IF healths = Services THEN "HEALTHY" ELSE "DOWN"

Probe ==
    /\ Running
    /\ tele.pc \in Services
    /\ LET healths == tele.healths \cup ({tele.pc} \cap Healthy)
           probed  == [tele EXCEPT !.pc = After[tele.pc], !.healths = healths]
       IN  tele' = IF tele.pc # "rabbitmq" THEN probed
                   ELSE [probed EXCEPT !.overall = Overall(healths), !.cursor = cursor, !.healths = {}]
    /\ UNCHANGED <<serviceVars, boot, shutdown, exit, runnerVars, outages, requests>>

(* Math.round(cursor / maxId * 10000), hundredths of a percent. *)
Pct(at, of) == Min({10000, (2 * 10000 * at + of) \div (2 * of)})

(* getSourceMetadata; when it fails, totalCount stays 0. *)
ReadSource ==
    /\ Running /\ tele.pc = "source"
    /\ tele' = [tele EXCEPT !.pc = "dlq", !.pct = IF Database THEN Pct(tele.cursor, MaxId) ELSE 10000]
    /\ UNCHANGED <<serviceVars, boot, shutdown, exit, runnerVars, outages, requests>>

(* getPendingCount, whatever it says, and the answer. *)
Answer ==
    /\ Running /\ tele.pc = "dlq"
    /\ tele' = NoAnswer
    /\ UNCHANGED <<serviceVars, boot, shutdown, exit, runnerVars, outages, requests>>

----------------------------------------------------------------------------
Init ==
    /\ up = Services /\ channel = FALSE /\ poolEnded = FALSE
    /\ boot = "bootstrap" /\ shutdown = "none" /\ exit = "none"
    /\ field = [p \in Runners |-> "IDLE"]
    /\ stop = [p \in Runners |-> FALSE]
    /\ row = [p \in Runners |-> "INITIALIZED"]
    /\ loops = [p \in Runners |-> [s \in Slots |-> "none"]]
    /\ pausing = [p \in Runners |-> {}]
    /\ operator = [p \in Runners |-> "none"]
    /\ cursor = 0
    /\ tele = NoAnswer
    /\ outages = 0 /\ requests = 0

OperatorPauseSettles(p) == PauseRecorded(p, "operator") /\ UNCHANGED shutdown

LoopStep(p, s) ==
    ReadCheckpoint(p, s) \/ SetRunning(p, s) \/ Batch(p, s) \/ SetCompleted(p, s) \/ SetFailed(p, s)

Shutdown == Close \/ Exit \/ \E p \in Runners : ShutdownPauseSettles(p)

Next ==
    \/ \E s \in Services : GoesDown(s) \/ ComesBack(s)
    \/ \E p \in Runners : \/ Pause(p) \/ Resume(p) \/ OperatorPauseSettles(p)
                          \/ \E s \in Slots : LoopStep(p, s)
    \/ Boot \/ Signal \/ Shutdown
    \/ Telemetry \/ Probe \/ ReadSource \/ Answer

Spec == Init /\ [][Next]_vars

(* The awaits of the boot and of the shutdown settle: each has a time      *)
(* limit or fails with its connection.                                     *)
FairSpec == Spec /\ WF_vars(Boot) /\ WF_vars(Shutdown)

----------------------------------------------------------------------------
(* Properties *)

Statuses == {"RUNNING", "PAUSED", "COMPLETED", "FAILED"}
Percents == 0..10000  \* hundredths of a percent

TypeOK ==
    /\ up \subseteq Services /\ channel \in BOOLEAN /\ poolEnded \in BOOLEAN
    /\ boot \in {"bootstrap", "esIndex", "rmqConnect", "launch", "ready"}
    /\ shutdown \in {"none", "pausing", "closing"}
    /\ exit \in {"none", "clean", "killed"}
    /\ field \in [Runners -> Statuses \cup {"IDLE"}]
    /\ stop \in [Runners -> BOOLEAN]
    /\ row \in [Runners -> Statuses \cup {"INITIALIZED"}]
    /\ loops \in [Runners -> [Slots -> {"none", "read", "setRunning", "batch", "setCompleted",
                                        "setFailed"}]]
    /\ pausing \in [Runners -> SUBSET {"operator", "shutdown"}]
    /\ cursor \in 0..MaxId /\ tele.pct \in Percents

(* The verdict of a health answer is true of the time of the request:      *)
(* HEALTHY only when every component was up at some moment of it, DOWN     *)
(* only when one was down, though each is probed at a moment of its own.   *)
VerdictHasWitness ==
    tele.pc \in {"source", "dlq"} =>
        IF tele.overall = "HEALTHY" THEN tele.wasUp = Services ELSE tele.wasDown # {}

(* A sink that is down while the daemon boots does not keep the runners    *)
(* from being launched; only a signal does.                                *)
BootCompletes == <>(boot = "ready" \/ exit = "killed")

(* Once launched, a signal leads to exit(0), in whatever state the runners *)
(* are and though PostgreSQL takes no more statements.                     *)
GracefulExit == shutdown # "none" ~> exit = "clean"

(* backfill.runner.ts: "Pauses the backfill execution loop cleanly": a     *)
(* pause that was answered holds until somebody resumes.                   *)
PauseHolds == \A p \in Runners : operator[p] = "paused" => stop[p]

(* README.md:96 "operational state is fully introspectable via             *)
(* /api/telemetry": a runner shown RUNNING has a loop.                     *)
RunningMeansLooping ==
    \A p \in Runners : field[p] = "RUNNING" => \E s \in Slots : loops[p][s] # "none"
=============================================================================
