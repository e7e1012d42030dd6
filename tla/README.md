# A verification of the replication engine in TLA+

This directory holds TLA+ modules that model the replication engine of this
repository, TLC configurations that check them on small instances, and proofs
that TLAPS checks for every size. `PROJECT.json` lists the components, the runs,
the source lines each definition models, the hazards of the code and the
theorems.

Run a check with `tlc -config BackfillSingle.cfg MCBackfillRunner`, a proof
with `tlapm BackfillRunnerProofs.tla`.

## 1. Inventory of the system

The engine copies rows of the PostgreSQL table `source_records` to an
Elasticsearch index and to a RabbitMQ exchange. One Node.js process (the
pipeline) holds two runners; a second one (the consumer) reads the queue. All
the concurrency inside a process is that of the event loop: code runs alone
between two `await`s, and anything may happen at an `await`.

| Component | State | Operations | Talks to |
| --- | --- | --- | --- |
| Backfill runner, `runners/backfill.runner.ts` | status, position, stop flag | `start`, `pause`, `resume` | checkpoint manager, source reader, both breakers and sinks, DLQ store |
| Incremental runner, `runners/incremental.runner.ts` | status, composite watermark, stop flag, one sleep | `start`, `pause`, `resume`, `sleep` | the same |
| Checkpoint manager, `checkpoint/checkpoint.manager.ts` | the table `replication_checkpoints` | get, commit, update of the status, reset | PostgreSQL |
| Source reader, `source/source.reader.ts` | none | keyset queries for a batch, lag | PostgreSQL |
| DLQ store and replayer, `dlq/` | the table `dead_letter_queue` | persist failures, replay one or all entries, mark | PostgreSQL, both sinks (without the breakers) |
| Circuit breaker, `resilience/circuit-breaker.ts` (one per sink) | state, counters, next attempt, timers | `execute`, `trip`, `reset` | the sink's health probe; shared by the two runners |
| Elasticsearch sink, `sinks/elasticsearch/` | the index | bulk upsert, health check | Elasticsearch |
| RabbitMQ sink, `sinks/rabbitmq/` | one confirm channel | connect, publish a batch, health check | RabbitMQ |
| Coordinator and boot, `coordinator/`, `index.ts` | status of the process | start, stop, telemetry, pause and resume | everything above |
| HTTP API, `server.ts`; chaos service, `simulation/`; search, `search/` | none | control, fault injection, search | coordinator, breakers, PostgreSQL |
| Consumer, `apps/consumer/src` | connection, reconnect timer, deduplication window | supervised start, handling of a message, stop | RabbitMQ |
| Verification suite, `scripts/verify/` | locals of a gate, whether it started or stopped a container | gates 1 to 5 | telemetry, control, Docker, PostgreSQL, Elasticsearch, the consumer's metrics |
| User interface, `apps/ui` | what it shows | polling, search, control calls | HTTP API |

What is hard here, and what makes each part correct:

* *Runners.* A batch is a saga of two dispatches, an insert and an update with
  nothing transactional around them. Correct means that the persisted watermark
  never passes a row that a sink has not acknowledged or that was not
  quarantined, wherever the process dies, whichever query or reply is lost, and
  though nothing prevents two loops of one runner at a time; that pausing stops
  the loop; that everything is replicated in the end.
* *Breaker.* Several callers are inside `execute()` at a time, asleep, probing
  or operating, and write the same fields when they come back. Correct means
  that the fields agree with the state whatever late answers arrive, that a
  probe waits for the backoff, that nobody waits for ever, and that the breaker
  closes once the sink is back.
* *Sinks.* Acknowledgements are partial (Elasticsearch) or all or nothing
  (RabbitMQ, whose one channel two runners share). A request that timed out may
  still be executed, after a newer version of the same row was.
* *Dead letter queue.* Duplicated entries, concurrent replays, entries that
  always fail.
* *Consumer.* Redelivery, a bounded and volatile deduplication window,
  reconnecting against stopping. Correct means that nothing leaves the queue
  unprocessed and that the service never stops consuming without a retry due.
* *Coordinator.* Requests, signals and outages arrive during the boot and the
  shutdown; telemetry is assembled from answers of different moments.
* *Verification suite.* A gate observes a pipeline that goes on between two of
  its requests, injects the failure it is to observe, and may itself be cut off.
  Correct means that PASS follows from what is in the source and the sinks, and
  that the suite leaves the system running.

`PROJECT.json` lists each hazard at its line.

## 2. Modules and plan

| Module | Models | Extends, or instantiates | Run with |
| --- | --- | --- | --- |
| `WatermarkContract` | what the watermark of the backfill promises | | `RefinesContract` of the backfill |
| `BackfillRunner`, `BackfillRunnerProofs` (which proves about `CrashDrill` too) | the backfill | instantiates `WatermarkContract` | `backfill_overlap`, `backfill_single` |
| `CircuitBreaker`, `CircuitBreakerProofs` | one breaker under concurrent callers | | `breaker_shared` |
| `MutationContract` | what the composite watermark promises | | `RefinesContract` of the incremental runner |
| `IncrementalRunner`, `IncrementalRunnerProofs` | the continuous synchronisation | instantiates `MutationContract` | `incremental_overlap`, `incremental_single`, `incremental_late` |
| `RabbitSink`, `RabbitSinkProofs` | the confirm channel two runners share | | `sink` |
| `DeadLetterQueue`, `DeadLetterQueueProofs` | entries, replay of one and of all, the index under late writes | | `dlq` |
| `Consumer`, `ConsumerProofs` | supervision, delivery, deduplication | | `consumer` |
| `Coordinator`, `CoordinatorProofs` | boot, control, telemetry, shutdown | | `coordinator` |
| `CrashDrill` | gate 1 of the verification suite | extends `BackfillRunner` | `drill` |
| `GateWorld`, `VerificationGates`, `VerificationGatesProofs` | gates 2 to 4 and the suite around them | `VerificationGates` extends `GateWorld` | `gates` |

Each `MC...` module gives names to the model values of a run. The passing runs
are those of `PROJECT.json`; `IncLag.cfg` and `GateBatch.cfg` are larger instances that
pass by hand, and the other `.cfg` files show the disagreements of section 13.

`CrashDrill` composes the gate with the whole runner it drills. The other modules
meet at assumptions that another module discharges: the runners take a sink that
reports a row as received for one that received it, which is `ConfirmedMeansHeld`
of `RabbitSink`; the dead letter queue takes a publication to answer, which is
`CallsReturnUnlessChoked`; the breaker takes a sink that comes back, which the
RabbitMQ sink does not do (section 13).

Every safety invariant and every action property that a passing run checks is
also a theorem (section 14). To come:

1. An abstract sink (a batch is answered, what it confirms is held) that
   `RabbitSink` implements, in place of the assumption the runners make in words.
2. Of the properties section 13 refutes in general, the conditions under which
   they hold, as `MutationsAreKept` states it of `NoMutationLost`: a pause that
   meets no boot (`PauseHolds`), a pin that meets a quiescent runner (`PinHolds`),
   failures that are a caller's own when one caller publishes (`FailuresAreOwn`).

## 3. `BackfillRunner`

**State.** `table` is the set of committed ids of `source_records`; `cp` the
pipeline's row of `replication_checkpoints`; `dlq` the pairs (row, sink) with an
entry in `dead_letter_queue`; `delivered` the pairs (row, sink) a sink received.
`status`, `lastProcessedId`, `stopRequested` are the fields of the runner.
Since nothing prevents a second call of `start()` while one still runs, each
call is an *activation* `l \in Loops`, with a program counter `pc[l]` that names
the `await` it stands at, and its local variables: the checkpoint it read, the
cursor its query was issued with, the batch, the sinks that answered, the
failures they reported.

**Actions.** One action is one turn of the event loop. Along `start()`:
`ReadCheckpoint` (the query), `ResumeFromCheckpoint` (its reply, the test of the
stop flag), `SetRunning`, `FetchBatch` or `FetchNothing`, `SinkAck` per sink,
`Dispatched`, `PersistFailures`, `CommitCheckpoint` (the update), `Committed`
(its reply, the test of the loop and the next query), `SetCompleted`,
`SetFailed`. `SinkReject` is `Promise.all` rejecting: the catch block runs at
once, and the dispatch to the other sink becomes an *orphan* that settles
later (`OrphanSettles`). `QueryFailsOutside` and `QueryFailsInside` are a query
that is rejected, executed or not, outside and inside the `try` block. `Pause`
and `SetPaused` are `pause()` before and after its `await`; `Resume` and
`Launch` are the two callers of `start()`; `Crash` and `Boot` the end and the
beginning of a process. `Crash` also stands for a SIGTERM, which is a pause
followed by `process.exit(0)` without waiting for the loop. `InsertRow` is any
other transaction that commits a row, possibly below ids already committed.

**Abstractions.** A row is its id; versions are in `IncrementalRunner`.
A failed query is not executed later than its failure is seen. Entries of the
dead letter queue form a set, so that the duplicates a replay inserts are one
entry. `totalProcessed`, `totalFailed`, throughput and metadata are left out:
only telemetry reads them. A missing checkpoint row is not modelled, since the
schema seeds it. The breaker is whatever `SinkReject` allows: an `execute()` may
be rejected for any reason and after any time. A NACK is assumed to be seen by
`waitForConfirms()`, and `publishBatch` is assumed to end: `RabbitSink` says when
both are so.

**Runs.**

* `backfill_overlap`: two activations, three rows (one committed late, one
  corrupted), batches of one, a sink failure, a crash and two commands. Two
  activations are enough for every pair of steps to interleave; three rows let
  one loop be two batches ahead of the other. Checks the type invariant,
  `NoRecordLost`, `CompletedMeansReplicated` and that the runner implements
  `WatermarkContract`. Activations are symmetric, and the run has no liveness
  property. Queries do not fail in it; they do in the next one.
* `backfill_single`: one activation, four rows in batches of two, so that there
  are full, partial and empty batches, with a failure of a query and of a sink,
  a crash and two commands. Checks
  `CountersMatchWatermark`, `PulledFromCheckpoint`, `WatermarkNeverRegresses`,
  and the liveness properties `PauseQuiesces` and `ReplicationCompletes`.

Deadlock is not checked: a backfill that completed, or failed, stops, and
faults, crashes and commands are bounded (`MaxQueryFaults`, `MaxSinkFaults`,
`MaxCrashes`, `MaxCommands`).

**Fairness.** The steps of an activation, of a pause on its way, of the boot
sequence and of the restart are weakly fair: an `await` of a query or of a sink
ends one way or the other, the boot sequence launches the runner once
(`index.ts:147`), and `docker-compose.yml` restarts a dead pipeline
(`restart: unless-stopped`). Resuming, pausing, failing, crashing and inserting
rows are not fair. `Launch` is fair as "some activation is launched", not per
activation.

## 4. `CircuitBreaker`

**State.** `state`, `failures`, `successes`, `nextAttempt`, `outage`
(`outageStartTime` is set) are the fields; `tripTimer` the pending timeouts of
`trip()`; `pc[c]` and `wait[c]` say where the `execute()` of caller `c` stands
and how long it still sleeps; `sink` says whether the sink answers, `doomed`
which probes and operations on their way will fail.

**Actions.** `CallPasses`, `CallSleeps` and `CallProbes` are the three ways into
`execute()`; `Wake` ends the sleep and sends the probe, `ProbeHealthy` and
`ProbeUnhealthy` answer it, `Succeed` and `Fail` answer the operation, in
whatever state the breaker is by then. `Trip`, `TripTimer` and `Reset` are the
calls from outside. `Tick` lets time pass.

**Abstractions.** Times are what is left to wait, in small units; a timer that
is due fires at once or later. The sink decides the outcome of what is sent to
it: sent while it is away, it fails; on its way when it goes away, it may fail.
Consecutive failures are counted up to `FailureCap`, above which neither the
comparison with the threshold nor the backoff changes (the assumption
`FailureCapAssumption` says so). `totalTrips`, `totalDowntimeMs`,
`currentBackoffMs` and `lastFailureTime` are left out: nothing but telemetry
reads them. `trip()` without a duration and a breaker without a probe exist in
tests only. `reset()` has no caller in the program and is modelled as part of
the class's interface.

**Runs.**

* `breaker_shared`: two callers, or one, a threshold of two, two outages, two
  calls of `trip()` with overlapping timers, one `reset()`. Checks
  `ClosedIsHealthy` and `OpenIsTimed` whatever answers come late; `StatesGoRound`
  and `ProbesWaitForBackoff` of a caller that is alone in `execute()`, since a
  sleeper looks at nothing when it wakes (with several callers both fail); and
  `CallsReturn` and `BreakerHeals`. `HalfOpenIsUndecided` and the type invariant
  are proved.

Backoffs of one and two units with a jitter of one are enough to tell a base, a
cap and a jitter apart. Deadlock is checked.

**Fairness.** Time passes, due timers fire, probes and operations end (requests
to Elasticsearch carry a deadline, `index.ts:68`), and callers call again: the
runners poll. The last one is an assumption about traffic, the one the README of
the repository makes in its Case Study 3: without traffic a half-open breaker
stays half open. The sink need not come back; `BreakerHeals` says what happens
if it does for good.

## 5. `MutationContract` and `IncrementalRunner`

**State.** `source` gives each row its version and `updated_at`, the start of the
transaction that wrote it; `open` the transactions not committed yet. `cp`,
`dlq`, the fields and the activations are as in `BackfillRunner`, with a
composite watermark (timestamp, id) and versions in every triple. `sleeper` is
`sleepResolve`, the one promise the runner remembers; `timers` the poll timers
that are armed. `orphans` are dispatches nobody waits for any more: unlike in
`BackfillRunner` they are executed, or lost, at any later time, after newer ones
too.

**Actions.** One per turn of the event loop, in the order of `start()`:
`ReadCheckpoint`, `ResumeFromCheckpoint`, `SetRunning`, `MeasureLag`,
`FetchNothing` or `FetchBatch`, `SinkAck`, `Dispatched`, `PersistFailures`,
`CommitCheckpoint`, `Committed`; `SinkReject` is the rejected dispatch, after
which the loop sleeps and polls again, `TimerFires` the end of a sleep. `Pause`
wakes one sleeper and sends its UPDATE (`SetPaused`); `Resume` calls `start()`
without looking; `Begin` and `CommitWrite` are the transactions of the
application. `Crash` ends the process, and all its activations, and starts it again
(`restart: unless-stopped`): what it had sent is still on its way.

**Contract.** Below the watermark, what the table holds was taken by both sinks or
quarantined, in the version it has now. A transaction may not commit behind the
watermark; where the runner cannot ensure that, `incremental_late` shows it.

**Runs.** `incremental_overlap` (two activations, symmetric, safety only) and
`incremental_single` (liveness too) allow any two of a failed query, a failed
sink, a crash, a pause and a resume, over two rows written twice in batches of
one. Two writes are one update of a fetched row, or two rows that are pending
together; batches of one keep a second batch behind the first. `MaxOpen` is one,
so that transactions commit in the order of their timestamps; `incremental_late`
takes two and is violated. `MaxTrouble` bounds the faults of these two runs
together. `WatermarkNeverRegresses`, as for the backfill, is a property of one
activation.

`LagDrains` excuses a runner that was stopped and one that was `Deserted`. It takes
three troubles to desert it, one more than the run allows: a pause while the lag is
one, a resume, and a `updateStatus('RUNNING')` that fails outside the `try` block.
`start()` then ends with the field `RUNNING`, no loop, and the lag it last measured.
A resume or a restart of the process ends that state, and nothing else does;
`NotDeserted` is violated in `IncFindings.cfg`. So that the bound hides nothing else,
`IncLag.cfg` checks `LagDrains` over one row with a `MaxTrouble` of five, which cuts
nothing off: a failed query, a failed sink, a crash and both commands in one
behaviour, in any order. It passes, by hand (`tlc -config IncLag.cfg
MCIncrementalRunner`, a minute or two).

**Fairness.** The steps of an activation, the UPDATE of a pause, and the commit of
an open transaction are weakly fair. Resuming is not: a loop that ended because a
query failed, or an operator paused it, stays ended, and `MutationsReplicated`
speaks of the runs in which neither happened.

## 6. `RabbitSink`

**State.** `link`, `channel`, `isConnected` are the connection and the fields of
the sink; `unconfirmed` the messages of the channel without a confirm; `choked`
that `publish()` returns false; `held` the messages the broker took over. Of each
caller: the `await` it stands at, the next record, the messages its
`waitForConfirms()` waits for, and how its batches were answered.

**Actions.** `Dial`, `OpenChannel`, `DeclareTopology` are `connect()`.
`SendUntilFull` and `SendRest` send up to the next `await`; `Drain` wakes the
callers that wait for it; `Confirmed` and `Reject` end a batch; `Ack`, `Nack`,
`Close`, `BrokerStarts` are the broker. Sending is urgent: between two awaits
nothing else runs.

**Run.** `sink`: two callers, two batches of three records each with a corrupted
one in the middle, and any two of a full buffer, a NACK and a close. It shows what
the runner modules assume: a record reported as confirmed is held by the broker
(unless a buffer was full and a NACK came: section 13), and each call returns
(unless a buffer was full and the channel closed).

**Fairness.** The awaits of `connect()`, the drain of a socket, the restart of the
broker, the sends and the confirms. A NACK and a close are faults.

## 7. `DeadLetterQueue`

**State.** `entry` is the table; `delivered` of an entry, history, the sinks that
took it. `latest`, `index`, `late`, `published` are the versions of the rows, the
documents, the writes on their way and the envelopes. `job` holds each retry
request: its `await`, the page it works through, its counts.

**Actions.** `RetryOne` and `RetryAll` accept a request; `List`, `Get`,
`SendIndex`, `SendQueue`, `Resolve`, `Fail`, `Summary` are its awaits. The two
queries (`List`, `Get`) may fail, which ends the request with an error; the
updates and the sends may fail before or after their effect. A publication that
answers with failures, after a NACK, and one that throws take the two ways the
code gives them (`SendQueue`). `Persist` adds entries, `Mutate`, `Fetch`
and `Execute` are the application and the runners.

**Run.** `dlq`: two requests over two entries of one row, one of them stubborn (the
index always rejects it) and one for both sinks; pages of two, two passes instead
of fifty, two faults. Two passes tell the first from the last and a pass that
resolved something from one that did not.

**Fairness.** Each `await` of a request settles.

## 8. `Consumer`

**State.** The queue (`ready`, `inbox`, `acks`, `nacks`, `deadLettered`), the
connection, the supervisor (`pc` of the `start()` in flight, `isRunning`,
`reconnectTimer`, `stopping`, and `halting`, the await of the `stop()` in flight)
and the deduplication window. `log` and `executed`
are history.

**Actions.** `ReconnectTimerFires`, `Connect`, `Declare`, `Started`, `StartFailed`,
`ConnectionClosed` are the supervisor; `Handle` is `handleMessage()`, which never
awaits; `Reset` and `Restart` are the endpoint and the death of the process. A signal is
`Stop`, up to the first `await` of `stop()`, then `Cancelled`, `ChannelClosed` and
`Exit`, one for each of its awaits, between which a `start()` in flight goes on. The broker (`Publish`, `Deliver`, `Settle`, `DropConnection`,
`CloseChannel`, `BrokerStarts`) is external: what is not acknowledged when a
channel goes away returns to the queue.

**Run.** `consumer`: four copies, two of them with one id and one malformed; a
prefetch of two and a window of one, so that ids are evicted; any two of a lost
connection, a closed channel, a restart and a reset. `Supervised` says that
exactly one of a scheduled reconnect, a start in flight and a running consumer
exists; `HealthyMeansConsuming`, until a shutdown and while no channel was closed
alone, that a healthy service has its consumer; `EffectivelyOnce` that an id is executed again only after as many others
as the window holds, or after the store was emptied.

**Fairness.** The supervisor, the broker's restart (`restart: unless-stopped`), and
delivery, handling and settling of each copy.

## 9. `Coordinator`

**State.** Services that answer, the awaits of `bootstrap()` and of `shutdown()`,
the fields, status rows and loops of both runners, and the telemetry request in
work with what it has read so far.

**Actions.** `Boot` takes one `await` of the boot sequence per step; `Pause`,
`Resume`, `Telemetry` are requests; `Probe`, `ReadSource` and `Answer` the awaits
of `getTelemetry`; `Signal`, `ShutdownPauseSettles`, `Close` and `Exit` the
shutdown. A runner is what its methods do to its fields and its status row; an
iteration is one step (`Batch`). A failing statement ends either runner, a
failing dispatch only the backfill: the incremental runner catches it and polls
again.

**Run.** `coordinator`: one outage of any service at any step, one request, two
loops a runner. `wasUp` and `wasDown` are history: the components that were up,
and down, at some time of the request.

**Fairness.** The awaits of the boot and of the shutdown.

## 10. `CrashDrill`

`CrashDrill` composes gate 1 with `BackfillRunner`: the drill kills and starts the
process, pauses and resumes the backfill, and writes the checkpoint itself. One
step per `await`; a deadline may pass at any round. Telemetry requests may fail,
commands may be lost, and the daemon may hang at any time. Only the drill kills it
(and starts it again): that it dies by itself is left to the runs of
`BackfillRunner`.

**Run.** `drill`: two rows, a window of one, one failed query. `PassMeansReplicated`
needs the pre-roll: without it the pin would jump over a row nobody has. Crashes
and commands are bounded as high as the drill itself needs them (four and
three), so that none of its steps is refused. Ids are those of a sequence and the
table is seeded (`TableAssumption`). The larger instance for the
two violated properties is `DrillPins.cfg`.

**Fairness.** The drill goes on, and the deadline of a loop that is reached again
and again passes (strong fairness of `Deadlines`: `Date.now()` advances whatever
the daemon does). The daemon is not fair, so `DrillEnds` holds of one that hangs.

## 11. `GateWorld` and `VerificationGates`

`GateWorld` is the system reduced to what gates 2 to 4 can see: versions,
documents, what `_count` counts of them, bulk requests on their way, entries and
their replays, the rows a runner has yet to dispatch, the state and trips of the
breaker, the telemetry. Any row may be lost at the start, indexed nowhere and not
on its way: finding that is what the gates are for.

The world is no kinder than the code. Both runners have a row to dispatch: it may
be dispatched any number of times before it is done (`Dispatch`, `MayBeDone`). A
bulk request is executed at any later time, in any order, or never, and
overwrites whatever document is there (`Land`). Any item of it may fail and
quarantine its row, a sound one too (`Quarantine`; trouble `reject`). A replay
writes version 1, at once or late, and its `markStatus` is another step, which may
fail (`Replay`, `Resolve`). Others insert rows, or update them, at any time, also
behind a watermark that has passed them (`Write`, the chaos service). `reached` is
history: the highest version a document ever had.

`VerificationGates` is the suite: `StartGate` and `NextGate` the runner of gates,
then one step per `await` of each gate, with the world going on between them and
any deadline passing at any round.

**Run.** `gates`: each gate alone over one old row and a corrupted one that others may
insert (what the chaos service does); for gate 4 a valid row and a poison pill, in
place of 497 and 3; one canary round; and one trouble of any kind: a failed request,
a failed `_mget`, a failed `docker start`, a replay, a sound item that is rejected, a
writer. Two rows are enough for one that makes up for another. `GateBatch.cfg` is
gate 4 by hand with two valid rows and without other writers; the theorems of section
14 cover any number of rows and troubles.

* `ParityMeansAccounted` (gate 2). Its numbers are read at different times, and the
  world is not still. A row quarantined by one runner counts as missing; when the
  other runner indexes it before the documents are counted, it makes up for a row
  that is lost. A row inserted after the source was counted is not in the number
  either. So a PASS is worth this: at most as many rows are lost as were inserted
  after the count of the source, or indexed after they had been counted as
  quarantined and missing (`absent`). With neither, nothing is lost. The plain
  reading, `PassMeansAccounted`, is violated in `GateFindings.cfg`.
* `PassMeansLanded` (gate 3) says that the index took every changed row at its version
  or later (`reached`). That it still has it does not follow: an older bulk request
  may be executed after the gate's `_mget`, and a replay writes version 1
  (`PassMeansIndexed`, violated in `GateFindings.cfg`). `ReceiverLeftUp`: the gate
  restores Elasticsearch however it ends.
* `IsolationProved` (gate 4) holds if nothing but the batch was on its way (`clean`)
  and nobody else writes or replays: the gate compares totals.

The exception `ParityMeansAccounted` and `PassMeansLanded` share is a failed
`_mget`, which the gates take for an answer. A plan is any ascending sequence of
gates (`IsPlan`): what the command line builds is one gate or all of them.

The run has no liveness property and no fairness: every loop of the gates is
bounded by a deadline, as gate 1's are.

## 12. Deadlock and bounds

Deadlock is checked for the breaker only. Everything else may stop: a backfill
completes, a process exits, a drill ends, and faults, crashes, commands, requests
and writes are bounded by the constants whose names begin with `Max`. Each bound
is a guard of the action it bounds, never a constraint that cuts behaviours off
elsewhere.

## 13. Known disagreements

Where the code does not do what a document, a comment or a test of the repository
says, a configuration shows it. `incremental_late` is a run; the others are run by
hand, as `tlc -config DlqFindings.cfg MCDeadLetterQueue`, and end with a
counterexample; where a configuration has several properties, each is violated,
and `-continue` shows them all.
`PROJECT.json` quotes the sentence and the line of each.

| Configuration | Property violated | What it shows |
| --- | --- | --- |
| `BackfillRegress.cfg` | `WatermarkNeverRegresses` | a resume starts a second loop, and the slower one overwrites the watermark with a lower one; nothing is lost by it |
| `BackfillBackpressure.cfg` | `Backpressure` | a dispatch `Promise.all` left behind is on its way when a resumed loop dispatches |
| `BackfillSelfHeal.cfg` | `SelfHeals` | one rejected dispatch ends the backfill |
| `BreakerEarlyProbe.cfg` | `ProbesWaitForBackoffShared` | a second caller probes before the new backoff has elapsed |
| `IncLate.cfg` | `NoMutationLost` | a transaction that began earlier commits behind the watermark |
| `IncFindings.cfg` | `NoMutationLost`, `IndexNeverRegresses`, `NotDeserted` | the same within one millisecond, lower id later; a bulk request nobody waits for restores an older document; a failed status update leaves RUNNING without a loop |
| `ConsumerDeaf.cfg` | `AllSettledAnyway` | the broker closes the channel alone: nothing consumes again |
| `SinkNacks.cfg` | `HeldIfConfirmed`, `FailuresAreOwn` | a NACK during the wait for drain is seen by nobody; a NACK of one runner's record fails the other runner's batch |
| `SinkHang.cfg` | `CallsReturn` | the channel closes during the wait for drain: the call never returns |
| `SinkDown.cfg` | `SinkRecovers` | after one lost connection nothing dials again |
| `DlqFindings.cfg` | `StubbornStops`, `AllPendingReplayed` | one success keeps retry-all from noticing barren passes; a page of stubborn entries hides the entries behind it |
| `DlqWrites.cfg` | `NothingClobbered`, `IdNamesContent` | a late snapshot overwrites a newer document; a replayed envelope carries the id of version 1 |
| `CoordFindings.cfg` | `PauseHolds`, `RunningMeansLooping` | a pause answered before the launch is undone by it; a failed status update leaves RUNNING without a loop |
| `DrillPins.cfg` | `PinHolds`, `PinIsBehind` | a long batch commits over the pinned watermark; COMPLETED of an earlier table skips the pre-roll |
| `GateFindings.cfg` | `PassMeansAccounted`, `PassMeansLandedAnyway`, `PassMeansIndexed`, `QuiescedMeansClean`, `NeverNeither` | a quarantined row indexed between two counts; a count kept from an earlier round; an older document written last; a lag never measured; a deleted queue |

## 14. What is proved

`BackfillRunnerProofs`, for any set of rows, batch size, number of overlapping
activations and bounds:

* `TypeCorrect`. The counters are natural because the rows a sink reported as
  failed belong to the batch in hand: the strengthening `TypeInv`.
* `NothingIsLost` (`NoRecordLost`) and `CompletionIsEarned`
  (`CompletedMeansReplicated`). `NoRecordLost` speaks of the watermark alone and
  is not inductive: another activation may hold, in memory, a position or a
  batch that it will commit later. The invariant `CoverInv` says that every
  position anybody may still act upon is covered (the persisted one, the one in
  memory, those read from a checkpoint, those a query was issued with), and that
  each batch has no gap between its cursor and its last row (`BatchOK`). What is
  covered stays covered, since what a sink received or the quarantine holds is
  never taken back; so a commit of a lower watermark is harmless too.
  `BatchHasNoGap` (LIMIT cuts at the far end only) and `EmptyBatchIsTheEnd` are
  the two facts about `fetchBackfillBatch` on which it rests.
* `ContractIsKept`: every step of the runner is a step of `WatermarkContract`,
  or leaves its variables alone.
* `BatchesStartAtCheckpoint`, `CountersAreExact` and `WatermarkMovesForward`, of
  one activation (`OneActivation`), through crashes, failed queries, pauses and
  resumes. `CursorInv` follows the position in hand from the read of the
  checkpoint to the commit: the committed watermark cannot change under it, and
  the batch lies beyond it. `CountersInv` then compares cardinalities: a commit
  adds as many as the batch has rows, and the batch is what the watermark passes;
  and its failures are counted among the rows passed, since an attempt that did
  not commit may have quarantined rows of the next one. With two activations all
  three fail, as TLC shows; `BackfillRegress.cfg` has the last one.
* Of `CrashDrill`: `DrillPassIsTrue`, `DrillLosesNothing`, `DrillLeavesDaemon`. A
  step of the drill is a step of the runner, a failed query, or the pin
  (`StepsOfDrill`), so `TypeInv` and `CoverInv` survive once the pin is shown to
  keep them: `DrillCover` says that every position the drill was told of is
  covered, and the start of its window before the pin is written. `DrillPassIsTrue`
  needs of the last comparison only that the final position covers the history.

`IncrementalRunnerProofs`, for any rows, batch size, number of activations,
requests on their way, and bounds:

* `TypeCorrect`; and `WatermarkMovesForward` of one activation, in whatever order
  transactions commit.
* `ContractIsKept` (`RefinesContract`) and `MutationsAreKept` (`NoMutationLost`), if
  transactions commit in the order of their timestamps: `WritersInOrder` says one
  at a time and a millisecond or more apart. Nothing in the code ensures that,
  and `incremental_late` and `IncFindings.cfg` refute `NoMutationLost` where either
  half is dropped: the hypothesis is the condition under which the runner is
  correct. Three invariants carry it. `OrderInv`: no open transaction will write
  at or below a position that somebody holds. `CoverInv`: what the table has at
  or below a position held anywhere is accounted for in the version it has now.
  `BatchInv`: what the table has at or below a record of a batch is accounted for
  or in the batch, and who answered has the record or reported it. A row that is
  written again leaves the batch's reach: `OrderInv` puts it above.

`CircuitBreakerProofs`, for any number of callers, thresholds, backoffs and
timers:

* `BreakerTypeCorrect`, `ClosedMeansHealthy`, `OpenMeansTimed`,
  `TrialsAreUndecided`. The conjunction of the four is inductive, none of them is
  alone: the count of successes stays in range because a trial is undecided, and
  a trial is undecided because its beginning resets the count.
* `BreakerGoesRound` (`StatesGoRound`) and `ProbesAreNotEarly`
  (`ProbesWaitForBackoff`), of a breaker nobody shares. `AloneInv`: its one caller
  sleeps or probes only while the breaker is open, and sleeps exactly as long as
  the next attempt is away. Having been alone is a fact about the past, which
  `AloneBefore` provides: a caller that joined, and a call of `trip()`, are never
  taken back.

`ConsumerProofs`, for any envelopes and message ids, capacity, prefetch and number
of faults:

* `SupervisionNeverEnds` (`Supervised`): inductive once the sum is written as the
  three cases of `ExactlyOne`. The step that needs them is a connection that
  closes: it schedules a reconnect only if it had been running, and otherwise the
  `start()` in flight fails and schedules it.
* `HealthIsHonest` (`HealthyMeansConsuming`): `HealthInv` adds the await between the
  reply to `basic.consume` and `isRunning = true`; of a shutdown it says nothing,
  since `stop()` cancels the consumer before it resets the field.
* `NothingLost` (`NoEnvelopeLost`): `EnvelopeInv` adds that the window names only
  executed ids, without which the ack of a duplicate would lose its envelope, and
  that only malformed copies are nacked.
* `ExecutedOnce` (`EffectivelyOnce`): `WindowInv` says that the window is the end of
  the log and is full as soon as the log is longer; so an id outside the window
  was executed more than `Capacity` ago.
* `TypeCorrect`: the bound of the window comes from `WindowInv`.

`RabbitSinkProofs`, for any number of publishers, calls and records per batch:

* `TypeCorrect`: each call is answered at most once, which needs that the answers
  are counted (`CallsInv`).
* `ConfirmedIsHeld` (`ConfirmedMeansHeld`): `SentInv` says where the messages of a
  batch in work are: held, unconfirmed on the channel, or among those its
  `waitForConfirms()` waits for. `ConnInv` adds that a caller between two sends
  has a channel, so that the confirms of another connection are not taken for
  its own.

`DeadLetterQueueProofs`, for any entries, number of concurrent requests, page size
and number of passes:

* `TypeCorrect`: a request at work has an entry in hand and a pass left.
* `ResolutionIsEarned` (`ResolvedMeansDelivered`): `WorkInv` says which sinks took
  the entry in hand, by the `await` its request stands at; what a sink took is
  never taken back, so it does not matter who else works on the entry.
* `ResolutionIsFinal` (`ResolvedStays`): of every action, what it may do to an entry
  (`EntryMoves`).

`CoordinatorProofs`, for any number of loops, ids, outages, commands and requests:
`TypeCorrect`, and `VerdictsAreWitnessed` (`VerdictHasWitness`). `WitnessInv` ties
the request in work to the services: those healthy now were up during it, those
that answered were, and those asked in vain were down.

`VerificationGatesProofs`, for any rows, corrupted rows, number of mutations and of
canaries, and any plan:

* `ParityIsTrue`, `OutageLosesNothing`, `ReceiverIsRestored`, `IsolationIsTrue`
  (`ParityMeansAccounted`, `PassMeansLanded`, `ReceiverLeftUp`, `IsolationProved`).
  A gate compares numbers it read at different times, while the world goes on;
  the invariant says what each number is still worth. What the world never takes
  back is `Gentle`: a row that is indexed or quarantined stays one or the other,
  and `reached` only grows. `QueueInv`: without a replay an entry stays pending and
  no poison pill is indexed or on its way. `Inv2`: the count of the documents is at
  most what is indexed now, the expectation is the counted source less `absent`,
  and every row of `absent` is accounted for; a PASS then leaves room only for as
  many lost rows as the theorem says, and `ParityMeansAccounted` follows by
  cardinalities. `Inv3`: what was found landed was reached, and documents are
  read while Elasticsearch is up, after the last change of the gate.
  `Inv4` with `UnseededInv`: if nothing but the batch was on its way, what is not
  of the batch is counted in the baseline; `UnseededInv` needs gate 4 to be the last
  of a plan, which the order of the plan gives.

The assumptions are those on the constants, named and stated in the modules, as
weak as the code justifies: ids are positive, sets of rows are finite, the first
rows are there (`TableAssumption`), thresholds and the capacity of the window are
positive, times are natural, a plan is ascending. The two hypotheses that are
not of that kind, `OneActivation` and `WritersInOrder`, are written into the
theorems that need them. The runs satisfy them: `backfill_single` and
`incremental_single` have one loop, the passing incremental runs one open
transaction and a step of one millisecond.

Only model-checked: the properties under fairness (`PauseQuiesces`,
`ReplicationCompletes`, `CallsReturn`, `BreakerHeals`, `MutationsReplicated`,
`LagDrains`, `AllSettled`, `CallsReturnUnlessChoked`, `RequestsAnswered`,
`BootCompletes`, `GracefulExit`, `DrillEnds`), which are outside the reach of the
prover; and the violations of section 13, which are counterexamples.

## 15. What is not modelled, and what is left out

* The search service, the user interface, seeding, migration and the environment
  probe: no state beyond one request, or sequential scripts that run before the
  system does.
* Gate 5 (memory and documents looked at from outside) and the command line of the
  suite. Docker works in `CrashDrill`; in gate 3 its failures are a kind of trouble.
* Of the Elasticsearch sink: the mapping, an item missing from a bulk response (the
  server answers every item), the decomposition of error texts.
* Of telemetry: throughput, latencies, rounded percentages. The creation of a missing
  checkpoint row (the schema seeds it), `resetCheckpoint` and `trip()` without a
  duration, which only tests call.
* Wall-clock time: backoffs and timers are small counters in `CircuitBreaker`, and
  nondeterministic elsewhere.
* Both runners over one `RabbitSink`, one breaker and one consumer in a single
  state space: too large for TLC. Section 2 says which assumption of a module
  which property of another discharges; the composition itself is an argument of
  this text, not a check.
