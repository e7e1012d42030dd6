------------------------- MODULE IncrementalRunner -------------------------
(***************************************************************************)
(* The continuous synchronisation:                                         *)
(* apps/pipeline/src/runners/incremental.runner.ts with the queries it     *)
(* makes through CheckpointManager, SourceReader and DLQStore.             *)
(*                                                                         *)
(* As in BackfillRunner each call of start() is an activation l \in Loops  *)
(* with a program counter, the activations share the runner's fields, and  *)
(* an action is one turn of the event loop.  A version of a row lies at    *)
(* the position (updated_at, id); updated_at is NOW(), the start of the    *)
(* transaction that wrote it, in the milliseconds of TIMESTAMPTZ(3).       *)
(*                                                                         *)
(* Here a dispatch nobody waits for any more (left behind by Promise.all,  *)
(* by the deadline of the ES client or by a crash) is still executed, or   *)
(* lost, at any later time.  The poll interval is positive (index.ts).     *)
(***************************************************************************)
EXTENDS Naturals, FiniteSets

CONSTANTS
    Rows,         \* ids source_records may ever hold
    Corrupt,      \* ids whose row has is_corrupted set
    BatchSize,    \* options.batchSize
    Loops,        \* activations of start() that may be alive together
    NoLoop,       \* the field sleepResolve is null
    ClockSteps,   \* milliseconds NOW() may advance between two transactions
    MaxOpen,      \* bound: transactions open together
    MaxWrites,    \* bound: transactions
    MaxQueryFaults, MaxSinkFaults, MaxCrashes, MaxCommands,  \* bounds
    MaxTrouble    \* bound: all of these together

ASSUME RowsAssumption == Rows \subseteq Nat \ {0} /\ IsFiniteSet(Rows) /\ Corrupt \subseteq Rows
ASSUME OptionsAssumption == BatchSize \in Nat \ {0} /\ NoLoop \notin Loops
ASSUME ClockAssumption == ClockSteps \subseteq Nat
ASSUME BoundsAssumption ==
    /\ MaxOpen \in Nat /\ MaxWrites \in Nat
    /\ MaxQueryFaults \in Nat /\ MaxSinkFaults \in Nat
    /\ MaxCrashes \in Nat /\ MaxCommands \in Nat /\ MaxTrouble \in Nat

VARIABLES
    \* PostgreSQL
    now,            \* NOW() of the youngest transaction
    writes,         \* transactions begun
    source,         \* source_records: [Rows -> [ts, version]]; version 0, no row
    open,           \* transactions not committed: [ts, ids]
    cp,             \* the pipeline's row of replication_checkpoints
    dlq,            \* triples <<row, version, sink>> in dead_letter_queue
    \* Elasticsearch and RabbitMQ
    delivered,      \* triples <<row, version, sink>> the sink ever received
    index,          \* version of the document in Elasticsearch, 0: none
    orphans,        \* <<batch, sink>> of dispatches nobody waits for
    \* the fields of the IncrementalRunner
    status,
    cursor,         \* lastProcessedTimestamp and lastProcessedId
    lag,            \* currentLagRecords
    stopRequested,
    sleeper,        \* activation whose promise sleepResolve resolves
    timers,         \* activations whose poll timer is armed
    pausing,        \* UPDATEs of pause() on their way to PostgreSQL
    \* per activation
    pc,             \* the await it stands at
    seen,           \* position of the checkpoint it read
    from,           \* cursor its fetch was issued with
    batch,          \* records [id, ts, version] it fetched
    acked,          \* sinks whose execute() resolved for the batch
    rejected,       \* pairs <<row, sink>> those sinks reported as failures
    \* bounds
    queryFaults, sinkFaults, crashes, commands

srcVars   == <<now, writes, source, open>>
dbVars    == <<cp, dlq>>
sinkVars  == <<delivered, index, orphans>>
sleepVars == <<sleeper, timers>>
fieldVars == <<status, cursor, lag, stopRequested, sleepVars>>
bodyVars  == <<batch, acked, rejected>>
loopVars  == <<pc, seen, from, bodyVars>>
faultVars == <<queryFaults, sinkFaults>>
opsVars   == <<pausing, crashes, commands>>
envVars   == <<srcVars, sinkVars, opsVars>>
calmVars  == <<envVars, faultVars>>
vars      == <<calmVars, dbVars, fieldVars, loopVars>>

Sinks    == {"ELASTICSEARCH", "RABBITMQ"}
Statuses == {"INITIALIZED", "RUNNING", "PAUSED", "FAILED"}
Awaits   == {"idle", "getCheckpoint", "gotCheckpoint", "setRunning", "lag", "fetch",
             "dispatch", "persist", "commit", "committed", "sleep", "setFailed"}
Epoch    == [ts |-> 0, id |-> 0]   \* last_processed_timestamp IS NULL

----------------------------------------------------------------------------
(* What the runner computes *)

(* The order of the composite watermark. *)
AtOrBelow(p, w) == p.ts < w.ts \/ (p.ts = w.ts /\ p.id <= w.id)

(* The committed rows, as the queries return them. *)
Records ==
    {[id |-> r, ts |-> source[r].ts, version |-> source[r].version] :
        r \in {q \in Rows : source[q].version > 0}}

(* Faulty: inclusive polling, WHERE updated_at >= :last_timestamp. *)
PendingInclusive(w) == {x \in Records : x.ts >= w.ts}

(* WHERE updated_at > ts OR (updated_at = ts AND id > last id) *)
Pending(w) == {x \in Records : ~AtOrBelow(x, w)}

(* ORDER BY updated_at ASC, id ASC LIMIT BatchSize *)
NextBatch(w) ==
    {x \in Pending(w) : Cardinality({y \in Pending(w) : AtOrBelow(y, x)}) <= BatchSize}

(* records[records.length - 1] *)
WatermarkOf(records) == CHOOSE x \in records : \A y \in records : AtOrBelow(y, x)

Ids(records) == {x.id : x \in records}

(* publishBatch refuses is_corrupted rows. *)
Refused(s) == IF s = "RABBITMQ" THEN Corrupt ELSE {}

(* A sink receives records: messages add up, documents are overwritten by  *)
(* doc_as_upsert, which compares no versions.                              *)
Receive(records, s) ==
    /\ delivered' = delivered \cup {<<x.id, x.version, s>> : x \in records}
    /\ index' = [r \in Rows |->
         IF s = "ELASTICSEARCH" /\ r \in Ids(records)
         THEN (CHOOSE x \in records : x.id = r).version
         ELSE index[r]]

----------------------------------------------------------------------------
(* Control flow shared by the steps of an activation *)

Goto(l, await) == pc' = [pc EXCEPT ![l] = await]

(* Room for one more fault, crash or command. *)
Trouble == queryFaults + sinkFaults + crashes + commands < MaxTrouble

QueryFault ==
    /\ Trouble /\ queryFaults < MaxQueryFaults
    /\ queryFaults' = queryFaults + 1
    /\ UNCHANGED sinkFaults

SinkFault ==
    /\ Trouble /\ sinkFaults < MaxSinkFaults
    /\ sinkFaults' = sinkFaults + 1
    /\ UNCHANGED queryFaults

SetStatus(s) == cp' = [cp EXCEPT !.status = s]

(* The variables of the loop body go out of scope. *)
Forget(l) ==
    /\ batch' = [batch EXCEPT ![l] = {}]
    /\ acked' = [acked EXCEPT ![l] = {}]
    /\ rejected' = [rejected EXCEPT ![l] = {}]

Exit(l) ==
    /\ stopRequested
    /\ status' = "PAUSED"
    /\ Goto(l, "idle")
    /\ UNCHANGED sleepVars

(* while (!this.stopRequested) *)
LoopTest(l) ==
    \/ ~stopRequested /\ Goto(l, "lag") /\ UNCHANGED <<status, sleepVars>>
    \/ Exit(l)

(* sleep(pollIntervalMs): the fields pollTimer and sleepResolve are those  *)
(* of the last activation that went to sleep.                              *)
Sleep(l) ==
    \/ /\ ~stopRequested
       /\ Goto(l, "sleep")
       /\ sleeper' = l
       /\ timers' = timers \cup {l}
       /\ UNCHANGED status
    \/ Exit(l)

(* The outer catch block. *)
Catch(l) ==
    /\ status' = "FAILED"
    /\ Goto(l, "setFailed")
    /\ Forget(l)

Enter(l) ==
    /\ pc[l] = "idle"
    /\ stopRequested' = FALSE
    /\ Goto(l, "getCheckpoint")

----------------------------------------------------------------------------
(* start(), one action per await *)

ReadCheckpoint(l) ==
    /\ pc[l] = "getCheckpoint"
    /\ seen' = [seen EXCEPT ![l] = [ts |-> cp.ts, id |-> cp.id]]
    /\ Goto(l, "gotCheckpoint")
    /\ UNCHANGED <<calmVars, dbVars, fieldVars, from, bodyVars>>

(* Faulty: the timestamp of the checkpoint is not read back. *)
CursorWithoutTimestamp(l) == [seen[l] EXCEPT !.ts = 0]

RecoveredCursor(l) == seen[l]

ResumeFromCheckpoint(l) ==
    /\ pc[l] = "gotCheckpoint"
    /\ cursor' = RecoveredCursor(l)
    /\ seen' = [seen EXCEPT ![l] = Epoch]
    /\ \/ /\ stopRequested
          /\ status' = "PAUSED"
          /\ Goto(l, "idle")
       \/ /\ ~stopRequested
          /\ status' = "RUNNING"
          /\ Goto(l, "setRunning")
    /\ UNCHANGED <<calmVars, dbVars, lag, stopRequested, sleepVars, from, bodyVars>>

SetRunning(l) ==
    /\ pc[l] = "setRunning"
    /\ SetStatus("RUNNING")
    /\ LoopTest(l)
    /\ UNCHANGED <<calmVars, dlq, cursor, lag, stopRequested, seen, from, bodyVars>>

(* getIncrementalLag, and the fetch that is issued with its reply. *)
MeasureLag(l) ==
    /\ pc[l] = "lag"
    /\ lag' = Cardinality(Pending(cursor))
    /\ from' = [from EXCEPT ![l] = cursor]
    /\ Goto(l, "fetch")
    /\ UNCHANGED <<calmVars, dbVars, status, cursor, stopRequested, sleepVars, seen, bodyVars>>

FetchNothing(l) ==
    /\ pc[l] = "fetch"
    /\ NextBatch(from[l]) = {}
    /\ Sleep(l)
    /\ from' = [from EXCEPT ![l] = Epoch]
    /\ UNCHANGED <<calmVars, dbVars, cursor, lag, stopRequested, seen, bodyVars>>

(* A non-empty batch goes to both sinks at once: Promise.all. *)
FetchBatch(l) ==
    /\ pc[l] = "fetch"
    /\ NextBatch(from[l]) # {}
    /\ batch' = [batch EXCEPT ![l] = NextBatch(from[l])]
    /\ from' = [from EXCEPT ![l] = Epoch]
    /\ Goto(l, "dispatch")
    /\ UNCHANGED <<calmVars, dbVars, fieldVars, seen, acked, rejected>>

(* execute() resolves for one sink.  One NACK fails every row in flight,   *)
(* rows RabbitMQ holds all the same; Elasticsearch answers row by row.     *)
SinkAck(l, s) ==
    /\ pc[l] = "dispatch"
    /\ s \notin acked[l]
    /\ \E failed \in SUBSET batch[l] :
         /\ Ids(batch[l]) \cap Refused(s) \subseteq Ids(failed)
         /\ IF Ids(failed) \subseteq Corrupt THEN UNCHANGED faultVars ELSE SinkFault
         /\ \E kept \in SUBSET {x \in failed : s = "RABBITMQ" /\ x.id \notin Corrupt} :
              Receive((batch[l] \ failed) \cup kept, s)
         /\ rejected' = [rejected EXCEPT ![l] = @ \cup (Ids(failed) \X {s})]
    /\ acked' = [acked EXCEPT ![l] = @ \cup {s}]
    /\ UNCHANGED <<srcVars, orphans, opsVars, dbVars, fieldVars, pc, seen, from, batch>>

(* Faulty: the catch falls through to the commit. *)
AfterRejectedCommits(l) == Goto(l, "commit") /\ UNCHANGED <<status, sleepVars, bodyVars>>

(* The inner catch: no watermark moves, the runner sleeps and polls again. *)
AfterRejected(l) == Sleep(l) /\ Forget(l)

(* execute() rejects: refused by the breaker, failed, or timed out with    *)
(* the request still on its way (Elasticsearch; publishBatch throws only   *)
(* before it publishes).  The other sink's dispatch goes on.               *)
SinkReject(l, s) ==
    /\ pc[l] = "dispatch"
    /\ s \notin acked[l]
    /\ SinkFault
    /\ \E late \in SUBSET (Sinks \ acked[l]) :
         /\ Sinks \ (acked[l] \cup {s}) \subseteq late
         /\ s \in late => s = "ELASTICSEARCH"
         /\ orphans' = orphans \cup ({batch[l]} \X late)
    /\ AfterRejected(l)
    /\ UNCHANGED <<srcVars, delivered, index, opsVars, dbVars, cursor, lag, stopRequested, seen,
                   from>>

(* Faulty: the batch moves on with the first answer. *)
DispatchedByOne(l) == acked[l] # {}

(* Promise.all resolves. *)
DispatchedByAll(l) == acked[l] = Sinks

Dispatched(l) ==
    /\ pc[l] = "dispatch"
    /\ DispatchedByAll(l)
    /\ Goto(l, IF rejected[l] = {} THEN "commit" ELSE "persist")
    /\ UNCHANGED <<calmVars, dbVars, fieldVars, seen, from, bodyVars>>

(* persistFailures: one INSERT for the entries of both sinks. *)
Quarantined(l) ==
    dlq \cup {t \in {<<x.id, x.version, s>> : x \in batch[l], s \in Sinks} :
                <<t[1], t[3]>> \in rejected[l]}

PersistFailures(l) ==
    /\ pc[l] = "persist"
    /\ dlq' = Quarantined(l)
    /\ Goto(l, "commit")
    /\ UNCHANGED <<calmVars, cp, fieldVars, seen, from, bodyVars>>

CommitCheckpoint(l) ==
    /\ pc[l] = "commit"
    /\ LET w == WatermarkOf(batch[l])
       IN  cp' = [cp EXCEPT !.ts = w.ts, !.id = w.id]
    /\ Goto(l, "committed")
    /\ UNCHANGED <<calmVars, dlq, fieldVars, seen, from, bodyVars>>

CursorAfterCommit(l) ==
    LET w == WatermarkOf(batch[l]) IN [ts |-> w.ts, id |-> w.id]

(* The backlog is drained without delay, a short batch ends in a sleep. *)
Committed(l) ==
    /\ pc[l] = "committed"
    /\ cursor' = CursorAfterCommit(l)
    /\ IF Cardinality(batch[l]) < BatchSize THEN Sleep(l) ELSE LoopTest(l)
    /\ Forget(l)
    /\ UNCHANGED <<calmVars, dbVars, lag, stopRequested, seen, from>>

(* The poll timer nulls the two fields, whomever they belong to. *)
TimerFires(l) ==
    /\ pc[l] = "sleep"
    /\ l \in timers
    /\ timers' = timers \ {l}
    /\ sleeper' = NoLoop
    /\ IF stopRequested THEN status' = "PAUSED" /\ Goto(l, "idle")
                        ELSE Goto(l, "lag") /\ UNCHANGED status
    /\ UNCHANGED <<calmVars, dbVars, cursor, lag, stopRequested, seen, from, bodyVars>>

SetFailed(l) ==
    /\ pc[l] = "setFailed"
    /\ SetStatus("FAILED")
    /\ Goto(l, "idle")
    /\ UNCHANGED <<calmVars, dlq, fieldVars, seen, from, bodyVars>>

----------------------------------------------------------------------------
(* Failed queries: executed or not, but not later than the failure is seen *)

QueryFailsOutside(l) ==
    /\ pc[l] \in {"getCheckpoint", "setRunning", "setFailed"}
    /\ QueryFault
    /\ \/ UNCHANGED cp
       \/ pc[l] = "setRunning" /\ SetStatus("RUNNING")
    /\ Goto(l, "idle")
    /\ UNCHANGED <<envVars, dlq, fieldVars, seen, from, bodyVars>>

QueryFailsInside(l) ==
    /\ pc[l] \in {"lag", "fetch", "persist", "commit", "committed"}
    /\ QueryFault
    /\ \/ UNCHANGED dlq
       \/ pc[l] = "persist" /\ dlq' = Quarantined(l)
    /\ Catch(l)
    /\ from' = [from EXCEPT ![l] = Epoch]
    /\ UNCHANGED <<envVars, cp, cursor, lag, stopRequested, sleepVars, seen>>

----------------------------------------------------------------------------
(* Control calls and crashes *)

(* Faulty: the timer is cleared and nobody is woken. *)
WokenByPauseNone == {}

(* The activation whose timer pause() clears and whose promise it resolves. *)
WokenByPause == {sleeper} \cap Loops

Pause ==
    /\ Trouble /\ commands < MaxCommands
    /\ commands' = commands + 1
    /\ stopRequested' = TRUE
    /\ status' = "PAUSED"
    /\ timers' = timers \ {sleeper}
    /\ sleeper' = NoLoop
    /\ pc' = [l \in Loops |-> IF l \in WokenByPause THEN "idle" ELSE pc[l]]
    /\ pausing' = pausing + 1
    /\ UNCHANGED <<srcVars, dbVars, sinkVars, cursor, lag, seen, from, bodyVars, faultVars,
                   crashes>>

SetPaused ==
    /\ pausing > 0
    /\ pausing' = pausing - 1
    /\ \/ SetStatus("PAUSED") /\ UNCHANGED faultVars
       \/ QueryFault /\ UNCHANGED cp
    /\ UNCHANGED <<srcVars, dlq, sinkVars, fieldVars, loopVars, crashes, commands>>

(* resume(): start() again, whatever is still running. *)
Resume(l) ==
    /\ Trouble /\ commands < MaxCommands
    /\ commands' = commands + 1
    /\ Enter(l)
    /\ UNCHANGED <<srcVars, dbVars, sinkVars, status, cursor, lag, sleepVars, pausing, seen,
                   from, bodyVars, faultVars, crashes>>

(* The process dies and is started again by the container runtime; what    *)
(* it sent is still on its way to the sinks.                               *)
Crash(l) ==
    /\ Trouble /\ crashes < MaxCrashes
    /\ crashes' = crashes + 1
    /\ orphans' = orphans \cup
         {<<batch[m], s>> : m \in {k \in Loops : pc[k] = "dispatch"}, s \in Sinks}
    /\ status' = "INITIALIZED"
    /\ cursor' = Epoch
    /\ lag' = 0
    /\ stopRequested' = FALSE
    /\ sleeper' = NoLoop
    /\ timers' = {}
    /\ pausing' = 0
    /\ pc' = [m \in Loops |-> IF m = l THEN "getCheckpoint" ELSE "idle"]
    /\ seen' = [m \in Loops |-> Epoch]
    /\ from' = [m \in Loops |-> Epoch]
    /\ batch' = [m \in Loops |-> {}]
    /\ acked' = [m \in Loops |-> {}]
    /\ rejected' = [m \in Loops |-> {}]
    /\ UNCHANGED <<srcVars, dbVars, delivered, index, faultVars, commands>>

(* A dispatch nobody waits for reaches its sink, or not. *)
OrphanSettles ==
    \E o \in orphans :
      /\ orphans' = orphans \ {o}
      /\ \E records \in SUBSET {x \in o[1] : x.id \notin Refused(o[2])} : Receive(records, o[2])
      /\ UNCHANGED <<srcVars, opsVars, faultVars, dbVars, fieldVars, loopVars>>

----------------------------------------------------------------------------
(* Writers of source_records: every writer sets updated_at = NOW(), the    *)
(* start of its transaction, and holds its rows locked until it commits.   *)

Begin ==
    /\ writes < MaxWrites
    /\ Cardinality(open) < MaxOpen
    /\ \E step \in ClockSteps, ids \in SUBSET Rows \ {{}} :
         /\ \A t \in open : t.ids \cap ids = {}
         /\ now' = now + step
         /\ open' = open \cup {[ts |-> now + step, ids |-> ids]}
    /\ writes' = writes + 1
    /\ UNCHANGED <<source, sinkVars, opsVars, faultVars, dbVars, fieldVars, loopVars>>

CommitWrite ==
    \E t \in open :
      /\ open' = open \ {t}
      /\ source' = [r \in Rows |->
           IF r \in t.ids THEN [ts |-> t.ts, version |-> source[r].version + 1] ELSE source[r]]
      /\ UNCHANGED <<now, writes, sinkVars, opsVars, faultVars, dbVars, fieldVars, loopVars>>

----------------------------------------------------------------------------
Init ==
    /\ now = 1
    /\ writes = 0
    /\ source = [r \in Rows |-> [ts |-> 0, version |-> 0]]
    /\ open = {}
    /\ cp = [ts |-> 0, id |-> 0, status |-> "INITIALIZED"]
    /\ dlq = {}
    /\ delivered = {}
    /\ index = [r \in Rows |-> 0]
    /\ orphans = {}
    /\ status = "INITIALIZED"
    /\ cursor = Epoch
    /\ lag = 0
    /\ stopRequested = FALSE
    /\ sleeper = NoLoop
    /\ timers = {}
    /\ pausing = 0
    /\ \E l \in Loops : pc = [m \in Loops |-> IF m = l THEN "getCheckpoint" ELSE "idle"]
    /\ seen = [l \in Loops |-> Epoch]
    /\ from = [l \in Loops |-> Epoch]
    /\ batch = [l \in Loops |-> {}]
    /\ acked = [l \in Loops |-> {}]
    /\ rejected = [l \in Loops |-> {}]
    /\ queryFaults = 0 /\ sinkFaults = 0 /\ crashes = 0 /\ commands = 0

Progress(l) ==
    \/ ReadCheckpoint(l)
    \/ ResumeFromCheckpoint(l)
    \/ SetRunning(l)
    \/ MeasureLag(l)
    \/ FetchNothing(l)
    \/ FetchBatch(l)
    \/ \E s \in Sinks : SinkAck(l, s)
    \/ Dispatched(l)
    \/ PersistFailures(l)
    \/ CommitCheckpoint(l)
    \/ Committed(l)
    \/ TimerFires(l)
    \/ SetFailed(l)

Next ==
    \/ \E l \in Loops :
         \/ Progress(l)
         \/ \E s \in Sinks : SinkReject(l, s)
         \/ QueryFailsOutside(l)
         \/ QueryFailsInside(l)
         \/ Resume(l)
         \/ Crash(l)
    \/ Pause
    \/ SetPaused
    \/ OrphanSettles
    \/ Begin
    \/ CommitWrite

Spec == Init /\ [][Next]_vars

(* Queries and sinks answer and timers fire; transactions end.  Faults,    *)
(* crashes and operators owe nothing.                                      *)
Fairness ==
    /\ \A l \in Loops : WF_vars(Progress(l))
    /\ WF_vars(SetPaused)
    /\ WF_vars(CommitWrite)

FairSpec == Spec /\ Fairness

----------------------------------------------------------------------------
(* Properties *)

Accounted(r, v, s) == <<r, v, s>> \in delivered \cup dlq

(* The state is what the declarations and the schema say it is. *)
Positions == [ts : Nat, id : Nat]
Versions  == [id : Rows, ts : Nat, version : Nat]
TypeOK ==
    /\ now \in Nat /\ writes \in Nat
    /\ source \in [Rows -> [ts : Nat, version : Nat]]
    /\ \A t \in open : t.ts \in Nat /\ t.ids \subseteq Rows
    /\ [ts |-> cp.ts, id |-> cp.id] \in Positions /\ cp.status \in Statuses
    /\ dlq \subseteq Rows \X Nat \X Sinks
    /\ delivered \subseteq Rows \X Nat \X Sinks
    /\ index \in [Rows -> Nat]
    /\ \A o \in orphans : o[1] \subseteq Versions /\ o[2] \in Sinks
    /\ status \in Statuses
    /\ cursor \in Positions
    /\ lag \in 0 .. Cardinality(Rows)
    /\ stopRequested \in BOOLEAN
    /\ sleeper \in timers \cup {NoLoop} /\ timers \subseteq Loops
    /\ pausing \in Nat
    /\ pc \in [Loops -> Awaits]
    /\ \A l \in Loops : pc[l] = "sleep" <=> l \in timers
    /\ seen \in [Loops -> Positions] /\ from \in [Loops -> Positions]
    /\ \A l \in Loops : batch[l] \subseteq Versions
    /\ acked \in [Loops -> SUBSET Sinks]
    /\ rejected \in [Loops -> SUBSET (Rows \X Sinks)]

(* The contract, and its mapping: what the table holds at or below the     *)
(* committed watermark was acknowledged by both sinks or quarantined, in   *)
(* the very version it has (lines 119-220).                                *)
Contract == INSTANCE MutationContract
              WITH watermark <- [ts |-> cp.ts, id |-> cp.id], accounted <- delivered \cup dlq
NoMutationLost == Contract!Covered([ts |-> cp.ts, id |-> cp.id])

(* The runner implements the contract of its composite watermark. *)
RefinesContract == Contract!Spec

(* With one activation the committed watermark only moves forward, through *)
(* retries, crashes and resumes (lines 87-91, 208-220).                    *)
WatermarkNeverRegresses ==
    [][AtOrBelow([ts |-> cp.ts, id |-> cp.id], [ts |-> cp.ts, id |-> cp.id]')]_vars

(* A pause is honoured unless a start() undoes it: every activation comes  *)
(* to rest, asleep or at work, although a runner remembers one sleeper     *)
(* only (lines 245-260, 294-306).                                          *)
PauseQuiesces ==
    stopRequested ~> \/ ~stopRequested
                     \/ /\ \A l \in Loops : pc[l] = "idle"
                        /\ status \in {"PAUSED", "FAILED"}

(* Sink failures and crashes only delay the runner: unless a query fails   *)
(* or an operator pauses it, every committed version of a row is accounted *)
(* for at every sink, in itself or in a later one (lines 110-226).         *)
MutationsReplicated ==
    \A r \in Rows, v \in 1 .. MaxWrites :
        source[r].version = v ~>
            \/ queryFaults > 0 \/ stopRequested
            \/ \A s \in Sinks : \E u \in v .. MaxWrites : Accounted(r, u, s)

(* The status says RUNNING and no loop is behind it: updateStatus failed   *)
(* before the try block, and start() left it so (lines 100-101).           *)
Deserted == status = "RUNNING" /\ \A l \in Loops : pc[l] = "idle"

(* Once the writers are quiet the lag that telemetry reports goes back to  *)
(* zero and stays there (lines 111-116), unless the runner was stopped or  *)
(* deserted.                                                               *)
LagDrains == <>[](lag = 0 \/ status # "RUNNING" \/ Deserted)

(* Telemetry's RUNNING (lines 262-277) means that a loop runs.             *)
NotDeserted == ~Deserted

(* "Stale snapshots cannot clobber newer mutations": the document of a row *)
(* never goes back to an earlier version.                                  *)
IndexNeverRegresses == [][\A r \in Rows : index'[r] >= index[r]]_vars
=============================================================================
