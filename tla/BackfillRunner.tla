--------------------------- MODULE BackfillRunner ---------------------------
(***************************************************************************)
(* The bulk backfill: apps/pipeline/src/runners/backfill.runner.ts with    *)
(* the queries it makes through CheckpointManager, SourceReader and        *)
(* DLQStore, the boot sequence that launches it and the control calls that *)
(* pause and resume it.                                                    *)
(*                                                                         *)
(* start() is asynchronous and nothing prevents a second call while an     *)
(* earlier one still runs, so each call is an ACTIVATION l \in Loops with  *)
(* a program counter of its own; the activations share the runner's        *)
(* fields.  An action is one turn of the event loop: from the reply of an  *)
(* awaited operation to the next await.  A query and its reply are two     *)
(* steps where another activation could act in between on what the reply   *)
(* handler uses (the checkpoint read, the checkpoint commit), one step     *)
(* elsewhere.                                                              *)
(*                                                                         *)
(* A row is its id, a sink's content the set of ids it received.  A query  *)
(* that fails may have been executed or not, but is not executed later     *)
(* than its failure is seen.  Counters of telemetry only (totalProcessed,  *)
(* totalFailed, throughput, metadata) are left out.                        *)
(***************************************************************************)
EXTENDS Naturals, FiniteSets

CONSTANTS
    Rows,         \* ids source_records may ever hold
    History,      \* ids it holds when replication starts
    Corrupt,      \* ids whose row has is_corrupted set
    BatchSize,    \* options.batchSize
    Loops,        \* activations of start() that may be alive together
    MaxQueryFaults,  \* bound: queries that fail
    MaxSinkFaults,   \* bound: dispatches that are rejected, or fail sound rows
    MaxCrashes,   \* bound: ends of the process
    MaxCommands   \* bound: pause and resume requests

ASSUME RowsAssumption ==
    /\ Rows \subseteq Nat \ {0}
    /\ IsFiniteSet(Rows)
    /\ History \subseteq Rows
    /\ Corrupt \subseteq Rows
ASSUME BatchSizeAssumption == BatchSize \in Nat \ {0}
ASSUME BoundsAssumption ==
    /\ MaxQueryFaults \in Nat
    /\ MaxSinkFaults \in Nat
    /\ MaxCrashes \in Nat
    /\ MaxCommands \in Nat

VARIABLES
    \* PostgreSQL
    table,          \* ids of the committed rows of source_records
    cp,             \* the pipeline's row of replication_checkpoints
    dlq,            \* pairs <<row, sink>> inserted in dead_letter_queue
    \* Elasticsearch and RabbitMQ
    delivered,      \* pairs <<row, sink>> the sink received
    \* the process, and the fields of its BackfillRunner
    proc,           \* "down", "booting" (HTTP API up, runners not launched), "up"
    status,
    lastProcessedId,
    stopRequested,
    pausing,        \* UPDATEs of pause() on their way to PostgreSQL
    orphans,        \* <<batch, sink>> of dispatches whose batch already failed
    \* per activation
    pc,             \* the await it stands at
    seen,           \* last_processed_id of the checkpoint it read
    from,           \* cursor its fetch was issued with
    batch,          \* ids it fetched
    acked,          \* sinks whose execute() resolved for the batch
    rejected,       \* pairs <<row, sink>> those sinks reported as failures
    \* bounds
    queryFaults, sinkFaults, crashes, commands

dbVars    == <<table, cp, dlq>>
fieldVars == <<status, lastProcessedId, stopRequested>>
loopVars  == <<pc, seen, from, batch, acked, rejected>>
envVars   == <<proc, pausing, orphans, crashes, commands>>
faultVars == <<queryFaults, sinkFaults>>
vars      == <<dbVars, delivered, fieldVars, loopVars, envVars, faultVars>>

Sinks    == {"ELASTICSEARCH", "RABBITMQ"}
Statuses == {"INITIALIZED", "RUNNING", "PAUSED", "COMPLETED", "FAILED"}
Awaits   == {"idle", "getCheckpoint", "gotCheckpoint", "setRunning", "fetch",
             "dispatch", "persist", "commit", "committed", "setCompleted",
             "setFailed"}

----------------------------------------------------------------------------
(* What the runner computes *)

(* Faulty: the cursor row is skipped over (id > after + 1). *)
NextBatchOffByOne(after) ==
    {r \in table : /\ after + 1 < r
                   /\ Cardinality({q \in table : after + 1 < q /\ q <= r}) <= BatchSize}

(* fetchBackfillBatch: WHERE id > after ORDER BY id ASC LIMIT BatchSize.   *)
NextBatch(after) ==
    {r \in table : /\ after < r
                   /\ Cardinality({q \in table : after < q /\ q <= r}) <= BatchSize}

(* records[records.length - 1].id *)
IsLastOf(r, records) == r \in records /\ \A q \in records : q <= r

(* Faulty: failures are counted per sink. *)
FailedIdsPerSink(failures) == failures

(* uniqueFailedIds: a row counts once, however many sinks rejected it. *)
FailedIds(failures) == {r \in Rows : \E s \in Sinks : <<r, s>> \in failures}

(* Faulty: every row of the batch is a success. *)
SuccessCountAll(l) == Cardinality(batch[l])

(* batchFailedCount and batchSuccessCount *)
FailedCount(l) == Cardinality(FailedIds(rejected[l]))
SuccessCount(l) == Cardinality(batch[l]) - FailedCount(l)

(* Rows a sink never takes: publishBatch refuses is_corrupted rows. *)
Refused(s) == IF s = "RABBITMQ" THEN Corrupt ELSE {}

(* Rows among those the sink reported as failed that it holds all the      *)
(* same: one NACK fails every row in flight, while Elasticsearch reports   *)
(* item by item.                                                           *)
MayHold(s, failed) == IF s = "RABBITMQ" THEN failed \ Refused(s) ELSE {}

(* Rows a dispatch that ended in an error may have reached: a bulk request *)
(* can time out and still be executed, while publishBatch throws only      *)
(* before it publishes.                                                    *)
MayReach(s, ids) == IF s = "ELASTICSEARCH" THEN ids ELSE {}

----------------------------------------------------------------------------
(* Control flow shared by the steps of an activation *)

Goto(l, await) == pc' = [pc EXCEPT ![l] = await]

QueryFault ==
    /\ queryFaults < MaxQueryFaults
    /\ queryFaults' = queryFaults + 1
    /\ UNCHANGED sinkFaults

SinkFault ==
    /\ sinkFaults < MaxSinkFaults
    /\ sinkFaults' = sinkFaults + 1
    /\ UNCHANGED queryFaults

SetStatus(s) == cp' = [cp EXCEPT !.status = s]

(* The variables of the loop body go out of scope. *)
Forget(l) ==
    /\ batch' = [batch EXCEPT ![l] = {}]
    /\ acked' = [acked EXCEPT ![l] = {}]
    /\ rejected' = [rejected EXCEPT ![l] = {}]

(* The catch block: every error inside the loop. *)
Catch(l) ==
    /\ status' = "FAILED"
    /\ Goto(l, "setFailed")
    /\ from' = [from EXCEPT ![l] = 0]
    /\ Forget(l)

(* The test of the while loop with the fetch that follows, or the fall     *)
(* through to the end of start(); the cursor is read when the query is     *)
(* issued.                                                                 *)
LoopTest(l, cursor) ==
    \/ /\ ~stopRequested
       /\ Goto(l, "fetch")
       /\ from' = [from EXCEPT ![l] = cursor]
       /\ UNCHANGED status
    \/ /\ stopRequested
       /\ Goto(l, "idle")
       /\ status' = "PAUSED"
       /\ from' = [from EXCEPT ![l] = 0]

(* Synchronous head of start(). *)
Enter(l) ==
    /\ pc[l] = "idle"
    /\ stopRequested' = FALSE
    /\ Goto(l, "getCheckpoint")
    /\ UNCHANGED <<status, lastProcessedId, seen, from, batch, acked, rejected>>

----------------------------------------------------------------------------
(* start(), one action per await *)

ReadCheckpoint(l) ==
    /\ pc[l] = "getCheckpoint"
    /\ seen' = [seen EXCEPT ![l] = cp.id]
    /\ Goto(l, "gotCheckpoint")
    /\ UNCHANGED <<dbVars, delivered, fieldVars, from, batch, acked, rejected, envVars, faultVars>>

(* Faulty: a resume trusts the position in memory. *)
CursorFromMemory(l) == IF lastProcessedId > 0 THEN lastProcessedId ELSE seen[l]

(* Faulty: a start replicates from the first row. *)
CursorFromZero(l) == 0

(* this.lastProcessedId = checkpoint.last_processed_id *)
RecoveredCursor(l) == seen[l]

ResumeFromCheckpoint(l) ==
    /\ pc[l] = "gotCheckpoint"
    /\ lastProcessedId' = RecoveredCursor(l)
    /\ seen' = [seen EXCEPT ![l] = 0]
    /\ \/ /\ stopRequested
          /\ status' = "PAUSED"
          /\ Goto(l, "idle")
       \/ /\ ~stopRequested
          /\ status' = "RUNNING"
          /\ Goto(l, "setRunning")
    /\ UNCHANGED <<dbVars, delivered, stopRequested, from, batch, acked, rejected, envVars, faultVars>>

SetRunning(l) ==
    /\ pc[l] = "setRunning"
    /\ SetStatus("RUNNING")
    /\ LoopTest(l, lastProcessedId)
    /\ UNCHANGED <<table, dlq, delivered, lastProcessedId, stopRequested,
                   seen, batch, acked, rejected, envVars, faultVars>>

(* Faulty: a batch that is not full is taken for the end of the table. *)
EndOfTableShort(l) == Cardinality(NextBatch(from[l])) < BatchSize

(* records.length === 0 *)
EndOfTable(l) == NextBatch(from[l]) = {}

(* A non-empty batch goes to both sinks at once: Promise.all. *)
FetchBatch(l) ==
    /\ pc[l] = "fetch"
    /\ ~EndOfTable(l)
    /\ batch' = [batch EXCEPT ![l] = NextBatch(from[l])]
    /\ acked' = [acked EXCEPT ![l] = {}]
    /\ rejected' = [rejected EXCEPT ![l] = {}]
    /\ Goto(l, "dispatch")
    /\ UNCHANGED <<dbVars, delivered, fieldVars, seen, from, envVars, faultVars>>

FetchNothing(l) ==
    /\ pc[l] = "fetch"
    /\ EndOfTable(l)
    /\ status' = "COMPLETED"
    /\ Goto(l, "setCompleted")
    /\ from' = [from EXCEPT ![l] = 0]
    /\ UNCHANGED <<dbVars, delivered, lastProcessedId, stopRequested,
                   seen, batch, acked, rejected, envVars, faultVars>>

(* Faulty: a pause that met the end of the table is forgotten. *)
FinalStatusAsIs == status

(* The last lines of start(). *)
FinalStatus == IF stopRequested THEN "PAUSED" ELSE status

SetCompleted(l) ==
    /\ pc[l] = "setCompleted"
    /\ SetStatus("COMPLETED")
    /\ status' = FinalStatus
    /\ Goto(l, "idle")
    /\ UNCHANGED <<table, dlq, delivered, lastProcessedId, stopRequested,
                   seen, from, batch, acked, rejected, envVars, faultVars>>

(* execute() resolves for one sink: a bulk reply or publisher confirms.    *)
(* The rows reported as failures include those publishBatch refuses; any   *)
(* failure of a sound row is a fault of the sink.                          *)
SinkAck(l, s) ==
    /\ pc[l] = "dispatch"
    /\ s \notin acked[l]
    /\ \E failed \in SUBSET batch[l] :
         /\ batch[l] \cap Refused(s) \subseteq failed
         /\ IF failed \subseteq Corrupt THEN UNCHANGED faultVars ELSE SinkFault
         /\ \E kept \in SUBSET MayHold(s, failed) :
              delivered' = delivered \cup (((batch[l] \ failed) \cup kept) \X {s})
         /\ rejected' = [rejected EXCEPT ![l] = @ \cup (failed \X {s})]
    /\ acked' = [acked EXCEPT ![l] = @ \cup {s}]
    /\ UNCHANGED <<dbVars, fieldVars, pc, seen, from, batch, envVars>>

(* execute() rejects: the breaker refused, the connection failed or the    *)
(* request timed out, in which case the sink may have worked all the same. *)
(* Promise.all rejects at once; the other sink's dispatch goes on.         *)
SinkReject(l, s) ==
    /\ pc[l] = "dispatch"
    /\ s \notin acked[l]
    /\ SinkFault
    /\ \E ids \in SUBSET MayReach(s, batch[l]) : delivered' = delivered \cup (ids \X {s})
    /\ orphans' = orphans \cup ({batch[l]} \X (Sinks \ (acked[l] \cup {s})))
    /\ Catch(l)
    /\ UNCHANGED <<dbVars, lastProcessedId, stopRequested, seen,
                   proc, pausing, crashes, commands>>

(* Faulty: the batch moves on with the first answer. *)
DispatchedByOne(l) == acked[l] # {}

(* Promise.all resolves. *)
DispatchedByAll(l) == acked[l] = Sinks

(* dlqEntries.length > 0 *)
MustQuarantine(l) == rejected[l] # {}

(* Both sinks answered: the failures of the two are inserted together. *)
Dispatched(l) ==
    /\ pc[l] = "dispatch"
    /\ DispatchedByAll(l)
    /\ Goto(l, IF MustQuarantine(l) THEN "persist" ELSE "commit")
    /\ UNCHANGED <<dbVars, delivered, fieldVars, seen, from, batch, acked, rejected, envVars, faultVars>>

(* Faulty: the entries of a batch replace those of earlier ones. *)
QuarantinedAnew(l) == rejected[l]

(* persistFailures: one INSERT for all the entries. *)
Quarantined(l) == dlq \cup rejected[l]

PersistFailures(l) ==
    /\ pc[l] = "persist"
    /\ dlq' = Quarantined(l)
    /\ Goto(l, "commit")
    /\ UNCHANGED <<table, cp, delivered, fieldVars, seen, from, batch, acked, rejected, envVars, faultVars>>

(* One UPDATE: the watermark is overwritten, the counters are increments. *)
CommitCheckpoint(l) ==
    /\ pc[l] = "commit"
    /\ \E r \in Rows :
         /\ IsLastOf(r, batch[l])
         /\ cp' = [cp EXCEPT !.id = r,
                              !.processed = @ + SuccessCount(l),
                              !.failed = @ + FailedCount(l)]
    /\ Goto(l, "committed")
    /\ UNCHANGED <<table, dlq, delivered, fieldVars, seen, from, batch, acked, rejected, envVars, faultVars>>

Committed(l) ==
    /\ pc[l] = "committed"
    /\ \E r \in Rows :
         /\ IsLastOf(r, batch[l])
         /\ lastProcessedId' = r
         /\ LoopTest(l, r)
    /\ Forget(l)
    /\ UNCHANGED <<dbVars, delivered, stopRequested, seen, envVars, faultVars>>

SetFailed(l) ==
    /\ pc[l] = "setFailed"
    /\ SetStatus("FAILED")
    /\ Goto(l, "idle")
    /\ UNCHANGED <<table, dlq, delivered, fieldVars, seen, from, batch, acked, rejected, envVars, faultVars>>

----------------------------------------------------------------------------
(* Failed queries *)

(* Outside the try block, start() rejects and leaves the fields alone; a   *)
(* failure to record FAILED is swallowed.                                  *)
QueryFailsOutside(l) ==
    /\ pc[l] \in {"getCheckpoint", "setRunning", "setFailed"}
    /\ QueryFault
    /\ \/ UNCHANGED cp
       \/ pc[l] = "setRunning" /\ SetStatus("RUNNING")
    /\ Goto(l, "idle")
    /\ UNCHANGED <<table, dlq, delivered, fieldVars, seen, from, batch, acked, rejected, envVars>>

(* Inside it, the error is caught; "committed" is a commit whose reply is  *)
(* lost.                                                                   *)
QueryFailsInside(l) ==
    /\ pc[l] \in {"fetch", "persist", "commit", "committed", "setCompleted"}
    /\ QueryFault
    /\ \/ UNCHANGED <<cp, dlq>>
       \/ pc[l] = "persist" /\ dlq' = Quarantined(l) /\ UNCHANGED cp
       \/ pc[l] = "setCompleted" /\ SetStatus("COMPLETED") /\ UNCHANGED dlq
    /\ Catch(l)
    /\ UNCHANGED <<table, delivered, lastProcessedId, stopRequested, seen, envVars>>

----------------------------------------------------------------------------
(* Control calls, boot and crash *)

(* pause(): the fields at once, the row of replication_checkpoints later. *)
Pause ==
    /\ proc # "down"
    /\ commands < MaxCommands
    /\ commands' = commands + 1
    /\ stopRequested' = TRUE
    /\ status' = "PAUSED"
    /\ pausing' = pausing + 1
    /\ UNCHANGED <<dbVars, delivered, lastProcessedId, loopVars, proc, orphans, crashes, faultVars>>

SetPaused ==
    /\ pausing > 0
    /\ pausing' = pausing - 1
    /\ \/ SetStatus("PAUSED") /\ UNCHANGED faultVars
       \/ QueryFault /\ UNCHANGED cp
    /\ UNCHANGED <<table, dlq, delivered, fieldVars, loopVars, proc, orphans, crashes, commands>>

(* resume(): start() again, whatever is still running. *)
Resume(l) ==
    /\ proc # "down"
    /\ commands < MaxCommands
    /\ commands' = commands + 1
    /\ Enter(l)
    /\ UNCHANGED <<dbVars, delivered, proc, pausing, orphans, crashes, faultVars>>

(* The HTTP server listens before coordinator.start() launches the runner. *)
Launch(l) ==
    /\ proc = "booting"
    /\ proc' = "up"
    /\ Enter(l)
    /\ UNCHANGED <<dbVars, delivered, pausing, orphans, crashes, commands, faultVars>>

Boot ==
    /\ proc = "down"
    /\ proc' = "booting"
    /\ UNCHANGED <<dbVars, delivered, fieldVars, loopVars, pausing, orphans, crashes, commands, faultVars>>

(* A dispatch left behind by Promise.all ends, whatever it reached. *)
OrphanSettles ==
    \E o \in orphans :
      /\ orphans' = orphans \ {o}
      /\ \E ids \in SUBSET (o[1] \ Refused(o[2])) :
           delivered' = delivered \cup (ids \X {o[2]})
      /\ UNCHANGED <<dbVars, fieldVars, loopVars, proc, pausing, crashes, commands, faultVars>>

(* SIGKILL, or the exit(0) of a SIGTERM: everything in memory is gone;     *)
(* each sink keeps some of what was on its way to it.                      *)
InFlight(s) ==
    {r \in Rows \ Refused(s) :
        \/ \E l \in Loops : pc[l] = "dispatch" /\ s \notin acked[l] /\ r \in batch[l]
        \/ \E o \in orphans : o[2] = s /\ r \in o[1]}

Crash ==
    /\ proc # "down"
    /\ crashes < MaxCrashes
    /\ crashes' = crashes + 1
    /\ proc' = "down"
    /\ \E es \in SUBSET InFlight("ELASTICSEARCH"), rmq \in SUBSET InFlight("RABBITMQ") :
         delivered' = delivered \cup (es \X {"ELASTICSEARCH"}) \cup (rmq \X {"RABBITMQ"})
    /\ status' = "INITIALIZED"
    /\ lastProcessedId' = 0
    /\ stopRequested' = FALSE
    /\ pausing' = 0
    /\ orphans' = {}
    /\ pc' = [l \in Loops |-> "idle"]
    /\ seen' = [l \in Loops |-> 0]
    /\ from' = [l \in Loops |-> 0]
    /\ batch' = [l \in Loops |-> {}]
    /\ acked' = [l \in Loops |-> {}]
    /\ rejected' = [l \in Loops |-> {}]
    /\ UNCHANGED <<dbVars, commands, faultVars>>

(* Some transaction of the application commits a new row.  Ids come from a *)
(* sequence, so a lower id may be committed after a higher one.            *)
InsertRow ==
    \E r \in Rows \ table :
      /\ table' = table \cup {r}
      /\ UNCHANGED <<cp, dlq, delivered, fieldVars, loopVars, envVars, faultVars>>

----------------------------------------------------------------------------
Init ==
    /\ table = History
    /\ cp = [id |-> 0, processed |-> 0, failed |-> 0, status |-> "INITIALIZED"]
    /\ dlq = {}
    /\ delivered = {}
    /\ proc = "booting"
    /\ status = "INITIALIZED"
    /\ lastProcessedId = 0
    /\ stopRequested = FALSE
    /\ pausing = 0
    /\ orphans = {}
    /\ pc = [l \in Loops |-> "idle"]
    /\ seen = [l \in Loops |-> 0]
    /\ from = [l \in Loops |-> 0]
    /\ batch = [l \in Loops |-> {}]
    /\ acked = [l \in Loops |-> {}]
    /\ rejected = [l \in Loops |-> {}]
    /\ queryFaults = 0
    /\ sinkFaults = 0
    /\ crashes = 0
    /\ commands = 0

(* What an activation does when every query and every sink answers. *)
Progress(l) ==
    \/ ReadCheckpoint(l)
    \/ ResumeFromCheckpoint(l)
    \/ SetRunning(l)
    \/ FetchBatch(l)
    \/ FetchNothing(l)
    \/ SetCompleted(l)
    \/ \E s \in Sinks : SinkAck(l, s)
    \/ Dispatched(l)
    \/ PersistFailures(l)
    \/ CommitCheckpoint(l)
    \/ Committed(l)
    \/ SetFailed(l)

Next ==
    \/ \E l \in Loops :
         \/ Progress(l)
         \/ QueryFailsOutside(l)
         \/ QueryFailsInside(l)
         \/ \E s \in Sinks : SinkReject(l, s)
         \/ Resume(l)
         \/ Launch(l)
    \/ Pause
    \/ SetPaused
    \/ OrphanSettles
    \/ Crash
    \/ Boot
    \/ InsertRow

Spec == Init /\ [][Next]_vars

(* Queries and sinks answer (every ES request carries a deadline, the      *)
(* broker and the database are up), the runner is launched by the boot     *)
(* sequence and a dead process is restarted (restart: unless-stopped in    *)
(* docker-compose.yml).  Faults, crashes, operators and writers of the     *)
(* source table owe nothing.                                               *)
Fairness ==
    /\ \A l \in Loops : WF_vars(Progress(l))
    /\ WF_vars(\E l \in Loops : Launch(l))
    /\ WF_vars(SetPaused)
    /\ WF_vars(Boot)

FairSpec == Spec /\ Fairness

----------------------------------------------------------------------------
(* Properties *)

Active(l) == pc[l] # "idle"

Accounted(r, s) == <<r, s>> \in delivered \cup dlq

(* Every historical row up to w was acknowledged or quarantined. *)
Covered(w) == \A r \in History : r <= w => \A s \in Sinks : Accounted(r, s)

HistoryReplicated == \A r \in History, s \in Sinks : Accounted(r, s)

(* The state is what the declarations and the schema say it is. *)
TypeOK ==
    /\ table \subseteq Rows
    /\ cp \in [id : Rows \cup {0}, processed : Nat, failed : Nat, status : Statuses]
    /\ dlq \subseteq Rows \X Sinks
    /\ delivered \subseteq Rows \X Sinks
    /\ proc \in {"down", "booting", "up"}
    /\ status \in Statuses
    /\ lastProcessedId \in Rows \cup {0}
    /\ stopRequested \in BOOLEAN
    /\ pausing \in Nat
    /\ orphans \subseteq (SUBSET Rows) \X Sinks
    /\ pc \in [Loops -> Awaits]
    /\ seen \in [Loops -> Rows \cup {0}]
    /\ from \in [Loops -> Rows \cup {0}]
    /\ batch \in [Loops -> SUBSET Rows]
    /\ acked \in [Loops -> SUBSET Sinks]
    /\ rejected \in [Loops -> SUBSET (Rows \X Sinks)]
    /\ queryFaults \in Nat /\ sinkFaults \in Nat /\ crashes \in Nat /\ commands \in Nat

(* Zero data loss: the persisted watermark never passes a historical row   *)
(* that one of the sinks neither acknowledged nor had quarantined, through *)
(* crashes, failed queries, rejected dispatches and overlapping            *)
(* activations of start() (strictly post-sink-ACK commit, lines 117-195).  *)
NoRecordLost == Covered(cp.id)

(* COMPLETED, in memory or in the database, is never reported while a      *)
(* historical row is still missing from a sink (lines 108-115).            *)
CompletedMeansReplicated ==
    status = "COMPLETED" \/ cp.status = "COMPLETED" => HistoryReplicated

(* The runner implements the contract of its watermark. *)
Contract == INSTANCE WatermarkContract
              WITH watermark <- cp.id, accounted <- delivered \cup dlq
RefinesContract == Contract!Spec

(* The persisted watermark never moves backwards. *)
WatermarkNeverRegresses == [][cp'.id >= cp.id]_vars

(* A batch is pulled from the position that is committed, never from one   *)
(* that only memory knows of (lines 102-105 against 186-197).              *)
PulledFromCheckpoint == \A l \in Loops : pc[l] = "fetch" => from[l] = cp.id

(* The two counters of the checkpoint add up to the rows the watermark has *)
(* passed, each counted once whatever was retried, and only rows with an   *)
(* entry in dead_letter_queue are counted as failed (lines 171-195).       *)
RowsPassed(rows) == {r \in rows : r <= cp.id}
CountersMatchWatermark ==
    /\ cp.processed + cp.failed >= Cardinality(RowsPassed(History))
    /\ cp.processed + cp.failed <= Cardinality(RowsPassed(table))
    /\ cp.failed <= Cardinality(FailedIds(dlq))

(* A pause is honoured unless a start() undoes it: the activation stops    *)
(* and the runner reports that it is paused, even where the pause meets    *)
(* the end of the table, or that it failed (lines 209-222).                *)
PauseQuiesces ==
    stopRequested ~> \/ ~stopRequested
                     \/ /\ \A l \in Loops : ~Active(l)
                        /\ status \in {"PAUSED", "FAILED"}

(* Unless a query or a sink fails, or an operator pauses it, the backfill  *)
(* reaches every historical row, crashes notwithstanding (lines 76-112).   *)
ReplicationCompletes ==
    <>(HistoryReplicated \/ queryFaults + sinkFaults > 0 \/ stopRequested)

(* Back-pressure: while a batch is being dispatched nothing of another     *)
(* batch is on its way to a sink, or waits for its checkpoint.             *)
Backpressure ==
    \A l \in Loops : pc[l] = "dispatch" =>
        /\ orphans = {}
        /\ \A m \in Loops \ {l} : pc[m] \notin {"dispatch", "persist", "commit"}

(* Self-healing: unless an operator pauses it, the backfill reaches every  *)
(* historical row, failures notwithstanding.                               *)
SelfHeals == <>(HistoryReplicated \/ stopRequested)
=============================================================================
