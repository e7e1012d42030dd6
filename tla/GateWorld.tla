----------------------------- MODULE GateWorld -----------------------------
(***************************************************************************)
(* What gates 2 to 4 of the verification suite look at, reduced to what    *)
(* they can see: source_records and whoever writes it, the search index    *)
(* with the bulk requests on their way to it and what _count counts of it, *)
(* dead_letter_queue and its replays, and the daemon with its telemetry    *)
(* and the breaker of Elasticsearch.  IncrementalRunner, BackfillRunner,   *)
(* CircuitBreaker, DeadLetterQueue and Consumer have the detail.           *)
(*                                                                         *)
(* Any row may be lost, in no sink and not on its way: that is what the    *)
(* gates are there to find.  A kind of trouble happens at most once.       *)
(***************************************************************************)
EXTENDS Naturals, FiniteSets, FiniteSetsExt

CONSTANTS
    Old,        \* rows of source_records at the start
    Others,     \* rows that are inserted by others than the gates
    Valid,      \* rows gate 4 inserts that both sinks can take
    Poison,     \* rows gate 4 inserts that both sinks reject
    Corrupt,    \* rows of Old and Others with is_corrupted set
    None,       \* null
    Troubles,   \* kinds of trouble there may be
    MaxTrouble  \* bound: troubles in a behaviour

Rows == Old \cup Others \cup Valid \cup Poison

ASSUME RowsAssumption ==
    /\ Rows \subseteq Nat /\ IsFiniteSet(Rows) /\ Corrupt \subseteq Old \cup Others
    /\ Valid \cap (Old \cup Others \cup Poison) = {}
    /\ Poison \cap (Old \cup Others) = {} /\ Old \cap Others = {}
ASSUME TroubleAssumption == MaxTrouble \in Nat
ASSUME NoneAssumption == None \notin Nat

VARIABLES
    version,  \* source_records: 0, no row
    index,    \* version of the document, 0: none
    reached,  \* history: the highest version the document ever had
    visible,  \* the documents of the last refresh
    flight,   \* <<row, version>> in bulk requests that may still be executed
    entry,    \* dead_letter_queue, for the sink ELASTICSEARCH
    replays,  \* rows replayed whose entry is not updated yet
    todo,     \* rows whose version a runner has not dispatched
    breaker,  \* state and totalTrips of the breaker of Elasticsearch
    up,       \* Elasticsearch runs
    tele,     \* telemetry: the backfill is COMPLETED, the lag is not zero
    trouble   \* what went wrong

sinkVars  == <<index, reached, visible, flight>>
queueVars == <<entry, replays>>
daemonVars == <<todo, breaker, tele>>
world == <<version, sinkVars, queueVars, daemonVars, up, trouble>>

Documents == {r \in Rows : index[r] > 0}
Source == {r \in Rows : version[r] > 0}
Rejected == Corrupt \cup Poison

WorldInit ==
    /\ version = [r \in Rows |-> IF r \in Old THEN 1 ELSE 0]
    /\ \E docs \in SUBSET Old : index = [r \in Rows |-> IF r \in docs THEN 1 ELSE 0]
    /\ reached = index
    /\ visible = Documents
    /\ flight = {}
    /\ entry \in {e \in [Rows -> {"NONE", "PENDING"}] : \A r \in Rows \ Old : e[r] = "NONE"}
    /\ replays = {}
    /\ todo \in SUBSET Old
    /\ breaker = [state |-> "CLOSED", trips |-> 0]
    /\ up = TRUE
    /\ tele = [done |-> TRUE, lag |-> todo # {}]
    /\ trouble = {}

May(kind) == kind \in Troubles \ trouble /\ Cardinality(trouble) < MaxTrouble

(* An answer and the trouble after it: null when the request fails. *)
Answers(kind, answer) ==
    {[value |-> answer, trouble |-> trouble]} \cup
    (IF May(kind) THEN {[value |-> None, trouble |-> trouble \cup {kind}]} ELSE {})

(* One of Elasticsearch: null while it is stopped. *)
IndexAnswers(kind, answer) ==
    IF up THEN Answers(kind, answer) ELSE {[value |-> None, trouble |-> trouble]}

----------------------------------------------------------------------------
(* The daemon *)

(* A success counts towards the threshold that closes the breaker. *)
OnSuccess == IF breaker.state = "HALF_OPEN" THEN {"HALF_OPEN", "CLOSED"} ELSE {breaker.state}

(* A row stays to do while the other runner has it too, or its batch is    *)
(* dispatched again.                                                       *)
MayBeDone(r) == todo' \in {todo, todo \ {r}}

(* A runner sends a row as it is in the table, not for the last time. *)
Dispatch(r) ==
    /\ r \in todo \ Rejected /\ up /\ breaker.state # "OPEN"
    /\ flight' = flight \cup {<<r, version[r]>>}
    /\ UNCHANGED <<version, index, reached, visible, queueVars, daemonVars, up, trouble>>

(* A bulk request overwrites the document, whatever version it has.        *)
Index(r, v) ==
    /\ index' = [index EXCEPT ![r] = v]
    /\ reached' = [reached EXCEPT ![r] = IF v > @ THEN v ELSE @]

(* A request is executed, in any order and however late; one that is lost  *)
(* stays in flight.  Its runner moves on, or has a later version to send.  *)
Land(r, v) ==
    /\ <<r, v>> \in flight /\ up
    /\ flight' = flight \ {<<r, v>>}
    /\ Index(r, v)
    /\ IF v = version[r] THEN MayBeDone(r) ELSE UNCHANGED todo
    /\ \E s \in OnSuccess : breaker' = [breaker EXCEPT !.state = s]
    /\ UNCHANGED <<version, visible, queueVars, up, tele, trouble>>

(* An item of a bulk request fails, which a sound one may do as well: the  *)
(* row is quarantined, and its runner moves on.                            *)
Quarantine(r) ==
    /\ r \in todo /\ up /\ breaker.state # "OPEN"
    /\ \/ r \in Rejected /\ UNCHANGED trouble
       \/ r \notin Rejected /\ May("reject") /\ trouble' = trouble \cup {"reject"}
    /\ entry' = [entry EXCEPT ![r] = "PENDING"]
    /\ MayBeDone(r)
    /\ \E s \in OnSuccess : breaker' = [breaker EXCEPT !.state = s]
    /\ UNCHANGED <<version, sinkVars, replays, up, tele>>

Tripped == [state |-> "OPEN", trips |-> breaker.trips + 1]

(* The breaker while a dispatch waits: it trips, and it probes. *)
Breaker ==
    /\ todo # {}
    /\ \/ ~up /\ breaker.state # "OPEN" /\ breaker' = Tripped
       \/ up /\ breaker.state = "OPEN" /\ breaker' = [breaker EXCEPT !.state = "HALF_OPEN"]
    /\ UNCHANGED <<version, sinkVars, queueVars, todo, up, tele, trouble>>

(* The backfill is found COMPLETED; the incremental loop measures its lag. *)
Report ==
    /\ tele' \in {[tele EXCEPT !.done = TRUE], [tele EXCEPT !.lag = todo # {}]}
    /\ UNCHANGED <<version, sinkVars, queueVars, todo, breaker, up, trouble>>

(* Nothing of the telemetry, of the breaker and of a replay survives a     *)
(* restart.                                                                *)
Restart ==
    /\ tele' = [done |-> FALSE, lag |-> FALSE]
    /\ breaker' = [state |-> "CLOSED", trips |-> 0]
    /\ replays' = {}
    /\ UNCHANGED <<version, sinkVars, entry, todo, up, trouble>>

----------------------------------------------------------------------------
(* Operators, and other writers of source_records *)

(* An operator replays an entry: what its payload becomes, a record of     *)
(* version 1 that the index takes at once, or when nobody waits any more.  *)
Replay(r) ==
    /\ May("replay") /\ trouble' = trouble \cup {"replay"}
    /\ entry[r] = "PENDING" /\ up
    /\ \/ /\ Index(r, 1) /\ replays' = replays \cup {r}
          /\ UNCHANGED flight
       \/ /\ flight' = flight \cup {<<r, 1>>}
          /\ UNCHANGED <<index, reached, replays>>
    /\ UNCHANGED <<version, visible, entry, daemonVars, up>>

(* markStatus, which may fail. *)
Resolve(r) ==
    /\ r \in replays
    /\ replays' = replays \ {r}
    /\ entry' \in {entry, [entry EXCEPT ![r] = "RESOLVED"]}
    /\ UNCHANGED <<version, sinkVars, daemonVars, up, trouble>>

(* Somebody inserts a row, or updates any.  It may commit behind a         *)
(* watermark that has passed it.                                           *)
Write(r) ==
    /\ May("write") /\ trouble' = trouble \cup {"write"}
    /\ r \in Others \cup Source
    /\ version' = [version EXCEPT ![r] = @ + 1]
    /\ todo' \in {todo, todo \cup {r}}
    /\ UNCHANGED <<sinkVars, queueVars, breaker, up, tele>>

----------------------------------------------------------------------------
(* The receivers *)

(* uniqueProcessed, too few or enough: the consumer may lag behind, counts *)
(* from zero after a restart, and counts again what it has forgotten.      *)
UniqueProcessed == {0, Cardinality(Rows)}

(* refresh_interval *)
Refresh ==
    /\ up /\ visible' = Documents
    /\ UNCHANGED <<version, index, reached, flight, queueVars, daemonVars, up, trouble>>

World ==
    \/ \E r \in Rows : Dispatch(r) \/ Quarantine(r) \/ Replay(r) \/ Resolve(r) \/ Write(r)
    \/ \E p \in flight : Land(p[1], p[2])
    \/ Breaker \/ Refresh
=============================================================================
