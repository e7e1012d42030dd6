--------------------------- MODULE DeadLetterQueue ---------------------------
(***************************************************************************)
(* The dead letter queue and its replay: dlq.store.ts and dlq.replayer.ts  *)
(* behind the two retry endpoints of the control server, the bulk upsert   *)
(* of the search index, and the runners as far as they quarantine rows and *)
(* write what they had fetched to the same index.                          *)
(*                                                                         *)
(* Any number of requests run at once.  A job takes one step per await: a  *)
(* statement or a send together with the synchronous code after it.  A     *)
(* payload is the version of the row it was taken from.  ABANDONED and     *)
(* RETRYING are never written, and the pipeline deletes no entry.          *)
(***************************************************************************)
EXTENDS Naturals, Sequences, FiniteSets, Functions, FiniteSetsExt

CONSTANTS
    Entries,     \* ids of dead_letter_queue
    RecordOf,    \* [Entries -> records]
    Target,      \* [Entries -> sink_target]
    CreatedAt,   \* [Entries -> Nat]: equal for what one INSERT wrote
    Stubborn,    \* entries whose payload the index always rejects
    Requests,    \* requests that may run at once
    BatchSize,   \* batchSize of retryAllPending
    MaxIterations, \* maxIterations of retryAllPending
    MaxVersion,  \* bound: versions of a row
    MaxFetches,  \* bound: snapshots the runners take
    MaxFaults,   \* bound: statements and sends that fail
    MaxRequests  \* bound: requests started

Records == {RecordOf[e] : e \in Entries}
Sinks(e) == IF Target[e] = "ALL" THEN {"ELASTICSEARCH", "RABBITMQ"} ELSE {Target[e]}

ASSUME QueueAssumption ==
    /\ IsFiniteSet(Entries) /\ Stubborn \subseteq Entries
    /\ \A e \in Entries : Target[e] \in {"ELASTICSEARCH", "RABBITMQ", "ALL"}
    /\ \A e \in Entries : CreatedAt[e] \in Nat
ASSUME BoundsAssumption ==
    /\ BatchSize \in Nat \ {0} /\ MaxIterations \in Nat \ {0}
    /\ {MaxVersion, MaxFetches, MaxFaults, MaxRequests} \subseteq Nat

VARIABLES
    latest,     \* source_records: version of each row
    index,      \* the documents: content and the version they state
    late,       \* writes sent to the index and not executed yet
    published,  \* envelopes: record, stated version, content
    entry,      \* dead_letter_queue
    job,        \* the retry requests
    \* bounds
    fetches, faults, requests

boundVars == <<fetches, faults, requests>>
vars == <<latest, index, late, published, entry, job, boundVars>>

(* Absent until persisted; delivered is history: the sinks that took       *)
(* the entry.                                                              *)
NoEntry == [status |-> "NONE", content |-> 0, retries |-> 0, delivered |-> {}]

(* todo begins with the entry in work; owed and barren are history: what   *)
(* was pending at first and not tried since, whether the last pass failed  *)
(* altogether.                                                             *)
Idle == [pc |-> "idle", all |-> FALSE, todo |-> <<>>, size |-> 0, passes |-> 0,
         resolved |-> 0, failed |-> 0, owed |-> {}, barren |-> FALSE]

Pending == {e \in Entries : entry[e].status = "PENDING"}

----------------------------------------------------------------------------
(* The runners *)

(* An UPDATE of the application: version + 1. *)
Mutate(r) ==
    /\ latest[r] < MaxVersion
    /\ latest' = [latest EXCEPT ![r] = @ + 1]
    /\ UNCHANGED <<index, late, published, entry, job, boundVars>>

Write(r, content, version) == [record |-> r, content |-> content, version |-> version]

(* A runner reads a row and sends it, by backfill or by polling. *)
Fetch(r) ==
    /\ fetches < MaxFetches
    /\ fetches' = fetches + 1
    /\ late' = late \cup {Write(r, latest[r], latest[r])}
    /\ published' = published \cup {Write(r, latest[r], latest[r])}
    /\ UNCHANGED <<latest, index, entry, job, faults, requests>>

(* bulkUpsert at the server: doc_as_upsert, whatever the document holds.   *)
Upserted(w) == [index EXCEPT ![w.record] = [content |-> w.content, version |-> w.version]]

Execute(w) ==
    /\ w \in late
    /\ late' = late \ {w}
    /\ index' = Upserted(w)
    /\ UNCHANGED <<latest, published, entry, job, boundVars>>

(* persistFailures: one INSERT, all entries of a batch or none. *)
Persist(t) ==
    LET batch == {e \in Entries : CreatedAt[e] = t}
    IN  /\ \A e \in Entries : CreatedAt[e] < t => entry[e] # NoEntry
        /\ \A e \in batch : entry[e] = NoEntry /\ latest[RecordOf[e]] > 0
        /\ entry' = [e \in Entries |->
                        IF e \in batch
                          THEN [NoEntry EXCEPT !.status = "PENDING", !.content = latest[RecordOf[e]]]
                          ELSE entry[e]]
        /\ UNCHANGED <<latest, index, late, published, job, boundVars>>

----------------------------------------------------------------------------
(* POST /api/dlq/:id/retry and POST /api/dlq/retry-all *)

RetryOne(q, e) ==
    /\ job[q].pc = "idle" /\ requests < MaxRequests
    /\ requests' = requests + 1
    /\ job' = [job EXCEPT ![q] = [Idle EXCEPT !.pc = "get", !.todo = <<e>>]]
    /\ UNCHANGED <<latest, index, late, published, entry, fetches, faults>>

RetryAll(q) ==
    /\ job[q].pc = "idle" /\ requests < MaxRequests
    /\ requests' = requests + 1
    /\ job' = [job EXCEPT ![q] = [Idle EXCEPT !.pc = "list", !.all = TRUE, !.owed = Pending]]
    /\ UNCHANGED <<latest, index, late, published, entry, fetches, faults>>

(* getPendingEntries: ORDER BY created_at LIMIT; ties in any order. *)
Batches ==
    {s \in [1..Min({BatchSize, Cardinality(Pending)}) -> Pending] :
        /\ IsInjective(s)
        /\ \A i, j \in DOMAIN s : i < j => CreatedAt[s[i]] <= CreatedAt[s[j]]
        /\ \A e \in Pending \ Range(s), i \in DOMAIN s : CreatedAt[s[i]] <= CreatedAt[e]}

(* The job that begins another pass, over the entries s. *)
NextPass(j, s) ==
    [j EXCEPT !.pc = "get", !.todo = s, !.size = Len(s), !.passes = @ + 1, !.barren = TRUE]

(* A SELECT outside every try block that fails: the answer is 500. *)
SelectFails(q) ==
    /\ faults < MaxFaults
    /\ faults' = faults + 1
    /\ job' = [job EXCEPT ![q] = Idle]

List(q) ==
    /\ job[q].pc = "list"
    /\ \/ /\ \E s \in Batches :
               job' = [job EXCEPT ![q] = IF s = <<>> THEN Idle ELSE NextPass(@, s)]
          /\ UNCHANGED faults
       \/ SelectFails(q)
    /\ UNCHANGED <<latest, index, late, published, entry, fetches, requests>>

(* "If all items in this batch failed, break": both counts are those of    *)
(* the whole request.                                                      *)
AllFailed(j) == j.failed >= j.size /\ j.resolved = 0

LastPass(j) == AllFailed(j) \/ j.passes = MaxIterations

(* The job after retryEntry returned success = ok. *)
Returned(j, ok) ==
    LET counted == [j EXCEPT !.resolved = @ + IF ok THEN 1 ELSE 0,
                             !.failed = @ + IF ok THEN 0 ELSE 1,
                             !.todo = Tail(@), !.owed = @ \ {Head(j.todo)},
                             !.barren = @ /\ ~ok]
    IN  IF ~j.all THEN Idle
        ELSE IF counted.todo # <<>> THEN [counted EXCEPT !.pc = "get"]
        ELSE IF LastPass(counted) THEN [counted EXCEPT !.pc = "summary"]
        ELSE [counted EXCEPT !.pc = "list"]

(* The summary is answered. *)
Summary(q) ==
    /\ job[q].pc = "summary"
    /\ job' = [job EXCEPT ![q] = Idle]
    /\ UNCHANGED <<latest, index, late, published, entry, boundVars>>

(* Where retryEntry goes with an entry it still has to send to the sinks S. *)
FirstSend(S) == IF "ELASTICSEARCH" \in S THEN "es" ELSE IF "RABBITMQ" \in S THEN "rmq" ELSE "resolve"

(* Faulty: RabbitMQ only when Elasticsearch is not a target. *)
AfterIndexAlone(e) == "resolve"

AfterIndex(e) == FirstSend(Sinks(e) \ {"ELASTICSEARCH"})

Get(q) ==
    LET e == Head(job[q].todo)
    IN  /\ job[q].pc = "get"
        /\ \/ /\ job' = [job EXCEPT ![q] =
                    CASE entry[e].status = "RESOLVED" -> Returned(@, TRUE)
                      [] entry[e].status = "PENDING"  -> [@ EXCEPT !.pc = FirstSend(Sinks(e))]
                      [] OTHER                        -> Returned(@, FALSE)]
              /\ UNCHANGED faults
           \/ SelectFails(q)
        /\ UNCHANGED <<latest, index, late, published, entry, fetches, requests>>

Goto(q, label) == job' = [job EXCEPT ![q].pc = label]

Delivered(e, sink) == entry' = [entry EXCEPT ![e].delivered = @ \cup {sink}]

(* The rebuilt record: the payload of the entry, version: 1. *)
Replayed(e) == Write(RecordOf[e], entry[e].content, 1)

(* Faulty: sent again until it is taken. *)
AfterRejectionAgain == "es"

AfterRejection == "fail"

(* bulkUpsert([record]): taken, rejected, or timed out and perhaps         *)
(* executed later.                                                         *)
SendIndex(q) ==
    LET e == Head(job[q].todo)
    IN  /\ job[q].pc = "es"
        /\ \/ /\ e \notin Stubborn
              /\ index' = Upserted(Replayed(e))
              /\ Delivered(e, "ELASTICSEARCH")
              /\ Goto(q, AfterIndex(e))
              /\ UNCHANGED <<late, faults>>
           \/ /\ e \in Stubborn
              /\ Goto(q, AfterRejection)
              /\ UNCHANGED <<index, late, entry, faults>>
           \/ /\ faults < MaxFaults
              /\ faults' = faults + 1
              /\ late' \in {late, late \cup {Replayed(e) : x \in {e} \ Stubborn}}
              /\ Goto(q, "caught")
              /\ UNCHANGED <<index, entry>>
        /\ UNCHANGED <<latest, published, fetches, requests>>

(* publishBatch([record]): confirmed, or answered as a failure (a NACK) or *)
(* thrown, with the envelope perhaps in the queue.                         *)
SendQueue(q) ==
    LET e == Head(job[q].todo)
    IN  /\ job[q].pc = "rmq"
        /\ \/ /\ published' = published \cup {Replayed(e)}
              /\ Delivered(e, "RABBITMQ")
              /\ Goto(q, "resolve")
              /\ UNCHANGED faults
           \/ /\ faults < MaxFaults
              /\ faults' = faults + 1
              /\ published' \in {published, published \cup {Replayed(e)}}
              /\ \E label \in {"fail", "caught"} : Goto(q, label)
              /\ UNCHANGED entry
        /\ UNCHANGED <<latest, index, late, fetches, requests>>

(* An UPDATE of the entry that answers, or rejects with the statement      *)
(* executed or not.                                                        *)
Update(e, new, answered, rejected) ==
    \/ entry' = [entry EXCEPT ![e] = new] /\ job' = answered /\ UNCHANGED faults
    \/ /\ faults < MaxFaults
       /\ faults' = faults + 1
       /\ entry' \in {entry, [entry EXCEPT ![e] = new]}
       /\ job' = rejected

(* markStatus(id, 'RESOLVED') *)
Resolve(q) ==
    LET e == Head(job[q].todo)
    IN  /\ job[q].pc = "resolve"
        /\ Update(e, [entry[e] EXCEPT !.status = "RESOLVED"],
                  [job EXCEPT ![q] = Returned(@, TRUE)], [job EXCEPT ![q].pc = "caught"])
        /\ UNCHANGED <<latest, index, late, published, fetches, requests>>

(* Faulty: recordRetryFailure puts the entry back to PENDING. *)
RetryFailedReopens(old) == [old EXCEPT !.retries = @ + 1, !.status = "PENDING"]

RetryFailed(old) == [old EXCEPT !.retries = @ + 1]

(* recordRetryFailure(id): inside the try block a rejection reaches the    *)
(* catch block, which calls it again; there it ends the request with 500.  *)
Fail(q) ==
    LET e == Head(job[q].todo)
        counted == RetryFailed(entry[e])
    IN  /\ job[q].pc \in {"fail", "caught"}
        /\ \/ /\ entry' = [entry EXCEPT ![e] = counted]
              /\ job' = [job EXCEPT ![q] = Returned(@, FALSE)]
              /\ UNCHANGED faults
           \/ /\ faults < MaxFaults
              /\ faults' = faults + 1
              /\ entry' \in {entry, [entry EXCEPT ![e] = counted]}
              /\ job' = [job EXCEPT ![q] = IF @.pc = "fail" THEN [@ EXCEPT !.pc = "caught"] ELSE Idle]
        /\ UNCHANGED <<latest, index, late, published, fetches, requests>>

----------------------------------------------------------------------------
Init ==
    /\ latest = [r \in Records |-> 1]
    /\ index = [r \in Records |-> [content |-> 0, version |-> 0]]
    /\ late = {}
    /\ published = {}
    /\ entry = [e \in Entries |-> NoEntry]
    /\ job = [q \in Requests |-> Idle]
    /\ fetches = 0 /\ faults = 0 /\ requests = 0

Step(q) ==
    List(q) \/ Get(q) \/ SendIndex(q) \/ SendQueue(q) \/ Resolve(q) \/ Fail(q) \/ Summary(q)

Runners ==
    \/ \E r \in Records : Mutate(r) \/ Fetch(r)
    \/ \E w \in late : Execute(w)
    \/ \E t \in {CreatedAt[e] : e \in Entries} : Persist(t)

Next ==
    \/ Runners
    \/ \E q \in Requests : Step(q) \/ RetryAll(q) \/ \E e \in Entries : RetryOne(q, e)

Spec == Init /\ [][Next]_vars

(* Every await of a request settles: the statements and the bulk request   *)
(* have a time limit, the publication is taken to answer (RabbitSink).     *)
FairSpec == Spec /\ \A q \in Requests : WF_vars(Step(q))

----------------------------------------------------------------------------
(* Properties *)

TypeOK ==
    /\ latest \in [Records -> 1..MaxVersion + 1]
    /\ \A w \in late \cup published : w \in [record : Records, content : Nat, version : Nat]
    /\ entry \in [Entries -> [status : {"NONE", "PENDING", "RESOLVED"}, content : Nat,
                              retries : Nat, delivered : SUBSET {"ELASTICSEARCH", "RABBITMQ"}]]
    /\ \A q \in Requests :
        /\ job[q].pc \in {"idle", "list", "get", "es", "rmq", "resolve", "fail", "caught", "summary"}
        /\ job[q].pc \in {"idle", "list", "summary"} <=> job[q].todo = <<>>
        /\ job[q].passes <= MaxIterations

(* An entry is marked RESOLVED only after every sink it names has taken    *)
(* the record, whichever requests worked on it and whatever failed.        *)
ResolvedMeansDelivered ==
    \A e \in Entries : entry[e].status = "RESOLVED" => Sinks(e) \subseteq entry[e].delivered

(* A resolved entry stays resolved: a request that read it as PENDING      *)
(* before another request resolved it, and fails, does not reopen it.      *)
ResolvedStays ==
    [][\A e \in Entries : entry[e].status = "RESOLVED" => entry'[e].status = "RESOLVED"]_vars

(* Every request is answered: the passes are bounded even when a stubborn  *)
(* entry stays in a batch others were resolved from.                       *)
RequestsAnswered == \A q \in Requests : job[q].pc # "idle" ~> job[q].pc = "idle"

(* dlq.replayer.ts:167 "If all items in this batch failed, break to avoid  *)
(* infinite loop on stubborn poison pills".                                *)
StubbornStops == \A q \in Requests : job[q].pc = "list" => ~job[q].barren

(* dlq.replayer.ts:145 "Replays all currently pending DLQ entries in       *)
(* batches."                                                               *)
AllPendingReplayed ==
    \A q \in Requests : job[q].pc = "summary" => job[q].owed \subseteq Entries \ Pending

(* SPEC.md:120 "guaranteeing that stale backfill snapshots cannot clobber  *)
(* newer mutations": no write replaces a document by an older content.     *)
NothingClobbered == [][\A r \in Records : index'[r].content >= index[r].content]_vars

(* SPEC.md:126-129 deterministic message ids: one id, one content.         *)
IdNamesContent ==
    \A p, w \in published :
        p.record = w.record /\ p.version = w.version => p.content = w.content
=============================================================================
