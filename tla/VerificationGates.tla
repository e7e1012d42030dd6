------------------------- MODULE VerificationGates -------------------------
(***************************************************************************)
(* Gates 2, 3 and 4 of the verification suite as the suite runs them:      *)
(* scripts/verify/index.js, gate2.js (no duplicates), gate3.js (a sink     *)
(* outage) and gate4.js (partial batch failure), with the helpers of       *)
(* common.js.  Each takes one step per await, between which the world goes *)
(* on, and any of its deadlines may pass at any round of its loop.         *)
(*                                                                         *)
(* A helper answers null when its request fails.  Gate 4's 497 and 3 are   *)
(* Valid and Poison.  The limit of gate 2 on quarantined records, the      *)
(* progress log and the formatting of the verdicts are left out.           *)
(***************************************************************************)
EXTENDS GateWorld, Sequences

CONSTANTS
    Plans,         \* sequences of gates the suite is asked to run
    MutationCount, \* DEFAULT_MUTATION_COUNT, and DEFAULT_CANARY_SIZE
    MaxCanaries    \* DEFAULT_MAX_CANARIES

(* One gate or all, in the order of their numbers (index.js:101); here any *)
(* of them in that order.                                                  *)
IsPlan(plan) ==
    /\ plan \in Seq({2, 3, 4}) /\ plan # <<>>
    /\ \A i, j \in 1..Len(plan) : i < j => plan[i] < plan[j]

ASSUME PlansAssumption ==
    /\ \A plan \in Plans : IsPlan(plan)
    /\ MutationCount \in Nat \ {0} /\ MaxCanaries \in Nat

VARIABLE g  \* the locals of runVerification and of the gate in work

gateVars == <<world, g>>

Nobody == [r \in Rows |-> 0]

(* The locals of a gate.  source are the rows whose number is sourceCount, *)
(* expected is expectedSinkCount, want the map expectedVersions, base the  *)
(* baseline: trips or index count.  History: absent, the quarantined       *)
(* records that were not indexed when gate 2 asked; clean, nothing but the *)
(* batch was on its way to the index.                                      *)
Fresh(plan) ==
    [plan |-> plan, pc |-> "start", verdict |-> "NONE", quiesced |-> FALSE, again |-> FALSE,
     source |-> {}, expected |-> 0, quarantined |-> {}, absent |-> {}, es |-> None, unique |-> None,
     want |-> Nobody, matched |-> 0, base |-> 0, polled |-> None, evidence |-> FALSE,
     down |-> FALSE, canaries |-> 0, got |-> {}, clean |-> FALSE]

GatesInit == WorldInit /\ \E plan \in Plans : g = Fresh(plan)

----------------------------------------------------------------------------
(* Helpers *)

At(pc) == g.pc = pc

Gate == Head(g.plan)

Goes(pc) == [g EXCEPT !.pc = pc]

(* Faulty: no finally block. *)
EndsAtOnce(verdict) == [g EXCEPT !.verdict = verdict, !.pc = "verdict"]

(* The receiver is restored in the finally block. *)
Ends(verdict) == [g EXCEPT !.verdict = verdict, !.pc = IF g.down THEN "finally" ELSE "verdict"]

Fails == Ends("FAIL")

Local(new) == g' = new /\ UNCHANGED world

(* A step that only asks: new(value) are the locals after the answer. *)
Asks(answers, new(_)) ==
    \E a \in answers :
        /\ g' = new(a.value)
        /\ trouble' = a.trouble
        /\ UNCHANGED <<version, sinkVars, queueVars, daemonVars, up>>

(* safeRefresh *)
Refreshes(from, to) ==
    /\ At(from)
    /\ \/ Refresh
       \/ May("request") /\ trouble' = trouble \cup {"request"}
          /\ UNCHANGED <<version, sinkVars, queueVars, daemonVars, up>>
       \/ ~up /\ UNCHANGED world
    /\ g' = Goes(to)

(* getElasticsearchCount: a failed answer leaves the last one. *)
Counts(from, to) ==
    /\ At(from)
    /\ Asks(IndexAnswers("request", Cardinality(visible)),
            LAMBDA n : [Goes(to) EXCEPT !.es = IF n = None THEN @ ELSE n])

(* waitForPipelineQuiescence *)
Quiet == tele.done /\ ~tele.lag

Quiesce ==
    /\ At("quiesce")
    /\ LET to == CASE Gate = 2 -> "refresh" [] Gate = 3 -> "stop" [] Gate = 4 -> "delete"
           base == IF Gate = 3 THEN breaker.trips ELSE 0
       IN  \/ Quiet /\ Local([Goes(to) EXCEPT !.quiesced = TRUE, !.base = base])
           \/ ~Quiet /\ Local([Goes(to) EXCEPT !.base = base])
           \/ May("request") /\ Asks(Answers("request", None), LAMBDA a : Goes(to))

----------------------------------------------------------------------------
(* runVerification *)

First == CASE Gate \in {2, 3} -> "count" [] Gate = 4 -> "quiesce"

(* The daemon is restarted before each gate; an error is ignored. *)
StartGate ==
    /\ At("start")
    /\ \/ Restart /\ g' = Goes(First)
       \/ Local(Goes(First))

(* --bail stops the suite at the first failure. *)
NextGate ==
    /\ At("verdict")
    /\ \/ Len(g.plan) > 1 /\ Local(Fresh(Tail(g.plan)))
       \/ (Len(g.plan) = 1 \/ g.verdict = "FAIL") /\ Local(Goes("done"))

(* SELECT COUNT( * ), in gates 2 and 3. *)
CountSource ==
    /\ At("count")
    /\ Local([Goes("select") EXCEPT !.source = Source])

----------------------------------------------------------------------------
(* Gate 2 *)

Quarantined == {r \in Rows : entry[r] = "PENDING"}

(* The unresolved records of dead_letter_queue; none when the query fails. *)
SelectQuarantined ==
    /\ At("select")
    /\ Asks(Answers("request", Quarantined),
            LAMBDA a : LET rows == IF a = None THEN {} ELSE a
                       IN  IF Gate = 2 THEN [Goes("mget") EXCEPT !.quarantined = rows]
                           ELSE [Goes("probe") EXCEPT !.expected = Cardinality(g.source) - Cardinality(rows)])

(* Faulty: by the rows of dead_letter_queue, indexed or not. *)
MissingByQueue(rows) == Cardinality(rows)

NotIndexed(rows) == {r \in rows : index[r] = 0}

(* decided per record, by _mget *)
Missing(rows) == Cardinality(NotIndexed(rows))

(* All are missing when _mget fails. *)
ComputeExpectation ==
    /\ At("mget")
    /\ Asks(IndexAnswers("mget", Missing(g.quarantined)),
            LAMBDA n : [Goes(IF g.again THEN "judge2" ELSE "quiesce") EXCEPT
                           !.expected = Cardinality(g.source) -
                               IF n = None THEN Cardinality(g.quarantined) ELSE n,
                           !.absent = NotIndexed(g.quarantined)])

EsAtParity == g.es = g.expected
ConsumerAtParity == g.unique # None /\ g.unique >= g.expected

(* The last snapshot is kept while the consumer is unreachable. *)
AskConsumer ==
    \/ /\ At("consumer") /\ ~ConsumerAtParity
       /\ \E unique \in UniqueProcessed :
            Asks(Answers("request", unique),
               LAMBDA n : [Goes(IF g.again THEN "select" ELSE "judge2") EXCEPT
                              !.unique = IF n = None THEN @ ELSE n])
    \/ At("consumer") /\ ConsumerAtParity /\ Local(Goes("select"))

(* evaluateGate2Deduplication, with duplicates = max(0, esCount - source). *)
Passed2 == g.source # {} /\ EsAtParity /\ ConsumerAtParity /\ g.es <= Cardinality(g.source)

Judge2 ==
    /\ At("judge2")
    /\ \/ Local(Ends(IF g.es # None /\ Passed2 THEN "PASS" ELSE "FAIL"))
       \/ /\ ~EsAtParity \/ ~ConsumerAtParity
          /\ Local([Goes(IF EsAtParity THEN "consumer" ELSE "refresh") EXCEPT !.again = TRUE])

Gate2 ==
    \/ ComputeExpectation \/ AskConsumer \/ Judge2
    \/ Gate = 2 /\ (Refreshes("refresh", "read") \/ Counts("read", "consumer"))

----------------------------------------------------------------------------
(* Gate 3 *)

(* The daemon must answer; its trips stand in for those after quiescence.  *)
Probe ==
    /\ At("probe")
    /\ \/ Local([Goes("quiesce") EXCEPT !.base = breaker.trips])
       \/ May("request") /\ Asks({[value |-> None, trouble |-> trouble \cup {"request"}]},
                                    LAMBDA a : Fails)

(* stopReceiver: docker stop, or trip-breaker, or nothing at all. *)
StopReceiver ==
    /\ At("stop")
    /\ g' = [Goes("mutate") EXCEPT !.down = TRUE]
    /\ \/ up' = FALSE /\ UNCHANGED <<breaker, trouble>>
       \/ breaker' = Tripped /\ UNCHANGED <<up, trouble>>
       \/ May("request") /\ trouble' = trouble \cup {"request"} /\ UNCHANGED <<up, breaker>>
    /\ UNCHANGED <<version, sinkVars, queueVars, todo, tele>>

(* mutateSourceRecords: the last rows that are not corrupted. *)
Candidates ==
    LET sound == Source \ Rejected
    IN  {r \in sound : Cardinality({x \in sound : x >= r}) <= MutationCount}

Mutate(new) ==
    /\ version' = [r \in Rows |-> IF r \in Candidates THEN version[r] + 1 ELSE version[r]]
    /\ todo' = todo \cup Candidates
    /\ g' = [new EXCEPT !.want = [r \in Rows |-> IF r \in Candidates THEN version'[r] ELSE @[r]]]
    /\ UNCHANGED <<sinkVars, queueVars, breaker, up, tele, trouble>>

MutateInOutage ==
    /\ At("mutate")
    /\ IF Candidates = {} THEN Local(Fails) ELSE Mutate(Goes("watch"))

Shows(b) == b.state # "CLOSED" \/ b.trips > g.base

Watch ==
    /\ At("watch")
    /\ \/ Local(Goes("restore"))
       \/ Shows(breaker) /\ Local([Goes("restore") EXCEPT !.evidence = TRUE])

(* startReceiver: a docker start that fails is reported as restored. *)
StartReceiver(from, new) ==
    /\ At(from)
    /\ g' = new
    /\ \/ up' = TRUE /\ UNCHANGED trouble
       \/ ~up /\ May("start") /\ trouble' = trouble \cup {"start"} /\ UNCHANGED up
    /\ UNCHANGED <<version, sinkVars, queueVars, daemonVars>>

Recover ==
    \/ Refreshes("recover", "poll")
    \/ /\ At("poll")
       /\ Asks(Answers("request", breaker), LAMBDA b : [Goes("read") EXCEPT
               !.polled = IF b = None THEN None ELSE b.state,
               !.evidence = @ \/ (b # None /\ Shows(b))])
    \/ /\ At("read")
       /\ Asks(IndexAnswers("request", Cardinality(visible)), LAMBDA n : [Goes("docs") EXCEPT !.es = n])

Wanted == {r \in Rows : g.want[r] > 0}

(* Faulty: found is enough. *)
MatchedIfFound == Cardinality({r \in Wanted : index[r] > 0})

(* d.found and a version that is not older *)
Matched == Cardinality({r \in Wanted : index[r] >= g.want[r]})

ReadDocs ==
    /\ At("docs")
    /\ Asks(IndexAnswers("mget", Matched),
            LAMBDA n : [Goes("judge3") EXCEPT
                           !.matched = IF n = None THEN @ ELSE n])

Landed == g.matched = Cardinality(Wanted)

BreakerClosed == g.polled \in {None, "CLOSED"}

Recovered == BreakerClosed /\ g.es # None /\ g.es >= g.expected /\ Landed

CanaryDue == ~Recovered /\ Landed /\ ~BreakerClosed /\ g.canaries < MaxCanaries

Judge3 ==
    /\ At("judge3")
    /\ IF Recovered THEN Local(Ends(IF g.evidence THEN "PASS" ELSE "FAIL"))
       ELSE \/ Local(Fails)
            \/ Local(Goes("recover"))
            \/ /\ CanaryDue
               /\ Mutate([Goes("recover") EXCEPT !.canaries = @ + 1])

Gate3 ==
    /\ Gate = 3
    /\ \/ Probe \/ StopReceiver \/ MutateInOutage \/ Watch
       \/ StartReceiver("restore", [Goes("recover") EXCEPT !.down = FALSE])
       \/ Recover \/ ReadDocs \/ Judge3
       \/ StartReceiver("finally", Goes("verdict"))

----------------------------------------------------------------------------
(* Gate 4 *)

(* DELETE FROM dead_letter_queue *)
ClearQueue ==
    /\ At("delete")
    /\ entry' = [r \in Rows |-> "NONE"]
    /\ g' = Goes("refresh")
    /\ UNCHANGED <<version, sinkVars, replays, daemonVars, up, trouble>>

(* (await esCountFn()) || 0 *)
InitialCount ==
    /\ At("initial")
    /\ Asks(IndexAnswers("request", Cardinality(visible)),
            LAMBDA n : LET base == IF n = None THEN 0 ELSE n
                       IN  [Goes("seed") EXCEPT
                               !.base = base, !.es = base,
                               !.clean = /\ n # None /\ visible = Documents
                                         /\ todo = {} /\ flight = {}])

Inserts(rows, to) ==
    /\ version' = [r \in Rows |-> IF r \in rows THEN 1 ELSE version[r]]
    /\ todo' = todo \cup rows
    /\ g' = Goes(to)
    /\ UNCHANGED <<sinkVars, queueVars, breaker, up, tele, trouble>>

(* seedGate4Batch: the valid rows at once, each poison pill by itself. *)
Seed ==
    \/ At("seed") /\ Inserts(Valid, "poison")
    \/ \E r \in Poison \ Source : At("poison") /\ Inserts({r}, "poison")
    \/ At("poison") /\ Poison \subseteq Source /\ Local(Goes("refresh4"))

(* The entries of the poison pills and their status. *)
Held == {<<r, entry[r]>> : r \in {q \in Poison : entry[q] # "NONE"}}

(* Count and entries are asked for together. *)
ReadBoth ==
    /\ At("both")
    /\ \/ /\ "count" \notin g.got
          /\ Asks(IndexAnswers("request", Cardinality(visible)),
                  LAMBDA n : [g EXCEPT !.got = @ \cup {"count"}, !.es = IF n = None THEN @ ELSE n])
       \/ /\ "entries" \notin g.got
          /\ Asks(Answers("request", Held),
                  LAMBDA s : [g EXCEPT !.got = @ \cup {"entries"},
                                       !.quarantined = IF s = None THEN @ ELSE s])
       \/ /\ g.got = {"count", "entries"}
          /\ Local([Goes("round") EXCEPT !.got = {}])

Written == g.es - g.base

(* The loop ends when the batch has arrived, or at its deadline. *)
Round ==
    /\ At("round")
    /\ \/ Local(Goes("last"))
       \/ /\ Written < Cardinality(Valid) \/ Cardinality(g.quarantined) < Cardinality(Poison)
          /\ Local(Goes("refresh4"))

(* Faulty: nobody looks at the documents. *)
Passed4ByQueue(rows) ==
    Cardinality(rows) = Cardinality(Poison) /\ \A row \in rows : row[2] = "PENDING"

(* evaluateGate4PartialFailure, and the context of the entries read last.  *)
Passed4(rows) ==
    /\ Written = Cardinality(Valid)
    /\ Cardinality(rows) = Cardinality(Poison)
    /\ \A row \in rows : row[2] = "PENDING"

Judge4 ==
    /\ At("judge4")
    /\ Asks(Answers("request", Held),
            LAMBDA s : Ends(IF Passed4(IF s = None \/ s = {} THEN g.quarantined ELSE s)
                            THEN "PASS" ELSE "FAIL"))

Gate4 ==
    /\ Gate = 4
    /\ \/ ClearQueue \/ Refreshes("refresh", "initial") \/ InitialCount \/ Seed
       \/ Refreshes("refresh4", "both") \/ ReadBoth \/ Round
       \/ Refreshes("last", "lastCount") \/ Counts("lastCount", "judge4") \/ Judge4

----------------------------------------------------------------------------

(* A statement that throws when it fails. *)
Throws ==
    /\ g.pc \in {"count", "mutate", "delete", "seed", "poison"} \/ (At("judge3") /\ CanaryDue)
    /\ May("request") /\ trouble' = trouble \cup {"request"}
    /\ g' = Fails
    /\ UNCHANGED <<version, sinkVars, queueVars, daemonVars, up>>

Suite ==
    \/ StartGate \/ NextGate \/ CountSource \/ SelectQuarantined \/ Quiesce \/ Throws
    \/ Gate2 \/ Gate3 \/ Gate4

(* Of the telemetry only what is reported while a gate asks for it. *)
GatesNext == Suite \/ (World /\ UNCHANGED g) \/ (At("quiesce") /\ Report /\ UNCHANGED g)

GatesSpec == GatesInit /\ [][GatesNext]_gateVars
----------------------------------------------------------------------------
(* Properties *)

GatesTypeOK ==
    /\ version \in [Rows -> Nat] /\ index \in [Rows -> Nat] /\ reached \in [Rows -> Nat]
    /\ visible \subseteq Rows /\ flight \subseteq Source \X (Nat \ {0})
    /\ entry \in [Rows -> {"NONE", "PENDING", "RESOLVED"}] /\ replays \subseteq Rows
    /\ todo \subseteq Source
    /\ breaker \in [state : {"CLOSED", "OPEN", "HALF_OPEN"}, trips : Nat]
    /\ g.verdict \in {"NONE", "PASS", "FAIL"} /\ g.canaries <= MaxCanaries
    /\ g.es \in Nat \cup {None} /\ g.unique \in Nat \cup {None}

Passes(gate) == At("verdict") /\ Gate = gate /\ g.verdict = "PASS"

Accounted(r) == index[r] > 0 \/ entry[r] = "PENDING"

Lost == {r \in Source : ~Accounted(r)}

(* A PASS of gate 2 means "every source record is either indexed or        *)
(* quarantined" (gate2.js:97) but for what its numbers, read at different  *)
(* times, cannot tell apart: as many rows may be lost as were inserted     *)
(* after it had counted the source, or indexed after it had counted them   *)
(* as quarantined and missing.  With none of these nothing is lost,        *)
(* whatever the runners, a replay and the consumer do meanwhile; unless an *)
(* _mget failed.                                                           *)
ParityMeansAccounted ==
    Passes(2) /\ "mget" \notin trouble =>
        Cardinality(Lost) <= Cardinality(Source \ g.source) + Cardinality(g.absent \cap Documents)

(* A PASS of gate 3 means "no records dropped or lost during receiver      *)
(* blackout" (common.js:594): the index took every row the gate changed,   *)
(* by its canaries too, at its version or a later one, though an older     *)
(* request may have overwritten it by now; unless an _mget failed.         *)
PassMeansLanded ==
    Passes(3) /\ "mget" \notin trouble => \A r \in Rows : reached[r] >= g.want[r]

(* However gate 3 ends, Elasticsearch is running again after it; unless    *)
(* docker start failed.                                                    *)
ReceiverLeftUp == At("verdict") /\ Gate = 3 /\ "start" \notin trouble => up

(* A PASS of gate 4 means that its valid rows are indexed and its poison   *)
(* pills are quarantined and nowhere else, if nothing but the batch was on *)
(* its way to the index: no row to do, no request in flight, and nobody    *)
(* else who writes or replays.                                             *)
IsolationProved ==
    Passes(4) /\ g.clean /\ trouble \cap {"replay", "write"} = {} =>
        /\ \A r \in Valid : index[r] > 0
        /\ \A r \in Poison : index[r] = 0 /\ entry[r] = "PENDING"

(* Of gate 2, as it says itself: "either indexed or quarantined - never    *)
(* neither" (gate2.js:97); though none of its requests failed.             *)
PassMeansAccounted == Passes(2) /\ "mget" \notin trouble => Lost = {}

(* Of gate 3, whatever fails: as PassMeansLanded. *)
PassMeansLandedAnyway == Passes(3) => \A r \in Rows : reached[r] >= g.want[r]

(* Of gate 3, when it ends: no row it changed has an older document.       *)
PassMeansIndexed == Passes(3) /\ "mget" \notin trouble => \A r \in Rows : index[r] >= g.want[r]

(* Gate 4 asserts exact numbers of a pipeline it found quiescent: "only    *)
(* exact if no other traffic (background backfill or CDC backlog) is       *)
(* landing in the sink" (gate4.js:58).                                     *)
QuiescedMeansClean == At("seed") /\ g.quiesced /\ trouble = {} => g.clean

(* "every source record is either indexed or quarantined - never neither,  *)
(* never twice" (gate2.js:97): a record the gates found accounted for      *)
(* stays so.                                                               *)
NeverNeither == [][\A r \in Rows : Accounted(r) => Accounted(r)']_gateVars
=============================================================================
