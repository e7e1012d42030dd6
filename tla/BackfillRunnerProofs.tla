------------------------ MODULE BackfillRunnerProofs ------------------------
(***************************************************************************)
(* Proofs about BackfillRunner, for any set of rows, any batch size, any   *)
(* number of overlapping activations of start(), failures and crashes; and *)
(* about CrashDrill, the gate that drives it.                              *)
(***************************************************************************)
EXTENDS CrashDrill, FiniteSetTheorems, NaturalsInduction,
        WellFoundedInduction, TLAPS

----------------------------------------------------------------------------
(* Sets of rows *)

LEMMA RowSets ==
    ASSUME NEW S \in SUBSET Rows
    PROVE  IsFiniteSet(S) /\ Cardinality(S) \in Nat
BY RowsAssumption, FS_Subset, FS_CardinalityType

LEMMA RowsAreNaturals == Rows \subseteq Nat /\ 0 \in Nat /\ 0 \notin Rows
BY RowsAssumption

(* The rows that failed are some of the rows of the batch, so the count of *)
(* the others is not negative.                                             *)
LEMMA CountsAreNatural ==
    ASSUME NEW l \in Loops, TypeOK, rejected[l] \subseteq batch[l] \X Sinks
    PROVE  FailedCount(l) \in Nat /\ SuccessCount(l) \in Nat
<1> DEFINE F == FailedIds(rejected[l])
<1>1. batch[l] \in SUBSET Rows
  BY DEF TypeOK
<1>2. F \in SUBSET batch[l]
  BY <1>1 DEF FailedIds
<1>3. IsFiniteSet(batch[l]) /\ Cardinality(batch[l]) \in Nat
  BY <1>1, RowSets
<1>4. Cardinality(F) \in Nat /\ Cardinality(F) <= Cardinality(batch[l])
  BY <1>2, <1>3, FS_Subset, FS_CardinalityType
<1> QED
  BY <1>3, <1>4 DEF FailedCount, SuccessCount

----------------------------------------------------------------------------
(* Type correctness *)

(* What a sink reported as failed belongs to the batch in hand: without it *)
(* the count of the rows that succeeded could not be shown to be natural.  *)
TypeInv == TypeOK /\ \A l \in Loops : rejected[l] \subseteq batch[l] \X Sinks

LEMMA TypeInit == Init => TypeInv
<1> SUFFICES ASSUME Init PROVE TypeInv
  OBVIOUS
<1> USE DEF Init, Statuses, Awaits, Sinks
<1>1. /\ table \subseteq Rows
      /\ cp \in [id : Rows \cup {0}, processed : Nat, failed : Nat, status : Statuses]
  BY RowsAssumption
<1>2. /\ pc \in [Loops -> Awaits]
      /\ seen \in [Loops -> Rows \cup {0}]
      /\ from \in [Loops -> Rows \cup {0}]
      /\ batch \in [Loops -> SUBSET Rows]
      /\ acked \in [Loops -> SUBSET Sinks]
      /\ rejected \in [Loops -> SUBSET (Rows \X Sinks)]
  OBVIOUS
<1> QED
  BY <1>1, <1>2 DEF TypeInv, TypeOK

LEMMA TypeProgress ==
    ASSUME TypeInv, NEW l \in Loops, Progress(l)
    PROVE  TypeInv'
<1> USE DEF TypeInv, TypeOK, dbVars, fieldVars, envVars, faultVars, loopVars,
            Goto, Statuses, Awaits, SetStatus
<1>1. CASE ReadCheckpoint(l)
  BY <1>1 DEF ReadCheckpoint
<1>2. CASE ResumeFromCheckpoint(l)
  BY <1>2 DEF ResumeFromCheckpoint, RecoveredCursor
<1>3. CASE SetRunning(l)
  BY <1>3 DEF SetRunning, LoopTest
<1>4. CASE FetchBatch(l)
  BY <1>4 DEF FetchBatch, NextBatch
<1>5. CASE FetchNothing(l)
  BY <1>5 DEF FetchNothing
<1>6. CASE SetCompleted(l)
  BY <1>6 DEF SetCompleted, FinalStatus
<1>7. ASSUME NEW s \in Sinks, SinkAck(l, s)
      PROVE  TypeInv'
  BY <1>7 DEF SinkAck, SinkFault, MayHold
<1>8. CASE Dispatched(l)
  BY <1>8 DEF Dispatched
<1>9. CASE PersistFailures(l)
  BY <1>9 DEF PersistFailures, Quarantined
<1>10. CASE CommitCheckpoint(l)
  <2>1. FailedCount(l) \in Nat /\ SuccessCount(l) \in Nat
    <3> HIDE DEF TypeOK
    <3> QED
      BY CountsAreNatural
  <2>2. PICK r \in Rows :
          cp' = [cp EXCEPT !.id = r, !.processed = @ + SuccessCount(l), !.failed = @ + FailedCount(l)]
    BY <1>10 DEF CommitCheckpoint
  <2>3. cp' \in [id : Rows \cup {0}, processed : Nat, failed : Nat, status : Statuses]
    <3>1. cp \in [id : Rows \cup {0}, processed : Nat, failed : Nat, status : Statuses]
      OBVIOUS
    <3>2. cp.processed + SuccessCount(l) \in Nat /\ cp.failed + FailedCount(l) \in Nat
      BY <3>1, <2>1
    <3> HIDE DEF Statuses, TypeInv, TypeOK
    <3> QED
      BY <3>1, <3>2, <2>2
  <2>4. /\ pc' = [pc EXCEPT ![l] = "committed"]
        /\ UNCHANGED <<table, dlq, delivered, fieldVars, seen, from, batch, acked, rejected,
                       envVars, faultVars>>
    BY <1>10 DEF CommitCheckpoint
  <2> QED
    BY <2>3, <2>4
<1>11. CASE Committed(l)
  BY <1>11 DEF Committed, LoopTest, Forget
<1>12. CASE SetFailed(l)
  BY <1>12 DEF SetFailed
<1> QED
  BY <1>1, <1>2, <1>3, <1>4, <1>5, <1>6, <1>7, <1>8, <1>9, <1>10, <1>11, <1>12
  DEF Progress

LEMMA TypeNext ==
    ASSUME TypeInv, Next
    PROVE  TypeInv'
<1> USE DEF TypeInv, TypeOK, dbVars, fieldVars, envVars, faultVars, loopVars,
            Goto, Statuses, Awaits, SetStatus, QueryFault, Catch, Forget
<1>1. ASSUME NEW l \in Loops, Progress(l)
      PROVE  TypeInv'
  BY <1>1, TypeProgress
<1>2. ASSUME NEW l \in Loops, QueryFailsOutside(l)
      PROVE  TypeInv'
  BY <1>2 DEF QueryFailsOutside
<1>3. ASSUME NEW l \in Loops, QueryFailsInside(l)
      PROVE  TypeInv'
  BY <1>3 DEF QueryFailsInside, Quarantined
<1>4. ASSUME NEW l \in Loops, NEW s \in Sinks, SinkReject(l, s)
      PROVE  TypeInv'
  BY <1>4 DEF SinkReject, SinkFault, MayReach
<1>5. ASSUME NEW l \in Loops, Resume(l) \/ Launch(l)
      PROVE  TypeInv'
  <2>1. /\ pc' = [pc EXCEPT ![l] = "getCheckpoint"]
        /\ stopRequested' = FALSE
        /\ proc' \in {proc, "up"}
        /\ commands' \in {commands, commands + 1}
        /\ UNCHANGED <<dbVars, delivered, status, lastProcessedId, seen, from, batch,
                       acked, rejected, pausing, orphans, crashes, faultVars>>
    BY <1>5 DEF Resume, Launch, Enter
  <2>2. pc' \in [Loops -> Awaits]
    BY <2>1
  <2>3. stopRequested' \in BOOLEAN
    BY <2>1
  <2>4. proc' \in {"down", "booting", "up"}
    BY <2>1
  <2>5. commands' \in Nat
    BY <2>1
  <2>6. UNCHANGED <<table, cp, dlq, delivered, status, lastProcessedId, seen, from, batch,
                       acked, rejected, pausing, orphans, crashes, queryFaults, sinkFaults>>
    BY <2>1
  <2> QED
    BY <2>2, <2>3, <2>4, <2>5, <2>6
<1>6. CASE Pause
  BY <1>6 DEF Pause
<1>7. CASE SetPaused
  BY <1>7 DEF SetPaused
<1>8. CASE OrphanSettles
  <2>1. /\ orphans' \subseteq orphans
        /\ delivered' \subseteq Rows \X Sinks
        /\ UNCHANGED <<dbVars, fieldVars, loopVars, proc, pausing, crashes, commands, faultVars>>
    BY <1>8 DEF OrphanSettles
  <2> QED
    BY <2>1
<1>9. CASE Crash
  <2>1. PICK es \in SUBSET InFlight("ELASTICSEARCH"), rmq \in SUBSET InFlight("RABBITMQ") :
          delivered' = delivered \cup (es \X {"ELASTICSEARCH"}) \cup (rmq \X {"RABBITMQ"})
    BY <1>9 DEF Crash
  <2>2. delivered' \subseteq Rows \X Sinks
    BY <2>1 DEF InFlight, Sinks
  <2>3. /\ pc' \in [Loops -> Awaits]
        /\ seen' \in [Loops -> Rows \cup {0}]
        /\ from' \in [Loops -> Rows \cup {0}]
    BY <1>9 DEF Crash
  <2>4. /\ batch' \in [Loops -> SUBSET Rows]
        /\ acked' \in [Loops -> SUBSET Sinks]
        /\ rejected' \in [Loops -> SUBSET (Rows \X Sinks)]
        /\ \A m \in Loops : rejected'[m] \subseteq batch'[m] \X Sinks
    BY <1>9 DEF Crash
  <2>5. /\ proc' \in {"down", "booting", "up"}
        /\ status' \in Statuses
        /\ lastProcessedId' \in Rows \cup {0}
        /\ stopRequested' \in BOOLEAN
        /\ pausing' \in Nat
        /\ orphans' \subseteq (SUBSET Rows) \X Sinks
        /\ crashes' \in Nat
        /\ UNCHANGED <<table, cp, dlq, commands, queryFaults, sinkFaults>>
    <3>1. /\ proc' = "down" /\ status' = "INITIALIZED" /\ lastProcessedId' = 0
          /\ stopRequested' = FALSE /\ pausing' = 0 /\ orphans' = {}
          /\ crashes' = crashes + 1
          /\ UNCHANGED <<table, cp, dlq, commands, queryFaults, sinkFaults>>
      BY <1>9 DEF Crash
    <3>2. stopRequested' \in BOOLEAN
      BY <3>1
    <3>3. crashes' \in Nat
      BY <3>1
    <3> QED
      BY <3>1, <3>2, <3>3
  <2> QED
    BY <2>2, <2>3, <2>4, <2>5
<1>10. CASE Boot
  BY <1>10 DEF Boot
<1>11. CASE InsertRow
  BY <1>11 DEF InsertRow
<1> QED
  BY <1>1, <1>2, <1>3, <1>4, <1>5, <1>6, <1>7, <1>8, <1>9, <1>10, <1>11
  DEF Next

(* Every variable keeps its type; in particular the counters of the        *)
(* checkpoint never become negative.                                       *)
THEOREM TypeCorrect == Spec => []TypeOK
<1>1. TypeInv /\ UNCHANGED vars => TypeInv'
  BY DEF TypeInv, TypeOK, vars, dbVars, fieldVars, envVars, faultVars, loopVars
<1>2. TypeInv => TypeOK
  BY DEF TypeInv
<1> QED
  BY TypeInit, TypeNext, <1>1, <1>2, PTL DEF Spec

----------------------------------------------------------------------------
(* What fetchBackfillBatch returns *)

(* LIMIT cuts at the far end only: no row is left out between the cursor   *)
(* and a row of the batch.                                                 *)
LEMMA BatchHasNoGap ==
    ASSUME table \subseteq Rows, NEW after \in Nat,
           NEW q \in NextBatch(after), NEW r \in table, after < r, r <= q
    PROVE  r \in NextBatch(after)
<1> DEFINE Upto(x) == {y \in table : after < y /\ y <= x}
<1>1. q \in Nat /\ r \in Nat /\ \A y \in table : y \in Nat
  BY RowsAssumption DEF NextBatch
<1>2. ASSUME NEW y \in Upto(r) PROVE y \in Upto(q)
  BY <1>1
<1>3. Upto(q) \in SUBSET Rows /\ Upto(r) \in SUBSET Rows
  OBVIOUS
<1>4. IsFiniteSet(Upto(q)) /\ Cardinality(Upto(q)) \in Nat /\ Cardinality(Upto(r)) \in Nat
  BY <1>3, RowSets
<1>5. Cardinality(Upto(r)) <= Cardinality(Upto(q))
  <2>1. Upto(r) \in SUBSET Upto(q)
    BY <1>2
  <2> QED
    BY <2>1, <1>4, FS_Subset
<1>6. Cardinality(Upto(q)) <= BatchSize
  BY DEF NextBatch
<1>7. Cardinality(Upto(r)) <= BatchSize
  <2> HIDE DEF Upto
  <2> QED
    BY <1>4, <1>5, <1>6, BatchSizeAssumption
<1> QED
  BY <1>7 DEF NextBatch

(* An empty batch means that the table holds nothing beyond the cursor.    *)
LEMMA EmptyBatchIsTheEnd ==
    ASSUME table \subseteq Rows, NEW after \in Nat, NextBatch(after) = {}
    PROVE  \A r \in table : r <= after
<1> DEFINE Beyond == {r \in table : after < r}
<1>1. ASSUME Beyond # {} PROVE FALSE
  <2>1. Beyond \subseteq Nat
    BY RowsAssumption
  <2>2. PICK x \in Beyond : \A y \in Beyond : ~ (<<y, x>> \in OpToRel(<, Nat))
    BY <1>1, <2>1, WFMin, NatLessThanWellFounded
  <2>3. \A y \in Beyond : ~ (y < x)
    BY <2>1, <2>2 DEF OpToRel
  <2>4. {q \in table : after < q /\ q <= x} = {x}
    BY <2>1, <2>3
  <2>5. Cardinality({q \in table : after < q /\ q <= x}) <= BatchSize
    BY <2>4, FS_Singleton, BatchSizeAssumption
  <2>6. x \in NextBatch(after)
    BY <2>5 DEF NextBatch
  <2> QED
    BY <2>6
<1> QED
  BY <1>1, RowsAssumption

----------------------------------------------------------------------------
(* No record is lost *)

(* The batch an activation holds: no historical row is missing between its *)
(* cursor and its last row; a row answered for by a sink was received or   *)
(* reported; after the dispatch both sinks answered; before the commit the *)
(* rows reported were quarantined.                                         *)
BatchOK(l) ==
    pc[l] \in {"dispatch", "persist", "commit", "committed"} =>
      /\ \A r \in History, q \in batch[l] : r <= q => r \in batch[l] \/ r <= from[l]
      /\ \A r \in batch[l], s \in acked[l] : <<r, s>> \in delivered \cup rejected[l]
      /\ pc[l] # "dispatch" => acked[l] = Sinks
      /\ pc[l] \in {"commit", "committed"} => rejected[l] \subseteq dlq

(* Every position an activation may still act upon is covered: the one     *)
(* persisted, the one in memory, those read from a checkpoint and not yet  *)
(* used, and those a query was issued with.                                *)
PositionsCovered ==
    /\ Covered(cp.id)
    /\ Covered(lastProcessedId)
    /\ \A l \in Loops : Covered(seen[l]) /\ Covered(from[l])

CompletionJustified ==
    \/ status = "COMPLETED"
    \/ cp.status = "COMPLETED"
    \/ \E l \in Loops : pc[l] = "setCompleted"
    => HistoryReplicated

CoverInv ==
    /\ History \subseteq table
    /\ PositionsCovered
    /\ \A l \in Loops : BatchOK(l)
    /\ CompletionJustified

(* Once both sinks answered and the reported rows are quarantined, the     *)
(* batch extends what its cursor covers up to each of its rows.            *)
LEMMA BatchExtendsCover ==
    ASSUME TypeInv, NEW l \in Loops, BatchOK(l), Covered(from[l]),
           pc[l] \in {"commit", "committed"}, NEW q \in batch[l]
    PROVE  Covered(q)
<1> SUFFICES ASSUME NEW r \in History, r <= q, NEW s \in Sinks
             PROVE  Accounted(r, s)
  BY DEF Covered
<1>1. CASE r \in batch[l]
  BY <1>1 DEF BatchOK, Accounted
<1>2. CASE r <= from[l]
  BY <1>2 DEF Covered
<1> QED
  BY <1>1, <1>2 DEF BatchOK

LEMMA CoverInit == Init => CoverInv
<1> SUFFICES ASSUME Init PROVE CoverInv
  OBVIOUS
<1>1. Covered(0)
  BY RowsAssumption DEF Covered
<1> QED
  BY <1>1 DEF Init, CoverInv, PositionsCovered, BatchOK, CompletionJustified

(* Four traits of a step.  It only adds to what is accounted for; each     *)
(* position it sets was covered before; it does not disturb the batches of *)
(* other activations; it does not bring an activation to the end of the    *)
(* table.                                                                  *)
Grows ==
    /\ delivered \subseteq delivered'
    /\ dlq \subseteq dlq'

MovesToCovered ==
    /\ Covered(cp'.id) /\ Covered(lastProcessedId')
    /\ \A m \in Loops : Covered(seen'[m]) /\ Covered(from'[m])

LeavesOthers(l) ==
    \A m \in Loops \ {l} :
      /\ pc'[m] = pc[m] /\ from'[m] = from[m] /\ batch'[m] = batch[m]
      /\ acked'[m] = acked[m] /\ rejected'[m] = rejected[m]

CompletesNothing ==
    /\ status' = "COMPLETED" => status = "COMPLETED"
    /\ cp'.status = "COMPLETED" =>
          cp.status = "COMPLETED" \/ \E m \in Loops : pc[m] = "setCompleted"
    /\ \A m \in Loops : pc'[m] = "setCompleted" => pc[m] = "setCompleted"

LEMMA HistoryGrows ==
    ASSUME Grows, HistoryReplicated
    PROVE  HistoryReplicated'
BY DEF Grows, HistoryReplicated, Accounted

LEMMA PositionsKept ==
    ASSUME Grows, MovesToCovered
    PROVE  PositionsCovered'
BY DEF Grows, Covered, Accounted, PositionsCovered, MovesToCovered

LEMMA CompletionKept ==
    ASSUME Grows, CompletionJustified, CompletesNothing
    PROVE  CompletionJustified'
BY HistoryGrows DEF CompletionJustified, CompletesNothing

LEMMA OtherBatchesKept ==
    ASSUME Grows, NEW l \in Loops, LeavesOthers(l), NEW m \in Loops \ {l}, BatchOK(m)
    PROVE  BatchOK(m)'
BY DEF Grows, LeavesOthers, BatchOK

(* What has to be shown of one step of one activation. *)
LEMMA StepOfActivation ==
    ASSUME CoverInv, NEW l \in Loops, Grows, History \subseteq table', LeavesOthers(l),
           MovesToCovered, BatchOK(l)', CompletionJustified'
    PROVE  CoverInv'
<1>1. \A m \in Loops : BatchOK(m)'
  BY OtherBatchesKept DEF CoverInv
<1> QED
  BY <1>1, PositionsKept DEF CoverInv

(* CoverInv as the steps use it. *)
LEMMA CoveredPositions ==
    ASSUME CoverInv
    PROVE  /\ Covered(cp.id) /\ Covered(lastProcessedId) /\ Covered(0)
           /\ \A m \in Loops : Covered(seen[m]) /\ Covered(from[m])
           /\ History \subseteq table /\ CompletionJustified
<1>1. Covered(0)
  <2>1. \A r \in History : ~(r <= 0)
    BY RowsAssumption
  <2> QED
    BY <2>1 DEF Covered
<1> QED
  BY <1>1 DEF CoverInv, PositionsCovered

LEMMA CursorIsNatural ==
    ASSUME TypeInv, NEW l \in Loops
    PROVE  from[l] \in Nat /\ table \subseteq Rows
<1>1. from[l] \in Rows \cup {0} /\ table \subseteq Rows
  BY DEF TypeInv, TypeOK
<1> QED
  BY <1>1, RowsAreNaturals

LEMMA CoverProgress ==
    ASSUME TypeInv, CoverInv, NEW l \in Loops, Progress(l)
    PROVE  CoverInv'
<1>0. /\ Covered(cp.id) /\ Covered(lastProcessedId) /\ Covered(0)
      /\ \A m \in Loops : Covered(seen[m]) /\ Covered(from[m])
  BY CoveredPositions
<1> USE DEF TypeInv, TypeOK, CoverInv, dbVars, fieldVars, envVars, faultVars, loopVars,
            Goto, SetStatus
<1>1. CASE ReadCheckpoint(l)
  <2>1. Grows /\ History \subseteq table' /\ LeavesOthers(l)
    BY <1>1 DEF Grows, LeavesOthers, ReadCheckpoint
  <2>2. MovesToCovered
    BY <1>0, <1>1 DEF MovesToCovered, ReadCheckpoint
  <2>3. BatchOK(l)'
    BY <1>1 DEF BatchOK, ReadCheckpoint
  <2>4. CompletionJustified'
    <3>1. CompletesNothing
      BY <1>1 DEF CompletesNothing, ReadCheckpoint
    <3> QED
      BY <2>1, <3>1, CompletionKept
  <2> QED
    BY <2>1, <2>2, <2>3, <2>4, StepOfActivation
<1>2. CASE ResumeFromCheckpoint(l)
  <2>1. Grows /\ History \subseteq table' /\ LeavesOthers(l)
    BY <1>2 DEF Grows, LeavesOthers, ResumeFromCheckpoint, RecoveredCursor
  <2>2. MovesToCovered
    BY <1>0, <1>2 DEF MovesToCovered, ResumeFromCheckpoint, RecoveredCursor
  <2>3. BatchOK(l)'
    BY <1>2 DEF BatchOK, ResumeFromCheckpoint, RecoveredCursor
  <2>4. CompletionJustified'
    <3>1. CompletesNothing
      BY <1>2 DEF CompletesNothing, ResumeFromCheckpoint, RecoveredCursor
    <3> QED
      BY <2>1, <3>1, CompletionKept
  <2> QED
    BY <2>1, <2>2, <2>3, <2>4, StepOfActivation
<1>3. CASE SetRunning(l)
  <2>1. Grows /\ History \subseteq table' /\ LeavesOthers(l)
    BY <1>3 DEF Grows, LeavesOthers, SetRunning, LoopTest
  <2>2. MovesToCovered
    BY <1>0, <1>3 DEF MovesToCovered, SetRunning, LoopTest
  <2>3. BatchOK(l)'
    BY <1>3 DEF BatchOK, SetRunning, LoopTest
  <2>4. CompletionJustified'
    <3>1. CompletesNothing
      BY <1>3 DEF CompletesNothing, SetRunning, LoopTest
    <3> QED
      BY <2>1, <3>1, CompletionKept
  <2> QED
    BY <2>1, <2>2, <2>3, <2>4, StepOfActivation
<1>4. CASE FetchBatch(l)
  <2>1. Grows /\ History \subseteq table' /\ LeavesOthers(l)
    BY <1>4 DEF Grows, LeavesOthers, FetchBatch
  <2>2. MovesToCovered
    BY <1>0, <1>4 DEF MovesToCovered, FetchBatch
  <2>3. BatchOK(l)'
    <3>1. batch'[l] = NextBatch(from[l]) /\ acked'[l] = {} /\ from'[l] = from[l]
      BY <1>4 DEF FetchBatch
    <3>2. from[l] \in Nat /\ table \subseteq Rows
      BY CursorIsNatural
    <3>3. ASSUME NEW r \in History, NEW q \in batch'[l], r <= q
          PROVE  r \in batch'[l] \/ r <= from'[l]
      BY <3>1, <3>2, <3>3, BatchHasNoGap, RowsAssumption
    <3>4. pc'[l] = "dispatch"
      BY <1>4 DEF FetchBatch
    <3> QED
      BY <3>1, <3>3, <3>4 DEF BatchOK
  <2>4. CompletionJustified'
    <3>1. CompletesNothing
      BY <1>4 DEF CompletesNothing, FetchBatch
    <3> QED
      BY <2>1, <3>1, CompletionKept
  <2> QED
    BY <2>1, <2>2, <2>3, <2>4, StepOfActivation
<1>5. CASE FetchNothing(l)
  <2>1. Grows /\ History \subseteq table' /\ LeavesOthers(l)
    BY <1>5 DEF Grows, LeavesOthers, FetchNothing
  <2>2. MovesToCovered
    BY <1>0, <1>5 DEF MovesToCovered, FetchNothing
  <2>3. BatchOK(l)'
    BY <1>5 DEF BatchOK, FetchNothing
  <2>4. CompletionJustified'
    <3>1. \A r \in table : r <= from[l]
      BY <1>5, EmptyBatchIsTheEnd, CursorIsNatural DEF FetchNothing, EndOfTable
    <3>2. HistoryReplicated
      BY <1>0, <3>1 DEF HistoryReplicated, Covered
    <3> QED
      BY <2>1, <3>2, HistoryGrows DEF CompletionJustified
  <2> QED
    BY <2>1, <2>2, <2>3, <2>4, StepOfActivation
<1>6. CASE SetCompleted(l)
  <2>1. Grows /\ History \subseteq table' /\ LeavesOthers(l)
    BY <1>6 DEF Grows, LeavesOthers, SetCompleted, FinalStatus
  <2>2. MovesToCovered
    BY <1>0, <1>6 DEF MovesToCovered, SetCompleted, FinalStatus
  <2>3. BatchOK(l)'
    BY <1>6 DEF BatchOK, SetCompleted, FinalStatus
  <2>4. CompletionJustified'
    <3>1. CompletesNothing
      BY <1>6 DEF CompletesNothing, SetCompleted, FinalStatus
    <3> QED
      BY <2>1, <3>1, CompletionKept
  <2> QED
    BY <2>1, <2>2, <2>3, <2>4, StepOfActivation
<1>7. ASSUME NEW s \in Sinks, SinkAck(l, s)
      PROVE  CoverInv'
  <2>1. Grows /\ History \subseteq table' /\ LeavesOthers(l)
    BY <1>7 DEF Grows, LeavesOthers, SinkAck
  <2>2. MovesToCovered
    BY <1>0, <1>7 DEF MovesToCovered, SinkAck
  <2>3. BatchOK(l)'
    <3>1. PICK failed \in SUBSET batch[l] :
            /\ (batch[l] \ failed) \X {s} \subseteq delivered'
            /\ rejected'[l] = rejected[l] \cup (failed \X {s})
      BY <1>7 DEF SinkAck
    <3>2. /\ pc[l] = "dispatch" /\ pc'[l] = "dispatch"
          /\ batch'[l] = batch[l] /\ from'[l] = from[l] /\ acked'[l] = acked[l] \cup {s}
      BY <1>7 DEF SinkAck
    <3>3. ASSUME NEW r \in batch[l], NEW t \in acked'[l]
          PROVE  <<r, t>> \in delivered' \cup rejected'[l]
      <4>1. CASE t = s
        BY <3>1, <4>1
      <4>2. CASE t \in acked[l]
        BY <2>1, <3>1, <3>2, <4>2 DEF BatchOK, Grows
      <4> QED
        BY <3>2, <3>3, <4>1, <4>2
    <3> QED
      BY <3>2, <3>3 DEF BatchOK
  <2>4. CompletionJustified'
    <3>1. CompletesNothing
      BY <1>7 DEF CompletesNothing, SinkAck
    <3> QED
      BY <2>1, <3>1, CompletionKept
  <2> QED
    BY <2>1, <2>2, <2>3, <2>4, StepOfActivation
<1>8. CASE Dispatched(l)
  <2>1. Grows /\ History \subseteq table' /\ LeavesOthers(l)
    BY <1>8 DEF Grows, LeavesOthers, Dispatched, DispatchedByAll
  <2>2. MovesToCovered
    BY <1>0, <1>8 DEF MovesToCovered, Dispatched, DispatchedByAll
  <2>3. BatchOK(l)'
    BY <1>8 DEF BatchOK, Dispatched, DispatchedByAll, MustQuarantine
  <2>4. CompletionJustified'
    <3>1. CompletesNothing
      BY <1>8 DEF CompletesNothing, Dispatched, DispatchedByAll
    <3> QED
      BY <2>1, <3>1, CompletionKept
  <2> QED
    BY <2>1, <2>2, <2>3, <2>4, StepOfActivation
<1>9. CASE PersistFailures(l)
  <2>1. Grows /\ History \subseteq table' /\ LeavesOthers(l)
    BY <1>9 DEF Grows, LeavesOthers, PersistFailures, Quarantined
  <2>2. MovesToCovered
    BY <1>0, <1>9 DEF MovesToCovered, PersistFailures, Quarantined
  <2>3. BatchOK(l)'
    BY <1>9 DEF BatchOK, PersistFailures, Quarantined
  <2>4. CompletionJustified'
    <3>1. CompletesNothing
      BY <1>9 DEF CompletesNothing, PersistFailures, Quarantined
    <3> QED
      BY <2>1, <3>1, CompletionKept
  <2> QED
    BY <2>1, <2>2, <2>3, <2>4, StepOfActivation
<1>10. CASE CommitCheckpoint(l)
  <2>1. Grows /\ History \subseteq table' /\ LeavesOthers(l)
    BY <1>10 DEF Grows, LeavesOthers, CommitCheckpoint
  <2>2. MovesToCovered
    <3>1. PICK r \in batch[l] : cp'.id = r
      BY <1>10 DEF CommitCheckpoint, IsLastOf
    <3>2. Covered(r)
      BY <1>0, <1>10, BatchExtendsCover DEF CommitCheckpoint
    <3> QED
      BY <1>0, <1>10, <3>1, <3>2 DEF MovesToCovered, CommitCheckpoint
  <2>3. BatchOK(l)'
    BY <1>10 DEF BatchOK, CommitCheckpoint
  <2>4. CompletionJustified'
    <3>1. CompletesNothing
      BY <1>10 DEF CompletesNothing, CommitCheckpoint
    <3> QED
      BY <2>1, <3>1, CompletionKept
  <2> QED
    BY <2>1, <2>2, <2>3, <2>4, StepOfActivation
<1>11. CASE Committed(l)
  <2>1. Grows /\ History \subseteq table' /\ LeavesOthers(l)
    BY <1>11 DEF Grows, LeavesOthers, Committed, LoopTest, Forget
  <2>2. MovesToCovered
    <3>1. PICK r \in batch[l] : lastProcessedId' = r /\ LoopTest(l, r)
      BY <1>11 DEF Committed, IsLastOf
    <3>2. Covered(r)
      BY <1>0, <1>11, BatchExtendsCover DEF Committed
    <3> QED
      BY <1>0, <1>11, <3>1, <3>2 DEF MovesToCovered, Committed, LoopTest
  <2>3. BatchOK(l)'
    BY <1>11 DEF BatchOK, Committed, LoopTest, Forget
  <2>4. CompletionJustified'
    <3>1. CompletesNothing
      BY <1>11 DEF CompletesNothing, Committed, LoopTest, Forget
    <3> QED
      BY <2>1, <3>1, CompletionKept
  <2> QED
    BY <2>1, <2>2, <2>3, <2>4, StepOfActivation
<1>12. CASE SetFailed(l)
  <2>1. Grows /\ History \subseteq table' /\ LeavesOthers(l)
    BY <1>12 DEF Grows, LeavesOthers, SetFailed
  <2>2. MovesToCovered
    BY <1>0, <1>12 DEF MovesToCovered, SetFailed
  <2>3. BatchOK(l)'
    BY <1>12 DEF BatchOK, SetFailed
  <2>4. CompletionJustified'
    <3>1. CompletesNothing
      BY <1>12 DEF CompletesNothing, SetFailed
    <3> QED
      BY <2>1, <3>1, CompletionKept
  <2> QED
    BY <2>1, <2>2, <2>3, <2>4, StepOfActivation
<1> QED
  BY <1>1, <1>2, <1>3, <1>4, <1>5, <1>6, <1>7, <1>8, <1>9, <1>10, <1>11, <1>12 DEF Progress

(* What has to be shown of a step that moves no activation. *)
LEMMA StepOutside ==
    ASSUME CoverInv, Grows, History \subseteq table', UNCHANGED loopVars,
           MovesToCovered, CompletesNothing
    PROVE  CoverInv'
<1>1. ASSUME NEW m \in Loops PROVE BatchOK(m)'
  BY DEF CoverInv, BatchOK, Grows, loopVars
<1> QED
  BY <1>1, PositionsKept, CompletionKept DEF CoverInv

LEMMA CoverNext ==
    ASSUME TypeInv, CoverInv, Next
    PROVE  CoverInv'
<1>0. /\ Covered(cp.id) /\ Covered(lastProcessedId) /\ Covered(0)
      /\ \A m \in Loops : Covered(seen[m]) /\ Covered(from[m])
      /\ History \subseteq table /\ CompletionJustified
  BY CoveredPositions
<1> USE DEF TypeInv, TypeOK, dbVars, fieldVars, envVars, faultVars, loopVars,
            Goto, SetStatus, QueryFault, SinkFault, Catch, Forget, Enter
<1>1. ASSUME NEW l \in Loops, Progress(l)
      PROVE  CoverInv'
  BY <1>1, CoverProgress
<1>2. ASSUME NEW l \in Loops, QueryFailsOutside(l)
      PROVE  CoverInv'
  <2>1. Grows /\ History \subseteq table' /\ LeavesOthers(l)
    BY <1>0, <1>2 DEF Grows, LeavesOthers, QueryFailsOutside
  <2>2. MovesToCovered
    BY <1>0, <1>2 DEF MovesToCovered, QueryFailsOutside
  <2>3. BatchOK(l)'
    BY <1>2 DEF BatchOK, QueryFailsOutside
  <2>4. CompletesNothing
    BY <1>2 DEF CompletesNothing, QueryFailsOutside
  <2> QED
    BY <1>0, <2>1, <2>2, <2>3, <2>4, CompletionKept, StepOfActivation
<1>3. ASSUME NEW l \in Loops, QueryFailsInside(l)
      PROVE  CoverInv'
  <2>1. Grows /\ History \subseteq table' /\ LeavesOthers(l)
    BY <1>0, <1>3 DEF Grows, LeavesOthers, QueryFailsInside, Quarantined
  <2>2. MovesToCovered
    BY <1>0, <1>3 DEF MovesToCovered, QueryFailsInside, Quarantined
  <2>3. BatchOK(l)'
    BY <1>3 DEF BatchOK, QueryFailsInside, Quarantined
  <2>4. CompletesNothing
    BY <1>3 DEF CompletesNothing, QueryFailsInside, Quarantined
  <2> QED
    BY <1>0, <2>1, <2>2, <2>3, <2>4, CompletionKept, StepOfActivation
<1>4. ASSUME NEW l \in Loops, NEW s \in Sinks, SinkReject(l, s)
      PROVE  CoverInv'
  <2>1. Grows /\ History \subseteq table' /\ LeavesOthers(l)
    BY <1>0, <1>4 DEF Grows, LeavesOthers, SinkReject
  <2>2. MovesToCovered
    BY <1>0, <1>4 DEF MovesToCovered, SinkReject
  <2>3. BatchOK(l)'
    BY <1>4 DEF BatchOK, SinkReject
  <2>4. CompletesNothing
    BY <1>4 DEF CompletesNothing, SinkReject
  <2> QED
    BY <1>0, <2>1, <2>2, <2>3, <2>4, CompletionKept, StepOfActivation
<1>5. ASSUME NEW l \in Loops, Resume(l) \/ Launch(l)
      PROVE  CoverInv'
  <2>1. Grows /\ History \subseteq table' /\ LeavesOthers(l)
    BY <1>0, <1>5 DEF Grows, LeavesOthers, Resume, Launch
  <2>2. MovesToCovered
    BY <1>0, <1>5 DEF MovesToCovered, Resume, Launch
  <2>3. BatchOK(l)'
    BY <1>5 DEF BatchOK, Resume, Launch
  <2>4. CompletesNothing
    BY <1>5 DEF CompletesNothing, Resume, Launch
  <2> QED
    BY <1>0, <2>1, <2>2, <2>3, <2>4, CompletionKept, StepOfActivation
<1>6. CASE Pause
  <2>1. Grows /\ History \subseteq table' /\ UNCHANGED loopVars
    BY <1>0, <1>6 DEF Grows, Pause
  <2>2. MovesToCovered
    BY <1>0, <1>6 DEF MovesToCovered, Pause
  <2>3. CompletesNothing
    BY <1>6 DEF CompletesNothing, Pause
  <2> QED
    BY <2>1, <2>2, <2>3, StepOutside
<1>7. CASE SetPaused
  <2>1. Grows /\ History \subseteq table' /\ UNCHANGED loopVars
    BY <1>0, <1>7 DEF Grows, SetPaused
  <2>2. MovesToCovered
    BY <1>0, <1>7 DEF MovesToCovered, SetPaused
  <2>3. CompletesNothing
    BY <1>7 DEF CompletesNothing, SetPaused
  <2> QED
    BY <2>1, <2>2, <2>3, StepOutside
<1>8. CASE OrphanSettles
  <2>1. Grows /\ History \subseteq table' /\ UNCHANGED loopVars
    BY <1>0, <1>8 DEF Grows, OrphanSettles
  <2>2. MovesToCovered
    BY <1>0, <1>8 DEF MovesToCovered, OrphanSettles
  <2>3. CompletesNothing
    BY <1>8 DEF CompletesNothing, OrphanSettles
  <2> QED
    BY <2>1, <2>2, <2>3, StepOutside
<1>9. CASE Crash
  <2>1. Grows /\ History \subseteq table'
    BY <1>0, <1>9 DEF Grows, Crash
  <2>2. MovesToCovered
    BY <1>0, <1>9 DEF MovesToCovered, Crash
  <2>3. CompletesNothing
    BY <1>9 DEF CompletesNothing, Crash
  <2>4. \A m \in Loops : BatchOK(m)'
    BY <1>9 DEF BatchOK, Crash
  <2> QED
    BY <1>0, <2>1, <2>2, <2>3, <2>4, PositionsKept, CompletionKept DEF CoverInv
<1>10. CASE Boot
  <2>1. Grows /\ History \subseteq table' /\ UNCHANGED loopVars
    BY <1>0, <1>10 DEF Grows, Boot
  <2>2. MovesToCovered
    BY <1>0, <1>10 DEF MovesToCovered, Boot
  <2>3. CompletesNothing
    BY <1>10 DEF CompletesNothing, Boot
  <2> QED
    BY <2>1, <2>2, <2>3, StepOutside
<1>11. CASE InsertRow
  <2>1. Grows /\ History \subseteq table' /\ UNCHANGED loopVars
    BY <1>0, <1>11 DEF Grows, InsertRow
  <2>2. MovesToCovered
    BY <1>0, <1>11 DEF MovesToCovered, InsertRow
  <2>3. CompletesNothing
    BY <1>11 DEF CompletesNothing, InsertRow
  <2> QED
    BY <2>1, <2>2, <2>3, StepOutside
<1> QED
  BY <1>1, <1>2, <1>3, <1>4, <1>5, <1>6, <1>7, <1>8, <1>9, <1>10, <1>11 DEF Next

LEMMA Invariance == Spec => [](TypeInv /\ CoverInv)
<1>1. Init => TypeInv /\ CoverInv
  BY TypeInit, CoverInit
<1>2. TypeInv /\ CoverInv /\ [Next]_vars => (TypeInv /\ CoverInv)'
  <2>1. ASSUME TypeInv, CoverInv, Next PROVE (TypeInv /\ CoverInv)'
    BY <2>1, TypeNext, CoverNext
  <2>2. ASSUME TypeInv, CoverInv, UNCHANGED vars PROVE (TypeInv /\ CoverInv)'
    <3>1. TypeInv'
      BY <2>2 DEF TypeInv, TypeOK, vars, dbVars, fieldVars, envVars, faultVars, loopVars
    <3>2. CoverInv'
      BY <2>2 DEF CoverInv, PositionsCovered, CompletionJustified, BatchOK, Covered, Accounted,
                  HistoryReplicated, vars, dbVars, fieldVars, envVars, faultVars, loopVars
    <3> QED
      BY <3>1, <3>2
  <2> QED
    BY <2>1, <2>2
<1> QED
  BY <1>1, <1>2, PTL DEF Spec

(* The persisted watermark never passes a historical row that a sink       *)
(* neither acknowledged nor had quarantined, however many activations of   *)
(* start() overlap.                                                        *)
THEOREM NothingIsLost == Spec => []NoRecordLost
<1>1. CoverInv => NoRecordLost
  BY DEF CoverInv, PositionsCovered, NoRecordLost
<1> QED
  BY Invariance, <1>1, PTL

(* COMPLETED is never reported before every historical row is accounted    *)
(* for at both sinks.                                                      *)
THEOREM CompletionIsEarned == Spec => []CompletedMeansReplicated
<1>1. CoverInv => CompletedMeansReplicated
  BY DEF CoverInv, CompletionJustified, CompletedMeansReplicated
<1> QED
  BY Invariance, <1>1, PTL

(* What the steps of the runner are in terms of the contract. *)
LEMMA GrowthIsAccounted ==
    ASSUME Grows, cp'.id = cp.id
    PROVE  Contract!Next
BY DEF Grows, Contract!Next, Contract!Account

LEMMA CommitIsCovered ==
    ASSUME TypeInv, CoverInv, NEW l \in Loops, CommitCheckpoint(l)
    PROVE  Contract!Next
<1>1. PICK r \in Rows : r \in batch[l] /\ cp'.id = r
  <2>1. cp \in [id : Rows \cup {0}, processed : Nat, failed : Nat, status : Statuses]
    BY DEF TypeInv, TypeOK
  <2> QED
    BY <2>1 DEF CommitCheckpoint, IsLastOf
<1>2. Covered(r)
  BY <1>1, BatchExtendsCover DEF CommitCheckpoint, CoverInv, PositionsCovered
<1>3. delivered' = delivered /\ dlq' = dlq
  BY DEF CommitCheckpoint
<1>4. Contract!Covered(cp'.id)
  BY <1>1, <1>2, <1>3 DEF Covered, Accounted, Contract!Covered
<1>5. cp'.id \in Nat
  BY <1>1, RowsAreNaturals
<1> QED
  BY <1>3, <1>4, <1>5 DEF Contract!Next, Contract!Commit

LEMMA OtherStepsAccount ==
    ASSUME TypeInv, NEW l \in Loops, ~CommitCheckpoint(l),
           \/ Progress(l)
           \/ QueryFailsOutside(l) \/ QueryFailsInside(l)
           \/ \E s \in Sinks : SinkReject(l, s)
           \/ Resume(l) \/ Launch(l)
    PROVE  Grows /\ cp'.id = cp.id
<1> USE DEF dbVars, Grows, SetStatus, Quarantined
<1>0. cp \in [id : Rows \cup {0}, processed : Nat, failed : Nat, status : Statuses]
  BY DEF TypeInv, TypeOK
<1>1. CASE ReadCheckpoint(l) \/ ResumeFromCheckpoint(l) \/ FetchBatch(l) \/ FetchNothing(l)
             \/ Dispatched(l) \/ Committed(l)
  BY <1>1 DEF ReadCheckpoint, ResumeFromCheckpoint, FetchBatch, FetchNothing, Dispatched, Committed
<1>2. CASE SetRunning(l) \/ SetCompleted(l) \/ SetFailed(l) \/ PersistFailures(l)
  BY <1>0, <1>2 DEF SetRunning, SetCompleted, SetFailed, PersistFailures
<1>3. ASSUME NEW s \in Sinks, SinkAck(l, s) \/ SinkReject(l, s)
      PROVE  Grows /\ cp'.id = cp.id
  BY <1>3 DEF SinkAck, SinkReject
<1>4. CASE QueryFailsOutside(l) \/ QueryFailsInside(l)
  BY <1>0, <1>4 DEF QueryFailsOutside, QueryFailsInside
<1>5. CASE Resume(l) \/ Launch(l)
  BY <1>5 DEF Resume, Launch
<1> QED
  BY <1>1, <1>2, <1>3, <1>4, <1>5 DEF Progress

LEMMA OutsideStepsAccount ==
    ASSUME TypeInv, Pause \/ SetPaused \/ OrphanSettles \/ Crash \/ Boot \/ InsertRow
    PROVE  Grows /\ cp'.id = cp.id
<1> USE DEF dbVars, Grows, SetStatus
<1>0. cp \in [id : Rows \cup {0}, processed : Nat, failed : Nat, status : Statuses]
  BY DEF TypeInv, TypeOK
<1>1. CASE Pause \/ SetPaused \/ Boot \/ InsertRow
  BY <1>0, <1>1 DEF Pause, SetPaused, Boot, InsertRow
<1>2. CASE OrphanSettles \/ Crash
  BY <1>2 DEF OrphanSettles, Crash
<1> QED
  BY <1>1, <1>2

(* Every step of the runner is a step of the contract of its watermark: it *)
(* accounts for rows and leaves the watermark, or persists a watermark     *)
(* that was covered before.                                                *)
THEOREM ContractIsKept == Spec => RefinesContract
<1>1. Init => Contract!Init
  BY DEF Init, Contract!Init
<1>2. TypeInv /\ CoverInv /\ [Next]_vars => [Contract!Next]_(Contract!vars)
  <2>1. ASSUME TypeInv, CoverInv, Next
        PROVE  Contract!Next
    <3>1. ASSUME NEW l \in Loops, CommitCheckpoint(l)
          PROVE  Contract!Next
      BY <2>1, <3>1, CommitIsCovered
    <3>2. ASSUME NEW l \in Loops, ~CommitCheckpoint(l),
                 \/ Progress(l)
                 \/ QueryFailsOutside(l) \/ QueryFailsInside(l)
                 \/ \E s \in Sinks : SinkReject(l, s)
                 \/ Resume(l) \/ Launch(l)
          PROVE  Contract!Next
      BY <2>1, <3>2, OtherStepsAccount, GrowthIsAccounted
    <3>3. CASE Pause \/ SetPaused \/ OrphanSettles \/ Crash \/ Boot \/ InsertRow
      BY <2>1, <3>3, OutsideStepsAccount, GrowthIsAccounted
    <3> QED
      BY <2>1, <3>1, <3>2, <3>3 DEF Next
  <2>2. CASE UNCHANGED vars
    BY <2>2 DEF vars, dbVars, Contract!vars
  <2> QED
    BY <2>1, <2>2
<1> QED
  BY Invariance, <1>1, <1>2, PTL DEF Spec, RefinesContract, Contract!Spec

----------------------------------------------------------------------------
(* One activation of start() at a time *)

OneActivation == \A l, m \in Loops : l = m

(* The position in hand is the persisted one from the moment it is read to *)
(* the commit of the batch that was pulled from it, and the batch holds    *)
(* rows of the table beyond it; what is in memory after a commit is what   *)
(* was committed.                                                          *)
CursorInv ==
    \A l \in Loops :
      /\ pc[l] = "gotCheckpoint" => seen[l] = cp.id
      /\ pc[l] = "setRunning" => lastProcessedId = cp.id
      /\ pc[l] \in {"fetch", "dispatch", "persist", "commit"} => from[l] = cp.id
      /\ pc[l] \in {"dispatch", "persist", "commit", "committed"} =>
           \A r \in batch[l] : r \in table /\ from[l] < r
      /\ pc[l] = "committed" => IsLastOf(cp.id, batch[l])

(* What the counters and the table of a checkpoint do in a step that is    *)
(* not a commit.                                                           *)
KeepsCheckpoint ==
    /\ cp'.id = cp.id /\ cp'.processed = cp.processed /\ cp'.failed = cp.failed
    /\ table \subseteq table' /\ dlq \subseteq dlq'

LEMMA OnlyCommitCounts ==
    ASSUME TypeInv, Next, \A l \in Loops : ~CommitCheckpoint(l)
    PROVE  KeepsCheckpoint
<1>0. cp \in [id : Rows \cup {0}, processed : Nat, failed : Nat, status : Statuses]
  BY DEF TypeInv, TypeOK
<1>1. CASE cp' = cp /\ table \subseteq table' /\ dlq \subseteq dlq'
  BY <1>1 DEF KeepsCheckpoint
<1>2. CASE (\E s : SetStatus(s)) /\ table \subseteq table' /\ dlq \subseteq dlq'
  BY <1>0, <1>2 DEF KeepsCheckpoint, SetStatus
<1> USE DEF dbVars
<1>3. ASSUME NEW l \in Loops, Progress(l) PROVE KeepsCheckpoint
  <2>1. CASE \/ ReadCheckpoint(l) \/ ResumeFromCheckpoint(l) \/ FetchBatch(l) \/ FetchNothing(l)
             \/ \E s \in Sinks : SinkAck(l, s)
             \/ Dispatched(l) \/ Committed(l) \/ PersistFailures(l)
    BY <1>1, <2>1 DEF ReadCheckpoint, ResumeFromCheckpoint, FetchBatch, FetchNothing, SinkAck,
                      Dispatched, Committed, PersistFailures, Quarantined
  <2>2. CASE SetRunning(l) \/ SetCompleted(l) \/ SetFailed(l)
    BY <1>2, <2>2 DEF SetRunning, SetCompleted, SetFailed
  <2> QED
    BY <1>3, <2>1, <2>2 DEF Progress
<1>4. ASSUME NEW l \in Loops, QueryFailsOutside(l) \/ QueryFailsInside(l) PROVE KeepsCheckpoint
  BY <1>1, <1>2, <1>4 DEF QueryFailsOutside, QueryFailsInside, Quarantined
<1>5. ASSUME NEW l \in Loops, Resume(l) \/ Launch(l) \/ \E s \in Sinks : SinkReject(l, s)
      PROVE  KeepsCheckpoint
  BY <1>1, <1>5 DEF Resume, Launch, SinkReject
<1>6. CASE Pause \/ OrphanSettles \/ Crash \/ Boot
  BY <1>1, <1>6 DEF Pause, OrphanSettles, Crash, Boot
<1>7. CASE SetPaused \/ InsertRow
  BY <1>1, <1>2, <1>7 DEF SetPaused, InsertRow
<1> QED
  BY <1>3, <1>4, <1>5, <1>6, <1>7 DEF Next

LEMMA CursorProgress ==
    ASSUME OneActivation, TypeInv, CursorInv, NEW l \in Loops, Progress(l)
    PROVE  CursorInv'
<1>0. /\ pc \in [Loops -> Awaits] /\ batch \in [Loops -> SUBSET Rows]
      /\ seen \in [Loops -> Rows \cup {0}] /\ from \in [Loops -> Rows \cup {0}]
      /\ cp \in [id : Rows \cup {0}, processed : Nat, failed : Nat, status : Statuses]
  BY DEF TypeInv, TypeOK
<1>1. Loops = {l}
  BY DEF OneActivation
<1> USE <1>0, <1>1 DEF Goto, dbVars, fieldVars, CursorInv, IsLastOf
<1>2. CASE ReadCheckpoint(l)
  BY <1>2 DEF ReadCheckpoint
<1>3. CASE ResumeFromCheckpoint(l)
  BY <1>3 DEF ResumeFromCheckpoint, RecoveredCursor
<1>4. CASE SetRunning(l)
  BY <1>4 DEF SetRunning, LoopTest, SetStatus
<1>5. CASE FetchBatch(l)
  <2>1. /\ batch'[l] = NextBatch(from[l]) /\ pc'[l] = "dispatch"
        /\ pc[l] = "fetch"
        /\ UNCHANGED <<cp, table, from>>
    BY <1>5 DEF FetchBatch
  <2>2. \A r \in NextBatch(from[l]) : r \in table /\ from[l] < r
    BY DEF NextBatch
  <2> QED
    BY <2>1, <2>2
<1>6. CASE FetchNothing(l)
  BY <1>6 DEF FetchNothing
<1>7. CASE SetCompleted(l) \/ SetFailed(l)
  BY <1>7 DEF SetCompleted, SetFailed
<1>8. CASE \E s \in Sinks : SinkAck(l, s)
  BY <1>8 DEF SinkAck
<1>9. CASE Dispatched(l) \/ PersistFailures(l)
  BY <1>9 DEF Dispatched, PersistFailures
<1>10. CASE CommitCheckpoint(l)
  <2>1. PICK r \in Rows : IsLastOf(r, batch[l]) /\ cp'.id = r
    BY <1>10 DEF CommitCheckpoint
  <2>2. /\ pc'[l] = "committed" /\ pc[l] = "commit"
        /\ UNCHANGED <<table, from, batch>>
    BY <1>10 DEF CommitCheckpoint
  <2> QED
    BY <2>1, <2>2
<1>11. CASE Committed(l)
  <2>1. PICK r \in Rows : IsLastOf(r, batch[l]) /\ LoopTest(l, r) /\ lastProcessedId' = r
    BY <1>11 DEF Committed
  <2>2. pc[l] = "committed" /\ UNCHANGED cp
    BY <1>11 DEF Committed
  <2>3. r = cp.id
    <3>1. r \in Nat /\ cp.id \in Nat
      BY RowsAreNaturals
    <3>2. r <= cp.id /\ cp.id <= r
      BY <2>1, <2>2
    <3> QED
      BY <3>1, <3>2
  <2>4. \/ pc'[l] = "fetch" /\ from'[l] = r
        \/ pc'[l] = "idle"
    BY <2>1 DEF LoopTest
  <2> QED
    BY <2>2, <2>3, <2>4
<1> QED
  BY <1>2, <1>3, <1>4, <1>5, <1>6, <1>7, <1>8, <1>9, <1>10, <1>11 DEF Progress

LEMMA CursorNext ==
    ASSUME OneActivation, TypeInv, CursorInv, Next
    PROVE  CursorInv'
<1>0. pc \in [Loops -> Awaits]
      /\ cp \in [id : Rows \cup {0}, processed : Nat, failed : Nat, status : Statuses]
  BY DEF TypeInv, TypeOK
<1>1. ASSUME NEW l \in Loops, Progress(l) PROVE CursorInv'
  BY <1>1, CursorProgress
<1>2. ASSUME NEW l \in Loops,
             \/ QueryFailsOutside(l) \/ QueryFailsInside(l)
             \/ \E s \in Sinks : SinkReject(l, s)
             \/ Resume(l) \/ Launch(l)
      PROVE  CursorInv'
  <2>1. pc' = [pc EXCEPT ![l] = pc'[l]] /\ pc'[l] \in {"idle", "setFailed", "getCheckpoint"}
    BY <1>0, <1>2 DEF QueryFailsOutside, QueryFailsInside, SinkReject, Resume, Launch, Enter, Catch,
                      Goto
  <2>2. Loops = {l}
    BY DEF OneActivation
  <2> QED
    BY <2>1, <2>2 DEF CursorInv
<1>3. CASE Crash
  BY <1>3 DEF Crash, CursorInv
<1>4. CASE Pause \/ SetPaused \/ OrphanSettles \/ Boot \/ InsertRow
  <2>1. /\ cp'.id = cp.id /\ table \subseteq table'
        /\ UNCHANGED <<pc, lastProcessedId, seen, from, batch>>
    BY <1>0, <1>4 DEF Pause, SetPaused, OrphanSettles, Boot, InsertRow, SetStatus, dbVars, fieldVars,
                      loopVars
  <2> QED
    BY <2>1 DEF CursorInv, IsLastOf
<1> QED
  BY <1>1, <1>2, <1>3, <1>4 DEF Next

(* The counters lie between the historical rows and all the rows that the  *)
(* watermark has passed.  The failures are counted among the rows passed   *)
(* too: the rows of the batch in hand, which are beyond the watermark, may *)
(* have been quarantined by an attempt that did not commit.                *)
CountersInv ==
    /\ cp.processed + cp.failed >= Cardinality(RowsPassed(History))
    /\ cp.processed + cp.failed <= Cardinality(RowsPassed(table))
    /\ cp.failed <= Cardinality(RowsPassed(FailedIds(dlq)))

LEMMA CountersKept ==
    ASSUME TypeInv, TypeInv', CountersInv, KeepsCheckpoint
    PROVE  CountersInv'
<1>1. table' \subseteq Rows /\ table \subseteq Rows
  BY DEF TypeInv, TypeOK
<1>2. RowsPassed(History)' = RowsPassed(History)
  BY DEF RowsPassed, KeepsCheckpoint
<1>3. RowsPassed(table) \in SUBSET RowsPassed(table)' /\ RowsPassed(table)' \in SUBSET Rows
  BY <1>1 DEF RowsPassed, KeepsCheckpoint
<1>4. /\ RowsPassed(FailedIds(dlq)) \in SUBSET RowsPassed(FailedIds(dlq))'
      /\ RowsPassed(FailedIds(dlq))' \in SUBSET Rows
  BY DEF RowsPassed, FailedIds, KeepsCheckpoint
<1>5. /\ Cardinality(RowsPassed(table)) <= Cardinality(RowsPassed(table)')
      /\ Cardinality(RowsPassed(FailedIds(dlq))) <= Cardinality(RowsPassed(FailedIds(dlq))')
  BY <1>3, <1>4, RowSets, FS_Subset
<1>6. /\ Cardinality(RowsPassed(table)) \in Nat /\ Cardinality(RowsPassed(table)') \in Nat
      /\ Cardinality(RowsPassed(FailedIds(dlq))) \in Nat
      /\ Cardinality(RowsPassed(FailedIds(dlq))') \in Nat
  <2>1. RowsPassed(table) \in SUBSET Rows /\ RowsPassed(FailedIds(dlq)) \in SUBSET Rows
    BY <1>3, <1>4
  <2> QED
    BY <2>1, <1>3, <1>4, RowSets
<1>7. cp.processed \in Nat /\ cp.failed \in Nat /\ cp'.processed = cp.processed /\ cp'.failed = cp.failed
  BY DEF TypeInv, TypeOK, KeepsCheckpoint
<1>8. CountersInv' <=>
        /\ cp'.processed + cp'.failed >= Cardinality(RowsPassed(History)')
        /\ cp'.processed + cp'.failed <= Cardinality(RowsPassed(table)')
        /\ cp'.failed <= Cardinality(RowsPassed(FailedIds(dlq))')
  BY DEF CountersInv
<1> DEFINE a == Cardinality(RowsPassed(table))
           b == Cardinality(RowsPassed(table)')
           c == Cardinality(RowsPassed(FailedIds(dlq)))
           d == Cardinality(RowsPassed(FailedIds(dlq))')
           h == Cardinality(RowsPassed(History))
<1>9. cp.processed + cp.failed >= h /\ cp.processed + cp.failed <= a /\ cp.failed <= c
  BY DEF CountersInv
<1>10. a \in Nat /\ b \in Nat /\ c \in Nat /\ d \in Nat /\ a <= b /\ c <= d
  BY <1>5, <1>6
<1>11. Cardinality(RowsPassed(History)') = h
  BY <1>2
<1> HIDE DEF a, b, c, d, h
<1>12. cp.processed + cp.failed <= b /\ cp.failed <= d
  BY <1>7, <1>9, <1>10
<1> QED
  BY <1>7, <1>8, <1>9, <1>11, <1>12 DEF b, d

(* Rows added beyond the ones that were counted. *)
LEMMA DisjointUnion ==
    ASSUME NEW S \in SUBSET Rows, NEW T \in SUBSET Rows, S \cap T = {}
    PROVE  Cardinality(S \cup T) = Cardinality(S) + Cardinality(T)
<1>1. IsFiniteSet(S) /\ IsFiniteSet(T) /\ Cardinality(S) \in Nat /\ Cardinality(T) \in Nat
  BY RowSets
<1>2. Cardinality(S \cup T) = Cardinality(S) + Cardinality(T) - Cardinality(S \cap T)
  BY <1>1, FS_Union
<1>3. Cardinality(S \cap T) = 0
  BY FS_EmptySet
<1> QED
  BY <1>1, <1>2, <1>3

LEMMA CountersCommit ==
    ASSUME TypeInv, CoverInv, CursorInv, CountersInv, NEW l \in Loops, CommitCheckpoint(l)
    PROVE  CountersInv'
<1>1. /\ cp \in [id : Rows \cup {0}, processed : Nat, failed : Nat, status : Statuses]
      /\ table \subseteq Rows /\ History \subseteq table /\ batch[l] \in SUBSET Rows
      /\ rejected[l] \subseteq batch[l] \X Sinks /\ dlq \subseteq Rows \X Sinks
  BY DEF TypeInv, TypeOK, CoverInv
<1>2. PICK w \in Rows :
        /\ IsLastOf(w, batch[l])
        /\ cp' = [cp EXCEPT !.id = w, !.processed = @ + SuccessCount(l), !.failed = @ + FailedCount(l)]
  BY DEF CommitCheckpoint
<1>3. pc[l] = "commit" /\ UNCHANGED <<table, dlq>>
  BY DEF CommitCheckpoint
<1> DEFINE P == SuccessCount(l)
           F == FailedCount(l)
           failed == FailedIds(rejected[l])
<1>4. /\ cp'.id = w /\ cp'.processed = cp.processed + P /\ cp'.failed = cp.failed + F
  BY <1>1, <1>2
<1>5. P \in Nat /\ F \in Nat /\ P + F = Cardinality(batch[l])
  <2>1. P \in Nat /\ F \in Nat
    BY CountsAreNatural DEF TypeInv
  <2>2. Cardinality(batch[l]) \in Nat
    BY <1>1, RowSets
  <2> QED
    BY <2>1, <2>2 DEF SuccessCount
<1>6. /\ \A r \in batch[l] : r \in table /\ cp.id < r /\ r <= w
      /\ \A r \in History : r <= w => r \in batch[l] \/ r <= cp.id
      /\ w \in batch[l]
      /\ rejected[l] \subseteq dlq
  BY <1>2, <1>3 DEF CursorInv, CoverInv, BatchOK, IsLastOf
<1>7. cp.id \in Nat /\ w \in Nat /\ cp.id < w /\ \A r \in Rows : r \in Nat
  BY <1>1, <1>6, RowsAreNaturals
<1>8. failed \in SUBSET batch[l] /\ failed \in SUBSET Rows
  BY <1>1 DEF FailedIds
<1>9. \A r \in batch[l] : ~(r <= cp.id)
  <2> SUFFICES ASSUME NEW r \in batch[l] PROVE ~(r <= cp.id)
    OBVIOUS
  <2>1. r \in Nat /\ cp.id \in Nat
    BY <1>1, <1>7, RowsAreNaturals
  <2>2. cp.id < r
    BY <1>6
  <2> QED
    BY <2>1, <2>2
<1>10. /\ {r \in History : r <= w} \in SUBSET (RowsPassed(History) \cup batch[l])
       /\ RowsPassed(table) \cup batch[l] \in SUBSET {r \in table : r <= w}
       /\ RowsPassed(FailedIds(dlq)) \cup failed \in SUBSET {r \in FailedIds(dlq) : r <= w}
  <2>1. {r \in History : r <= w} \in SUBSET (RowsPassed(History) \cup batch[l])
    BY <1>6 DEF RowsPassed
  <2>2. \A r \in Rows : r <= cp.id => r <= w
    BY <1>7
  <2>3. RowsPassed(table) \cup batch[l] \in SUBSET {r \in table : r <= w}
    BY <1>1, <1>6, <2>2 DEF RowsPassed
  <2>4. failed \subseteq FailedIds(dlq) /\ FailedIds(dlq) \subseteq Rows
    BY <1>6 DEF FailedIds
  <2>5. RowsPassed(FailedIds(dlq)) \cup failed \in SUBSET {r \in FailedIds(dlq) : r <= w}
    BY <1>6, <1>8, <2>2, <2>4 DEF RowsPassed
  <2> QED
    BY <2>1, <2>3, <2>5
<1>11. /\ RowsPassed(History)' = {r \in History : r <= w}
       /\ RowsPassed(table)' = {r \in table : r <= w}
       /\ RowsPassed(FailedIds(dlq))' = {r \in FailedIds(dlq) : r <= w}
  BY <1>3, <1>4 DEF RowsPassed, FailedIds
<1> DEFINE Ho == RowsPassed(History)
           To == RowsPassed(table)
           Fo == RowsPassed(FailedIds(dlq))
           Hn == {r \in History : r <= w}
           Tn == {r \in table : r <= w}
           Fn == {r \in FailedIds(dlq) : r <= w}
<1>12. /\ Ho \in SUBSET Rows /\ To \in SUBSET Rows /\ Fo \in SUBSET Rows
       /\ Hn \in SUBSET Rows /\ Tn \in SUBSET Rows /\ Fn \in SUBSET Rows
  BY <1>1 DEF RowsPassed, FailedIds
<1>13. Ho \cap batch[l] = {} /\ To \cap batch[l] = {} /\ Fo \cap failed = {}
  BY <1>8, <1>9 DEF RowsPassed
<1>14. Hn \in SUBSET (Ho \cup batch[l]) /\ To \cup batch[l] \in SUBSET Tn /\ Fo \cup failed \in SUBSET Fn
  BY <1>10
<1>15. F = Cardinality(failed)
  BY DEF FailedCount
<1>16. /\ Cardinality(Ho) <= cp.processed + cp.failed
       /\ cp.processed + cp.failed <= Cardinality(To)
       /\ cp.failed <= Cardinality(Fo)
  BY DEF CountersInv
<1>17. /\ CountersInv' <=>
            /\ cp'.processed + cp'.failed >= Cardinality(Hn)
            /\ cp'.processed + cp'.failed <= Cardinality(Tn)
            /\ cp'.failed <= Cardinality(Fn)
  BY <1>11 DEF CountersInv
<1> HIDE DEF Ho, To, Fo, Hn, Tn, Fn, failed, P, F
<1>18. /\ Cardinality(Ho) \in Nat /\ Cardinality(To) \in Nat /\ Cardinality(Fo) \in Nat
       /\ Cardinality(Hn) \in Nat /\ Cardinality(Tn) \in Nat /\ Cardinality(Fn) \in Nat
       /\ Cardinality(batch[l]) \in Nat
  BY <1>1, <1>12, RowSets
<1>19. /\ Cardinality(Ho \cup batch[l]) = Cardinality(Ho) + Cardinality(batch[l])
       /\ Cardinality(To \cup batch[l]) = Cardinality(To) + Cardinality(batch[l])
       /\ Cardinality(Fo \cup failed) = Cardinality(Fo) + F
  BY <1>1, <1>8, <1>12, <1>13, <1>15, DisjointUnion
<1>20. /\ Cardinality(Hn) <= Cardinality(Ho \cup batch[l])
       /\ Cardinality(To \cup batch[l]) <= Cardinality(Tn)
       /\ Cardinality(Fo \cup failed) <= Cardinality(Fn)
  <2>1. IsFiniteSet(Ho \cup batch[l]) /\ IsFiniteSet(Tn) /\ IsFiniteSet(Fn)
    <3>1. Ho \cup batch[l] \in SUBSET Rows
      BY <1>1, <1>12
    <3> QED
      BY <3>1, <1>12, RowSets
  <2> QED
    BY <2>1, <1>14, FS_Subset
<1>21. cp.processed \in Nat /\ cp.failed \in Nat
  BY <1>1
<1>22. /\ cp'.processed + cp'.failed = cp.processed + cp.failed + Cardinality(batch[l])
       /\ cp'.failed = cp.failed + F
  BY <1>4, <1>5, <1>18, <1>21
<1> DEFINE n == Cardinality(batch[l])
           ho == Cardinality(Ho)
           to == Cardinality(To)
           fo == Cardinality(Fo)
           hn == Cardinality(Hn)
           tn == Cardinality(Tn)
           fn == Cardinality(Fn)
           counted == cp.processed + cp.failed
<1>23. /\ ho \in Nat /\ to \in Nat /\ fo \in Nat /\ hn \in Nat /\ tn \in Nat /\ fn \in Nat /\ n \in Nat
       /\ counted \in Nat /\ cp.failed \in Nat /\ F \in Nat
       /\ ho <= counted /\ counted <= to /\ cp.failed <= fo
       /\ hn <= ho + n /\ to + n <= tn /\ fo + F <= fn
  BY <1>5, <1>16, <1>18, <1>19, <1>20, <1>21
<1> HIDE DEF n, ho, to, fo, hn, tn, fn, counted
<1>24. counted + n >= hn /\ counted + n <= tn /\ cp.failed + F <= fn
  BY <1>23
<1> QED
  BY <1>17, <1>22, <1>24 DEF n, hn, tn, fn, counted

LEMMA SingleInvariant ==
    ASSUME OneActivation
    PROVE  Spec => [](TypeInv /\ CoverInv /\ CursorInv /\ CountersInv)
<1>1. Init => CursorInv
  BY DEF Init, CursorInv
<1>2. Init => CountersInv
  <2> SUFFICES ASSUME Init PROVE CountersInv
    OBVIOUS
  <2>1. RowsPassed(History) = {} /\ RowsPassed(table) = {} /\ RowsPassed(FailedIds(dlq)) = {}
    <3>1. cp.id = 0 /\ table = History /\ \A r \in Rows : ~(r <= 0)
      BY RowsAssumption DEF Init
    <3>2. History \subseteq Rows
      BY RowsAssumption
    <3> QED
      BY <3>1, <3>2 DEF RowsPassed, FailedIds
  <2>2. Cardinality({}) = 0
    BY FS_EmptySet
  <2>3. cp.processed = 0 /\ cp.failed = 0
    BY DEF Init
  <2> QED
    BY <2>1, <2>2, <2>3 DEF CountersInv
<1>3. TypeInv /\ CursorInv /\ [Next]_vars => CursorInv'
  <2>1. CursorInv /\ UNCHANGED vars => CursorInv'
    BY DEF CursorInv, IsLastOf, vars, dbVars, fieldVars, loopVars
  <2> QED
    BY <2>1, CursorNext
<1>4. TypeInv /\ TypeInv' /\ CoverInv /\ CursorInv /\ CountersInv /\ [Next]_vars => CountersInv'
  <2> SUFFICES ASSUME TypeInv, TypeInv', CoverInv, CursorInv, CountersInv, [Next]_vars
               PROVE  CountersInv'
    OBVIOUS
  <2>1. CASE \E l \in Loops : CommitCheckpoint(l)
    BY <2>1, CountersCommit
  <2>2. CASE Next /\ \A l \in Loops : ~CommitCheckpoint(l)
    BY <2>2, OnlyCommitCounts, CountersKept
  <2>3. CASE UNCHANGED vars
    <3>1. KeepsCheckpoint
      BY <2>3 DEF KeepsCheckpoint, vars, dbVars
    <3> QED
      BY <3>1, CountersKept
  <2> QED
    BY <2>1, <2>2, <2>3
<1> QED
  BY <1>1, <1>2, <1>3, <1>4, Invariance, PTL DEF Spec

(* While one activation of start() is alive, a batch is pulled from the    *)
(* position that is committed, whatever failed, crashed, was paused or     *)
(* resumed before (backfill.runner.ts:102-105 against 186-197).            *)
THEOREM BatchesStartAtCheckpoint == OneActivation => (Spec => []PulledFromCheckpoint)
<1> SUFFICES ASSUME OneActivation PROVE Spec => []PulledFromCheckpoint
  OBVIOUS
<1>1. CursorInv => PulledFromCheckpoint
  BY DEF CursorInv, PulledFromCheckpoint
<1> QED
  BY SingleInvariant, <1>1, PTL

(* While one activation of start() is alive, the two counters of the       *)
(* checkpoint add up to the rows the watermark has passed, each counted    *)
(* once whatever was retried, and a row counted as failed has an entry in  *)
(* dead_letter_queue (backfill.runner.ts:171-195).                         *)
THEOREM CountersAreExact == OneActivation => (Spec => []CountersMatchWatermark)
<1> SUFFICES ASSUME OneActivation PROVE Spec => []CountersMatchWatermark
  OBVIOUS
<1>1. TypeInv /\ CountersInv => CountersMatchWatermark
  <2> SUFFICES ASSUME TypeInv, CountersInv PROVE CountersMatchWatermark
    OBVIOUS
  <2>1. RowsPassed(FailedIds(dlq)) \in SUBSET FailedIds(dlq) /\ FailedIds(dlq) \in SUBSET Rows
    BY DEF RowsPassed, FailedIds
  <2>2. IsFiniteSet(FailedIds(dlq)) /\ Cardinality(FailedIds(dlq)) \in Nat
    BY <2>1, RowSets
  <2>3. /\ Cardinality(RowsPassed(FailedIds(dlq))) <= Cardinality(FailedIds(dlq))
        /\ Cardinality(RowsPassed(FailedIds(dlq))) \in Nat
    BY <2>1, <2>2, FS_Subset, FS_CardinalityType
  <2>4. cp.failed \in Nat
    BY DEF TypeInv, TypeOK
  <2>5. cp.failed <= Cardinality(RowsPassed(FailedIds(dlq)))
    BY DEF CountersInv
  <2>6. cp.failed <= Cardinality(FailedIds(dlq))
    BY <2>2, <2>3, <2>4, <2>5
  <2> QED
    BY <2>6 DEF CountersInv, CountersMatchWatermark
<1> QED
  BY SingleInvariant, <1>1, PTL

(* While one activation of start() is alive, the persisted watermark never *)
(* moves backwards (backfill.runner.ts:186-197).                           *)
THEOREM WatermarkMovesForward == OneActivation => (Spec => WatermarkNeverRegresses)
<1> SUFFICES ASSUME OneActivation PROVE Spec => WatermarkNeverRegresses
  OBVIOUS
<1>1. ASSUME TypeInv, CursorInv, [Next]_vars
      PROVE  cp'.id >= cp.id
  <2>0. cp.id \in Nat
    BY <1>1, RowsAreNaturals DEF TypeInv, TypeOK
  <2>1. ASSUME NEW l \in Loops, CommitCheckpoint(l)
        PROVE  cp'.id >= cp.id
    <3>1. PICK r \in Rows : IsLastOf(r, batch[l]) /\ cp'.id = r
      BY <1>1, <2>1 DEF CommitCheckpoint, TypeInv, TypeOK
    <3>2. pc[l] = "commit"
      BY <2>1 DEF CommitCheckpoint
    <3>3. cp.id < r
      BY <1>1, <3>1, <3>2 DEF CursorInv, IsLastOf
    <3> QED
      BY <2>0, <3>1, <3>3, RowsAreNaturals
  <2>2. CASE Next /\ \A l \in Loops : ~CommitCheckpoint(l)
    BY <1>1, <2>0, <2>2, OnlyCommitCounts DEF KeepsCheckpoint
  <2>3. CASE UNCHANGED vars
    BY <2>0, <2>3 DEF vars, dbVars
  <2> QED
    BY <1>1, <2>1, <2>2, <2>3
<1>2. TypeInv /\ CursorInv /\ [Next]_vars => cp'.id >= cp.id
  BY <1>1
<1> QED
  BY <1>2, SingleInvariant, PTL DEF Spec, WatermarkNeverRegresses

----------------------------------------------------------------------------
(* The crash drill: the steps of CrashDrill against the runner *)

LEMMA MaxOfTwo ==
    ASSUME NEW a \in Nat, NEW b \in Nat
    PROVE  Max({a, b}) \in {a, b} /\ Max({a, b}) >= a /\ Max({a, b}) >= b
<1>1. \E x \in {a, b} : \A y \in {a, b} : x >= y
  OBVIOUS
<1> QED
  BY <1>1 DEF Max

(* SELECT MAX(id): among the sets of rows above a row there is a least     *)
(* one, which is empty.                                                    *)
LEMMA MaxOfRows ==
    ASSUME NEW S \in SUBSET Rows, S # {}
    PROVE  Max(S) \in S /\ \A y \in S : y <= Max(S)
<1> DEFINE Above(x) == {y \in S : x < y}
           T == {Above(x) : x \in S}
           R == StrictSubsetOrdering(S)
<1>0. IsFiniteSet(S) /\ \A x \in S : x \in Nat
  BY RowSets, RowsAreNaturals
<1>1. IsWellFoundedOn(R, SUBSET S)
  BY <1>0, FS_StrictSubsetOrderingWellFounded, FS_FiniteSubsetsOfFinite
<1>2. T \subseteq SUBSET S /\ T # {}
  OBVIOUS
<1>3. PICK A \in T : \A B \in T : <<B, A>> \notin R
  <2> HIDE DEF T, R
  <2> QED
    BY <1>1, <1>2, WFMin
<1>4. PICK x \in S : A = Above(x)
  OBVIOUS
<1>5. ASSUME NEW y \in S, x < y PROVE FALSE
  <2>1. Above(y) \subseteq Above(x)
    BY <1>0, <1>5
  <2>2. y \in Above(x) /\ y \notin Above(y)
    BY <1>0, <1>5
  <2>3. <<Above(y), Above(x)>> \in R
    BY <2>1, <2>2 DEF StrictSubsetOrdering
  <2> QED
    BY <2>3, <1>3, <1>4
<1>6. \A y \in S : x >= y
  BY <1>0, <1>5
<1>7. Max(S) \in S /\ \A y \in S : Max(S) >= y
  BY <1>6 DEF Max
<1> QED
  BY <1>0, <1>7

(* Where the drill stands: before the pin, outside the try block, or       *)
(* elsewhere.                                                              *)
PrePin == {"pause", "pausing", "settle", "settled", "quiesceKill", "pin"}
Outside == {"baseline", "finally", "polled", "revive", "done"}
Pcs == PrePin \cup Outside \cup
       {"probe", "probed", "start", "boot", "booted", "first", "preroll", "prerolled", "unpause",
        "pinned", "resume", "resumeKill", "relaunch", "advance", "advanced", "kill", "killed",
        "alive", "dead", "inspect", "restart", "watch", "watched", "evaluate"}

(* The locals of the drill. *)
Locals ==
    [pc : Pcs, mode : {"none", "docker"}, existing : BOOLEAN, restarted : BOOLEAN,
     maxId : Rows \cup {0}, windowStart : Rows \cup {0},
     tele : [status : Statuses \cup {"UNREACHABLE"}, cursor : Rows \cup {0}],
     previousId : Rows \cup {0}, polled : BOOLEAN, quiesced : BOOLEAN,
     resumedAt : Rows \cup {0}, firstSeen : Rows \cup {0}, final : Rows \cup {0},
     verdict : {"NONE", "PASS", "FAIL"}, unpinned : SUBSET Rows]

(* What the drill knows is true of the sinks: every position it was told   *)
(* of is covered; the start of the window is covered before the checkpoint *)
(* is pinned to it, which is why the pin loses nothing; the last id is     *)
(* that of a table that held the historical rows.                          *)
DrillCover ==
    /\ Covered(g.tele.cursor) /\ Covered(g.final)
    /\ g.tele.status = "COMPLETED" => HistoryReplicated
    /\ g.pc \notin Outside => \A r \in History : r <= g.maxId
    /\ g.pc \in PrePin => Covered(g.windowStart)
    /\ g.verdict = "PASS" => HistoryReplicated

(* What the drill does to the world: a step of the runner, the pin, or the *)
(* failure of a query of its own.                                          *)
Pins ==
    /\ At({"pin"})
    /\ cp' = [cp EXCEPT !.id = g.windowStart, !.status = "RUNNING"]
    /\ UNCHANGED <<table, dlq, delivered, fieldVars, loopVars, envVars, faultVars>>

OwnQueryFails ==
    /\ QueryFault
    /\ UNCHANGED <<dbVars, delivered, fieldVars, loopVars, envVars>>

LEMMA StepsOfDrill ==
    ASSUME DrillNext
    PROVE  [Next]_vars \/ Pins \/ OwnQueryFails
<1>1. CASE QueryFails
  BY <1>1 DEF QueryFails, OwnQueryFails
<1>2. CASE Daemon
  BY <1>2 DEF Daemon, Next
<1>3. CASE Gate
  <2>1. CASE Baseline \/ Ensure \/ PreRoll \/ Settle \/ Advance \/ Alive \/ Inspect \/ Watch
             \/ Evaluate \/ Finally
    BY <2>1 DEF Baseline, Ensure, PreRoll, Settle, Advance, Alive, Inspect, Watch, Evaluate, Finally,
                Poll, Local
  <2>2. CASE SendPause
    BY <2>2 DEF SendPause, Local, Next
  <2>3. CASE Pin
    BY <2>3 DEF Pin, Pins, Local
  <2>4. ASSUME NEW a, NEW b, NEW c, SendResume(a, b, c) PROVE [Next]_vars
    BY <2>4 DEF SendResume, Local, Next
  <2>5. ASSUME NEW a, NEW b, Kill(a, b) \/ Start(a, b) PROVE [Next]_vars
    BY <2>5 DEF Kill, Start, Local, Next
  <2> QED
    BY <1>3, <2>1, <2>2, <2>3, <2>4, <2>5 DEF Gate
<1> QED
  BY <1>1, <1>2, <1>3 DEF DrillNext

LEMMA AccountedGrows ==
    ASSUME TypeInv, [Next]_vars
    PROVE  Grows
<1>1. CASE \E l \in Loops : CommitCheckpoint(l)
  BY <1>1 DEF CommitCheckpoint, Grows
<1>2. CASE Next /\ \A l \in Loops : ~CommitCheckpoint(l)
  BY <1>2, OtherStepsAccount, OutsideStepsAccount DEF Next
<1>3. CASE UNCHANGED vars
  BY <1>3 DEF vars, dbVars, Grows
<1> QED
  BY <1>1, <1>2, <1>3

(* The runner's own invariant outlives the drill. *)
LEMMA DrillWorld ==
    ASSUME TypeInv, CoverInv, g \in Locals, DrillCover, DrillNext
    PROVE  TypeInv' /\ CoverInv' /\ Grows
<1>0. cp \in [id : Rows \cup {0}, processed : Nat, failed : Nat, status : Statuses]
      /\ g.windowStart \in Rows \cup {0}
  BY DEF TypeInv, TypeOK, Locals
<1>1. CASE [Next]_vars
  <2>1. CASE Next
    BY <1>1, <2>1, TypeNext, CoverNext, AccountedGrows
  <2>2. CASE UNCHANGED vars
    <3>1. TypeInv'
      BY <2>2 DEF TypeInv, TypeOK, vars, dbVars, fieldVars, envVars, faultVars, loopVars
    <3>2. CoverInv'
      BY <2>2 DEF CoverInv, PositionsCovered, CompletionJustified, BatchOK, Covered, Accounted,
                  HistoryReplicated, vars, dbVars, fieldVars, envVars, faultVars, loopVars
    <3> QED
      BY <1>1, <3>1, <3>2, AccountedGrows
  <2> QED
    BY <1>1, <2>1, <2>2
<1>2. CASE Pins \/ OwnQueryFails
  <2>1. Grows /\ History \subseteq table' /\ UNCHANGED loopVars
    BY <1>2, CoveredPositions DEF Pins, OwnQueryFails, Grows, dbVars
  <2>2. Covered(cp'.id)
    <3>1. CASE Pins
      <4>1. cp'.id = g.windowStart
        BY <1>0, <3>1 DEF Pins
      <4>2. Covered(g.windowStart)
        BY <3>1 DEF Pins, At, DrillCover, PrePin
      <4> QED
        BY <4>1, <4>2
    <3>2. CASE OwnQueryFails
      BY <3>2, CoveredPositions DEF OwnQueryFails, dbVars
    <3> QED
      BY <1>2, <3>1, <3>2
  <2>3. MovesToCovered
    BY <1>2, <2>2, CoveredPositions DEF Pins, OwnQueryFails, MovesToCovered, fieldVars, loopVars
  <2>4. CompletesNothing
    BY <1>0, <1>2 DEF Pins, OwnQueryFails, CompletesNothing, fieldVars, loopVars, dbVars
  <2>5. CoverInv'
    BY <2>1, <2>3, <2>4, StepOutside
  <2>6. cp' \in [id : Rows \cup {0}, processed : Nat, failed : Nat, status : Statuses]
    BY <1>0, <1>2 DEF Pins, OwnQueryFails, Statuses, dbVars
  <2>7. TypeInv'
    BY <1>2, <2>6 DEF Pins, OwnQueryFails, QueryFault, TypeInv, TypeOK, dbVars, fieldVars, loopVars,
                      envVars, faultVars
  <2> QED
    BY <2>1, <2>5, <2>7
<1> QED
  BY <1>1, <1>2, StepsOfDrill

LEMMA StatesOfDrill ==
    ASSUME TypeInv
    PROVE  /\ cp.id \in Rows \cup {0} /\ cp.id \in Nat
           /\ lastProcessedId \in Rows \cup {0}
           /\ status \in Statuses
           /\ table \in SUBSET Rows
BY RowsAreNaturals DEF TypeInv, TypeOK

LEMMA GoesTo ==
    ASSUME g \in Locals, NEW p \in Pcs
    PROVE  /\ Goes(p) \in Locals /\ Goes(p).pc = p
           /\ Goes(p).tele = g.tele /\ Goes(p).final = g.final /\ Goes(p).maxId = g.maxId
           /\ Goes(p).windowStart = g.windowStart /\ Goes(p).verdict = g.verdict
           /\ Goes(p).restarted = g.restarted
BY DEF Goes, Locals

LEMMA FailsTo ==
    ASSUME g \in Locals
    PROVE  /\ Fails \in Locals /\ Fails.pc = "finally"
           /\ Fails.tele = g.tele /\ Fails.final = g.final /\ Fails.maxId = g.maxId
           /\ Fails.windowStart = g.windowStart /\ Fails.verdict = "FAIL"
           /\ Fails.restarted = g.restarted
<1>1. "finally" \in Pcs
  BY DEF Pcs, Outside
<1> QED
  BY <1>1 DEF Fails, Locals

(* Steps in which the drill learns nothing and promises nothing. *)
Plain ==
    /\ g' \in Locals
    /\ g'.tele = g.tele /\ g'.final = g.final /\ g'.maxId = g.maxId
    /\ g'.windowStart = g.windowStart
    /\ g'.verdict \in {g.verdict, "FAIL"}
    /\ g'.pc \in PrePin => g.pc \in PrePin
    /\ g.pc \in Outside => g'.pc \in Outside

LEMMA PlainKeeps ==
    ASSUME Grows, DrillCover, Plain
    PROVE  g' \in Locals /\ DrillCover'
<1>1. \A w : Covered(w) => Covered(w)'
  BY DEF Grows, Covered, Accounted
<1>2. HistoryReplicated => HistoryReplicated'
  BY HistoryGrows
<1> QED
  BY <1>1, <1>2 DEF DrillCover, Plain

(* A poll is told of a covered position, and of COMPLETED only when the    *)
(* history is replicated.                                                  *)
LEMMA PollKeeps ==
    ASSUME TypeInv, CoverInv, g \in Locals, DrillCover, NEW a, NEW b \in Pcs, Poll(a, b),
           a \notin PrePin \/ b \in PrePin, b \in PrePin => a \in PrePin,
           a \in Outside => b \in Outside
    PROVE  g' \in Locals /\ DrillCover'
<1>1. PICK answer \in {Null} \cup {[status |-> status, cursor |-> lastProcessedId] : x \in {proc} \ {"down"}} :
        g' = [g EXCEPT !.pc = b, !.tele = answer] /\ UNCHANGED vars
  BY DEF Poll, Local, Goes
<1>2. /\ answer \in [status : Statuses \cup {"UNREACHABLE"}, cursor : Rows \cup {0}]
      /\ Covered(answer.cursor)
      /\ answer.status = "COMPLETED" => HistoryReplicated
  <2>1. CASE answer = Null
    BY <2>1, CoveredPositions DEF Null
  <2>2. CASE answer = [status |-> status, cursor |-> lastProcessedId]
    BY <2>2, CoveredPositions, StatesOfDrill DEF CompletionJustified
  <2> QED
    BY <1>1, <2>1, <2>2
<1>3. /\ g.pc = a /\ g' \in Locals
      /\ g'.pc = b /\ g'.tele = answer /\ g'.final = g.final /\ g'.maxId = g.maxId
      /\ g'.windowStart = g.windowStart /\ g'.verdict = g.verdict
  BY <1>1, <1>2 DEF Poll, At, Locals
<1>4. \A w : Covered(w)' <=> Covered(w)
  BY <1>1 DEF vars, dbVars, Covered, Accounted
<1>5. HistoryReplicated' <=> HistoryReplicated
  BY <1>1 DEF vars, dbVars, HistoryReplicated, Accounted
<1> QED
  BY <1>2, <1>3, <1>4, <1>5 DEF DrillCover

LEMMA CursorOfDrill ==
    ASSUME TypeInv, CoverInv, g \in Locals, DrillCover
    PROVE  Cursor \in Rows \cup {0} /\ Cursor \in Nat /\ Covered(Cursor)
<1>1. /\ cp.id \in Rows \cup {0} /\ g.tele.cursor \in Rows \cup {0}
      /\ cp.id \in Nat /\ g.tele.cursor \in Nat
  BY StatesOfDrill, RowsAreNaturals DEF Locals
<1>2. Cursor \in {cp.id, g.tele.cursor}
  BY <1>1, MaxOfTwo DEF Cursor
<1> QED
  BY <1>1, <1>2, CoveredPositions DEF DrillCover

(* Covered by more: a position is covered if a later one is, or if the     *)
(* history is replicated.                                                  *)
LEMMA CoveredBelow ==
    ASSUME NEW v \in Nat, NEW w \in Nat, v <= w, Covered(w)
    PROVE  Covered(v)
<1>1. \A r \in History : r \in Nat /\ (r <= v => r <= w)
  BY RowsAssumption, RowsAreNaturals
<1> QED
  BY <1>1 DEF Covered

(* The drill pauses once what is below the window is covered. *)
LEMMA PauseKeeps ==
    ASSUME TypeInv, CoverInv, g \in Locals, DrillCover, Local(Goes("pause")),
           g.pc \notin Outside,
           \/ cp.id >= g.windowStart \/ Cursor >= g.windowStart
           \/ Says("COMPLETED")
    PROVE  g' \in Locals /\ DrillCover'
<1>1. Covered(g.windowStart)
  <2>0. g.windowStart \in Nat /\ cp.id \in Nat
    BY RowsAreNaturals, StatesOfDrill DEF Locals
  <2>1. CASE cp.id >= g.windowStart
    BY <2>0, <2>1, CoveredPositions, CoveredBelow
  <2>2. CASE Cursor >= g.windowStart
    BY <2>0, <2>2, CursorOfDrill, CoveredBelow
  <2>3. CASE Says("COMPLETED")
    <3>1. HistoryReplicated
      BY <2>3, CoveredPositions DEF Says, DrillCover, CompletionJustified
    <3> QED
      BY <3>1 DEF HistoryReplicated, Covered
  <2> QED
    BY <2>1, <2>2, <2>3
<1>2. /\ g' \in Locals /\ g'.pc = "pause"
      /\ g'.tele = g.tele /\ g'.final = g.final /\ g'.maxId = g.maxId
      /\ g'.windowStart = g.windowStart /\ g'.verdict = g.verdict
  BY GoesTo DEF Local, Pcs, PrePin
<1>3. \A w : Covered(w)' <=> Covered(w)
  BY DEF Local, vars, dbVars, Covered, Accounted
<1>4. HistoryReplicated' <=> HistoryReplicated
  BY DEF Local, vars, dbVars, HistoryReplicated, Accounted
<1> QED
  BY <1>1, <1>2, <1>3, <1>4 DEF DrillCover

(* Notes of no consequence to DrillCover. *)
Alike(x, y) ==
    /\ y \in Locals /\ y.pc = x.pc /\ y.tele = x.tele /\ y.final = x.final
    /\ y.maxId = x.maxId /\ y.windowStart = x.windowStart /\ y.verdict = x.verdict

LEMMA NotesOfFlags ==
    ASSUME NEW x \in Locals
    PROVE  /\ Alike(x, [x EXCEPT !.mode = "none"])
           /\ Alike(x, [x EXCEPT !.mode = "docker"])
           /\ Alike(x, [x EXCEPT !.existing = FALSE])
           /\ Alike(x, [x EXCEPT !.restarted = TRUE])
           /\ \A b \in BOOLEAN : Alike(x, [x EXCEPT !.polled = b])
           /\ Alike(x, [x EXCEPT !.quiesced = TRUE])
<1>1. Alike(x, [x EXCEPT !.mode = "none"])
  BY DEF Alike, Locals
<1>2. Alike(x, [x EXCEPT !.mode = "docker"])
  BY DEF Alike, Locals
<1>3. Alike(x, [x EXCEPT !.existing = FALSE])
  BY DEF Alike, Locals
<1>4. Alike(x, [x EXCEPT !.restarted = TRUE])
  BY DEF Alike, Locals
<1>5. \A b \in BOOLEAN : Alike(x, [x EXCEPT !.polled = b])
  BY DEF Alike, Locals
<1>6. Alike(x, [x EXCEPT !.quiesced = TRUE])
  BY DEF Alike, Locals
<1> QED
  BY <1>1, <1>2, <1>3, <1>4, <1>5, <1>6

LEMMA NotesOfIds ==
    ASSUME NEW x \in Locals
    PROVE  /\ \A id \in Rows \cup {0} : Alike(x, [x EXCEPT !.previousId = id])
           /\ \A id \in Rows \cup {0} : Alike(x, [x EXCEPT !.resumedAt = id])
           /\ \A ids \in SUBSET Rows : Alike(x, [x EXCEPT !.unpinned = ids])
<1>1. \A id \in Rows \cup {0} : Alike(x, [x EXCEPT !.previousId = id])
  BY DEF Alike, Locals
<1>2. \A id \in Rows \cup {0} : Alike(x, [x EXCEPT !.resumedAt = id])
  BY DEF Alike, Locals
<1>3. \A ids \in SUBSET Rows : Alike(x, [x EXCEPT !.unpinned = ids])
  BY DEF Alike, Locals
<1> QED
  BY <1>1, <1>2, <1>3

(* Where a step may lead that promises nothing. *)
Follows(a, b) ==
    /\ a \in Pcs /\ b \in Pcs
    /\ b \in PrePin => a \in PrePin
    /\ a \in Outside => b \in Outside

LEMMA FollowsInDrill ==
    /\ Follows("probed", "start") /\ Follows("probed", "first")
    /\ Follows("booted", "first") /\ Follows("booted", "boot") /\ Follows("start", "boot")
    /\ Follows("first", "preroll")
    /\ Follows("prerolled", "unpause") /\ Follows("prerolled", "preroll")
    /\ Follows("unpause", "preroll")
    /\ Follows("pause", "pausing") /\ Follows("pause", "quiesceKill")
    /\ Follows("pausing", "settle") /\ Follows("pausing", "quiesceKill")
    /\ Follows("settled", "pin") /\ Follows("settled", "settle") /\ Follows("settled", "quiesceKill")
    /\ Follows("quiesceKill", "pin") /\ Follows("pin", "pinned")
    /\ Follows("pinned", "resume") /\ Follows("pinned", "relaunch")
    /\ Follows("resume", "advance") /\ Follows("resume", "resumeKill")
    /\ Follows("resumeKill", "relaunch") /\ Follows("relaunch", "advance")
    /\ Follows("advanced", "kill") /\ Follows("advanced", "advance") /\ Follows("kill", "killed")
    /\ Follows("killed", "alive") /\ Follows("killed", "inspect") /\ Follows("dead", "inspect")
    /\ Follows("inspect", "restart") /\ Follows("restart", "watch")
    /\ Follows("finally", "done") /\ Follows("polled", "done") /\ Follows("polled", "revive")
    /\ Follows("revive", "done")
BY DEF Follows, Pcs, PrePin, Outside

LEMMA PlainGoes ==
    ASSUME g \in Locals, NEW a, NEW b, Follows(a, b), At({a}), g' = Goes(b)
    PROVE  Plain
BY GoesTo DEF At, Plain, Follows

(* A step that notes something as it goes. *)
LEMMA PlainNotes ==
    ASSUME g \in Locals, NEW a, NEW b, Follows(a, b), At({a}), Alike(Goes(b), g')
    PROVE  Plain
BY GoesTo DEF At, Plain, Follows, Alike

LEMMA PlainFails ==
    ASSUME g \in Locals, g' = Fails
    PROVE  Plain
BY FailsTo DEF Plain, Outside, PrePin

LEMMA PlainStands ==
    ASSUME g \in Locals, g' = g
    PROVE  Plain
BY DEF Plain

LEMMA KillIsPlain ==
    ASSUME g \in Locals, NEW a, NEW b, Follows(a, b), Kill(a, b)
    PROVE  Plain
<1>1. Goes(b) \in Locals
  BY GoesTo DEF Follows
<1>2. At({a}) /\ g' = [Goes(b) EXCEPT !.mode = "none"]
  BY DEF Kill, Local
<1> QED
  BY <1>1, <1>2, NotesOfFlags, PlainNotes

LEMMA StartIsPlain ==
    ASSUME g \in Locals, NEW a, NEW b, Follows(a, b),
           \/ Start(a, Goes(b))
           \/ Start(a, [Goes(b) EXCEPT !.restarted = TRUE])
    PROVE  Plain
<1>1. Goes(b) \in Locals
  BY GoesTo DEF Follows
<1>2. ASSUME NEW new, Alike(Goes(b), new), Start(a, new)
      PROVE  Plain
  <2>1. CASE g' = g
    BY <2>1, PlainStands
  <2>2. CASE At({a}) /\ g' = [new EXCEPT !.mode = "docker", !.existing = FALSE]
    <3>1. new \in Locals
      BY <1>2 DEF Alike
    <3>2. Alike(new, [new EXCEPT !.mode = "docker"])
      BY <3>1, NotesOfFlags
    <3>3. Alike([new EXCEPT !.mode = "docker"], [[new EXCEPT !.mode = "docker"] EXCEPT !.existing = FALSE])
      BY <3>2, NotesOfFlags DEF Alike
    <3>4. Alike(Goes(b), g')
      BY <1>2, <2>2, <3>2, <3>3 DEF Alike
    <3> QED
      BY <2>2, <3>4, PlainNotes
  <2> QED
    BY <1>2, <2>1, <2>2 DEF Start
<1>3. Alike(Goes(b), Goes(b)) /\ Alike(Goes(b), [Goes(b) EXCEPT !.restarted = TRUE])
  BY <1>1, NotesOfFlags DEF Alike
<1> QED
  BY <1>2, <1>3

(* The steps up to the pause. *)
LEMMA UpToPause ==
    ASSUME TypeInv, CoverInv, g \in Locals, DrillCover, Grows,
           \/ Baseline \/ Ensure \/ PreRoll
           \/ SendResume("unpause", "preroll", "preroll") \/ Start("start", Goes("boot"))
    PROVE  g' \in Locals /\ DrillCover'
<1> USE DEF Pcs, PrePin, Outside
<1>1. CASE Baseline
  <2>1. PICK size \in WindowSizes :
          g' = [Goes("probe") EXCEPT !.maxId = Max(table), !.windowStart = WindowStart(Max(table), size)]
    BY <1>1 DEF Baseline, Local
  <2>2. table \in SUBSET Rows /\ table # {} /\ History \subseteq table
    BY StatesOfDrill, TableAssumption, CoveredPositions
  <2>3. Max(table) \in Rows /\ \A r \in History : r <= Max(table)
    BY <2>2, MaxOfRows
  <2>4. WindowStart(Max(table), size) \in Rows \cup {0}
    <3>1. Max(table) \in Nat /\ size \in Nat \ {0}
      BY <2>3, RowsAreNaturals, WindowAssumption
    <3>2. \A n \in 1..Max(table) : n \in Rows
      BY <2>3, TableAssumption
    <3> QED
      BY <3>1, <3>2 DEF WindowStart
  <2>5. Goes("probe") \in Locals /\ Goes("probe").pc = "probe"
        /\ Goes("probe").tele = g.tele /\ Goes("probe").final = g.final
        /\ Goes("probe").verdict = g.verdict
    BY GoesTo
  <2> HIDE DEF Pcs, PrePin, Outside
  <2>6. /\ g' \in Locals /\ g'.pc = "probe" /\ g'.maxId = Max(table)
        /\ g'.tele = g.tele /\ g'.final = g.final /\ g'.verdict = g.verdict
    BY <2>1, <2>3, <2>4, <2>5 DEF Locals
  <2>7. \A w : Covered(w) => Covered(w)'
    BY DEF Grows, Covered, Accounted
  <2>8. HistoryReplicated => HistoryReplicated'
    BY HistoryGrows
  <2>9. g'.pc \notin PrePin
    BY <2>6 DEF PrePin
  <2> QED
    BY <2>3, <2>6, <2>7, <2>8, <2>9 DEF DrillCover
<1>2. CASE Ensure
  <2>1. CASE Poll("probe", "probed") \/ Poll("boot", "booted")
    BY <2>1, PollKeeps
  <2>2. CASE \/ At({"probed"}) /\ g' = Goes("start")
             \/ At({"probed"}) /\ g' = Goes("first")
             \/ At({"booted"}) /\ g' = Goes("first")
             \/ At({"booted"}) /\ g' = Goes("boot")
    BY <2>2, FollowsInDrill, PlainGoes, PlainKeeps
  <2>3. CASE g' = Fails
    BY <2>3, PlainFails, PlainKeeps
  <2> QED
    BY <1>2, <2>1, <2>2, <2>3 DEF Ensure, Local
<1>3. CASE PreRoll
  <2>1. CASE At({"first"}) /\ Local(Goes("preroll"))
    BY <2>1, FollowsInDrill, PlainGoes, PlainKeeps DEF Local
  <2>2. CASE At({"first"}) /\ ~NeedsPreRoll /\ Local(Goes("pause"))
    <3>1. g.pc \notin Outside
      BY <2>2 DEF At
    <3>2. cp.id >= g.windowStart \/ Says("COMPLETED")
      <4>1. cp.id \in Nat /\ g.windowStart \in Nat
        BY StatesOfDrill, RowsAreNaturals DEF Locals
      <4> QED
        BY <2>2, <4>1 DEF NeedsPreRoll, Says
    <3> QED
      BY <2>2, <3>1, <3>2, PauseKeeps
  <2>3. CASE Poll("preroll", "prerolled")
    BY <2>3, PollKeeps
  <2>4. ASSUME At({"prerolled"}), NEW new \in PreRolled, Local(new)
        PROVE  g' \in Locals /\ DrillCover'
    <3>1. g.pc = "prerolled" /\ g.pc \notin Outside
      BY <2>4 DEF At
    <3>2. CASE (Cursor >= g.windowStart \/ Says("COMPLETED")) /\ g' = Goes("pause")
      BY <2>4, <3>1, <3>2, PauseKeeps DEF Local
    <3>3. CASE g' = Fails
      BY <3>3, PlainFails, PlainKeeps
    <3>4. CASE g' = Goes("unpause") \/ g' = Goes("preroll")
      BY <2>4, <3>4, FollowsInDrill, PlainGoes, PlainKeeps
    <3> QED
      BY <2>4, <3>2, <3>3, <3>4 DEF PreRolled, Onward, Local
  <2> QED
    BY <1>3, <2>1, <2>2, <2>3, <2>4 DEF PreRoll
<1>4. CASE SendResume("unpause", "preroll", "preroll")
  BY <1>4, FollowsInDrill, PlainGoes, PlainKeeps DEF SendResume, Local
<1>5. CASE Start("start", Goes("boot"))
  BY <1>5, FollowsInDrill, StartIsPlain, PlainKeeps
<1> QED
  BY <1>1, <1>2, <1>3, <1>4, <1>5

(* From the pause to the pin. *)
LEMMA UpToPin ==
    ASSUME TypeInv, CoverInv, g \in Locals, DrillCover, Grows,
           SendPause \/ Settle \/ Kill("quiesceKill", "pin") \/ Pin
    PROVE  g' \in Locals /\ DrillCover'
<1> USE FollowsInDrill
<1>0. \A b \in Pcs : Goes(b) \in Locals
  BY GoesTo
<1>1. CASE SendPause
  <2>1. CASE \/ At({"pause"}) /\ (g' = Goes("pausing") \/ g' = Goes("quiesceKill"))
             \/ At({"pausing"}) /\ g' = Goes("quiesceKill")
    BY <2>1, PlainGoes, PlainKeeps
  <2>2. CASE At({"pausing"}) /\ g' = [Goes("settle") EXCEPT !.polled = FALSE]
    <3>1. Alike(Goes("settle"), g')
      BY <1>0, <2>2, NotesOfFlags DEF Follows
    <3> QED
      BY <2>2, <3>1, PlainNotes, PlainKeeps
  <2> QED
    BY <1>1, <2>1, <2>2 DEF SendPause, Local
<1>2. CASE Settle
  <2>1. CASE Poll("settle", "settled")
    BY <2>1, PollKeeps DEF Pcs, PrePin, Outside
  <2>2. CASE At({"settled"}) /\ g' = [Goes("pin") EXCEPT !.quiesced = TRUE]
    <3>1. Alike(Goes("pin"), g')
      BY <1>0, <2>2, NotesOfFlags DEF Follows
    <3> QED
      BY <2>2, <3>1, PlainNotes, PlainKeeps
  <2>3. CASE At({"settled"}) /\ g' = [Goes("settle") EXCEPT !.polled = TRUE, !.previousId = cp.id]
    <3> DEFINE polled == [Goes("settle") EXCEPT !.polled = TRUE]
    <3>1. Alike(Goes("settle"), polled)
      BY <1>0, NotesOfFlags DEF Follows
    <3>2. polled \in Locals /\ cp.id \in Rows \cup {0}
      BY <3>1, StatesOfDrill DEF Alike
    <3>3. Alike(polled, [polled EXCEPT !.previousId = cp.id])
      BY <3>2, NotesOfIds
    <3>4. Alike(Goes("settle"), g')
      BY <2>3, <3>1, <3>3 DEF Alike
    <3> QED
      BY <2>3, <3>4, PlainNotes, PlainKeeps
  <2>4. CASE At({"settled"}) /\ g' = Goes("quiesceKill")
    BY <2>4, PlainGoes, PlainKeeps
  <2> QED
    BY <1>2, <2>1, <2>2, <2>3, <2>4 DEF Settle, Local
<1>3. CASE Kill("quiesceKill", "pin")
  BY <1>3, KillIsPlain, PlainKeeps
<1>4. CASE Pin
  <2>1. CASE At({"pin"}) /\ g' = [Goes("pinned") EXCEPT !.unpinned = Unreplicated(g.windowStart)]
    <3>1. Unreplicated(g.windowStart) \in SUBSET Rows
      BY StatesOfDrill DEF Unreplicated
    <3>2. Alike(Goes("pinned"), g')
      BY <1>0, <2>1, <3>1, NotesOfIds DEF Follows
    <3> QED
      BY <2>1, <3>2, PlainNotes, PlainKeeps
  <2>2. CASE At({"pinned"}) /\ (g' = Fails \/ g' = Goes("resume") \/ g' = Goes("relaunch"))
    BY <2>2, PlainGoes, PlainFails, PlainKeeps
  <2> QED
    BY <1>4, <2>1, <2>2 DEF Pin, Local
<1> QED
  BY <1>1, <1>2, <1>3, <1>4

(* From the resume to the restart after the kill. *)
LEMMA UpToRestart ==
    ASSUME TypeInv, CoverInv, g \in Locals, DrillCover, Grows,
           \/ SendResume("resume", "advance", "resumeKill")
           \/ Kill("resumeKill", "relaunch") \/ Kill("kill", "killed")
           \/ Start("relaunch", Goes("advance"))
           \/ Start("restart", [Goes("watch") EXCEPT !.restarted = TRUE])
           \/ Advance \/ Alive \/ Inspect
    PROVE  g' \in Locals /\ DrillCover'
<1> USE FollowsInDrill
<1>1. CASE SendResume("resume", "advance", "resumeKill")
  BY <1>1, PlainGoes, PlainKeeps DEF SendResume, Local
<1>2. CASE Kill("resumeKill", "relaunch") \/ Kill("kill", "killed")
  BY <1>2, KillIsPlain, PlainKeeps
<1>3. CASE Start("relaunch", Goes("advance"))
  BY <1>3, StartIsPlain, PlainKeeps
<1>4. CASE Start("restart", [Goes("watch") EXCEPT !.restarted = TRUE])
  BY <1>4, StartIsPlain, PlainKeeps
<1>5. CASE Advance
  <2>1. CASE Poll("advance", "advanced")
    BY <2>1, PollKeeps DEF Pcs, PrePin, Outside
  <2>2. CASE At({"advanced"}) /\ (g' = Fails \/ g' = Goes("kill") \/ g' = Goes("advance"))
    BY <2>2, PlainGoes, PlainFails, PlainKeeps
  <2> QED
    BY <1>5, <2>1, <2>2 DEF Advance, Local
<1>6. CASE Alive
  <2>1. CASE Poll("alive", "dead")
    BY <2>1, PollKeeps DEF Pcs, PrePin, Outside
  <2>2. CASE \/ At({"killed"}) /\ (g' = Goes("alive") \/ g' = Goes("inspect"))
             \/ At({"dead"}) /\ (g' = Goes("inspect") \/ g' = Fails)
    BY <2>2, PlainGoes, PlainFails, PlainKeeps
  <2> QED
    BY <1>6, <2>1, <2>2 DEF Alive, Local
<1>7. CASE Inspect
  <2>1. CASE g' = Fails
    BY <2>1, PlainFails, PlainKeeps
  <2>2. CASE At({"inspect"}) /\ g' = [Goes("restart") EXCEPT !.resumedAt = cp.id]
    <3>1. cp.id \in Rows \cup {0} /\ Goes("restart") \in Locals
      BY GoesTo, StatesOfDrill DEF Follows
    <3>2. Alike(Goes("restart"), g')
      BY <2>2, <3>1, NotesOfIds
    <3> QED
      BY <2>2, <3>2, PlainNotes, PlainKeeps
  <2> QED
    BY <1>7, <2>1, <2>2 DEF Inspect, Local
<1> QED
  BY <1>1, <1>2, <1>3, <1>4, <1>5, <1>6, <1>7

(* The watch and the verdict: a PASS compares a covered position with the  *)
(* last id of the table.                                                   *)
LEMMA UpToVerdict ==
    ASSUME TypeInv, CoverInv, g \in Locals, DrillCover, Grows, Watch \/ Evaluate
    PROVE  g' \in Locals /\ DrillCover'
<1>0. /\ \A w : Covered(w) => Covered(w)'
      /\ HistoryReplicated => HistoryReplicated'
  BY HistoryGrows DEF Grows, Covered, Accounted
<1>1. CASE Watch
  <2>1. CASE Poll("watch", "watched")
    BY <2>1, PollKeeps DEF Pcs, PrePin, Outside
  <2>2. CASE g' = Fails
    BY <2>2, PlainFails, PlainKeeps
  <2>3. ASSUME At({"watched"}), NEW p \in {"watch", "evaluate"},
               g' = [[g EXCEPT !.firstSeen = FirstSeen, !.final = Max({@, Cursor})] EXCEPT !.pc = p]
        PROVE  g' \in Locals /\ DrillCover'
    <3>1. g.final \in Rows \cup {0} /\ g.final \in Nat
      BY RowsAreNaturals DEF Locals
    <3>2. Max({g.final, Cursor}) \in {g.final, Cursor}
      BY <3>1, CursorOfDrill, MaxOfTwo
    <3>3. Covered(Max({g.final, Cursor})) /\ Max({g.final, Cursor}) \in Rows \cup {0}
      BY <3>1, <3>2, CursorOfDrill DEF DrillCover
    <3>4. FirstSeen \in Rows \cup {0}
      BY StatesOfDrill DEF FirstSeen, Locals
    <3>5. p \in Pcs /\ p \notin PrePin /\ p \notin Outside /\ g.pc \notin Outside
      BY <2>3 DEF Pcs, PrePin, Outside, At
    <3>6. /\ g' \in Locals /\ g'.pc = p /\ g'.final = Max({g.final, Cursor})
          /\ g'.tele = g.tele /\ g'.maxId = g.maxId
          /\ g'.windowStart = g.windowStart /\ g'.verdict = g.verdict
      BY <2>3, <3>3, <3>4, <3>5 DEF Locals
    <3> QED
      BY <1>0, <3>3, <3>5, <3>6 DEF DrillCover
  <2>4. CASE At({"watched"}) /\ ~Poll("watch", "watched")
    BY <1>1, <2>2, <2>3, <2>4 DEF Watch, Local
  <2> QED
    BY <1>1, <2>1, <2>4 DEF Watch
<1>2. CASE Evaluate
  <2>1. g.pc = "evaluate" /\ g.pc \notin Outside
    BY <1>2 DEF Evaluate, At, Outside
  <2>2. g' = [Goes("finally") EXCEPT !.verdict = IF Passed(Max({g.final, cp.id})) THEN "PASS" ELSE "FAIL"]
    BY <1>2 DEF Evaluate, Local
  <2>3. ASSUME Passed(Max({g.final, cp.id})) PROVE HistoryReplicated
    <3>1. g.final \in Nat /\ cp.id \in Nat
      BY RowsAreNaturals, StatesOfDrill DEF Locals
    <3>2. Covered(Max({g.final, cp.id})) /\ Max({g.final, cp.id}) \in Nat
      BY <3>1, MaxOfTwo, CoveredPositions DEF DrillCover
    <3>3. Max({g.final, cp.id}) >= g.maxId /\ g.maxId \in Nat
      BY <2>3, RowsAreNaturals DEF Passed, Locals
    <3>4. \A r \in History : r <= g.maxId /\ r \in Nat
      BY <2>1, RowsAssumption, RowsAreNaturals DEF DrillCover
    <3>5. \A r \in History : r <= Max({g.final, cp.id})
      BY <3>2, <3>3, <3>4
    <3> QED
      BY <3>2, <3>5 DEF Covered, HistoryReplicated
  <2>4. "finally" \in Pcs /\ "finally" \in Outside /\ "finally" \notin PrePin
    BY DEF Pcs, Outside, PrePin
  <2>5. /\ Goes("finally") \in Locals /\ Goes("finally").pc = "finally"
        /\ Goes("finally").tele = g.tele /\ Goes("finally").final = g.final
    BY <2>4, GoesTo
  <2>6. /\ g' \in Locals /\ g'.pc = "finally" /\ g'.tele = g.tele /\ g'.final = g.final
        /\ g'.verdict = IF Passed(Max({g.final, cp.id})) THEN "PASS" ELSE "FAIL"
    BY <2>2, <2>5 DEF Locals
  <2> QED
    BY <1>0, <2>3, <2>4, <2>6 DEF DrillCover
<1> QED
  BY <1>1, <1>2

LEMMA UpToDone ==
    ASSUME TypeInv, CoverInv, g \in Locals, DrillCover, Grows,
           Finally \/ Start("revive", Goes("done")) \/ QueryFails \/ Daemon
    PROVE  g' \in Locals /\ DrillCover'
<1> USE FollowsInDrill
<1>1. CASE Finally
  <2>1. CASE Poll("finally", "polled")
    BY <2>1, PollKeeps DEF Pcs, PrePin, Outside
  <2>2. CASE \/ At({"finally"}) /\ g' = Goes("done")
             \/ At({"polled"}) /\ (g' = Goes("done") \/ g' = Goes("revive"))
    BY <2>2, PlainGoes, PlainKeeps
  <2> QED
    BY <1>1, <2>1, <2>2 DEF Finally, Local
<1>2. CASE Start("revive", Goes("done"))
  BY <1>2, StartIsPlain, PlainKeeps
<1>3. CASE QueryFails
  BY <1>3, PlainFails, PlainKeeps DEF QueryFails
<1>4. CASE Daemon
  BY <1>4, PlainStands, PlainKeeps DEF Daemon
<1> QED
  BY <1>1, <1>2, <1>3, <1>4

DrillInv == TypeInv /\ CoverInv /\ g \in Locals /\ DrillCover

LEMMA DrillInvariance == DrillSpec => []DrillInv
<1>1. DrillInit => DrillInv
  <2> SUFFICES ASSUME DrillInit PROVE DrillInv
    OBVIOUS
  <2>1. TypeInv /\ CoverInv
    BY TypeInit, CoverInit DEF DrillInit
  <2>2. PICK mode \in {"none", "docker"} :
          g = [pc |-> "baseline", mode |-> mode, existing |-> TRUE, restarted |-> FALSE,
               maxId |-> 0, windowStart |-> 0, tele |-> Null, previousId |-> 0, polled |-> FALSE,
               quiesced |-> FALSE, resumedAt |-> 0, firstSeen |-> 0, final |-> 0,
               verdict |-> "NONE", unpinned |-> {}]
    BY DEF DrillInit
  <2>3. "baseline" \in Pcs /\ Null \in [status : Statuses \cup {"UNREACHABLE"}, cursor : Rows \cup {0}]
    BY DEF Pcs, Outside, Null
  <2>4. g \in Locals
    BY <2>2, <2>3 DEF Locals
  <2>5. DrillCover
    BY <2>1, <2>2, CoveredPositions DEF DrillCover, Null, Outside, PrePin
  <2> QED
    BY <2>1, <2>4, <2>5 DEF DrillInv
<1>2. DrillInv /\ [DrillNext]_drillVars => DrillInv'
  <2>1. ASSUME DrillInv, DrillNext PROVE DrillInv'
    <3>1. TypeInv' /\ CoverInv' /\ Grows
      BY <2>1, DrillWorld DEF DrillInv
    <3>2. TypeInv /\ CoverInv /\ g \in Locals /\ DrillCover
      BY <2>1 DEF DrillInv
    <3>3. g' \in Locals /\ DrillCover'
      BY <2>1, <3>1, <3>2, UpToPause, UpToPin, UpToRestart, UpToVerdict, UpToDone
      DEF DrillNext, Gate
    <3> QED
      BY <3>1, <3>3 DEF DrillInv
  <2>2. ASSUME DrillInv, UNCHANGED drillVars PROVE DrillInv'
    <3>1. TypeInv'
      BY <2>2 DEF DrillInv, TypeInv, TypeOK, drillVars, vars, dbVars, fieldVars, envVars, faultVars,
                  loopVars
    <3>2. CoverInv'
      BY <2>2 DEF DrillInv, CoverInv, PositionsCovered, CompletionJustified, BatchOK, Covered,
                  Accounted, HistoryReplicated, drillVars, vars, dbVars, fieldVars, envVars,
                  faultVars, loopVars
    <3>3. g' \in Locals /\ DrillCover'
      BY <2>2 DEF DrillInv, DrillCover, Covered, Accounted, HistoryReplicated, drillVars, vars, dbVars
    <3> QED
      BY <3>1, <3>2, <3>3 DEF DrillInv
  <2> QED
    BY <2>1, <2>2
<1> QED
  BY <1>1, <1>2, PTL DEF DrillSpec

(* A PASS of gate 1 means that every row there was at its start is in both *)
(* sinks or quarantined, wherever the daemon was killed, restarted, hung   *)
(* or lost a request (gate1.js:120-400).                                   *)
THEOREM DrillPassIsTrue == DrillSpec => []PassMeansReplicated
<1>1. DrillInv => PassMeansReplicated
  BY DEF DrillInv, DrillCover, PassMeansReplicated, HistoryReplicated
<1> QED
  BY DrillInvariance, <1>1, PTL

(* Pinning the checkpoint of the daemon and killing it loses no record     *)
(* either: what the backfill guarantees by itself, it keeps under the      *)
(* drill (gate1.js:145-200).                                               *)
THEOREM DrillLosesNothing == DrillSpec => []NoRecordLost
<1>1. DrillInv => NoRecordLost
  BY DEF DrillInv, CoverInv, PositionsCovered, NoRecordLost
<1> QED
  BY DrillInvariance, <1>1, PTL

(* What the drill knows of the daemon when it decides whether to start it  *)
(* once more.                                                              *)
RunningInv ==
    /\ g.restarted => g.pc \in {"watch", "watched", "evaluate", "finally", "done"} /\ proc # "down"
    /\ g.pc = "polled" /\ g.tele # Null => proc # "down"
    /\ g.pc = "done" => proc # "down"

(* The daemon crashes only at the hand of the drill: where it kills it or  *)
(* restarts it.                                                            *)
LEMMA StaysUp ==
    ASSUME proc # "down",
           \/ Baseline \/ Ensure \/ PreRoll \/ SendPause \/ Settle \/ Pin \/ Advance \/ Alive
           \/ Inspect \/ Watch \/ Evaluate \/ Finally
           \/ SendResume("unpause", "preroll", "preroll")
           \/ SendResume("resume", "advance", "resumeKill")
           \/ QueryFails \/ Daemon
    PROVE  proc' # "down"
<1> USE DEF envVars, vars
<1>1. CASE \/ Baseline \/ Ensure \/ PreRoll \/ Settle \/ Advance \/ Alive \/ Inspect \/ Watch
           \/ Evaluate \/ Finally
  BY <1>1 DEF Baseline, Ensure, PreRoll, Settle, Advance, Alive, Inspect, Watch, Evaluate, Finally,
              Poll, Local
<1>2. CASE SendPause \/ Pin \/ QueryFails
  BY <1>2 DEF SendPause, Pause, Pin, QueryFails, Local
<1>3. ASSUME NEW a, NEW b, NEW c, SendResume(a, b, c) PROVE proc' # "down"
  BY <1>3 DEF SendResume, Resume, Local
<1>4. ASSUME NEW l \in Loops, Progress(l) PROVE proc' = proc
  BY <1>4 DEF Progress, ReadCheckpoint, ResumeFromCheckpoint, SetRunning, FetchBatch, FetchNothing,
              SetCompleted, SinkAck, Dispatched, PersistFailures, CommitCheckpoint, Committed, SetFailed
<1>5. ASSUME NEW l \in Loops,
             \/ QueryFailsOutside(l) \/ QueryFailsInside(l) \/ Launch(l)
             \/ \E s \in Sinks : SinkReject(l, s)
      PROVE  proc' # "down"
  BY <1>5 DEF QueryFailsOutside, QueryFailsInside, SinkReject, Launch
<1>6. CASE Pause \/ SetPaused \/ OrphanSettles \/ InsertRow
  BY <1>6 DEF Pause, SetPaused, OrphanSettles, InsertRow
<1> QED
  BY <1>1, <1>2, <1>3, <1>4, <1>5, <1>6 DEF Daemon

Late == {"watch", "watched", "evaluate", "finally", "polled", "revive", "done"}

(* Until the restart that precedes the watch the drill has no such memory, *)
(* and it does not go straight to its end.                                 *)
Early ==
    /\ g.pc \notin Late
    /\ g'.restarted = g.restarted
    /\ g'.pc \notin {"polled", "done"}

LEMMA EarlyGoes ==
    ASSUME g \in Locals, NEW a \in Pcs \ Late, NEW b \in Pcs \ {"polled", "done"}, At({a}),
           g' = Goes(b)
    PROVE  Early
BY GoesTo DEF Early, At

LEMMA EarlyFails ==
    ASSUME g \in Locals, g.pc \notin Late, g' = Fails
    PROVE  Early
BY FailsTo DEF Early

LEMMA EarlyPolls ==
    ASSUME g \in Locals, NEW a \in Pcs \ Late, NEW b \in Pcs \ {"polled", "done"}, Poll(a, b)
    PROVE  Early
<1>1. Goes(b) \in Locals /\ Goes(b).pc = b /\ Goes(b).restarted = g.restarted
  BY GoesTo
<1> QED
  BY <1>1 DEF Early, Poll, At, Local, Locals

(* Steps that note something as they go. *)
LEMMA EarlyNotes ==
    ASSUME g \in Locals, NEW a \in Pcs \ Late, NEW b \in Pcs \ {"polled", "done"}, At({a}),
           NEW x, NEW y,
           \/ g' = [Goes(b) EXCEPT !.mode = "none"]
           \/ g' = [Goes(b) EXCEPT !.mode = "docker", !.existing = FALSE]
           \/ g' = [Goes(b) EXCEPT !.polled = FALSE]
           \/ g' = [Goes(b) EXCEPT !.quiesced = TRUE]
           \/ g' = [Goes(b) EXCEPT !.polled = TRUE, !.previousId = x]
           \/ g' = [Goes(b) EXCEPT !.resumedAt = x]
           \/ g' = [Goes(b) EXCEPT !.unpinned = x]
           \/ g' = [Goes(b) EXCEPT !.maxId = x, !.windowStart = y]
    PROVE  Early
<1>1. Goes(b) \in Locals /\ Goes(b).pc = b /\ Goes(b).restarted = g.restarted
  BY GoesTo
<1> DEFINE Same == g'.restarted = g.restarted /\ g'.pc = b
<1>2. CASE g' = [Goes(b) EXCEPT !.mode = "none"]
  <2>1. Same
    BY <1>1, <1>2 DEF Locals
  <2> QED
    BY <2>1 DEF Early, At
<1>3. CASE g' = [Goes(b) EXCEPT !.mode = "docker", !.existing = FALSE]
  <2>1. Same
    BY <1>1, <1>3 DEF Locals
  <2> QED
    BY <2>1 DEF Early, At
<1>4. CASE g' = [Goes(b) EXCEPT !.polled = FALSE]
  <2>1. Same
    BY <1>1, <1>4 DEF Locals
  <2> QED
    BY <2>1 DEF Early, At
<1>5. CASE g' = [Goes(b) EXCEPT !.quiesced = TRUE]
  <2>1. Same
    BY <1>1, <1>5 DEF Locals
  <2> QED
    BY <2>1 DEF Early, At
<1>6. CASE g' = [Goes(b) EXCEPT !.polled = TRUE, !.previousId = x]
  <2>1. Same
    BY <1>1, <1>6 DEF Locals
  <2> QED
    BY <2>1 DEF Early, At
<1>7. CASE g' = [Goes(b) EXCEPT !.resumedAt = x]
  <2>1. Same
    BY <1>1, <1>7 DEF Locals
  <2> QED
    BY <2>1 DEF Early, At
<1>8. CASE g' = [Goes(b) EXCEPT !.unpinned = x]
  <2>1. Same
    BY <1>1, <1>8 DEF Locals
  <2> QED
    BY <2>1 DEF Early, At
<1>9. CASE g' = [Goes(b) EXCEPT !.maxId = x, !.windowStart = y]
  <2>1. Same
    BY <1>1, <1>9 DEF Locals
  <2> QED
    BY <2>1 DEF Early, At
<1> QED
  BY <1>2, <1>3, <1>4, <1>5, <1>6, <1>7, <1>8, <1>9

LEMMA EarlySteps ==
    ASSUME g \in Locals,
           \/ Baseline \/ Ensure \/ PreRoll \/ SendPause \/ Settle \/ Pin \/ Advance \/ Alive
           \/ Inspect
           \/ SendResume("unpause", "preroll", "preroll")
           \/ SendResume("resume", "advance", "resumeKill")
           \/ Kill("quiesceKill", "pin") \/ Kill("resumeKill", "relaunch") \/ Kill("kill", "killed")
           \/ Start("start", Goes("boot")) /\ g' # g
           \/ Start("relaunch", Goes("advance")) /\ g' # g
    PROVE  Early
<1> USE DEF Pcs, PrePin, Outside, Late
<1>1. CASE Baseline
  <2>1. PICK size \in WindowSizes :
          g' = [Goes("probe") EXCEPT !.maxId = Max(table), !.windowStart = WindowStart(Max(table), size)]
    BY <1>1 DEF Baseline, Local
  <2>2. At({"baseline"}) /\ "baseline" \in Pcs \ Late /\ "probe" \in Pcs \ {"polled", "done"}
    BY <1>1 DEF Baseline
  <2> QED
    BY <2>1, <2>2, EarlyNotes, Zenon
<1>2. CASE Ensure
  BY <1>2, EarlyGoes, EarlyFails, EarlyPolls DEF Ensure, Local, At
<1>3. CASE PreRoll
  <2>1. CASE At({"first"}) \/ Poll("preroll", "prerolled")
    BY <1>3, <2>1, EarlyGoes, EarlyPolls DEF PreRoll, Local, At
  <2>2. ASSUME At({"prerolled"}), NEW new \in PreRolled, Local(new)
        PROVE  Early
    BY <2>2, EarlyGoes, EarlyFails DEF PreRolled, Onward, Local, At
  <2> QED
    BY <1>3, <2>1, <2>2 DEF PreRoll
<1>4. CASE SendPause
  <2>1. \/ At({"pause"}) /\ (g' = Goes("pausing") \/ g' = Goes("quiesceKill"))
        \/ At({"pausing"}) /\ g' = Goes("quiesceKill")
    => Early
    BY EarlyGoes
  <2>2. At({"pausing"}) /\ g' = [Goes("settle") EXCEPT !.polled = FALSE] => Early
    <3>1. "pausing" \in Pcs \ Late /\ "settle" \in Pcs \ {"polled", "done"}
      OBVIOUS
    <3> QED
      BY <3>1, EarlyNotes, Zenon
  <2> QED
    BY <1>4, <2>1, <2>2 DEF SendPause, Local
<1>5. CASE Settle
  <2>0. "settled" \in Pcs \ Late /\ "pin" \in Pcs \ {"polled", "done"}
        /\ "settle" \in Pcs \ {"polled", "done"}
    OBVIOUS
  <2>1. Poll("settle", "settled") => Early
    BY EarlyPolls
  <2>2. At({"settled"}) /\ g' = Goes("quiesceKill") => Early
    BY EarlyGoes
  <2>3. At({"settled"}) /\ g' = [Goes("pin") EXCEPT !.quiesced = TRUE] => Early
    BY <2>0, EarlyNotes, Zenon
  <2>4. At({"settled"}) /\ g' = [Goes("settle") EXCEPT !.polled = TRUE, !.previousId = cp.id] => Early
    BY <2>0, EarlyNotes, Zenon
  <2> QED
    BY <1>5, <2>1, <2>2, <2>3, <2>4 DEF Settle, Local
<1>6. CASE Pin
  <2>1. CASE At({"pin"})
    <3>1. g' = [Goes("pinned") EXCEPT !.unpinned = Unreplicated(g.windowStart)]
      BY <1>6, <2>1 DEF Pin, At
    <3>2. "pin" \in Pcs \ Late /\ "pinned" \in Pcs \ {"polled", "done"}
      OBVIOUS
    <3> QED
      BY <2>1, <3>1, <3>2, EarlyNotes, Zenon
  <2>2. CASE At({"pinned"})
    BY <1>6, <2>2, EarlyGoes, EarlyFails DEF Pin, Local, At
  <2> QED
    BY <1>6, <2>1, <2>2 DEF Pin
<1>7. CASE Advance \/ Alive
  BY <1>7, EarlyGoes, EarlyFails, EarlyPolls DEF Advance, Alive, Local, At
<1>8. CASE Inspect
  <2>1. At({"inspect"}) /\ (g' = Fails \/ g' = [Goes("restart") EXCEPT !.resumedAt = cp.id])
    BY <1>8 DEF Inspect, Local
  <2>2. g' = Fails => Early
    BY <2>1, EarlyFails DEF At
  <2>3. "inspect" \in Pcs \ Late /\ "restart" \in Pcs \ {"polled", "done"}
    OBVIOUS
  <2>4. g' = [Goes("restart") EXCEPT !.resumedAt = cp.id] => Early
    BY <2>1, <2>3, EarlyNotes, Zenon
  <2> QED
    BY <2>1, <2>2, <2>4
<1>9. CASE \/ SendResume("unpause", "preroll", "preroll")
           \/ SendResume("resume", "advance", "resumeKill")
  BY <1>9, EarlyGoes DEF SendResume, Local
<1>10. CASE \/ Kill("quiesceKill", "pin") \/ Kill("resumeKill", "relaunch")
            \/ Kill("kill", "killed")
  <2>1. PICK a \in {"quiesceKill", "resumeKill", "kill"}, b \in {"pin", "relaunch", "killed"} :
          At({a}) /\ g' = [Goes(b) EXCEPT !.mode = "none"]
    BY <1>10 DEF Kill, Local
  <2>2. a \in Pcs \ Late /\ b \in Pcs \ {"polled", "done"}
    OBVIOUS
  <2> QED
    BY <2>1, <2>2, EarlyNotes, Zenon
<1>11. CASE \/ Start("start", Goes("boot")) /\ g' # g
            \/ Start("relaunch", Goes("advance")) /\ g' # g
  <2>1. PICK a \in {"start", "relaunch"}, b \in {"boot", "advance"} :
          At({a}) /\ g' = [Goes(b) EXCEPT !.mode = "docker", !.existing = FALSE]
    BY <1>11 DEF Start
  <2>2. a \in Pcs \ Late /\ b \in Pcs \ {"polled", "done"}
    OBVIOUS
  <2> QED
    BY <2>1, <2>2, EarlyNotes, Zenon
<1> QED
  BY <1>1, <1>2, <1>3, <1>4, <1>5, <1>6, <1>7, <1>8, <1>9, <1>10, <1>11

LEMMA RunningNext ==
    ASSUME g \in Locals, RunningInv, DrillNext
    PROVE  RunningInv'
<1>1. CASE Early
  BY <1>1 DEF Early, RunningInv, Late
<1>2. CASE \/ Baseline \/ Ensure \/ PreRoll \/ SendPause \/ Settle \/ Pin \/ Advance \/ Alive
           \/ Inspect
           \/ SendResume("unpause", "preroll", "preroll")
           \/ SendResume("resume", "advance", "resumeKill")
           \/ Kill("quiesceKill", "pin") \/ Kill("resumeKill", "relaunch") \/ Kill("kill", "killed")
  BY <1>1, <1>2, EarlySteps
<1>3. CASE Start("start", Goes("boot")) \/ Start("relaunch", Goes("advance"))
  <2>1. CASE g' = g
    BY <1>3, <2>1 DEF RunningInv, Start, At
  <2>2. CASE g' # g
    BY <1>1, <1>3, <2>2, EarlySteps
  <2> QED
    BY <2>1, <2>2
<1>4. CASE Start("restart", [Goes("watch") EXCEPT !.restarted = TRUE])
  <2>1. CASE g' = g
    BY <1>4, <2>1 DEF RunningInv, Start, At
  <2>2. CASE g' # g
    <3>1. Goes("watch") \in Locals /\ Goes("watch").pc = "watch"
      BY GoesTo DEF Pcs
    <3>2. g'.pc = "watch" /\ proc' = "booting"
      BY <1>4, <2>2, <3>1 DEF Start, Boot, Locals
    <3> QED
      BY <3>2 DEF RunningInv
  <2> QED
    BY <2>1, <2>2
<1>5. CASE Start("revive", Goes("done"))
  <2>1. CASE g' = g
    BY <1>5, <2>1 DEF RunningInv, Start, At
  <2>2. CASE g' # g
    <3>1. Goes("done") \in Locals /\ Goes("done").pc = "done" /\ Goes("done").restarted = g.restarted
      BY GoesTo DEF Pcs, Outside
    <3>2. g'.pc = "done" /\ proc' = "booting"
      BY <1>5, <2>2, <3>1 DEF Start, Boot, Locals
    <3> QED
      BY <3>2 DEF RunningInv
  <2> QED
    BY <2>1, <2>2
<1>6. CASE Watch
  <2>1. /\ g.pc \in {"watch", "watched"} /\ g'.restarted = g.restarted
        /\ g'.pc \in {"watch", "watched", "evaluate", "finally"}
    <3>1. CASE Poll("watch", "watched")
      <4>1. Goes("watched") \in Locals /\ Goes("watched").pc = "watched"
            /\ Goes("watched").restarted = g.restarted
        BY GoesTo DEF Pcs
      <4> QED
        BY <3>1, <4>1 DEF Poll, At, Local, Locals
    <3>2. CASE At({"watched"}) /\ g' = Fails
      BY <3>2, FailsTo DEF At
    <3>3. CASE \E p \in {"watch", "evaluate"} :
                 /\ At({"watched"})
                 /\ g' = [[g EXCEPT !.firstSeen = FirstSeen, !.final = Max({@, Cursor})] EXCEPT !.pc = p]
      BY <3>3 DEF At, Locals
    <3> QED
      BY <1>6, <3>1, <3>2, <3>3 DEF Watch, Local
  <2> QED
    BY <1>6, <2>1, StaysUp DEF RunningInv
<1>7. CASE Evaluate
  <2>1. Goes("finally") \in Locals /\ Goes("finally").pc = "finally"
        /\ Goes("finally").restarted = g.restarted
    BY GoesTo DEF Pcs, Outside
  <2>2. g'.pc = "finally" /\ g'.restarted = g.restarted
    BY <1>7, <2>1 DEF Evaluate, Local, Locals
  <2> QED
    BY <1>7, <2>2, StaysUp DEF RunningInv
<1>8. CASE Finally
  <2>0. UNCHANGED proc
    BY <1>8 DEF Finally, Poll, Local, vars, envVars
  <2>1. CASE g.restarted /\ g' = Goes("done")
    <3>1. g'.pc = "done"
      BY <2>1, GoesTo DEF Pcs, Outside
    <3> QED
      BY <2>0, <2>1, <3>1 DEF RunningInv
  <2>2. CASE ~g.restarted /\ Poll("finally", "polled")
    <3>1. PICK answer \in {Null} \cup {[status |-> status, cursor |-> lastProcessedId] : x \in {proc} \ {"down"}} :
            g' = [Goes("polled") EXCEPT !.tele = answer]
      BY <2>2 DEF Poll, Local
    <3>2. Goes("polled") \in Locals /\ Goes("polled").pc = "polled"
          /\ Goes("polled").restarted = g.restarted
      BY GoesTo DEF Pcs, Outside
    <3>3. g'.pc = "polled" /\ g'.tele = answer /\ g'.restarted = g.restarted
      BY <3>1, <3>2 DEF Locals
    <3>4. answer # Null => proc # "down"
      BY <3>1
    <3> QED
      BY <2>0, <2>2, <3>3, <3>4 DEF RunningInv
  <2>3. CASE At({"polled"}) /\ Local(Goes(IF LeavesRunning THEN "done" ELSE "revive"))
    <3>1. /\ LeavesRunning => g'.pc = "done"
          /\ ~LeavesRunning => g'.pc = "revive"
          /\ g'.restarted = g.restarted
      BY <2>3, GoesTo DEF Local, Pcs, Outside
    <3>2. ~g.restarted /\ (LeavesRunning => proc # "down")
      BY <2>3 DEF RunningInv, At, LeavesRunning
    <3> QED
      BY <2>0, <3>1, <3>2 DEF RunningInv
  <2> QED
    BY <1>8, <2>1, <2>2, <2>3 DEF Finally, Local
<1>9. CASE QueryFails
  <2>1. g'.pc = "finally" /\ g'.restarted = g.restarted
    BY <1>9, FailsTo DEF QueryFails
  <2> QED
    BY <1>9, <2>1, StaysUp DEF RunningInv
<1>10. CASE Daemon
  <2>1. g' = g
    BY <1>10 DEF Daemon
  <2> QED
    BY <1>10, <2>1, StaysUp DEF RunningInv
<1> QED
  BY <1>2, <1>3, <1>4, <1>5, <1>6, <1>7, <1>8, <1>9, <1>10 DEF DrillNext, Gate

(* "Always leave the daemon running for subsequent gates, whatever         *)
(* happened above" (gate1.js:406): the drill ends with the daemon up,      *)
(* whichever of its steps failed.                                          *)
THEOREM DrillLeavesDaemon == DrillSpec => []DaemonLeftRunning
<1>1. DrillInit => RunningInv
  BY DEF DrillInit, RunningInv
<1>2. DrillInv /\ RunningInv /\ [DrillNext]_drillVars => RunningInv'
  <2>1. RunningInv /\ UNCHANGED drillVars => RunningInv'
    BY DEF RunningInv, drillVars, vars, envVars
  <2> QED
    BY <2>1, RunningNext DEF DrillInv
<1>3. RunningInv => DaemonLeftRunning
  BY DEF RunningInv, DaemonLeftRunning
<1> QED
  BY <1>1, <1>2, <1>3, DrillInvariance, PTL DEF DrillSpec
=============================================================================
