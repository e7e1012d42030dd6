----------------------- MODULE IncrementalRunnerProofs -----------------------
(***************************************************************************)
(* Proofs about IncrementalRunner, for any rows, batch size, number of     *)
(* overlapping activations of start(), failures, crashes and commands.     *)
(***************************************************************************)
EXTENDS IncrementalRunner, FiniteSetTheorems, WellFoundedInduction, TLAPS

----------------------------------------------------------------------------
(* The order of the composite watermark *)

IsPosition(p) == p.ts \in Nat /\ p.id \in Nat

LEMMA OrderIsTotal ==
    ASSUME NEW p, IsPosition(p), NEW q, IsPosition(q)
    PROVE  AtOrBelow(p, p) /\ (AtOrBelow(p, q) \/ AtOrBelow(q, p))
BY DEF AtOrBelow, IsPosition

LEMMA OrderIsTransitive ==
    ASSUME NEW p, IsPosition(p), NEW q, IsPosition(q), NEW r, IsPosition(r),
           AtOrBelow(p, q), AtOrBelow(q, r)
    PROVE  AtOrBelow(p, r)
BY DEF AtOrBelow, IsPosition

(* The last record of a batch exists: among the sets of records above one  *)
(* of them there is a least one, which is empty.                           *)
LEMMA WatermarkIsLast ==
    ASSUME NEW S, IsFiniteSet(S), S # {}, \A x \in S : IsPosition(x)
    PROVE  WatermarkOf(S) \in S /\ \A y \in S : AtOrBelow(y, WatermarkOf(S))
<1> DEFINE Above(x) == {y \in S : ~AtOrBelow(y, x)}
           T == {Above(x) : x \in S}
           R == StrictSubsetOrdering(S)
<1>1. IsWellFoundedOn(R, SUBSET S)
  BY FS_StrictSubsetOrderingWellFounded, FS_FiniteSubsetsOfFinite
<1>2. T \subseteq SUBSET S /\ T # {}
  OBVIOUS
<1>3. PICK A \in T : \A B \in T : <<B, A>> \notin R
  <2> HIDE DEF T, R
  <2> QED
    BY <1>1, <1>2, WFMin
<1>4. PICK x \in S : A = Above(x)
  OBVIOUS
<1>5. ASSUME NEW y \in S, ~AtOrBelow(y, x) PROVE FALSE
  <2>1. Above(y) \subseteq Above(x)
    <3> SUFFICES ASSUME NEW z \in S, ~AtOrBelow(z, y), AtOrBelow(z, x) PROVE FALSE
      OBVIOUS
    <3>1. AtOrBelow(x, y)
      BY <1>5, OrderIsTotal
    <3> QED
      BY <3>1, OrderIsTransitive
  <2>2. y \in Above(x) /\ y \notin Above(y)
    BY <1>5, OrderIsTotal
  <2>3. <<Above(y), Above(x)>> \in R
    BY <2>1, <2>2 DEF StrictSubsetOrdering
  <2> QED
    BY <2>3, <1>3, <1>4
<1>6. \E w \in S : \A y \in S : AtOrBelow(y, w)
  BY <1>5
<1> QED
  BY <1>6, Zenon DEF WatermarkOf

----------------------------------------------------------------------------
(* Batches *)

LEMMA RecordsTyped ==
    ASSUME source \in [Rows -> [ts : Nat, version : Nat]]
    PROVE  Records \subseteq Versions /\ \A x \in Versions : IsPosition(x)
<1>1. ASSUME NEW r \in Rows
      PROVE  [id |-> r, ts |-> source[r].ts, version |-> source[r].version] \in Versions
  <2>1. source[r] \in [ts : Nat, version : Nat]
    OBVIOUS
  <2> QED
    BY <2>1 DEF Versions
<1>2. \A x \in Versions : IsPosition(x)
  BY RowsAssumption DEF Versions, IsPosition
<1> QED
  BY <1>1, <1>2, Zenon DEF Records

(* There is one record for a row, so they are no more than the rows. *)
LEMMA RecordsCounted ==
    /\ IsFiniteSet(Records)
    /\ Cardinality(Records) \in 0 .. Cardinality(Rows)
<1> DEFINE live == {q \in Rows : source[q].version > 0}
           Row(r) == [id |-> r, ts |-> source[r].ts, version |-> source[r].version]
           f == [r \in live |-> Row(r)]
<1>1. IsFiniteSet(live) /\ Cardinality(live) <= Cardinality(Rows) /\ Cardinality(Rows) \in Nat
  <2>1. live \in SUBSET Rows
    OBVIOUS
  <2> HIDE DEF live
  <2> QED
    BY <2>1, RowsAssumption, FS_Subset, FS_CardinalityType
<1>2. f \in Surjection(live, Records)
  BY DEF Surjection, Records
<1>3. IsFiniteSet(Records) /\ Cardinality(Records) <= Cardinality(live)
  <2> HIDE DEF f, live
  <2> QED
    BY <1>1, <1>2, FS_Surjection
<1>4. Cardinality(Records) \in Nat /\ Cardinality(live) \in Nat
  BY <1>1, <1>3, FS_CardinalityType
<1> HIDE DEF live
<1> QED
  BY <1>1, <1>3, <1>4

LEMMA PendingCounted ==
    ASSUME NEW w
    PROVE  /\ IsFiniteSet(Pending(w)) /\ Cardinality(Pending(w)) \in 0 .. Cardinality(Rows)
           /\ IsFiniteSet(NextBatch(w)) /\ NextBatch(w) \subseteq Records
<1>1. Pending(w) \in SUBSET Records /\ NextBatch(w) \in SUBSET Records
  BY DEF Pending, NextBatch
<1>2. Cardinality(Pending(w)) \in Nat
  BY <1>1, RecordsCounted, FS_Subset, FS_CardinalityType
<1>3. Cardinality(Pending(w)) <= Cardinality(Records)
  BY <1>1, RecordsCounted, FS_Subset
<1>4. Cardinality(Rows) \in Nat
  BY RowsAssumption, FS_CardinalityType
<1> QED
  BY <1>1, <1>2, <1>3, <1>4, RecordsCounted, FS_Subset

(* LIMIT cuts at the far end only: no pending record is left out between   *)
(* the cursor and a record of the batch.                                   *)
LEMMA BatchHasNoGap ==
    ASSUME source \in [Rows -> [ts : Nat, version : Nat]],
           NEW w, NEW q \in NextBatch(w), NEW y \in Pending(w), AtOrBelow(y, q)
    PROVE  y \in NextBatch(w)
<1> DEFINE Upto(x) == {z \in Pending(w) : AtOrBelow(z, x)}
<1>1. \A x \in Pending(w) : IsPosition(x)
  BY RecordsTyped DEF Pending
<1>2. q \in Pending(w)
  BY DEF NextBatch
<1>3. Upto(y) \in SUBSET Upto(q) /\ Upto(q) \in SUBSET Pending(w)
  BY <1>1, <1>2, OrderIsTransitive
<1>4. IsFiniteSet(Upto(q)) /\ Cardinality(Upto(q)) <= BatchSize
  BY <1>3, PendingCounted, FS_Subset DEF NextBatch
<1>5. Cardinality(Upto(y)) \in Nat /\ Cardinality(Upto(y)) <= Cardinality(Upto(q))
      /\ Cardinality(Upto(q)) \in Nat
  <2> HIDE DEF Upto
  <2> QED
    BY <1>3, <1>4, FS_Subset, FS_CardinalityType
<1>6. Cardinality(Upto(y)) <= BatchSize
  <2> HIDE DEF Upto
  <2> QED
    BY <1>4, <1>5, OptionsAssumption
<1> QED
  BY <1>6 DEF NextBatch
----------------------------------------------------------------------------
(* Type correctness *)

(* The awaits at which an activation holds a batch. *)
Working == {"dispatch", "persist", "commit", "committed"}

(* TypeOK in three parts: what no activation touches but through a query   *)
(* or a sink, the runner's fields with its sleepers, and what activations  *)
(* hold.  In addition a batch is finite, and not empty while its last      *)
(* record may be asked for: without it the cursor taken from it had no     *)
(* type.                                                                   *)
DataTyped ==
    /\ now \in Nat /\ writes \in Nat
    /\ source \in [Rows -> [ts : Nat, version : Nat]]
    /\ \A t \in open : t.ts \in Nat /\ t.ids \subseteq Rows
    /\ dlq \subseteq Rows \X Nat \X Sinks
    /\ delivered \subseteq Rows \X Nat \X Sinks
    /\ index \in [Rows -> Nat]
    /\ \A o \in orphans : o[1] \subseteq Versions /\ o[2] \in Sinks
    /\ cp \in [ts : Nat, id : Nat, status : Statuses]
    /\ lag \in 0 .. Cardinality(Rows)
    /\ pausing \in Nat

FieldsTyped ==
    /\ status \in Statuses
    /\ cursor \in Positions
    /\ stopRequested \in BOOLEAN
    /\ sleeper \in timers \cup {NoLoop} /\ timers \subseteq Loops
    /\ pc \in [Loops -> Awaits]
    /\ \A l \in Loops : pc[l] = "sleep" <=> l \in timers

LoopsTyped ==
    /\ seen \in [Loops -> Positions] /\ from \in [Loops -> Positions]
    /\ batch \in [Loops -> SUBSET Versions]
    /\ \A l \in Loops : IsFiniteSet(batch[l]) /\ (pc[l] \in Working => batch[l] # {})
    /\ acked \in [Loops -> SUBSET Sinks]
    /\ rejected \in [Loops -> SUBSET (Rows \X Sinks)]

TypeInv == DataTyped /\ FieldsTyped /\ LoopsTyped

LEMMA TypeInvImplies == TypeInv => TypeOK
BY DEF TypeInv, TypeOK, DataTyped, FieldsTyped, LoopsTyped, Positions

LEMMA WatermarkTyped ==
    ASSUME TypeInv, NEW l \in Loops, pc[l] \in Working
    PROVE  /\ WatermarkOf(batch[l]) \in batch[l]
           /\ \A y \in batch[l] : AtOrBelow(y, WatermarkOf(batch[l]))
           /\ CursorAfterCommit(l) \in Positions
<1>1. \A x \in Versions : IsPosition(x)
  BY RowsAssumption DEF Versions, IsPosition
<1>2. batch[l] \subseteq Versions /\ IsFiniteSet(batch[l]) /\ batch[l] # {}
  BY DEF TypeInv, LoopsTyped
<1>3. /\ WatermarkOf(batch[l]) \in batch[l]
      /\ \A y \in batch[l] : AtOrBelow(y, WatermarkOf(batch[l]))
  BY <1>1, <1>2, WatermarkIsLast
<1>4. IsPosition(WatermarkOf(batch[l]))
  BY <1>1, <1>2, <1>3
<1> QED
  BY <1>3, <1>4 DEF CursorAfterCommit, Positions, IsPosition

LEMMA TypeInit == Init => TypeInv
<1> SUFFICES ASSUME Init PROVE TypeInv
  OBVIOUS
<1> USE DEF Init
<1>1. /\ source \in [Rows -> [ts : Nat, version : Nat]] /\ index \in [Rows -> Nat]
      /\ cp \in [ts : Nat, id : Nat, status : Statuses]
      /\ Epoch \in Positions
  BY DEF Statuses, Epoch, Positions
<1>2. /\ pc \in [Loops -> Awaits]
      /\ \A l \in Loops : pc[l] \in {"getCheckpoint", "idle"}
  BY DEF Awaits
<1>3. /\ seen \in [Loops -> Positions] /\ from \in [Loops -> Positions]
      /\ acked \in [Loops -> SUBSET Sinks]
      /\ rejected \in [Loops -> SUBSET (Rows \X Sinks)]
      /\ batch \in [Loops -> SUBSET Versions] /\ \A l \in Loops : batch[l] = {}
  BY <1>1
<1>4. Cardinality(Rows) \in Nat
  BY RowsAssumption, FS_CardinalityType
<1>6. /\ now \in Nat /\ writes \in Nat /\ pausing \in Nat
      /\ open = {} /\ orphans = {} /\ dlq = {} /\ delivered = {}
      /\ status \in Statuses /\ cp.status \in Statuses /\ stopRequested \in BOOLEAN
      /\ cursor = Epoch /\ sleeper = NoLoop /\ timers = {}
  BY DEF Statuses
<1>7. lag \in 0 .. Cardinality(Rows)
  BY <1>4
<1> HIDE DEF Init
<1>8. DataTyped /\ FieldsTyped
  BY <1>1, <1>2, <1>6, <1>7 DEF DataTyped, FieldsTyped
<1>9. LoopsTyped
  BY <1>1, <1>2, <1>3, FS_EmptySet DEF LoopsTyped, Working
<1> QED
  BY <1>8, <1>9 DEF TypeInv

(* What a sink receives and what is quarantined are versions of rows. *)
LEMMA ReceiveTyped ==
    ASSUME NEW records \in SUBSET Versions, NEW s \in Sinks, Receive(records, s),
           delivered \subseteq Rows \X Nat \X Sinks, index \in [Rows -> Nat]
    PROVE  delivered' \subseteq Rows \X Nat \X Sinks /\ index' \in [Rows -> Nat]
<1>1. ASSUME NEW r \in Ids(records)
      PROVE  (CHOOSE x \in records : x.id = r).version \in Nat
  <2>1. \E x \in records : x.id = r
    BY DEF Ids
  <2>2. (CHOOSE x \in records : x.id = r) \in records
    BY <2>1
  <2> QED
    BY <2>2 DEF Versions
<1>2. ASSUME NEW x \in records
      PROVE  <<x.id, x.version, s>> \in Rows \X Nat \X Sinks
  BY DEF Versions
<1> QED
  BY <1>1, <1>2 DEF Receive

LEMMA QuarantineTyped ==
    ASSUME TypeInv, NEW l \in Loops
    PROVE  Quarantined(l) \subseteq Rows \X Nat \X Sinks
<1>1. batch[l] \subseteq Versions /\ dlq \subseteq Rows \X Nat \X Sinks
  BY DEF TypeInv, DataTyped, LoopsTyped
<1>2. ASSUME NEW x \in batch[l], NEW s \in Sinks
      PROVE  <<x.id, x.version, s>> \in Rows \X Nat \X Sinks
  BY <1>1 DEF Versions
<1> QED
  BY <1>1, <1>2 DEF Quarantined

LEMMA TypeProgress ==
    ASSUME TypeInv, NEW l \in Loops, Progress(l)
    PROVE  TypeInv'
<1>0. DataTyped /\ FieldsTyped /\ LoopsTyped
  BY DEF TypeInv
<1> SUFFICES DataTyped' /\ FieldsTyped' /\ LoopsTyped'
  BY DEF TypeInv
<1> USE <1>0 DEF Goto, calmVars, envVars, srcVars, sinkVars, opsVars, faultVars, dbVars,
                 fieldVars, sleepVars, bodyVars
<1>1. CASE ReadCheckpoint(l)
  <2>1. DataTyped' /\ FieldsTyped'
    BY <1>1 DEF ReadCheckpoint, DataTyped, FieldsTyped, Awaits
  <2>2. LoopsTyped'
    BY <1>1 DEF ReadCheckpoint, DataTyped, FieldsTyped, LoopsTyped, Positions, Working
  <2> QED
    BY <2>1, <2>2
<1>2. CASE ResumeFromCheckpoint(l)
  <2>1. DataTyped'
    BY <1>2 DEF ResumeFromCheckpoint, DataTyped
  <2>2. FieldsTyped'
    BY <1>2 DEF ResumeFromCheckpoint, RecoveredCursor, FieldsTyped, LoopsTyped, Awaits, Statuses
  <2>3. LoopsTyped'
    BY <1>2 DEF ResumeFromCheckpoint, Epoch, FieldsTyped, LoopsTyped, Positions, Working
  <2> QED
    BY <2>1, <2>2, <2>3
<1>3. CASE SetRunning(l)
  <2>1. DataTyped'
    BY <1>3 DEF SetRunning, SetStatus, DataTyped, Statuses
  <2>2. FieldsTyped'
    BY <1>3 DEF SetRunning, LoopTest, Exit, FieldsTyped, Awaits, Statuses
  <2>3. LoopsTyped'
    BY <1>3 DEF SetRunning, LoopTest, Exit, FieldsTyped, LoopsTyped, Working
  <2> QED
    BY <2>1, <2>2, <2>3
<1>4. CASE MeasureLag(l)
  <2>1. DataTyped' /\ FieldsTyped'
    BY <1>4, PendingCounted DEF MeasureLag, DataTyped, FieldsTyped, Awaits
  <2>2. LoopsTyped'
    BY <1>4 DEF MeasureLag, FieldsTyped, LoopsTyped, Working
  <2> QED
    BY <2>1, <2>2
<1>5. CASE FetchNothing(l)
  <2>1. DataTyped'
    BY <1>5 DEF FetchNothing, DataTyped
  <2>2. FieldsTyped'
    BY <1>5 DEF FetchNothing, FieldsTyped, Sleep, Exit, Awaits, Statuses
  <2>3. LoopsTyped'
    BY <1>5 DEF FetchNothing, LoopsTyped, Sleep, Exit, Epoch, Positions, Working, FieldsTyped
  <2> QED
    BY <2>1, <2>2, <2>3
<1>6. CASE FetchBatch(l)
  <2>1. DataTyped'
    BY <1>6 DEF FetchBatch, DataTyped
  <2>2. FieldsTyped'
    BY <1>6 DEF FetchBatch, FieldsTyped, Awaits
  <2>3. NextBatch(from[l]) \subseteq Versions /\ IsFiniteSet(NextBatch(from[l]))
    BY PendingCounted, RecordsTyped DEF DataTyped
  <2>4. LoopsTyped'
    <3>1. /\ batch' = [batch EXCEPT ![l] = NextBatch(from[l])]
          /\ \A m \in Loops \ {l} : pc'[m] = pc[m]
          /\ UNCHANGED <<seen, acked, rejected>>
      BY <1>6 DEF FetchBatch, FieldsTyped
    <3>2. from' \in [Loops -> Positions]
      BY <1>6 DEF FetchBatch, LoopsTyped, Epoch, Positions
    <3>3. NextBatch(from[l]) # {}
      BY <1>6 DEF FetchBatch
    <3> HIDE DEF Goto
    <3> QED
      BY <2>3, <3>1, <3>2, <3>3 DEF LoopsTyped
  <2> QED
    BY <2>1, <2>2, <2>4
<1>7. ASSUME NEW s \in Sinks, SinkAck(l, s) PROVE DataTyped' /\ FieldsTyped' /\ LoopsTyped'
  <2>1. PICK failed \in SUBSET batch[l], kept \in SUBSET batch[l] :
          /\ Receive((batch[l] \ failed) \cup kept, s)
          /\ rejected' = [rejected EXCEPT ![l] = @ \cup (Ids(failed) \X {s})]
    BY <1>7 DEF SinkAck
  <2>2. /\ acked' = [acked EXCEPT ![l] = @ \cup {s}]
        /\ UNCHANGED <<srcVars, orphans, opsVars, dbVars, fieldVars, pc, seen, from, batch>>
    BY <1>7 DEF SinkAck
  <2>3. DataTyped'
    BY <2>1, <2>2, ReceiveTyped DEF DataTyped, LoopsTyped
  <2>4. Ids(failed) \X {s} \in SUBSET (Rows \X Sinks)
    BY <2>1 DEF Ids, LoopsTyped, Versions
  <2>5. LoopsTyped'
    BY <2>1, <2>2, <2>4 DEF LoopsTyped
  <2> QED
    BY <2>2, <2>3, <2>5 DEF FieldsTyped
<1>8. CASE Dispatched(l)
  BY <1>8 DEF Dispatched, DataTyped, FieldsTyped, LoopsTyped, Awaits, Working
<1>9. CASE PersistFailures(l)
  <2>1. DataTyped'
    BY <1>9, QuarantineTyped DEF PersistFailures, DataTyped
  <2>2. FieldsTyped' /\ LoopsTyped'
    BY <1>9 DEF PersistFailures, FieldsTyped, LoopsTyped, Awaits, Working
  <2> QED
    BY <2>1, <2>2
<1>10. CASE CommitCheckpoint(l)
  <2>1. CursorAfterCommit(l) \in Positions
    BY <1>10, WatermarkTyped DEF CommitCheckpoint, Working
  <2>2. cp' \in [ts : Nat, id : Nat, status : Statuses]
    BY <1>10, <2>1 DEF CommitCheckpoint, CursorAfterCommit, DataTyped, Positions
  <2>3. DataTyped'
    BY <1>10, <2>2 DEF CommitCheckpoint, DataTyped
  <2>4. FieldsTyped' /\ LoopsTyped'
    BY <1>10 DEF CommitCheckpoint, FieldsTyped, LoopsTyped, Awaits, Working
  <2> QED
    BY <2>3, <2>4
<1>11. CASE Committed(l)
  <2>1. CursorAfterCommit(l) \in Positions
    BY <1>11, WatermarkTyped DEF Committed, Working
  <2>2. DataTyped'
    BY <1>11 DEF Committed, DataTyped
  <2>3. FieldsTyped'
    BY <1>11, <2>1 DEF Committed, FieldsTyped, LoopTest, Sleep, Exit, Awaits, Statuses
  <2>4. LoopsTyped'
    BY <1>11, FS_EmptySet DEF Committed, LoopsTyped, LoopTest, Sleep, Exit, Forget, Working,
                              FieldsTyped
  <2> QED
    BY <2>2, <2>3, <2>4
<1>12. CASE TimerFires(l)
  <2>1. DataTyped'
    BY <1>12 DEF TimerFires, DataTyped
  <2>2. FieldsTyped'
    BY <1>12 DEF TimerFires, FieldsTyped, Awaits, Statuses
  <2>3. LoopsTyped'
    BY <1>12 DEF TimerFires, LoopsTyped, Working, FieldsTyped
  <2> QED
    BY <2>1, <2>2, <2>3
<1>13. CASE SetFailed(l)
  BY <1>13 DEF SetFailed, SetStatus, DataTyped, FieldsTyped, LoopsTyped, Awaits, Statuses, Working
<1> QED
  BY <1>1, <1>2, <1>3, <1>4, <1>5, <1>6, <1>7, <1>8, <1>9, <1>10, <1>11, <1>12, <1>13
  DEF Progress

LEMMA TypeNext ==
    ASSUME TypeInv, Next
    PROVE  TypeInv'
<1>0. DataTyped /\ FieldsTyped /\ LoopsTyped
  BY DEF TypeInv
<1> USE <1>0 DEF TypeInv, Goto, calmVars, envVars, srcVars, sinkVars, opsVars, faultVars, dbVars,
                 fieldVars, sleepVars, bodyVars, loopVars, QueryFault, SinkFault
<1>1. ASSUME NEW l \in Loops, Progress(l) PROVE TypeInv'
  BY <1>1, TypeProgress
<1>2. ASSUME NEW l \in Loops, NEW s \in Sinks, SinkReject(l, s) PROVE TypeInv'
  <2>1. PICK late \in SUBSET Sinks : orphans' = orphans \cup ({batch[l]} \X late)
    BY <1>2 DEF SinkReject
  <2>2. DataTyped'
    BY <1>2, <2>1 DEF SinkReject, DataTyped, LoopsTyped
  <2>3. Sleep(l) /\ Forget(l) /\ UNCHANGED <<seen, from, cursor, stopRequested>>
    BY <1>2 DEF SinkReject, AfterRejected
  <2>4. pc[l] = "dispatch"
    BY <1>2 DEF SinkReject
  <2>5. FieldsTyped'
    BY <2>3, <2>4 DEF FieldsTyped, Sleep, Exit, Awaits, Statuses
  <2>6. LoopsTyped'
    BY <2>3, FS_EmptySet DEF LoopsTyped, Sleep, Exit, Forget, Working, FieldsTyped
  <2> QED
    BY <2>2, <2>5, <2>6
<1>3. ASSUME NEW l \in Loops, QueryFailsOutside(l) PROVE TypeInv'
  <2>1. cp' \in {cp, [cp EXCEPT !.status = "RUNNING"]}
    BY <1>3 DEF QueryFailsOutside, SetStatus
  <2>2. DataTyped'
    BY <1>3, <2>1 DEF QueryFailsOutside, DataTyped, Statuses
  <2>3. FieldsTyped' /\ LoopsTyped'
    BY <1>3 DEF QueryFailsOutside, FieldsTyped, LoopsTyped, Awaits, Working
  <2> QED
    BY <2>2, <2>3
<1>4. ASSUME NEW l \in Loops, QueryFailsInside(l) PROVE TypeInv'
  <2>1. dlq' \in {dlq, Quarantined(l)}
    BY <1>4 DEF QueryFailsInside
  <2>2. DataTyped'
    BY <1>4, <2>1, QuarantineTyped DEF QueryFailsInside, DataTyped
  <2>3. FieldsTyped'
    BY <1>4 DEF QueryFailsInside, Catch, FieldsTyped, Awaits, Statuses
  <2>4. from' \in [Loops -> Positions]
    BY <1>4 DEF QueryFailsInside, LoopsTyped, Epoch, Positions
  <2>5. Forget(l) /\ UNCHANGED seen /\ pc' = [pc EXCEPT ![l] = "setFailed"]
    BY <1>4 DEF QueryFailsInside, Catch
  <2>6. LoopsTyped'
    BY <2>4, <2>5, FS_EmptySet DEF LoopsTyped, Forget, Working, FieldsTyped
  <2> QED
    BY <2>2, <2>3, <2>6
<1>5. ASSUME NEW l \in Loops, Resume(l) PROVE TypeInv'
  BY <1>5 DEF Resume, Enter, DataTyped, FieldsTyped, LoopsTyped, Awaits, Working
<1>6. ASSUME NEW l \in Loops, Crash(l) PROVE TypeInv'
  <2>1. \A o \in orphans' : o[1] \subseteq Versions /\ o[2] \in Sinks
    BY <1>6 DEF Crash, DataTyped, LoopsTyped
  <2>2. lag' \in 0 .. Cardinality(Rows)
    BY <1>6, RowsAssumption, FS_CardinalityType DEF Crash
  <2>3. DataTyped'
    BY <1>6, <2>1, <2>2 DEF Crash, DataTyped
  <2>4. /\ pc' \in [Loops -> Awaits]
        /\ \A m \in Loops : pc'[m] \in {"getCheckpoint", "idle"}
    BY <1>6 DEF Crash, Awaits
  <2>5. FieldsTyped'
    BY <1>6, <2>4 DEF Crash, FieldsTyped, Statuses, Epoch, Positions
  <2>6. /\ seen' \in [Loops -> Positions] /\ from' \in [Loops -> Positions]
        /\ batch' \in [Loops -> SUBSET Versions] /\ \A m \in Loops : batch'[m] = {}
        /\ acked' \in [Loops -> SUBSET Sinks]
        /\ rejected' \in [Loops -> SUBSET (Rows \X Sinks)]
    BY <1>6 DEF Crash, Epoch, Positions
  <2>7. LoopsTyped'
    BY <2>4, <2>6, FS_EmptySet DEF LoopsTyped, Working
  <2> QED
    BY <2>3, <2>5, <2>7
<1>7. CASE Pause
  <2>1. DataTyped'
    BY <1>7 DEF Pause, DataTyped
  <2>2. FieldsTyped'
    BY <1>7, OptionsAssumption DEF Pause, WokenByPause, FieldsTyped, Awaits, Statuses
  <2>3. LoopsTyped'
    BY <1>7 DEF Pause, LoopsTyped, Working, FieldsTyped
  <2> QED
    BY <2>1, <2>2, <2>3
<1>8. CASE SetPaused
  <2>1. cp' \in {cp, [cp EXCEPT !.status = "PAUSED"]} /\ pausing' \in Nat
    BY <1>8 DEF SetPaused, SetStatus, DataTyped
  <2>2. DataTyped'
    BY <1>8, <2>1 DEF SetPaused, DataTyped, Statuses
  <2>3. FieldsTyped' /\ LoopsTyped'
    BY <1>8 DEF SetPaused, FieldsTyped, LoopsTyped
  <2> QED
    BY <2>2, <2>3
<1>9. CASE OrphanSettles
  <2>0. PICK o \in orphans :
          /\ orphans' = orphans \ {o}
          /\ \E records \in SUBSET {x \in o[1] : x.id \notin Refused(o[2])} :
               Receive(records, o[2])
    BY <1>9 DEF OrphanSettles
  <2>1. PICK records \in SUBSET o[1] : orphans' = orphans \ {o} /\ Receive(records, o[2])
    BY <2>0
  <2>2. records \subseteq Versions /\ o[2] \in Sinks
    BY <2>1 DEF DataTyped
  <2>3. UNCHANGED <<srcVars, opsVars, faultVars, dbVars, fieldVars, loopVars>>
    BY <1>9 DEF OrphanSettles
  <2>4. DataTyped'
    BY <2>1, <2>2, <2>3, ReceiveTyped DEF DataTyped
  <2> QED
    BY <2>3, <2>4 DEF FieldsTyped, LoopsTyped
<1>10. CASE Begin
  <2>1. PICK step \in ClockSteps, ids \in SUBSET Rows :
          now' = now + step /\ open' = open \cup {[ts |-> now + step, ids |-> ids]}
    BY <1>10 DEF Begin
  <2>2. now' \in Nat
    BY <2>1, ClockAssumption DEF DataTyped
  <2>3. DataTyped'
    BY <1>10, <2>1, <2>2 DEF Begin, DataTyped
  <2> QED
    BY <1>10, <2>3 DEF Begin, FieldsTyped, LoopsTyped
<1>11. CASE CommitWrite
  <2>1. PICK t \in open :
          /\ open' = open \ {t}
          /\ source' = [r \in Rows |->
               IF r \in t.ids THEN [ts |-> t.ts, version |-> source[r].version + 1] ELSE source[r]]
    BY <1>11 DEF CommitWrite
  <2>2. source' \in [Rows -> [ts : Nat, version : Nat]]
    BY <2>1 DEF DataTyped
  <2>3. DataTyped'
    BY <1>11, <2>1, <2>2 DEF CommitWrite, DataTyped
  <2> QED
    BY <1>11, <2>3 DEF CommitWrite, FieldsTyped, LoopsTyped
<1> QED
  BY <1>1, <1>2, <1>3, <1>4, <1>5, <1>6, <1>7, <1>8, <1>9, <1>10, <1>11 DEF Next

LEMMA TypeStutter == TypeInv /\ UNCHANGED vars => TypeInv'
BY DEF TypeInv, DataTyped, FieldsTyped, LoopsTyped, vars, calmVars, envVars, srcVars, sinkVars,
       opsVars, faultVars, dbVars, fieldVars, sleepVars, loopVars, bodyVars

LEMMA TypeInvariant == Spec => []TypeInv
BY TypeInit, TypeNext, TypeStutter, PTL DEF Spec

(* Every variable keeps its type, through any overlap of activations:      *)
(* the poll timer of a sleeping activation is armed, and the remembered    *)
(* sleeper is asleep (incremental.runner.ts:294-306).                      *)
THEOREM TypeCorrect == Spec => []TypeOK
BY TypeInvariant, TypeInvImplies, PTL

----------------------------------------------------------------------------
(* What the runner remembers *)

CpPosition == [ts |-> cp.ts, id |-> cp.id]

(* The positions that are the watermark, or may become it. *)
Held == {CpPosition, cursor} \cup {seen[l] : l \in Loops} \cup {from[l] : l \in Loops}

RecordOf(r) == [id |-> r, ts |-> source[r].ts, version |-> source[r].version]

(* The awaits at which the whole batch is dispatched and quarantined. *)
Done == {"commit", "committed"}

Own(l) ==
    \/ Progress(l)
    \/ \E s \in Sinks : SinkReject(l, s)
    \/ QueryFailsOutside(l)
    \/ QueryFailsInside(l)
    \/ Resume(l)

(* An activation works on a batch of its own. *)
LEMMA OthersUntouched ==
    ASSUME TypeInv, NEW l \in Loops, Own(l), NEW m \in Loops, m # l
    PROVE  /\ pc'[m] = pc[m] /\ batch'[m] = batch[m]
           /\ acked'[m] = acked[m] /\ rejected'[m] = rejected[m]
<1>1. pc \in [Loops -> Awaits]
  BY DEF TypeInv, FieldsTyped
<1>2. /\ batch \in [Loops -> SUBSET Versions] /\ acked \in [Loops -> SUBSET Sinks]
      /\ rejected \in [Loops -> SUBSET (Rows \X Sinks)]
  BY DEF TypeInv, LoopsTyped
<1> USE <1>1, <1>2 DEF Goto, Forget, Exit, LoopTest, Sleep, bodyVars
<1>3. CASE ReadCheckpoint(l) \/ ResumeFromCheckpoint(l) \/ SetRunning(l) \/ MeasureLag(l)
  BY <1>3 DEF ReadCheckpoint, ResumeFromCheckpoint, SetRunning, MeasureLag
<1>4. CASE FetchNothing(l) \/ FetchBatch(l) \/ \E s \in Sinks : SinkAck(l, s)
  BY <1>4 DEF FetchNothing, FetchBatch, SinkAck
<1>5. CASE Dispatched(l) \/ PersistFailures(l) \/ CommitCheckpoint(l) \/ Committed(l)
  BY <1>5 DEF Dispatched, PersistFailures, CommitCheckpoint, Committed
<1>6. CASE TimerFires(l) \/ SetFailed(l) \/ Resume(l)
  BY <1>6 DEF TimerFires, SetFailed, Resume, Enter
<1>7. CASE \E s \in Sinks : SinkReject(l, s)
  BY <1>7 DEF SinkReject, AfterRejected
<1>8. CASE QueryFailsOutside(l) \/ QueryFailsInside(l)
  BY <1>8 DEF QueryFailsOutside, QueryFailsInside, Catch
<1> QED
  BY <1>3, <1>4, <1>5, <1>6, <1>7, <1>8 DEF Own, Progress

(* No step takes back what a sink received or what was quarantined, and    *)
(* the table is the writers' alone.                                        *)
LEMMA OwnAccountsGrow ==
    ASSUME NEW l \in Loops, Own(l)
    PROVE  delivered \subseteq delivered' /\ dlq \subseteq dlq' /\ UNCHANGED srcVars
<1> USE DEF calmVars, envVars, sinkVars, dbVars
<1>0. dlq \subseteq Quarantined(l)
  BY DEF Quarantined
<1>1. CASE ReadCheckpoint(l) \/ ResumeFromCheckpoint(l) \/ SetRunning(l) \/ MeasureLag(l)
  BY <1>1 DEF ReadCheckpoint, ResumeFromCheckpoint, SetRunning, MeasureLag
<1>2. CASE FetchNothing(l) \/ FetchBatch(l) \/ \E s \in Sinks : SinkAck(l, s)
  BY <1>2 DEF FetchNothing, FetchBatch, SinkAck, Receive
<1>3. CASE Dispatched(l) \/ PersistFailures(l) \/ CommitCheckpoint(l) \/ Committed(l)
  BY <1>0, <1>3 DEF Dispatched, PersistFailures, CommitCheckpoint, Committed
<1>4. CASE TimerFires(l) \/ SetFailed(l) \/ Resume(l)
  BY <1>4 DEF TimerFires, SetFailed, Resume
<1>5. CASE (\E s \in Sinks : SinkReject(l, s)) \/ QueryFailsOutside(l) \/ QueryFailsInside(l)
  BY <1>0, <1>5 DEF SinkReject, QueryFailsOutside, QueryFailsInside
<1> QED
  BY <1>1, <1>2, <1>3, <1>4, <1>5 DEF Own, Progress

LEMMA AccountsGrow ==
    ASSUME Next
    PROVE  /\ delivered \subseteq delivered' /\ dlq \subseteq dlq'
           /\ Begin \/ CommitWrite \/ UNCHANGED srcVars
<1>1. ASSUME NEW l \in Loops, Own(l)
      PROVE  delivered \subseteq delivered' /\ dlq \subseteq dlq' /\ UNCHANGED srcVars
  BY <1>1, OwnAccountsGrow
<1>2. ASSUME (\E l \in Loops : Crash(l)) \/ Pause \/ SetPaused \/ OrphanSettles
      PROVE  delivered \subseteq delivered' /\ dlq \subseteq dlq' /\ UNCHANGED srcVars
  BY <1>2 DEF Crash, Pause, SetPaused, OrphanSettles, Receive, dbVars, sinkVars
<1>3. ASSUME Begin \/ CommitWrite
      PROVE  delivered \subseteq delivered' /\ dlq \subseteq dlq'
  BY <1>3 DEF Begin, CommitWrite, dbVars, sinkVars
<1> QED
  BY <1>1, <1>2, <1>3 DEF Next, Own

(* The watermark is written at one place only. *)
LEMMA OnlyCommitMoves ==
    ASSUME TypeInv, Next, CpPosition' # CpPosition
    PROVE  \E l \in Loops : CommitCheckpoint(l)
<1> SUFFICES ASSUME ~\E l \in Loops : CommitCheckpoint(l)
             PROVE  CpPosition' = CpPosition
  OBVIOUS
<1>0. cp \in [ts : Nat, id : Nat, status : Statuses]
  BY DEF TypeInv, DataTyped
<1> USE <1>0 DEF CpPosition, SetStatus, dbVars
<1>1. ASSUME NEW l \in Loops, Own(l) PROVE CpPosition' = CpPosition
  <2>1. CASE ReadCheckpoint(l) \/ ResumeFromCheckpoint(l) \/ SetRunning(l) \/ MeasureLag(l)
    BY <2>1 DEF ReadCheckpoint, ResumeFromCheckpoint, SetRunning, MeasureLag
  <2>2. CASE FetchNothing(l) \/ FetchBatch(l) \/ \E s \in Sinks : SinkAck(l, s)
    BY <2>2 DEF FetchNothing, FetchBatch, SinkAck
  <2>3. CASE Dispatched(l) \/ PersistFailures(l) \/ Committed(l)
    BY <2>3 DEF Dispatched, PersistFailures, Committed
  <2>4. CASE TimerFires(l) \/ SetFailed(l) \/ Resume(l)
    BY <2>4 DEF TimerFires, SetFailed, Resume
  <2>5. CASE (\E s \in Sinks : SinkReject(l, s)) \/ QueryFailsOutside(l) \/ QueryFailsInside(l)
    BY <2>5 DEF SinkReject, QueryFailsOutside, QueryFailsInside
  <2> QED
    BY <1>1, <2>1, <2>2, <2>3, <2>4, <2>5 DEF Own, Progress
<1>2. ASSUME \/ \E l \in Loops : Crash(l)
             \/ Pause \/ SetPaused \/ OrphanSettles \/ Begin \/ CommitWrite
      PROVE  CpPosition' = CpPosition
  BY <1>2 DEF Crash, Pause, SetPaused, OrphanSettles, Begin, CommitWrite
<1> QED
  BY <1>1, <1>2 DEF Next, Own

(* A position is taken over from another one, is the Epoch of a variable   *)
(* out of scope, or is the last record of a batch that is done with.       *)
LEMMA HeldComesFrom ==
    ASSUME TypeInv, Next, NEW w \in Held'
    PROVE  \/ w \in Held \cup {Epoch}
           \/ \E l \in Loops : pc[l] \in Done /\ w = CursorAfterCommit(l)
<1> DEFINE New(l) == pc[l] \in Done /\ w = CursorAfterCommit(l)
<1>1. /\ seen \in [Loops -> Positions] /\ from \in [Loops -> Positions]
      /\ cp \in [ts : Nat, id : Nat, status : Statuses]
  BY DEF TypeInv, DataTyped, LoopsTyped
<1> USE <1>1 DEF Held, CpPosition, SetStatus
<1>2. ASSUME NEW l \in Loops, Progress(l) PROVE w \in Held \cup {Epoch} \/ New(l)
  <2>1. CASE ReadCheckpoint(l)
    BY <2>1 DEF ReadCheckpoint, dbVars, fieldVars
  <2>2. CASE ResumeFromCheckpoint(l)
    BY <2>2 DEF ResumeFromCheckpoint, RecoveredCursor, dbVars
  <2>3. CASE SetRunning(l) \/ SetFailed(l) \/ TimerFires(l)
    BY <2>3 DEF SetRunning, SetFailed, TimerFires, dbVars, fieldVars
  <2>4. CASE MeasureLag(l)
    BY <2>4 DEF MeasureLag, dbVars
  <2>5. CASE FetchNothing(l) \/ FetchBatch(l)
    BY <2>5 DEF FetchNothing, FetchBatch, dbVars, fieldVars
  <2>6. CASE Dispatched(l) \/ PersistFailures(l) \/ \E s \in Sinks : SinkAck(l, s)
    BY <2>6 DEF Dispatched, PersistFailures, SinkAck, dbVars, fieldVars
  <2>7. CASE CommitCheckpoint(l)
    BY <2>7 DEF CommitCheckpoint, CursorAfterCommit, fieldVars, Done
  <2>8. CASE Committed(l)
    BY <2>8 DEF Committed, dbVars, Done
  <2> QED
    BY <1>2, <2>1, <2>2, <2>3, <2>4, <2>5, <2>6, <2>7, <2>8 DEF Progress
<1>3. ASSUME NEW l \in Loops,
             (\E s \in Sinks : SinkReject(l, s)) \/ QueryFailsOutside(l) \/ QueryFailsInside(l)
      PROVE  w \in Held \cup {Epoch}
  BY <1>3 DEF SinkReject, QueryFailsOutside, QueryFailsInside, dbVars, fieldVars
<1>4. ASSUME NEW l \in Loops, Resume(l) \/ Crash(l)
      PROVE  w \in Held \cup {Epoch}
  BY <1>4 DEF Resume, Crash, dbVars
<1>5. ASSUME Pause \/ SetPaused \/ OrphanSettles
      PROVE  w \in Held
  BY <1>5 DEF Pause, SetPaused, OrphanSettles, dbVars, fieldVars, loopVars
<1>6. ASSUME Begin \/ CommitWrite
      PROVE  w \in Held
  BY <1>6 DEF Begin, CommitWrite, dbVars, fieldVars, loopVars
<1> QED
  BY <1>2, <1>3, <1>4, <1>5, <1>6 DEF Next

(* A record of a batch was fetched, and is carried from then on. *)
LEMMA BatchComesFrom ==
    ASSUME TypeInv, Next, NEW l \in Loops
    PROVE  batch'[l] \in {batch[l], {}} \/ FetchBatch(l)
<1>1. batch \in [Loops -> SUBSET Versions]
  BY DEF TypeInv, LoopsTyped
<1> USE <1>1 DEF bodyVars, loopVars, Forget
<1>2. ASSUME NEW m \in Loops, Own(m), m # l PROVE batch'[l] = batch[l]
  BY <1>2, OthersUntouched
<1>3. CASE Own(l)
  <2>1. CASE ReadCheckpoint(l) \/ ResumeFromCheckpoint(l) \/ SetRunning(l) \/ MeasureLag(l)
    BY <2>1 DEF ReadCheckpoint, ResumeFromCheckpoint, SetRunning, MeasureLag
  <2>2. CASE FetchNothing(l) \/ \E s \in Sinks : SinkAck(l, s)
    BY <2>2 DEF FetchNothing, SinkAck
  <2>3. CASE Dispatched(l) \/ PersistFailures(l) \/ CommitCheckpoint(l) \/ Committed(l)
    BY <2>3 DEF Dispatched, PersistFailures, CommitCheckpoint, Committed
  <2>4. CASE TimerFires(l) \/ SetFailed(l) \/ Resume(l)
    BY <2>4 DEF TimerFires, SetFailed, Resume
  <2>5. CASE (\E s \in Sinks : SinkReject(l, s)) \/ QueryFailsOutside(l) \/ QueryFailsInside(l)
    BY <2>5 DEF SinkReject, AfterRejected, QueryFailsOutside, QueryFailsInside, Catch
  <2> QED
    BY <1>3, <2>1, <2>2, <2>3, <2>4, <2>5 DEF Own, Progress
<1>4. ASSUME NEW m \in Loops, Crash(m) PROVE batch'[l] = {}
  BY <1>4 DEF Crash
<1>5. ASSUME Pause \/ SetPaused \/ OrphanSettles \/ Begin \/ CommitWrite PROVE batch'[l] = batch[l]
  BY <1>5 DEF Pause, SetPaused, OrphanSettles, Begin, CommitWrite
<1> QED
  BY <1>2, <1>3, <1>4, <1>5 DEF Next, Own

----------------------------------------------------------------------------
(* Transactions come one at a time, a millisecond or more apart *)

(* Without it a version may commit below a watermark that passed it.       *)
WritersInOrder == MaxOpen = 1 /\ 0 \notin ClockSteps

(* No open transaction will write at p or below. *)
Settled(p) == p.ts <= now /\ \A t \in open : p.ts < t.ts

OrderInv ==
    /\ IsFiniteSet(open) /\ \A t, u \in open : t = u
    /\ \A t \in open : t.ts <= now
    /\ \A r \in Rows : Settled(source[r])
    /\ \A w \in Held : Settled(w)
    /\ \A l \in Loops : \A x \in batch[l] : Settled(x)

LEMMA HeldTyped ==
    ASSUME TypeInv
    PROVE  \A w \in Held : w \in Positions
BY DEF TypeInv, DataTyped, FieldsTyped, LoopsTyped, Held, CpPosition, Positions

LEMMA OrderInit == Init => OrderInv
<1> SUFFICES ASSUME Init PROVE OrderInv
  OBVIOUS
<1>1. open = {} /\ now = 1
  BY DEF Init
<1>2. \A r \in Rows : Settled(source[r])
  BY <1>1 DEF Init, Settled
<1>3. \A w \in Held : w = Epoch
  BY DEF Init, Held, CpPosition, Epoch
<1>4. \A w \in Held : Settled(w)
  BY <1>1, <1>3 DEF Settled, Epoch
<1>5. \A l \in Loops : batch[l] = {}
  BY DEF Init
<1> QED
  BY <1>1, <1>2, <1>4, <1>5, FS_EmptySet DEF OrderInv

(* The writers leave what was settled settled. *)
LEMMA SettledStays ==
    ASSUME WritersInOrder, TypeInv, OrderInv, Begin \/ CommitWrite,
           NEW p, p.ts \in Nat, Settled(p)
    PROVE  Settled(p)'
<1>0. now \in Nat /\ \A t \in open : t.ts \in Nat
  BY DEF TypeInv, DataTyped
<1>1. CASE Begin
  <2>1. PICK step \in ClockSteps, ids \in SUBSET Rows :
          now' = now + step /\ open' = open \cup {[ts |-> now + step, ids |-> ids]}
    BY <1>1 DEF Begin
  <2>2. step \in Nat /\ step > 0
    BY <2>1, ClockAssumption DEF WritersInOrder
  <2> QED
    BY <1>0, <2>1, <2>2 DEF Settled
<1>2. CASE CommitWrite
  BY <1>2 DEF CommitWrite, Settled
<1> QED
  BY <1>1, <1>2

LEMMA OrderNext ==
    ASSUME WritersInOrder, TypeInv, OrderInv, Next
    PROVE  OrderInv'
<1>0. now \in Nat /\ source \in [Rows -> [ts : Nat, version : Nat]]
      /\ \A t \in open : t.ts \in Nat /\ t.ids \subseteq Rows
  BY DEF TypeInv, DataTyped
<1>1. ASSUME NEW w \in Held', ~Begin, ~CommitWrite PROVE Settled(w)'
  <2>1. UNCHANGED <<now, open>>
    BY <1>1, AccountsGrow DEF srcVars
  <2>2. Settled(Epoch)
    <3>1. CpPosition \in Held
      BY DEF Held
    <3>2. cp.ts \in Nat /\ Settled(CpPosition)
      BY <3>1 DEF TypeInv, DataTyped, OrderInv
    <3> QED
      BY <1>0, <3>2 DEF Settled, Epoch, CpPosition
  <2>3. ASSUME NEW l \in Loops, pc[l] \in Done PROVE Settled(CursorAfterCommit(l))
    <3>1. WatermarkOf(batch[l]) \in batch[l]
      BY <2>3, WatermarkTyped DEF Done, Working
    <3> QED
      BY <3>1 DEF OrderInv, Settled, CursorAfterCommit
  <2>4. Settled(w)
    BY <1>1, <2>2, <2>3, HeldComesFrom DEF OrderInv
  <2> QED
    BY <2>1, <2>4 DEF Settled
<1>2. ASSUME NEW l \in Loops, NEW x \in batch'[l], ~Begin, ~CommitWrite PROVE Settled(x)'
  <2>1. UNCHANGED <<now, open>>
    BY <1>2, AccountsGrow DEF srcVars
  <2>2. ASSUME FetchBatch(l) PROVE Settled(x)
    <3>1. x \in NextBatch(from[l])
      BY <1>2, <2>2 DEF FetchBatch, TypeInv, LoopsTyped
    <3>2. PICK r \in Rows : x = RecordOf(r)
      BY <3>1 DEF NextBatch, Pending, Records, RecordOf
    <3>3. x.ts = source[r].ts
      BY <3>2 DEF RecordOf
    <3> QED
      BY <3>3 DEF OrderInv, Settled
  <2>3. Settled(x)
    BY <1>2, <2>2, BatchComesFrom DEF OrderInv
  <2> QED
    BY <2>1, <2>3 DEF Settled
<1>3. ASSUME ~Begin, ~CommitWrite PROVE OrderInv'
  <2>1. UNCHANGED <<now, open, source>>
    BY <1>3, AccountsGrow DEF srcVars
  <2>2. \A r \in Rows : Settled(source[r])'
    BY <2>1 DEF OrderInv, Settled
  <2> QED
    BY <2>1, <2>2, <1>1, <1>2, <1>3 DEF OrderInv
<1>4. ASSUME Begin \/ CommitWrite
      PROVE  /\ \A w \in Held' : Settled(w)'
             /\ \A l \in Loops : \A x \in batch'[l] : Settled(x)'
             /\ \A r \in Rows : Settled(source[r])'
  <2>1. Held' = Held /\ batch' = batch
    BY <1>4 DEF Begin, CommitWrite, dbVars, fieldVars, loopVars, bodyVars, Held, CpPosition
  <2>2. \A w \in Held : w.ts \in Nat
    BY HeldTyped DEF Positions
  <2>3. \A l \in Loops : \A x \in batch[l] : x.ts \in Nat
    BY DEF TypeInv, LoopsTyped, Versions
  <2>4. \A r \in Rows : source[r].ts \in Nat
    BY <1>0
  <2>5. ASSUME NEW w \in Held PROVE Settled(w)'
    BY <1>4, <2>2, SettledStays DEF OrderInv
  <2>6. ASSUME NEW l \in Loops, NEW x \in batch[l] PROVE Settled(x)'
    BY <1>4, <2>3, SettledStays DEF OrderInv
  <2>7. ASSUME NEW r \in Rows PROVE Settled(source[r])'
    <3>2. CASE source'[r] = source[r]
      <4>1. UNCHANGED source[r]
        BY <3>2
      <4> QED
        BY <1>4, <2>4, <4>1, SettledStays DEF OrderInv, Settled
    <3>3. CASE source'[r] # source[r]
      <4>1. CommitWrite
        BY <1>4, <3>3 DEF Begin
      <4>2. PICK t \in open :
              /\ open' = open \ {t}
              /\ source' = [q \in Rows |->
                   IF q \in t.ids THEN [ts |-> t.ts, version |-> source[q].version + 1]
                                  ELSE source[q]]
        BY <4>1 DEF CommitWrite
      <4>3. open' = {} /\ now' = now
        BY <4>1, <4>2 DEF CommitWrite, OrderInv
      <4>4. source'[r].ts = t.ts
        BY <3>3, <4>2
      <4> QED
        BY <4>2, <4>3, <4>4 DEF OrderInv, Settled
    <3> QED
      BY <3>2, <3>3
  <2> QED
    BY <2>1, <2>5, <2>6, <2>7
<1>5. CASE Begin
  <2>1. Cardinality(open) < 1
    BY <1>5 DEF Begin, WritersInOrder
  <2>2. open = {}
    BY <2>1, FS_EmptySet, FS_CardinalityType DEF OrderInv
  <2>3. PICK step \in ClockSteps, ids \in SUBSET Rows :
          now' = now + step /\ open' = open \cup {[ts |-> now + step, ids |-> ids]}
    BY <1>5 DEF Begin
  <2>4. open' = {[ts |-> now', ids |-> ids]} /\ now' \in Nat
    BY <1>0, <2>2, <2>3, ClockAssumption
  <2>5. IsFiniteSet(open')
    BY <2>4, FS_Singleton
  <2> QED
    BY <1>4, <1>5, <2>4, <2>5 DEF OrderInv
<1>6. CASE CommitWrite
  <2>1. PICK t \in open : open' = open \ {t} /\ now' = now
    BY <1>6 DEF CommitWrite
  <2>2. open' = {}
    BY <2>1 DEF OrderInv
  <2> QED
    BY <1>4, <1>6, <2>1, <2>2, FS_EmptySet DEF OrderInv
<1> QED
  BY <1>3, <1>5, <1>6

LEMMA OrderStutter == OrderInv /\ UNCHANGED vars => OrderInv'
BY DEF OrderInv, Settled, Held, CpPosition, vars, calmVars, envVars, srcVars, dbVars, fieldVars,
       loopVars, bodyVars

----------------------------------------------------------------------------
(* What lies below a held position is accounted for *)

AllAccounted(r, v) == \A s \in Sinks : Accounted(r, v, s)

(* The batch holds whatever lies below its records and is not accounted    *)
(* for yet.                                                                *)
BatchComplete(l) ==
    \A x \in batch[l], r \in Rows :
        source[r].version > 0 /\ AtOrBelow(RecordOf(r), x) =>
            AllAccounted(r, source[r].version) \/ RecordOf(r) \in batch[l]

(* A sink that answered has the record, or reported it. *)
AnswersKnown(l) ==
    \A x \in batch[l], s \in acked[l] :
        Accounted(x.id, x.version, s) \/ <<x.id, s>> \in rejected[l]

BatchInv(l) ==
    IF pc[l] \in Working
    THEN /\ BatchComplete(l)
         /\ AnswersKnown(l)
         /\ pc[l] # "dispatch" => acked[l] = Sinks
         /\ pc[l] \in Done => \A x \in batch[l] : AllAccounted(x.id, x.version)
    ELSE acked[l] = {}

CoverInv ==
    /\ \A w \in Held : Contract!Covered(w)
    /\ \A l \in Loops : BatchInv(l)

(* The contract's words for the same things. *)
LEMMA CoveredMeans ==
    ASSUME NEW w
    PROVE  Contract!Covered(w) <=>
             \A r \in Rows : source[r].version > 0 /\ AtOrBelow(RecordOf(r), w) =>
                 AllAccounted(r, source[r].version)
BY DEF Contract!Covered, Contract!AtOrBelow, Contract!Position, AtOrBelow, RecordOf, AllAccounted,
       Accounted

LEMMA EpochCovered ==
    ASSUME TypeInv
    PROVE  Contract!Covered(Epoch)
<1> SUFFICES ASSUME NEW r \in Rows, AtOrBelow(RecordOf(r), Epoch) PROVE FALSE
  BY CoveredMeans
<1>1. source[r].ts \in Nat /\ r \in Nat /\ r > 0
  BY RowsAssumption DEF TypeInv, DataTyped
<1> QED
  BY <1>1 DEF AtOrBelow, RecordOf, Epoch

(* A batch that is done with covers the watermark taken from it. *)
LEMMA DoneBatchCovers ==
    ASSUME TypeInv, NEW l \in Loops, BatchInv(l), pc[l] \in Done
    PROVE  Contract!Covered(CursorAfterCommit(l))
<1> DEFINE w == WatermarkOf(batch[l])
<1>1. w \in batch[l]
  BY WatermarkTyped DEF Done, Working
<1>2. BatchComplete(l) /\ \A x \in batch[l] : AllAccounted(x.id, x.version)
  BY DEF BatchInv, Working, Done
<1> SUFFICES ASSUME NEW r \in Rows, source[r].version > 0,
                    AtOrBelow(RecordOf(r), CursorAfterCommit(l))
             PROVE  AllAccounted(r, source[r].version)
  BY CoveredMeans
<1>3. AtOrBelow(RecordOf(r), w)
  BY DEF AtOrBelow, CursorAfterCommit
<1>4. AllAccounted(r, source[r].version) \/ RecordOf(r) \in batch[l]
  BY <1>1, <1>2, <1>3 DEF BatchComplete
<1>5. RecordOf(r).id = r /\ RecordOf(r).version = source[r].version
  BY DEF RecordOf
<1> QED
  BY <1>2, <1>4, <1>5

(* A batch completes what lies below the cursor it was fetched with. *)
LEMMA FetchedComplete ==
    ASSUME TypeInv, NEW w, Contract!Covered(w),
           NEW x \in NextBatch(w), NEW r \in Rows,
           source[r].version > 0, AtOrBelow(RecordOf(r), x)
    PROVE  AllAccounted(r, source[r].version) \/ RecordOf(r) \in NextBatch(w)
<1>1. RecordOf(r) \in Records
  BY DEF Records, RecordOf
<1>2. CASE AtOrBelow(RecordOf(r), w)
  BY <1>2, CoveredMeans
<1>3. CASE ~AtOrBelow(RecordOf(r), w)
  <2>1. RecordOf(r) \in Pending(w)
    BY <1>1, <1>3 DEF Pending
  <2> QED
    BY <2>1, BatchHasNoGap DEF TypeInv, DataTyped
<1> QED
  BY <1>2, <1>3

LEMMA AccountedStays ==
    ASSUME delivered \subseteq delivered', dlq \subseteq dlq', NEW r, NEW v, AllAccounted(r, v)
    PROVE  AllAccounted(r, v)'
BY DEF AllAccounted, Accounted

LEMMA CoveredStays ==
    ASSUME UNCHANGED source, delivered \subseteq delivered', dlq \subseteq dlq',
           NEW w, Contract!Covered(w)
    PROVE  Contract!Covered(w)'
<1> QED
  BY DEF Contract!Covered, Contract!AtOrBelow, Contract!Position

LEMMA BatchStays ==
    ASSUME UNCHANGED source, delivered \subseteq delivered', dlq \subseteq dlq',
           NEW l \in Loops, BatchInv(l), pc'[l] = pc[l], batch'[l] = batch[l],
           acked'[l] = acked[l], rejected'[l] = rejected[l]
    PROVE  BatchInv(l)'
<1>1. ASSUME NEW r, NEW v, AllAccounted(r, v) PROVE AllAccounted(r, v)'
  BY <1>1, AccountedStays
<1>2. BatchComplete(l) => BatchComplete(l)'
  BY <1>1 DEF BatchComplete, RecordOf
<1>3. AnswersKnown(l) => AnswersKnown(l)'
  BY DEF AnswersKnown, Accounted
<1> QED
  BY <1>1, <1>2, <1>3 DEF BatchInv

(* An activation that holds no batch owes nothing. *)
LEMMA NoBatchNoDebt ==
    ASSUME NEW l \in Loops, pc'[l] \notin Working, acked'[l] = {}
    PROVE  BatchInv(l)'
BY DEF BatchInv

LEMMA AckRecorded ==
    ASSUME TypeInv, NEW l \in Loops, BatchInv(l), NEW s \in Sinks, SinkAck(l, s)
    PROVE  AnswersKnown(l)'
<1>1. batch[l] \subseteq Versions /\ acked \in [Loops -> SUBSET Sinks]
      /\ rejected \in [Loops -> SUBSET (Rows \X Sinks)]
  BY DEF TypeInv, LoopsTyped
<1>2. AnswersKnown(l)
  BY DEF BatchInv, SinkAck, Working
<1>3. PICK failed \in SUBSET batch[l], kept \in SUBSET batch[l] :
        /\ Receive((batch[l] \ failed) \cup kept, s)
        /\ rejected' = [rejected EXCEPT ![l] = @ \cup (Ids(failed) \X {s})]
  BY DEF SinkAck
<1>4. batch' = batch /\ acked'[l] = acked[l] \cup {s} /\ dlq' = dlq
  BY <1>1 DEF SinkAck, dbVars
<1>5. rejected'[l] = rejected[l] \cup (Ids(failed) \X {s})
  BY <1>1, <1>3
<1>6. delivered' = delivered \cup {<<x.id, x.version, s>> : x \in (batch[l] \ failed) \cup kept}
  BY <1>3 DEF Receive
<1> SUFFICES ASSUME NEW x \in batch[l], NEW q \in acked[l] \cup {s}
             PROVE  <<x.id, x.version, q>> \in delivered' \cup dlq \/ <<x.id, q>> \in rejected'[l]
  BY <1>4 DEF AnswersKnown, Accounted
<1>7. CASE q \in acked[l]
  BY <1>2, <1>5, <1>6, <1>7 DEF AnswersKnown, Accounted
<1>8. CASE q = s /\ x \in failed
  BY <1>5, <1>8 DEF Ids
<1>9. CASE q = s /\ x \notin failed
  BY <1>6, <1>9
<1> QED
  BY <1>7, <1>8, <1>9

LEMMA OwnBatch ==
    ASSUME TypeInv, NEW l \in Loops, BatchInv(l), Contract!Covered(from[l]), Own(l),
           delivered \subseteq delivered', dlq \subseteq dlq', UNCHANGED srcVars
    PROVE  BatchInv(l)'
<1>0. /\ pc \in [Loops -> Awaits] /\ batch \in [Loops -> SUBSET Versions]
      /\ acked \in [Loops -> SUBSET Sinks] /\ rejected \in [Loops -> SUBSET (Rows \X Sinks)]
  BY DEF TypeInv, FieldsTyped, LoopsTyped
<1>1. UNCHANGED source
  BY DEF srcVars
<1> USE <1>0 DEF Goto, bodyVars
<1>2. CASE ReadCheckpoint(l) \/ ResumeFromCheckpoint(l) \/ SetRunning(l) \/ MeasureLag(l)
  <2>1. pc'[l] \notin Working /\ acked'[l] = {}
    BY <1>2 DEF ReadCheckpoint, ResumeFromCheckpoint, SetRunning, MeasureLag, LoopTest, Exit,
                BatchInv, Working
  <2> QED
    BY <2>1, NoBatchNoDebt
<1>3. CASE FetchNothing(l) \/ TimerFires(l) \/ SetFailed(l) \/ Resume(l) \/ QueryFailsOutside(l)
  <2>1. pc'[l] \notin Working /\ acked'[l] = {}
    BY <1>3 DEF FetchNothing, TimerFires, SetFailed, Resume, Enter, QueryFailsOutside, Sleep, Exit,
                BatchInv, Working
  <2> QED
    BY <2>1, NoBatchNoDebt
<1>4. CASE Committed(l) \/ QueryFailsInside(l) \/ \E s \in Sinks : SinkReject(l, s)
  <2>1. pc'[l] \notin Working /\ acked'[l] = {}
    BY <1>4 DEF Committed, QueryFailsInside, SinkReject, AfterRejected, Sleep, LoopTest, Exit, Catch,
                Forget, Working
  <2> QED
    BY <2>1, NoBatchNoDebt
<1>5. CASE FetchBatch(l)
  <2>1. /\ pc'[l] = "dispatch" /\ acked'[l] = {} /\ batch'[l] = NextBatch(from[l])
    BY <1>5 DEF FetchBatch, BatchInv, Working
  <2>2. ASSUME NEW x \in batch'[l], NEW r \in Rows, source'[r].version > 0,
               AtOrBelow(RecordOf(r)', x)
        PROVE  AllAccounted(r, source[r].version)' \/ RecordOf(r)' \in batch'[l]
    <3>1. RecordOf(r)' = RecordOf(r)
      BY <1>1 DEF RecordOf
    <3>2. AllAccounted(r, source[r].version) \/ RecordOf(r) \in NextBatch(from[l])
      BY <1>1, <2>1, <2>2, <3>1, FetchedComplete
    <3> QED
      BY <1>1, <2>1, <3>1, <3>2 DEF AllAccounted, Accounted
  <2>3. BatchComplete(l)'
    BY <2>2 DEF BatchComplete
  <2> QED
    BY <2>1, <2>3 DEF BatchInv, AnswersKnown, Done
<1>6. ASSUME NEW s \in Sinks, SinkAck(l, s) PROVE BatchInv(l)'
  <2>1. pc'[l] = "dispatch" /\ pc[l] = "dispatch" /\ batch' = batch
    BY <1>6 DEF SinkAck
  <2>2. BatchComplete(l)
    BY <2>1 DEF BatchInv, Working
  <2>3. BatchComplete(l)'
    BY <1>1, <2>1, <2>2 DEF BatchComplete, RecordOf, AllAccounted, Accounted
  <2>4. AnswersKnown(l)'
    BY <1>6, AckRecorded
  <2> QED
    BY <2>1, <2>3, <2>4 DEF BatchInv, Working, Done
<1>7. CASE Dispatched(l)
  <2>1. /\ pc[l] = "dispatch" /\ acked[l] = Sinks
        /\ pc'[l] = IF rejected[l] = {} THEN "commit" ELSE "persist"
        /\ UNCHANGED <<batch, acked, rejected, delivered, dlq>>
    BY <1>7 DEF Dispatched, DispatchedByAll, calmVars, envVars, sinkVars, dbVars
  <2>2. BatchComplete(l) /\ AnswersKnown(l)
    BY <2>1 DEF BatchInv, Working
  <2>3. BatchComplete(l)' /\ AnswersKnown(l)'
    BY <1>1, <2>1, <2>2 DEF BatchComplete, RecordOf, AllAccounted, Accounted, AnswersKnown
  <2>4. rejected[l] = {} => \A x \in batch'[l] : AllAccounted(x.id, x.version)'
    BY <2>1, <2>2 DEF AnswersKnown, AllAccounted, Accounted
  <2> QED
    BY <2>1, <2>3, <2>4 DEF BatchInv, Working, Done
<1>8. CASE PersistFailures(l)
  <2>1. /\ pc[l] = "persist" /\ pc'[l] = "commit"
        /\ UNCHANGED <<batch, acked, rejected, delivered>> /\ dlq' = Quarantined(l)
    BY <1>8 DEF PersistFailures, calmVars, envVars, sinkVars
  <2>2. BatchComplete(l) /\ AnswersKnown(l) /\ acked[l] = Sinks
    BY <2>1 DEF BatchInv, Working
  <2>3. BatchComplete(l)' /\ AnswersKnown(l)'
    BY <1>1, <2>1, <2>2 DEF BatchComplete, RecordOf, AllAccounted, Accounted, AnswersKnown
  <2>4. ASSUME NEW x \in batch[l], NEW s \in Sinks
        PROVE  <<x.id, x.version, s>> \in delivered \cup Quarantined(l)
    <3>1. <<x.id, x.version, s>> \in delivered \cup dlq \/ <<x.id, s>> \in rejected[l]
      BY <2>2 DEF AnswersKnown, Accounted
    <3>2. <<x.id, s>> \in rejected[l] => <<x.id, x.version, s>> \in Quarantined(l)
      BY DEF Quarantined
    <3>3. dlq \subseteq Quarantined(l)
      BY DEF Quarantined
    <3> QED
      BY <3>1, <3>2, <3>3
  <2>5. \A x \in batch'[l] : AllAccounted(x.id, x.version)'
    BY <2>1, <2>4 DEF AllAccounted, Accounted
  <2> QED
    BY <2>1, <2>2, <2>3, <2>5 DEF BatchInv, Working, Done
<1>9. CASE CommitCheckpoint(l)
  <2>1. /\ pc[l] = "commit" /\ pc'[l] = "committed"
        /\ UNCHANGED <<batch, acked, rejected, delivered, dlq>>
    BY <1>9 DEF CommitCheckpoint, calmVars, envVars, sinkVars
  <2>2. /\ BatchComplete(l) /\ AnswersKnown(l) /\ acked[l] = Sinks
        /\ \A x \in batch[l] : AllAccounted(x.id, x.version)
    BY <2>1 DEF BatchInv, Working, Done
  <2>3. BatchComplete(l)' /\ AnswersKnown(l)'
        /\ \A x \in batch'[l] : AllAccounted(x.id, x.version)'
    BY <1>1, <2>1, <2>2 DEF BatchComplete, RecordOf, AllAccounted, Accounted, AnswersKnown
  <2> QED
    BY <2>1, <2>2, <2>3 DEF BatchInv, Working, Done
<1> QED
  BY <1>2, <1>3, <1>4, <1>5, <1>6, <1>7, <1>8, <1>9 DEF Own, Progress

(* A transaction changes rows above every held position only: the times of *)
(* all of them have passed.                                                *)
LEMMA WriteLandsAbove ==
    ASSUME TypeInv, OrderInv, CommitWrite, NEW r \in Rows, source'[r] # source[r],
           NEW p, p.ts \in Nat, Settled(p)
    PROVE  ~AtOrBelow(RecordOf(r)', p)
<1>1. PICK t \in open :
        source' = [q \in Rows |->
          IF q \in t.ids THEN [ts |-> t.ts, version |-> source[q].version + 1] ELSE source[q]]
  BY DEF CommitWrite
<1>2. source'[r].ts = t.ts /\ t.ts \in Nat
  BY <1>1 DEF TypeInv, DataTyped
<1> QED
  BY <1>2 DEF Settled, AtOrBelow, RecordOf

LEMMA WriteKeepsCover ==
    ASSUME TypeInv, OrderInv, CoverInv, CommitWrite
    PROVE  CoverInv'
<1>1. /\ UNCHANGED <<delivered, dlq, pc, batch, acked, rejected>>
      /\ Held' = Held
  BY DEF CommitWrite, sinkVars, dbVars, fieldVars, loopVars, bodyVars, Held, CpPosition
<1>2. ASSUME NEW w \in Held PROVE Contract!Covered(w)'
  <2>1. Contract!Covered(w) /\ Settled(w) /\ w.ts \in Nat
    BY HeldTyped DEF CoverInv, OrderInv, Positions
  <2> SUFFICES ASSUME NEW r \in Rows, source'[r].version > 0, AtOrBelow(RecordOf(r)', w)
               PROVE  \A s \in Sinks : <<r, source'[r].version, s>> \in delivered' \cup dlq'
    BY DEF Contract!Covered, Contract!AtOrBelow, Contract!Position, AtOrBelow, RecordOf
  <2>2. source'[r] = source[r]
    BY <2>1, WriteLandsAbove
  <2>3. RecordOf(r)' = RecordOf(r)
    BY <2>2 DEF RecordOf
  <2>4. AllAccounted(r, source[r].version)
    BY <2>1, <2>2, <2>3, CoveredMeans
  <2> QED
    BY <1>1, <2>2, <2>4 DEF AllAccounted, Accounted
<1>3. ASSUME NEW l \in Loops PROVE BatchInv(l)'
  <2>1. BatchInv(l)
    BY DEF CoverInv
  <2>2. AnswersKnown(l) => AnswersKnown(l)'
    BY <1>1 DEF AnswersKnown, Accounted
  <2>3. ASSUME BatchComplete(l) PROVE BatchComplete(l)'
    <3> SUFFICES ASSUME NEW x \in batch[l], NEW r \in Rows,
                        source'[r].version > 0, AtOrBelow(RecordOf(r)', x)
                 PROVE  AllAccounted(r, source[r].version)' \/ RecordOf(r)' \in batch[l]
      BY <1>1 DEF BatchComplete
    <3>1. Settled(x) /\ x.ts \in Nat
      BY DEF OrderInv, TypeInv, LoopsTyped, Versions
    <3>2. source'[r] = source[r]
      BY <3>1, WriteLandsAbove
    <3>3. RecordOf(r)' = RecordOf(r)
      BY <3>2 DEF RecordOf
    <3>4. AllAccounted(r, source[r].version) \/ RecordOf(r) \in batch[l]
      BY <2>3, <3>2, <3>3 DEF BatchComplete
    <3> QED
      BY <1>1, <3>2, <3>3, <3>4 DEF AllAccounted, Accounted
  <2> QED
    BY <1>1, <2>1, <2>2, <2>3 DEF BatchInv, AllAccounted, Accounted
<1> QED
  BY <1>1, <1>2, <1>3 DEF CoverInv

LEMMA CoverInit == Init => CoverInv
<1> SUFFICES ASSUME Init PROVE CoverInv
  OBVIOUS
<1>1. \A w \in Held : Contract!Covered(w)
  BY DEF Init, Contract!Covered
<1>2. ASSUME NEW l \in Loops PROVE pc[l] \notin Working /\ acked[l] = {}
  BY DEF Init, Working
<1> QED
  BY <1>1, <1>2 DEF CoverInv, BatchInv

LEMMA CoverNext ==
    ASSUME TypeInv, OrderInv, CoverInv, Next
    PROVE  CoverInv'
<1>1. CASE CommitWrite
  BY <1>1, WriteKeepsCover
<1>2. ASSUME ~CommitWrite
      PROVE  /\ UNCHANGED source
             /\ delivered \subseteq delivered' /\ dlq \subseteq dlq'
  BY <1>2, AccountsGrow DEF Begin, srcVars
<1>3. ASSUME ~CommitWrite, NEW w \in Held' PROVE Contract!Covered(w)'
  <2>1. \A l \in Loops : pc[l] \in Done => Contract!Covered(CursorAfterCommit(l))
    BY DoneBatchCovers DEF CoverInv
  <2>2. Contract!Covered(w)
    BY <1>3, <2>1, HeldComesFrom, EpochCovered DEF CoverInv
  <2> QED
    BY <1>2, <1>3, <2>2, CoveredStays
<1>4. ASSUME ~CommitWrite, NEW l \in Loops PROVE BatchInv(l)'
  <2>1. BatchInv(l) /\ Contract!Covered(from[l])
    BY DEF CoverInv, Held
  <2>2. CASE Own(l)
    <3>1. UNCHANGED srcVars
      BY <2>2, OwnAccountsGrow
    <3> QED
      BY <1>2, <1>4, <2>1, <2>2, <3>1, OwnBatch
  <2>3. ASSUME NEW m \in Loops, Own(m), m # l PROVE BatchInv(l)'
    BY <1>2, <1>4, <2>1, <2>3, OthersUntouched, BatchStays
  <2>4. ASSUME NEW m \in Loops, Crash(m) PROVE BatchInv(l)'
    <3>1. pc'[l] \notin Working /\ acked'[l] = {}
      BY <2>4 DEF Crash, Working
    <3> QED
      BY <3>1, NoBatchNoDebt
  <2>5. CASE Pause
    <3>1. UNCHANGED <<batch, acked, rejected>> /\ pc'[l] \in {pc[l], "idle"}
      BY <2>5 DEF Pause, bodyVars
    <3>2. CASE pc'[l] = pc[l]
      BY <1>2, <1>4, <2>1, <3>1, <3>2, BatchStays
    <3>3. CASE pc'[l] # pc[l]
      <4>1. sleeper = l
        BY <2>5, <3>3 DEF Pause, WokenByPause
      <4>2. pc[l] = "sleep"
        BY <4>1, OptionsAssumption DEF TypeInv, FieldsTyped
      <4>3. acked'[l] = {} /\ pc'[l] \notin Working
        BY <2>1, <3>1, <3>3, <4>2 DEF BatchInv, Working
      <4> QED
        BY <4>3, NoBatchNoDebt
    <3> QED
      BY <3>2, <3>3
  <2>6. CASE SetPaused \/ OrphanSettles \/ Begin
    <3>1. UNCHANGED <<pc, batch, acked, rejected>>
      BY <2>6 DEF SetPaused, OrphanSettles, Begin, loopVars, bodyVars
    <3> QED
      BY <1>2, <1>4, <2>1, <3>1, BatchStays
  <2> QED
    BY <1>4, <2>2, <2>3, <2>4, <2>5, <2>6 DEF Next, Own
<1> QED
  BY <1>1, <1>3, <1>4 DEF CoverInv

LEMMA CoverStutter == CoverInv /\ UNCHANGED vars => CoverInv'
<1> SUFFICES ASSUME CoverInv, UNCHANGED vars PROVE CoverInv'
  OBVIOUS
<1>1. /\ UNCHANGED <<source, delivered, dlq, pc, batch, acked, rejected>>
      /\ Held' = Held
  BY DEF vars, calmVars, envVars, srcVars, sinkVars, dbVars, fieldVars, loopVars, bodyVars, Held,
         CpPosition
<1>2. ASSUME NEW w \in Held PROVE Contract!Covered(w)'
  BY <1>1, CoveredStays DEF CoverInv
<1>3. ASSUME NEW l \in Loops PROVE BatchInv(l)'
  BY <1>1, BatchStays DEF CoverInv
<1> QED
  BY <1>1, <1>2, <1>3 DEF CoverInv

LEMMA Invariance == ASSUME WritersInOrder PROVE Spec => [](TypeInv /\ OrderInv /\ CoverInv)
<1>1. Init => TypeInv /\ OrderInv /\ CoverInv
  BY TypeInit, OrderInit, CoverInit
<1>2. TypeInv /\ OrderInv /\ CoverInv /\ [Next]_vars => (TypeInv /\ OrderInv /\ CoverInv)'
  BY TypeNext, OrderNext, CoverNext, TypeStutter, OrderStutter, CoverStutter
<1> QED
  BY <1>1, <1>2, PTL DEF Spec

(* While the writers come one at a time, a millisecond or more apart, no   *)
(* mutation is lost: what the table holds at or below the committed        *)
(* watermark is accounted for at both sinks, in the very version it has    *)
(* (incremental.runner.ts:119-220).                                        *)
THEOREM MutationsAreKept == WritersInOrder => (Spec => []NoMutationLost)
<1> SUFFICES ASSUME WritersInOrder PROVE Spec => []NoMutationLost
  OBVIOUS
<1>1. CoverInv => NoMutationLost
  BY DEF CoverInv, NoMutationLost, Held, CpPosition
<1> QED
  BY <1>1, Invariance, PTL

(* Under the same condition the runner implements the contract of its      *)
(* composite watermark, step by step: a commit moves the watermark over    *)
(* what is accounted for, a write lands above it, and whatever else the    *)
(* runner does only adds to what is accounted for.                         *)
THEOREM ContractIsKept == WritersInOrder => (Spec => RefinesContract)
<1> SUFFICES ASSUME WritersInOrder PROVE Spec => RefinesContract
  OBVIOUS
<1>1. Init => Contract!Init
  BY DEF Init, Contract!Init
<1>2. TypeInv /\ OrderInv /\ CoverInv /\ TypeInv' /\ CoverInv' /\ [Next]_vars
        => [Contract!Next]_(Contract!vars)
  <2>1. ASSUME TypeInv, OrderInv, TypeInv', CommitWrite PROVE Contract!Mutate
    <3>1. source' \in [Rows -> [ts : Nat, version : Nat]]
      BY <2>1 DEF TypeInv, DataTyped
    <3>2. Settled(CpPosition) /\ CpPosition.ts \in Nat
      BY <2>1 DEF OrderInv, Held, TypeInv, DataTyped, CpPosition
    <3>3. ASSUME NEW r \in Rows, source'[r] # source[r]
          PROVE  ~AtOrBelow(RecordOf(r)', CpPosition)
      BY <2>1, <3>2, <3>3, WriteLandsAbove
    <3>4. UNCHANGED <<cp, delivered, dlq>>
      BY <2>1 DEF CommitWrite, sinkVars, dbVars
    <3> QED
      BY <3>1, <3>3, <3>4 DEF Contract!Mutate, Contract!AtOrBelow, Contract!Position, AtOrBelow,
                              RecordOf, CpPosition
  <2>2. ASSUME TypeInv, TypeInv', CoverInv', Next, ~CommitWrite PROVE Contract!Account \/ Contract!Commit
    <3>1. UNCHANGED source /\ delivered \subseteq delivered' /\ dlq \subseteq dlq'
      BY <2>2, AccountsGrow DEF Begin, srcVars
    <3>2. CASE CpPosition' = CpPosition
      BY <3>1, <3>2 DEF Contract!Account, CpPosition
    <3>3. CASE CpPosition' # CpPosition
      <4>0. PICK l \in Loops : CommitCheckpoint(l)
        BY <2>2, <3>3, OnlyCommitMoves
      <4>1. UNCHANGED <<delivered, dlq>>
        BY <4>0 DEF CommitCheckpoint, calmVars, envVars, sinkVars
      <4>2. CpPosition' \in [ts : Nat, id : Nat]
        BY <2>2 DEF TypeInv, DataTyped, CpPosition
      <4>3. Contract!Covered(CpPosition)'
        BY <2>2 DEF CoverInv, Held
      <4> QED
        BY <3>1, <4>1, <4>2, <4>3 DEF Contract!Commit, Contract!Covered, Contract!AtOrBelow,
                                      Contract!Position, CpPosition
    <3> QED
      BY <3>2, <3>3
  <2>3. CASE UNCHANGED vars
    BY <2>3 DEF vars, calmVars, envVars, srcVars, sinkVars, dbVars, Contract!vars
  <2> QED
    BY <2>1, <2>2, <2>3 DEF Contract!Next
<1> QED
  BY <1>1, <1>2, Invariance, PTL DEF Spec, RefinesContract, Contract!Spec

----------------------------------------------------------------------------
(* One activation *)

(* A cursor above the watermark would be gone after a crash; the runner    *)
(* resumes from the watermark, and its cursor is the watermark again when  *)
(* it leaves the loop body.                                                *)
Resumed == {"setRunning", "lag", "fetch", "dispatch", "persist", "commit", "sleep"}

CursorInv ==
    \A l \in Loops :
      /\ pc[l] = "gotCheckpoint" => seen[l] = CpPosition
      /\ pc[l] \in Resumed => cursor = CpPosition
      /\ pc[l] = "fetch" => from[l] = CpPosition
      /\ pc[l] \in {"dispatch", "persist", "commit"} =>
             \A x \in batch[l] : AtOrBelow(CpPosition, x)
      /\ pc[l] = "committed" => CpPosition = CursorAfterCommit(l)

OneActivation == \A l, m \in Loops : l = m

LEMMA CursorOwn ==
    ASSUME OneActivation, TypeInv, CursorInv, NEW l \in Loops, Own(l)
    PROVE  CursorInv'
<1>0. /\ pc \in [Loops -> Awaits] /\ batch \in [Loops -> SUBSET Versions]
      /\ seen \in [Loops -> Positions] /\ from \in [Loops -> Positions]
      /\ cp \in [ts : Nat, id : Nat, status : Statuses]
  BY DEF TypeInv, DataTyped, FieldsTyped, LoopsTyped
<1>1. Loops = {l}
  BY DEF OneActivation
<1> USE <1>0, <1>1 DEF Goto, bodyVars, dbVars, fieldVars, CursorInv, CpPosition, Resumed, SetStatus
<1>2. CASE ReadCheckpoint(l) \/ MeasureLag(l)
  BY <1>2 DEF ReadCheckpoint, MeasureLag
<1>3. CASE ResumeFromCheckpoint(l)
  BY <1>3 DEF ResumeFromCheckpoint, RecoveredCursor
<1>4. CASE SetRunning(l)
  BY <1>4 DEF SetRunning, LoopTest, Exit
<1>5. CASE FetchNothing(l)
  BY <1>5 DEF FetchNothing, Sleep, Exit
<1>6. CASE FetchBatch(l)
  <2>1. batch'[l] = NextBatch(CpPosition) /\ pc'[l] = "dispatch" /\ UNCHANGED <<cp, cursor>>
    BY <1>6 DEF FetchBatch
  <2>2. ASSUME NEW x \in NextBatch(CpPosition) PROVE AtOrBelow(CpPosition, x)
    <3>1. x \in Versions /\ ~AtOrBelow(x, CpPosition)
      BY <2>2, RecordsTyped DEF NextBatch, Pending, TypeInv, DataTyped
    <3>2. IsPosition(x) /\ IsPosition(CpPosition)
      BY <3>1, RecordsTyped DEF IsPosition, TypeInv, DataTyped
    <3> HIDE DEF CpPosition
    <3> QED
      BY <3>1, <3>2, OrderIsTotal
  <2>3. cursor = CpPosition
    BY <1>6 DEF FetchBatch
  <2>4. CpPosition' = CpPosition
    BY <2>1
  <2> HIDE DEF CpPosition
  <2> QED
    BY <2>1, <2>2, <2>3, <2>4
<1>7. CASE \E s \in Sinks : SinkAck(l, s)
  BY <1>7 DEF SinkAck
<1>8. CASE Dispatched(l) \/ PersistFailures(l)
  BY <1>8 DEF Dispatched, PersistFailures
<1>9. CASE CommitCheckpoint(l)
  BY <1>9 DEF CommitCheckpoint, CursorAfterCommit
<1>10. CASE Committed(l)
  <2>1. cursor' = CursorAfterCommit(l) /\ pc[l] = "committed" /\ UNCHANGED cp
        /\ pc'[l] \in {"lag", "sleep", "idle"}
    BY <1>10 DEF Committed, Sleep, LoopTest, Exit
  <2>2. cursor' = CpPosition'
    BY <2>1
  <2> QED
    BY <2>1, <2>2
<1>11. CASE TimerFires(l) \/ SetFailed(l) \/ Resume(l)
  BY <1>11 DEF TimerFires, SetFailed, Resume, Enter
<1>12. CASE \E s \in Sinks : SinkReject(l, s)
  BY <1>12 DEF SinkReject, AfterRejected, Sleep, Exit
<1>13. CASE QueryFailsOutside(l) \/ QueryFailsInside(l)
  BY <1>13 DEF QueryFailsOutside, QueryFailsInside, Catch
<1> QED
  BY <1>2, <1>3, <1>4, <1>5, <1>6, <1>7, <1>8, <1>9, <1>10, <1>11, <1>12, <1>13
  DEF Own, Progress

LEMMA CursorNext ==
    ASSUME OneActivation, TypeInv, CursorInv, Next
    PROVE  CursorInv'
<1>0. cp \in [ts : Nat, id : Nat, status : Statuses] /\ pc \in [Loops -> Awaits]
  BY DEF TypeInv, DataTyped, FieldsTyped
<1>1. ASSUME NEW l \in Loops, Own(l) PROVE CursorInv'
  BY <1>1, CursorOwn
<1>2. ASSUME NEW l \in Loops, Crash(l) PROVE CursorInv'
  <2>1. \A m \in Loops : pc'[m] \in {"getCheckpoint", "idle"}
    BY <1>2 DEF Crash
  <2> QED
    BY <2>1 DEF CursorInv, Resumed
<1>3. CASE Pause
  <2>1. /\ \A m \in Loops : pc'[m] \in {pc[m], "idle"}
        /\ UNCHANGED <<cp, cursor, seen, from, batch>>
    BY <1>3 DEF Pause, dbVars, bodyVars
  <2> QED
    BY <2>1 DEF CursorInv, Resumed, CpPosition, CursorAfterCommit
<1>4. CASE SetPaused \/ OrphanSettles \/ Begin \/ CommitWrite
  <2>1. CpPosition' = CpPosition /\ UNCHANGED <<cursor, pc, seen, from, batch>>
    BY <1>0, <1>4 DEF SetPaused, OrphanSettles, Begin, CommitWrite, SetStatus, CpPosition, dbVars,
                      fieldVars, loopVars, bodyVars
  <2> QED
    BY <2>1 DEF CursorInv, CursorAfterCommit
<1> QED
  BY <1>1, <1>2, <1>3, <1>4 DEF Next, Own

LEMMA CursorInvariant == ASSUME OneActivation PROVE Spec => [](TypeInv /\ CursorInv)
<1>1. Init => CursorInv
  BY DEF Init, CursorInv, Resumed
<1>2. TypeInv /\ CursorInv /\ [Next]_vars => CursorInv'
  <2>1. CursorInv /\ UNCHANGED vars => CursorInv'
    BY DEF CursorInv, CpPosition, CursorAfterCommit, vars, dbVars, fieldVars, loopVars, bodyVars
  <2> QED
    BY <2>1, CursorNext
<1> QED
  BY <1>1, <1>2, TypeInvariant, PTL DEF Spec

(* While one activation of start() is alive the committed watermark only   *)
(* moves forward, through retries, crashes, pauses and resumes             *)
(* (incremental.runner.ts:87-91, 208-220), whatever order transactions     *)
(* commit in.                                                              *)
THEOREM WatermarkMovesForward == OneActivation => (Spec => WatermarkNeverRegresses)
<1> SUFFICES ASSUME OneActivation PROVE Spec => WatermarkNeverRegresses
  OBVIOUS
<1>1. ASSUME TypeInv, CursorInv, [Next]_vars
      PROVE  AtOrBelow(CpPosition, CpPosition')
  <2>1. IsPosition(CpPosition)
    BY <1>1 DEF TypeInv, DataTyped, IsPosition, CpPosition
  <2>2. CASE CpPosition' = CpPosition
    BY <2>1, <2>2, OrderIsTotal
  <2>3. CASE CpPosition' # CpPosition
    <3>1. ~UNCHANGED vars
      BY <2>3 DEF vars, dbVars, CpPosition
    <3>2. PICK l \in Loops : CommitCheckpoint(l)
      BY <1>1, <2>3, <3>1, OnlyCommitMoves
    <3>3. WatermarkOf(batch[l]) \in batch[l]
      BY <1>1, <3>2, WatermarkTyped DEF CommitCheckpoint, Working
    <3>4. AtOrBelow(CpPosition, WatermarkOf(batch[l]))
      BY <1>1, <3>2, <3>3 DEF CursorInv, CommitCheckpoint
    <3>5. CpPosition' = [ts |-> WatermarkOf(batch[l]).ts, id |-> WatermarkOf(batch[l]).id]
      <4>1. cp \in [ts : Nat, id : Nat, status : Statuses]
        BY <1>1 DEF TypeInv, DataTyped
      <4> QED
        BY <3>2, <4>1 DEF CommitCheckpoint, CpPosition
    <3> QED
      BY <3>4, <3>5 DEF AtOrBelow
  <2> QED
    BY <2>2, <2>3
<1>2. TypeInv /\ CursorInv /\ [Next]_vars
        => AtOrBelow([ts |-> cp.ts, id |-> cp.id], [ts |-> cp.ts, id |-> cp.id]')
  BY <1>1 DEF CpPosition
<1> QED
  BY <1>2, CursorInvariant, PTL DEF Spec, WatermarkNeverRegresses
=============================================================================
