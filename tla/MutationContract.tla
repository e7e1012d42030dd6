-------------------------- MODULE MutationContract --------------------------
(***************************************************************************)
(* What the incremental replication promises through its composite         *)
(* watermark (updated_at, id), with no poll, batch, retry or crash in      *)
(* sight: the version a row has at or below the watermark was accounted    *)
(* for at every sink, and a row that changes moves above the watermark.    *)
(***************************************************************************)
EXTENDS Naturals

CONSTANTS
    Rows,       \* ids of source_records
    Sinks       \* the downstream stores

VARIABLES
    source,     \* [Rows -> [ts, version]], version 0: no such row yet
    watermark,  \* [ts, id]: the position a restart would resume from
    accounted   \* triples <<row, version, sink>> acknowledged or quarantined

vars == <<source, watermark, accounted>>

(* ORDER BY updated_at ASC, id ASC *)
AtOrBelow(p, w) == p.ts < w.ts \/ (p.ts = w.ts /\ p.id <= w.id)

Position(r) == [ts |-> source[r].ts, id |-> r]

Covered(w) ==
    \A r \in Rows : source[r].version > 0 /\ AtOrBelow(Position(r), w) =>
        \A s \in Sinks : <<r, source[r].version, s>> \in accounted

Init ==
    /\ source = [r \in Rows |-> [ts |-> 0, version |-> 0]]
    /\ watermark = [ts |-> 0, id |-> 0]
    /\ accounted = {}

(* A transaction writes rows; none of them lands behind the watermark. *)
Mutate ==
    /\ source' \in [Rows -> [ts : Nat, version : Nat]]
    /\ \A r \in Rows : source'[r] # source[r] => ~AtOrBelow(Position(r)', watermark)
    /\ UNCHANGED <<watermark, accounted>>

(* Some versions reach a sink, or the quarantine. *)
Account ==
    /\ accounted \subseteq accounted'
    /\ UNCHANGED <<source, watermark>>

(* A watermark is persisted, strictly after what lies below it. *)
Commit ==
    /\ watermark' \in [ts : Nat, id : Nat]
    /\ Covered(watermark')
    /\ UNCHANGED <<source, accounted>>

Next == Mutate \/ Account \/ Commit

Spec == Init /\ [][Next]_vars
=============================================================================
