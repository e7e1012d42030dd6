-------------------------- MODULE WatermarkContract --------------------------
(***************************************************************************)
(* What a replication runner promises through its persisted watermark,     *)
(* with no batch, query, retry or crash in sight: a historical row that    *)
(* lies at or below the watermark is accounted for at every sink, that is  *)
(* either acknowledged by the sink or quarantined in dead_letter_queue,    *)
(* and what is accounted for stays so.  The contract says nothing of the   *)
(* direction in which the watermark moves: re-processing is allowed.       *)
(***************************************************************************)
EXTENDS Naturals

CONSTANTS
    History,    \* ids of the rows replication starts from
    Sinks       \* the downstream stores

VARIABLES
    watermark,  \* the last_processed_id a restart would resume from
    accounted   \* pairs <<row, sink>> acknowledged or quarantined

vars == <<watermark, accounted>>

Covered(w) == \A r \in History : r <= w => \A s \in Sinks : <<r, s>> \in accounted

Init ==
    /\ watermark = 0
    /\ accounted = {}

(* Some rows reach a sink, or the quarantine. *)
Account ==
    /\ accounted \subseteq accounted'
    /\ UNCHANGED watermark

(* A watermark is persisted, strictly after the rows below it. *)
Commit ==
    /\ watermark' \in Nat
    /\ Covered(watermark')
    /\ UNCHANGED accounted

Next == Account \/ Commit

Spec == Init /\ [][Next]_vars
=============================================================================
