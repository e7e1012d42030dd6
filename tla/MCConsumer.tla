---------------------------- MODULE MCConsumer ----------------------------
(* Instances of Consumer for TLC: four envelopes, two of them with one id. *)
EXTENDS Consumer, TLC

CONSTANTS c1, c2, c3, c4, m1, m2, m3

Ids == c1 :> m1 @@ c2 :> m1 @@ c3 :> m2 @@ c4 :> m3
=============================================================================
