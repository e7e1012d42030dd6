-------------------------- MODULE MCBackfillRunner --------------------------
(* Instances of BackfillRunner for TLC. *)
EXTENDS BackfillRunner, TLC

CONSTANTS l1, l2

(* Activations differ by nothing but their name. *)
LoopSymmetry == Permutations({l1, l2})
=============================================================================
