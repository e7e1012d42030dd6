------------------------ MODULE MCIncrementalRunner ------------------------
(* Instances of IncrementalRunner for TLC. *)
EXTENDS IncrementalRunner, TLC

CONSTANTS l1, l2

(* Activations differ by nothing but their name. *)
LoopSymmetry == Permutations({l1, l2})
=============================================================================
