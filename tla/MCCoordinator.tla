--------------------------- MODULE MCCoordinator ---------------------------
(* Instances of Coordinator for TLC. *)
EXTENDS Coordinator, TLC

CONSTANTS s1, s2

SlotSymmetry == Permutations({s1, s2})
=============================================================================
