------------------------ MODULE MCDeadLetterQueue ------------------------
(* Instances of DeadLetterQueue for TLC: entries of one row or of several, *)
(* all of one batch or created one after the other.                        *)
EXTENDS DeadLetterQueue, TLC

CONSTANTS r1, r2, r3, r4, q1, q2

SameRow  == 1 :> r1 @@ 2 :> r1
FourRows == 1 :> r1 @@ 2 :> r2 @@ 3 :> r3 @@ 4 :> r4

ToIndex     == [e \in 1..4 |-> "ELASTICSEARCH"]
BothTargets == 1 :> "ALL" @@ 2 :> "ELASTICSEARCH"
ToBoth      == 1 :> "ALL"

SameBatch == 1 :> 1 @@ 2 :> 1
InTurn    == [e \in 1..4 |-> e]
==========================================================================
