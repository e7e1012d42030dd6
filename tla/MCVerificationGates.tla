------------------------ MODULE MCVerificationGates ------------------------
(* Instances of VerificationGates for TLC. *)
EXTENDS VerificationGates, TLC

EachGate == {<<2>>, <<3>>, <<4>>}
Gate2Alone == {<<2>>}
Gate3Alone == {<<3>>}
Gate4Alone == {<<4>>}
=============================================================================
