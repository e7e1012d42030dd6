---------------------------- MODULE MCCrashDrill ----------------------------
(* Instances of CrashDrill for TLC. *)
EXTENDS CrashDrill, TLC

CONSTANTS l1, l2
=============================================================================
