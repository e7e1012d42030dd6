---------------------------- MODULE MCRabbitSink ----------------------------
(* Instances of RabbitSink for TLC. *)
EXTENDS RabbitSink, TLC

CONSTANTS p1, p2

PublisherSymmetry == Permutations({p1, p2})
=============================================================================
