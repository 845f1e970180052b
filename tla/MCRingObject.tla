---------------------------- MODULE MCRingObject -----------------------------
(* Instances of RingObject for TLC. *)
EXTENDS RingObject
=============================================================================
