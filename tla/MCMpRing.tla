------------------------------ MODULE MCMpRing -------------------------------
(* Instances of MpRing for TLC. *)
EXTENDS MpRing
=============================================================================
