----------------------------- MODULE MCSpmcRing ------------------------------
(* Instances of SpmcRing for TLC. *)
EXTENDS SpmcRing
=============================================================================
