----------------------------- MODULE MCSearchFS ------------------------------
(* Instances of SearchFS for TLC. *)
EXTENDS SearchFS
=============================================================================
