---------------------------- MODULE MCLocalPool ----------------------------
(* Instances of LocalPool for TLC. *)
EXTENDS LocalPool
=============================================================================
