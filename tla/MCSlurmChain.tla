---------------------------- MODULE MCSlurmChain ----------------------------
(* Instances of SlurmChain for TLC. *)
EXTENDS SlurmChain
=============================================================================
