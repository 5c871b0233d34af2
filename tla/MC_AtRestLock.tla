---------------------------- MODULE MC_AtRestLock ----------------------------
(* Instances of AtRestLock for TLC. *)
EXTENDS AtRestLock
=============================================================================
