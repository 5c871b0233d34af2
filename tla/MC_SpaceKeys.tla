---------------------------- MODULE MC_SpaceKeys ----------------------------
(* SpaceKeys on small rosters; the .cfg files choose devices and budgets.   *)
EXTENDS SpaceKeys
CONSTANTS o, b, c
=============================================================================
