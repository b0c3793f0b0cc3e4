-------------------------- MODULE MCMediaIsland --------------------------
(* MediaIsland on instances for TLC: the constants are plain numbers. *)
EXTENDS MediaIsland
==========================================================================
