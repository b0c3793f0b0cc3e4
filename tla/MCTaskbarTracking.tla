-------------------------- MODULE MCTaskbarTracking --------------------------
(* TaskbarTracking on instances for TLC: the windows are model values. *)
EXTENDS TaskbarTracking
==============================================================================
