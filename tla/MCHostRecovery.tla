--------------------------- MODULE MCHostRecovery ---------------------------
(* HostRecovery on instances for TLC: the constants are plain numbers. *)
EXTENDS HostRecovery
=============================================================================
