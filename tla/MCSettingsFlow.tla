--------------------------- MODULE MCSettingsFlow ---------------------------
(* SettingsFlow on instances for TLC: the constants are plain values. *)
EXTENDS SettingsFlow
=============================================================================
