---------------------------- MODULE MCEngineCore ----------------------------
(* Instances of EngineCore for TLC.                                          *)
EXTENDS EngineCore
=============================================================================
