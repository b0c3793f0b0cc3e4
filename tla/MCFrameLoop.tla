--------------------------- MODULE MCFrameLoop ---------------------------
(* FrameLoop on instances for TLC: the constants are plain numbers. *)
EXTENDS FrameLoop
==========================================================================
