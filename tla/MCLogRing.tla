----------------------------- MODULE MCLogRing -----------------------------
(* LogRing on instances for TLC: the producers are model values. *)
EXTENDS LogRing
==========================================================================
