------------------------- MODULE MCTaskbarPlugins -------------------------
(* TaskbarPlugins on instances for TLC: the windows are model values. *)
EXTENDS TaskbarPlugins, TLC

\* The secondary taskbars are alike.
Symmetry == Permutations(Secondaries)
==========================================================================
