--------------------------- MODULE MCPluginLoader ---------------------------
(***************************************************************************)
(* An instance of PluginLoader for TLC: two plugins, one of them present   *)
(* twice (flat and in a subdirectory) with another priority, one file      *)
(* built for a newer API, and two faults of each plugin.  The files come   *)
(* in any order, so load order, table order and plugin_id disagree.        *)
(* A fault in Enable leaves callbacks behind and the next Enable adds them *)
(* again, so the table of three fills.                                     *)
(***************************************************************************)
EXTENDS PluginLoader

CONSTANTS a, b, config, dpi

MCNames == {a, b}
MCDlls == 1 .. 4
MCMeta == [d \in MCDlls |->
    CASE d = 1 -> [name |-> a, priority |-> 1, usable |-> TRUE]
      [] d = 2 -> [name |-> b, priority |-> 2, usable |-> TRUE]
      [] d = 3 -> [name |-> a, priority |-> 3, usable |-> TRUE]
      [] d = 4 -> [name |-> b, priority |-> 0, usable |-> FALSE]]
MCEvents == {config, dpi}
MCEventsOf == [n \in MCNames |-> IF n = a THEN <<config, dpi>> ELSE <<config>>]
=============================================================================
