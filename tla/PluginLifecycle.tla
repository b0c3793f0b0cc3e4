-------------------------- MODULE PluginLifecycle --------------------------
(***************************************************************************)
(* What the plugin loader promises about each plugin, apart from how the   *)
(* table of plugins, the event table and the calls into plugin code do it. *)
(* A plugin DLL goes through                                               *)
(*                                                                         *)
(*   unloaded -> loaded -> initialized <-> enabled                         *)
(*                                                                         *)
(* and back down by the same steps: what is enabled is disabled before it  *)
(* is shut down, and what is shut down is unmapped last.  "listening" is   *)
(* the set of plugins some callback of which the event bus may call.  It   *)
(* grows only while a plugin that is initialized is being enabled, and a   *)
(* DLL is never unmapped while the bus can still call into it.             *)
(***************************************************************************)
CONSTANT Plugins

VARIABLES phase, listening

vars == <<phase, listening>>

Phases == {"unloaded", "loaded", "initialized", "enabled"}

TypeOK ==
    /\ phase \in [Plugins -> Phases]
    /\ listening \subseteq Plugins

Init ==
    /\ phase = [p \in Plugins |-> "unloaded"]
    /\ listening = {}

Move(p, from, to) ==
    /\ phase[p] = from
    /\ phase' = [phase EXCEPT ![p] = to]

Load(p)       == Move(p, "unloaded", "loaded") /\ UNCHANGED listening
Initialize(p) == Move(p, "loaded", "initialized") /\ UNCHANGED listening
Enable(p)     == Move(p, "initialized", "enabled") /\ UNCHANGED listening
Disable(p)    == Move(p, "enabled", "initialized") /\ UNCHANGED listening

\* The Shutdown entry point is called with the plugin's callbacks removed.
Shutdown(p) ==
    /\ Move(p, "initialized", "loaded")
    /\ listening' = listening \ {p}

Unload(p) ==
    /\ p \notin listening
    /\ Move(p, "loaded", "unloaded")
    /\ UNCHANGED listening

Listen(p) ==
    /\ phase[p] = "initialized"
    /\ listening' = listening \cup {p}
    /\ UNCHANGED phase

Unlisten(p) ==
    /\ listening' = listening \ {p}
    /\ UNCHANGED phase

Step(p) ==
    \/ Load(p) \/ Initialize(p) \/ Enable(p) \/ Disable(p)
    \/ Shutdown(p) \/ Unload(p) \/ Listen(p) \/ Unlisten(p)

Next == \E p \in Plugins : Step(p)

Spec == Init /\ [][Next]_vars
=============================================================================
