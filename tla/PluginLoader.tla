---------------------------- MODULE PluginLoader ----------------------------
(***************************************************************************)
(* The plugin table (plugin_loader.c), the event table it shares with      *)
(* event_dispatch.c, and the calls into plugin code between them, driven   *)
(* by the engine's one UI thread (core_manager.c) and read by the IPC      *)
(* server thread (ipc_server.c, TE_GenerateSettingsJson).                  *)
(*                                                                         *)
(* A call into a plugin takes several steps: the plugin subscribes or      *)
(* unsubscribes its callbacks one by one and may fault between any two of  *)
(* them (fault_isolation.c turns that into TE_E_FAIL).  The loader's own   *)
(* loops take one step per plugin.                                         *)
(***************************************************************************)
EXTENDS EventTable, Sequences

CONSTANTS
    Names,       \* plugin names (PluginMetadata.name)
    Dlls,        \* the DLL files found under the Modules directory
    Meta,        \* what each file's GetPluginInterface answers
    Events,      \* event types
    EventsOf,    \* the events a plugin's Enable subscribes to, in order
    MaxPlugins,  \* TE_MAX_PLUGINS, 32 in plugin_loader.h
    MaxFaults    \* bound of the model: how often one plugin may fault

ASSUME MetaAssumption ==
    Meta \in [Dlls -> [name : Names, priority : Int, usable : BOOLEAN]]
ASSUME EventsOfAssumption == EventsOf \in [Names -> Seq(Events)]
ASSUME LoaderBoundsAssumption == MaxPlugins \in Nat /\ MaxFaults \in Nat
ASSUME NoSubAssumption == NoSub \notin Subscription(Events, Names, Int)

VARIABLES
    plugins,    \* g_plugins[0 .. g_plugin_count - 1], from index 1 here
    table,      \* g_subscriptions and g_subscription_count
    cur,        \* g_current_plugin_id and g_current_plugin_entry
    ui,         \* where the UI thread is in the loader
    call,       \* the call into a plugin that is in progress, or NoCall
    unscanned,  \* the files the scan has not come to yet
    pending,    \* the callbacks a fired event has still to call
    ipcUp,      \* the IPC server is running
    reading     \* its thread holds g_plugin_lock shared and reads g_plugins

vars == <<plugins, table, cur, ui, call, unscanned, pending, ipcUp, reading>>

Pcs == {"down", "scan", "initAll", "autoEnable", "idle",
        "disableAll", "shutdownAll", "freeing", "reset"}

Entry == [name : Names, priority : Int, id : Int, mapped : BOOLEAN,
          initialized : BOOLEAN, enabled : BOOLEAN, faults : Nat]

NoCall == [op |-> "None", slot |-> 0, todo |-> <<>>]
NoCur  == [id |-> 0, slot |-> 0]
Ops    == {"None", "Initialize", "Enable", "Disable"}

Sub == Subscription(Events, Names, Int)

Indices == DOMAIN plugins

(***************************************************************************)
(* g_plugin_lock is held exclusively through a scan, through each of the   *)
(* loops, and through an Enable or a Disable by name.                      *)
(***************************************************************************)
LockHeld ==
    \/ call # NoCall
    \/ ui.pc \in {"scan", "initAll", "disableAll", "shutdownAll", "freeing"}

\* No event is being delivered.
NoneDue == DOMAIN pending = {}

\* TE_PluginLoaderShutdownAll has begun, and no start-up has followed it.
TornDown == ui.pc \in {"shutdownAll", "freeing", "reset", "down"}

At(pc) == ui.pc = pc /\ call = NoCall

Goto(pc, i) == ui' = [pc |-> pc, i |-> i, then |-> ui.then]

Init ==
    /\ plugins = <<>>
    /\ table = EmptyTable
    /\ cur = NoCur
    /\ ui = [pc |-> "down", i |-> 0, then |-> "idle"]
    /\ call = NoCall
    /\ unscanned = {}
    /\ pending = [s \in {} |-> NoSub]
    /\ ipcUp = FALSE
    /\ reading = FALSE
-----------------------------------------------------------------------------
(***************************************************************************)
(* Start-up: TE_EventDispatchInit, TE_PluginLoaderInit, then the scan.     *)
(* WM_TE_INIT is posted: it comes in the message loop, under no callback.  *)
(***************************************************************************)
StartUp ==
    /\ At("down")
    /\ NoneDue
    /\ Goto("scan", 1)
    /\ plugins' = <<>>
    /\ table' = EmptyTable
    /\ cur' = NoCur
    /\ unscanned' = Dlls
    /\ UNCHANGED <<call, pending, ipcUp, reading>>

NewEntry(dll) ==
    [name |-> Meta[dll].name, priority |-> Meta[dll].priority,
     id |-> Len(plugins) + 1, mapped |-> TRUE,
     initialized |-> FALSE, enabled |-> FALSE, faults |-> 0]

\* TryLoadPluginDll: a DLL that is not kept is freed again before the function
\* returns.  The files come in the order the file system lists them.
TryLoad(dll) ==
    /\ At("scan")
    /\ dll \in unscanned
    /\ unscanned' = unscanned \ {dll}
    /\ plugins' =
          IF /\ Len(plugins) < MaxPlugins
             /\ Meta[dll].usable
             /\ \A k \in Indices : plugins[k].name # Meta[dll].name
          THEN Append(plugins, NewEntry(dll))
          ELSE plugins
    /\ UNCHANGED <<table, cur, ui, call, pending, ipcUp, reading>>

\* f lists the plugins by priority, equal priorities in the order of loading.
StableOrder(f) ==
    \A i, j \in Indices :
        i < j => \/ plugins[f[i]].priority < plugins[f[j]].priority
                 \/ /\ plugins[f[i]].priority = plugins[f[j]].priority
                    /\ f[i] < f[j]

\* The insertion sort that ends TE_PluginLoaderScanAndLoad.  It moves whole
\* entries, so a plugin keeps the plugin_id it got when it was loaded.
SortByPriority ==
    /\ At("scan")
    /\ unscanned = {}
    /\ \E f \in [Indices -> Indices] :
          /\ StableOrder(f)
          /\ plugins' = [k \in 1 .. Len(plugins) |-> plugins[f[k]]]
    /\ Goto("initAll", 1)
    /\ UNCHANGED <<table, cur, call, unscanned, pending, ipcUp, reading>>
-----------------------------------------------------------------------------
(***************************************************************************)
(* Calls into plugins.                                                     *)
(***************************************************************************)

\* What the loader sets up before it enters a plugin.
BeginCall(op, k) ==
    /\ cur' = [id |-> plugins[k].id, slot |-> k]
    /\ call' = [op |-> op, slot |-> k,
                todo |-> IF op = "Initialize" THEN <<>>
                                              ELSE EventsOf[plugins[k].name]]

\* The loop of TE_PluginLoaderInitializeAll.
InitializeNext ==
    /\ At("initAll")
    /\ ui.i \in Indices
    /\ BeginCall("Initialize", ui.i)
    /\ UNCHANGED <<plugins, table, ui, unscanned, pending, ipcUp, reading>>

InitializeDone ==
    /\ At("initAll")
    /\ ui.i \notin Indices
    /\ Goto("autoEnable", 1)
    /\ UNCHANGED <<plugins, table, cur, call, unscanned, pending, ipcUp, reading>>

\* The guards of TE_PluginLoaderEnablePluginByName and ...DisablePluginByName.
MayEnable(k)  == plugins[k].initialized /\ ~plugins[k].enabled
MayDisable(k) == plugins[k].enabled

\* TE_CoreManagerInit enables, by name and in table order, the plugins the
\* configuration asks for (or it asks for this one in vain, or not at all).
AutoEnable ==
    /\ At("autoEnable")
    /\ ui.i \in Indices
    /\ MayEnable(ui.i)
    /\ BeginCall("Enable", ui.i)
    /\ UNCHANGED <<plugins, table, ui, unscanned, pending, ipcUp, reading>>

AutoEnableSkip ==
    /\ At("autoEnable")
    /\ ui.i \in Indices
    /\ Goto("autoEnable", ui.i + 1)
    /\ UNCHANGED <<plugins, table, cur, call, unscanned, pending, ipcUp, reading>>

\* The last thing TE_CoreManagerInit does is to start the IPC server.
AutoEnableDone ==
    /\ At("autoEnable")
    /\ ui.i \notin Indices
    /\ Goto("idle", 0)
    /\ ipcUp' = TRUE
    /\ UNCHANGED <<plugins, table, cur, call, unscanned, pending, reading>>

\* A command or a reload asks for a plugin by name.
SwitchByName(op, k) ==
    /\ At("idle")
    /\ NoneDue
    /\ ~reading
    /\ BeginCall(op, k)
    /\ UNCHANGED <<plugins, table, ui, unscanned, pending, ipcUp, reading>>

EnableByName(k)  == MayEnable(k) /\ SwitchByName("Enable", k)
DisableByName(k) == MayDisable(k) /\ SwitchByName("Disable", k)

\* Mutant: callbacks are filed under the plugin's position in the table.
PluginSubscribesByIndex ==
    /\ call.op = "Enable"
    /\ call.todo # <<>>
    /\ table' = Subscribed(table, [event |-> Head(call.todo),
                                   owner |-> plugins[call.slot].name,
                                   id    |-> cur.slot])
    /\ call' = [call EXCEPT !.todo = Tail(@)]
    /\ UNCHANGED <<plugins, cur, ui, unscanned, pending, ipcUp, reading>>

\* Plugin code, in Enable: TE_PluginSubscribeWrapper files the callback under
\* g_current_plugin_id, whoever is calling.
PluginSubscribes ==
    /\ call.op = "Enable"
    /\ call.todo # <<>>
    /\ table' = Subscribed(table, [event |-> Head(call.todo),
                                   owner |-> plugins[call.slot].name,
                                   id    |-> cur.id])
    /\ call' = [call EXCEPT !.todo = Tail(@)]
    /\ UNCHANGED <<plugins, cur, ui, unscanned, pending, ipcUp, reading>>

\* Plugin code, in Disable.
PluginUnsubscribes ==
    /\ call.op = "Disable"
    /\ call.todo # <<>>
    /\ table' = Unsubscribed(table, Head(call.todo), plugins[call.slot].name)
    /\ call' = [call EXCEPT !.todo = Tail(@)]
    /\ UNCHANGED <<plugins, cur, ui, unscanned, pending, ipcUp, reading>>

\* The index the caller's loop goes on with.
NextIndex ==
    CASE ui.pc = "disableAll" -> ui.i - 1
      [] ui.pc = "idle"       -> ui.i
      [] OTHER                -> ui.i + 1

\* What the caller records of a call that succeeded or failed: after a failed
\* Enable the plugin is not enabled, nor is it after a Disable that failed.
Recorded(entry, op, succeeded, newFaults) ==
    [entry EXCEPT
        !.initialized = IF op = "Initialize" THEN succeeded ELSE @,
        !.enabled     = IF op = "Initialize" THEN @ ELSE op = "Enable" /\ succeeded,
        !.faults      = @ + newFaults]

\* The call is over: the caller records its result in the entry it called.
EndCall(succeeded, newFaults) ==
    /\ plugins' = [plugins EXCEPT ![call.slot] =
                     Recorded(@, call.op, succeeded, newFaults)]
    /\ call' = NoCall
    /\ Goto(ui.pc, NextIndex)
    /\ UNCHANGED <<table, cur, unscanned, pending, ipcUp, reading>>

PluginReturns ==
    /\ call # NoCall
    /\ call.todo = <<>>
    /\ EndCall(TRUE, 0)

\* A plugin may refuse to initialize, or to enable; in Enable it does so
\* before its first subscription (icon_hover.c, IconHover_Enable).
PluginRefuses ==
    /\ \/ call.op = "Initialize"
       \/ /\ call.op = "Enable"
          /\ call.todo = EventsOf[plugins[call.slot].name]
    /\ EndCall(FALSE, 0)

\* TE_FaultIsolatedCall catches a structured exception, counts it, and makes
\* a failed call of it.  What the plugin had done by then stays done.
PluginFaults ==
    /\ call # NoCall
    /\ plugins[call.slot].faults < MaxFaults
    /\ EndCall(FALSE, 1)

CallStep ==
    PluginSubscribes \/ PluginUnsubscribes \/ PluginReturns
    \/ PluginRefuses \/ PluginFaults
-----------------------------------------------------------------------------
(***************************************************************************)
(* Events.  TE_EventDispatchFire calls the copy it made, with no lock.     *)
(***************************************************************************)
Fire(event) ==
    /\ At("idle")
    /\ NoneDue
    /\ pending' = Snapshot(table, event)
    /\ UNCHANGED <<plugins, table, cur, ui, call, unscanned, ipcUp, reading>>

\* A callback that returns, or whose exception Fire swallows (uncounted).  Fire
\* goes through its copy to the end, over an engine that a callback took down too.
Deliver ==
    /\ At("idle") \/ At("down")
    /\ ~NoneDue
    /\ pending' = [s \in DOMAIN pending \ {FirstSlot(DOMAIN pending)} |->
                      pending[s]]
    /\ UNCHANGED <<plugins, table, cur, ui, call, unscanned, ipcUp, reading>>
-----------------------------------------------------------------------------
(***************************************************************************)
(* Teardown.                                                               *)
(***************************************************************************)

\* The UI thread handles TE_IPC_MSG_SHUTDOWN: TE_PluginLoaderDisableAll, and
\* the rest of the teardown later, from a posted message.  The command is
\* *sent*, so it may arrive inside a callback that waits for other windows
\* (taskbar_resize broadcasts its new work area): then pending is not empty.
Quiesce ==
    /\ At("idle")
    /\ ~reading
    /\ ui' = [pc |-> "disableAll", i |-> Len(plugins), then |-> "idle"]
    /\ UNCHANGED <<plugins, table, cur, call, unscanned, pending, ipcUp, reading>>

\* Mutant: straight to TE_PluginLoaderShutdownAll.
BeginShutdownEnabled ==
    /\ At("idle")
    /\ ~reading
    /\ ipcUp' = FALSE
    /\ ui' = [pc |-> "shutdownAll", i |-> 1, then |-> "shutdownAll"]
    /\ UNCHANGED <<plugins, table, cur, call, unscanned, pending, reading>>

\* TE_CoreManagerShutdownExcept: TE_IpcServerStop waits for the thread, then
\* DisableAll.  WM_TE_SHUTDOWN_FINALIZE is posted, but WM_ENDSESSION and WM_DESTROY
\* are sent: like the SHUTDOWN of Quiesce they may come inside a callback.
BeginShutdown ==
    /\ At("idle")
    /\ ~reading
    /\ ipcUp' = FALSE
    /\ ui' = [pc |-> "disableAll", i |-> Len(plugins), then |-> "shutdownAll"]
    /\ UNCHANGED <<plugins, table, cur, call, unscanned, pending, reading>>

\* The loop of TE_PluginLoaderDisableAll, from the last plugin to the first.
DisableNext ==
    /\ At("disableAll")
    /\ ui.i \in Indices
    /\ \/ /\ plugins[ui.i].enabled
          /\ BeginCall("Disable", ui.i)
          /\ UNCHANGED ui
       \/ /\ ~plugins[ui.i].enabled
          /\ Goto("disableAll", ui.i - 1)
          /\ UNCHANGED <<cur, call>>
    /\ UNCHANGED <<plugins, table, unscanned, pending, ipcUp, reading>>

DisableDone ==
    /\ At("disableAll")
    /\ ui.i \notin Indices
    /\ Goto(ui.then, IF ui.then = "shutdownAll" THEN 1 ELSE 0)
    /\ UNCHANGED <<plugins, table, cur, call, unscanned, pending, ipcUp, reading>>

\* The loop of TE_PluginLoaderShutdownAll: callbacks out, Shutdown() called ...
ShutdownNext ==
    /\ At("shutdownAll")
    /\ ui.i \in Indices
    /\ table' = RemovedByPlugin(table, plugins[ui.i].id)
    /\ plugins' = [plugins EXCEPT ![ui.i].initialized = FALSE]
    /\ Goto("freeing", ui.i)
    /\ UNCHANGED <<cur, call, unscanned, pending, ipcUp, reading>>

\* ... and the DLL unmapped.
FreeDll ==
    /\ At("freeing")
    /\ plugins' = [plugins EXCEPT ![ui.i].mapped = FALSE]
    /\ Goto("shutdownAll", ui.i + 1)
    /\ UNCHANGED <<table, cur, call, unscanned, pending, ipcUp, reading>>

ShutdownDone ==
    /\ At("shutdownAll")
    /\ ui.i \notin Indices
    /\ Goto("reset", 0)
    /\ UNCHANGED <<plugins, table, cur, call, unscanned, pending, ipcUp, reading>>

\* TE_PluginLoaderShutdown (its own ShutdownAll finds nothing left to do) and
\* TE_EventDispatchShutdown.  Until then g_plugin_count still counts entries
\* whose metadata lies in unmapped DLLs, and the lock is free.
Reset ==
    /\ At("reset")
    /\ ~reading
    /\ plugins' = <<>>
    /\ cur' = NoCur
    /\ table' = EmptyTable
    /\ Goto("down", 0)
    /\ UNCHANGED <<call, unscanned, pending, ipcUp, reading>>
-----------------------------------------------------------------------------
(***************************************************************************)
(* The IPC thread answers GET_SETTINGS: it reads every entry's metadata    *)
(* under the shared lock.                                                  *)
(***************************************************************************)
BeginRead ==
    /\ ipcUp
    /\ ~LockHeld
    /\ ~reading
    /\ reading' = TRUE
    /\ UNCHANGED <<plugins, table, cur, ui, call, unscanned, pending, ipcUp>>

EndRead ==
    /\ reading
    /\ reading' = FALSE
    /\ UNCHANGED <<plugins, table, cur, ui, call, unscanned, pending, ipcUp>>
-----------------------------------------------------------------------------
Loading ==
    \/ StartUp
    \/ \E dll \in Dlls : TryLoad(dll)
    \/ SortByPriority
    \/ InitializeNext \/ InitializeDone
    \/ AutoEnable \/ AutoEnableSkip \/ AutoEnableDone

Serving ==
    \/ \E k \in Indices : EnableByName(k) \/ DisableByName(k)
    \/ \E event \in Events : Fire(event)
    \/ Deliver

Teardown ==
    \/ Quiesce \/ BeginShutdown
    \/ DisableNext \/ DisableDone
    \/ ShutdownNext \/ FreeDll \/ ShutdownDone \/ Reset

Reader == BeginRead \/ EndRead

Next == Loading \/ CallStep \/ Serving \/ Teardown \/ Reader

Spec == Init /\ [][Next]_vars
-----------------------------------------------------------------------------
TypeOK ==
    /\ plugins \in Seq(Entry)
    /\ table \in Table(Sub)
    /\ cur \in [id : Int, slot : Int]
    /\ ui \in [pc : Pcs, i : Int, then : {"idle", "shutdownAll"}]
    /\ call \in [op : Ops, slot : Int, todo : Seq(Events)]
    /\ unscanned \subseteq Dlls
    /\ DOMAIN pending \subseteq Slots
    /\ \A s \in DOMAIN pending : pending[s] \in Sub
    /\ ipcUp \in BOOLEAN
    /\ reading \in BOOLEAN

MappedNames == {plugins[k].name : k \in {j \in Indices : plugins[j].mapped}}

(***************************************************************************)
(* Every callback the bus may call, in the table or in the copy an event   *)
(* in progress is calling, is code of a DLL that is mapped.  This is what  *)
(* the plugin_id in every subscription is for, and it is the id given at   *)
(* load, which is not the index the plugin has after the sort.             *)
(*                                                                         *)
(* The copy is safe from everything that a callback may bring about (a     *)
(* plugin switched off, a SHUTDOWN that disables them all) but for one     *)
(* thing: a teardown dispatched inside the callback (WM_ENDSESSION,        *)
(* WM_DESTROY) unmaps the DLLs, and Fire goes on with its copy.            *)
(***************************************************************************)
CallbacksAreMapped ==
    /\ \A s \in ActiveSlots(table) : table.slot[s].owner \in MappedNames
    /\ ~TornDown => \A s \in DOMAIN pending : pending[s].owner \in MappedNames

\* g_subscription_count, kept apart from the "active" flags by three functions,
\* is the number of active slots.
CountExact == CountIsExact(table)

(***************************************************************************)
(* The loader does what PluginLifecycle promises.                          *)
(***************************************************************************)
PhaseOf(entry) ==
    CASE entry.enabled                           -> "enabled"
      [] ~entry.enabled /\ entry.initialized     -> "initialized"
      [] ~entry.enabled /\ ~entry.initialized /\ entry.mapped -> "loaded"
      [] OTHER                                   -> "unloaded"

Phase(p) ==
    IF \E k \in Indices : plugins[k].name = p
    THEN PhaseOf(plugins[CHOOSE k \in Indices : plugins[k].name = p])
    ELSE "unloaded"

Listening == {table.slot[s].owner : s \in ActiveSlots(table)}

Lifecycle == INSTANCE PluginLifecycle WITH
    Plugins   <- Names,
    phase     <- [p \in Names |-> Phase(p)],
    listening <- Listening

LifecycleSpec == Lifecycle!Spec

(***************************************************************************)
(* The inductive invariant behind CallbacksAreMapped and CountExact (the   *)
(* proofs are in PluginLoader_proofs).                                     *)
(***************************************************************************)

\* A name and a plugin_id each pick one entry.
EntriesDistinct ==
    /\ \A j, k \in Indices : plugins[j].name = plugins[k].name => j = k
    /\ \A j, k \in Indices : plugins[j].id = plugins[k].id => j = k
    /\ \A k \in Indices : plugins[k].id \in 1 .. Len(plugins)

\* A subscription is filed under the id of the plugin that owns the callback.
FiledRight(sub) ==
    \E k \in Indices :
        /\ plugins[k].mapped
        /\ plugins[k].name = sub.owner
        /\ plugins[k].id = sub.id

AllFiledRight ==
    /\ \A s \in ActiveSlots(table) : FiledRight(table.slot[s])
    /\ ~TornDown => \A s \in DOMAIN pending : FiledRight(pending[s])

CallInv ==
    call # NoCall =>
        /\ call.op # "None"
        /\ call.slot \in Indices
        /\ cur = [id |-> plugins[call.slot].id, slot |-> call.slot]
        /\ ui.pc \in {"initAll", "autoEnable", "idle", "disableAll"}

\* Which DLLs are mapped at each point of the teardown.
MappedInv ==
    /\ ui.pc \in {"scan", "initAll", "autoEnable", "idle", "disableAll"} =>
           \A k \in Indices : plugins[k].mapped
    /\ ui.pc \in {"shutdownAll", "freeing"} =>
           \A k \in Indices : k >= ui.i => plugins[k].mapped
    /\ ui.pc = "freeing" =>
           /\ ui.i \in Indices
           /\ SlotsOfPlugin(table, plugins[ui.i].id) = {}

\* The engine starts under no event; it may be torn down under one.
PendingInv == ui.pc \in {"scan", "initAll", "autoEnable"} => NoneDue

LoaderInv ==
    /\ TypeOK
    /\ EntriesDistinct
    /\ CallInv
    /\ MappedInv
    /\ PendingInv
    /\ CountExact
    /\ AllFiledRight

(***************************************************************************)
(* What the loops of the loader leave behind them: with LoaderInv, why     *)
(* every step is one of PluginLifecycle's (PluginLoader_proofs).           *)
(***************************************************************************)
PhaseInv ==
    /\ \A k \in Indices :
          /\ plugins[k].enabled => plugins[k].initialized
          /\ plugins[k].initialized => plugins[k].mapped
    /\ ui.pc = "down" => plugins = <<>> /\ table = EmptyTable
    /\ ui.pc = "scan" => \A k \in Indices : ~plugins[k].initialized
    /\ ui.pc = "initAll" =>
          \A k \in Indices :
              ~plugins[k].enabled /\ (k >= ui.i => ~plugins[k].initialized)
    /\ ui.pc = "disableAll" =>
          /\ ui.i <= Len(plugins)
          /\ \A k \in Indices : k > ui.i => ~plugins[k].enabled
    /\ ui.pc \in {"shutdownAll", "freeing", "reset"} =>
          \A k \in Indices : ~plugins[k].enabled
    /\ ui.pc \in {"shutdownAll", "freeing"} =>
          ui.i >= 1 /\ \A k \in Indices : k < ui.i => ~plugins[k].mapped
    /\ ui.pc = "freeing" => ~plugins[ui.i].initialized
    /\ ui.pc = "reset" => \A k \in Indices : ~plugins[k].mapped

\* A call into a plugin is one that its phase allows.
CallPhaseInv ==
    /\ call.op = "Initialize" =>
          ui.pc = "initAll" /\ call.slot = ui.i /\ ~plugins[call.slot].initialized
    /\ call.op = "Enable" =>
          /\ ui.pc \in {"autoEnable", "idle"}
          /\ plugins[call.slot].initialized /\ ~plugins[call.slot].enabled
    /\ call.op = "Disable" =>
          /\ ui.pc \in {"idle", "disableAll"}
          /\ ui.pc = "disableAll" => call.slot = ui.i
          /\ plugins[call.slot].enabled

(***************************************************************************)
(* "After 3 faults, the plugin is disabled" (fault_isolation.h).           *)
(***************************************************************************)
ThreeStrikes ==
    At("idle") =>
        \A k \in Indices : plugins[k].faults >= 3 => ~plugins[k].enabled
=============================================================================
