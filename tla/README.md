# A TLA+ development of TaskbarEngine

TaskbarEngine injects a C engine into `explorer.exe`, subclasses the taskbar
window and runs plugins there. Almost everything it does hangs on orders of
events that no unit test of the repository produces: messages posted before and
handled after a shutdown, an engine torn down under a plugin's frame, a thread
that outlives the join that waits for it, a start of the animation loop that
crosses its stop, a save that meets a half-written file. The modules in this
directory model those orders. TLC checks them on small instances, and TLAPS proves the
central facts about the plugin loader, the engine core, the log ring, the frame
loop, the icon discovery, the settings flow, the taskbar plugins and the taskbar
tracking for every instance.

Contents: [The system](#the-system) · [The modules](#the-modules) ·
[The runs](#the-runs) · [Fairness](#fairness) · [The proofs](#the-proofs) ·
[Disagreements found](#disagreements-found) ·
[What is not modelled](#what-is-not-modelled) · [The plan](#the-plan)

## The system

Three processes and, inside Explorer, several threads:

* the **tray host** (`App/src/main.c`; `TaskbarEngineHost.cpp` is a C++ variant)
  sets a `WH_GETMESSAGE` hook on the thread of the taskbar, which maps
  `EngineDLL.dll` into Explorer, and takes it out again;
* **Explorer's UI thread** runs the hook, the subclass procedure, the core
  manager, the loader and all plugin code;
* the **pipe server thread** of the engine (`ipc_server.c`) takes commands from
  the **settings GUI** and the host and posts or sends them to the UI thread;
* the **config watcher thread** posts a reload when the file changes;
* plugins have threads of their own: the discovery worker and the frame timer
  of `icon_hover`, the media source, the log's flusher.

| Part | State it keeps | Operations | Talks to | What is hard | What makes it correct |
|---|---|---|---|---|---|
| Event bus, `event_dispatch.c` | 64 slots with an `active` flag, a separate counter, a lock | subscribe, unsubscribe, fire, remove by plugin | called by plugins through the loader; calls plugin callbacks | fire calls a copy, without the lock; the counter is kept by three functions; the table fills up | no callback of an unmapped DLL is called; the counter is exact |
| Plugin loader, `plugin_loader.c` | 32 entries sorted by priority, an id per plugin, the current plugin, a non-recursive lock | scan, sort, initialize, enable, disable, shut down, unmap | calls plugins through fault isolation; read by the pipe server | id and index differ after the sort; faults in the middle of Enable; teardown in steps | lifecycle order, nothing left subscribed |
| Fault isolation, `fault_isolation.c` | a fault counter per plugin | guarded call | between loader and plugins | a fault leaves the effects made so far | the loader's invariants survive a fault anywhere |
| Hook and DLL entry, `dllmain.c` | the gate `g_is_initialized`, the known window | claim the gate, reopen it | posts `WM_TE_INIT` | `WM_NULL` of any sender may reopen the gate; the DLL's statics vanish with it | one engine, on the live window |
| Taskbar subclass, `taskbar_subclass.c` | subclassed windows, tracking table of 16, message filter of 32, debounce timer, a mouse timer per window | INIT, IPC command, FINALIZE, destroy, end of session; track, untrack, follow the mouse, filter | core manager; plugins through events | messages posted before a shutdown are handled after it; frames nest; each window tells of the mouse on its own | plugins are unmapped with no plugin frame below; a teardown lets go of every window; the plugins end up told where the mouse is |
| Core manager, `core_manager.c` | initialized flag, window, configuration trees | init, reload, commands, shutdown in order, drain | everything in the engine | the drain owns names of commands; reload swaps trees that plugins point into | nothing leaks, the order of the teardown |
| Pipe server, `ipc_server.c` | `g_ipc`: thread, stop event, `is_running` | accept, serve, post with owned payload, `SendMessageTimeout`, stop with a 3 s join | GUI, host; UI thread | the UI thread joins a thread that waits for the UI thread | no thread reads the table after the unmapping |
| Config watcher, `config_watcher.c` | a thread, a stop event, a debounce | notify, sleep, post | UI thread | a change during the debounce | the last change is loaded |
| Settings window, `settings_page.cpp`, `config_io.cpp`, `gui_ipc_client.cpp` | a card per setting, a 100 ms timer per slider, saves under way | slide, toggle, preset, apply; load, save by rename, copy, send | the files, the pipe, the engine's reload | several saves from older readings, files somebody holds open, the same setting sent twice, the tray's menu that sends and does not save | no value is lost before the file; the plugin is on exactly when the file says so, but for what the tray or a lost command leaves |
| Configuration, `config.c`, `te_jsonc.c` | the parsed tree | load, compare two trees, defaults | core manager, plugins | torn and absent files, removed sections | a failed load leaves the old tree |
| Host recovery, `main.c`, `crash_recovery.c`, `tray.c` | `g_hook`, `g_recovered_hook`, a monitor thread per injection, the tray icon | inject, wait for Explorer's end, hook again, stop | Explorer | several monitors, two hooks on one thread, Stop knows the last monitor only | the Explorer that stays is hooked; closing ends |
| State store, `state_store.c` | 256 entries under a lock | publish, query | plugins | strings handed out of the lock, full table | a query returns what was published |
| Log, `te_log_impl.c` | a ring of 256 entries with ready flags, two positions, a flusher | write from any thread, flush, shut down | everything | producers lap the reader or each other | the file is in order, nothing complete stays behind |
| Icon hover, `icon_hover.c` | enabled flag, monitors, worker, two events, a pending payload per monitor | enable, disable, shell-hook debounce, display changes, discovery message | bitmap cache, UI Automation, DirectComposition | flag, events, slots and cache shared without a common lock | payloads have one owner; no more than a worker in its query after Disable; changes get shown |
| Bitmap cache, `icon_capture.cpp` | LRU of 64 bitmaps it owns | get, invalidate, shut down | worker and UI thread | handles are handed out and deleted by others | deleted bitmaps do not stay on screen |
| Frame loop, `frame_loop.cpp` | `s_loop_active`, three events, a waitable timer, per monitor the mouse state in place and as double-buffered snapshots | start, stop, shut down, publish an input, tick, settle | frame worker and UI thread; overlays | the worker settles while an input comes; stop and start cross its timer; the worker's window calls wait for the UI thread | snapshots are whole; a settled loop has shown the last input; it settles |
| Dynamic island, media source, `dynamic_island.cpp`, `gsmtc_source.cpp`, `media_state_bridge.h` | the media session and a command queue, the snapshot in the bridge, width, opacity and announcement of the pill | enable, disable, publish, announce, hover, click, poll, draw | media worker, query threads, timer, frame worker, UI thread | four threads wake one loop; queries complete in any order; Disable joins a worker that needs the joining thread | at rest the pill shows the current session; join and loop end |
| Taskbar resize, `taskbar_resize.c` | subclassed, height, saved work area | enable, disable, settings, DPI | the taskbars, the work area, the state store | hears the sections of all plugins; what was saved is stale | sizes, work area and published height agree; native again when off |
| Taskbar transparency, `taskbar_transparency.c`, `tray_discovery.c` | settings, list of taskbars, policy, debounce timer | enable, disable, settings, display change | the taskbars | taskbars come and go around the timer and the list | accents follow the settings; native again when off |

## The modules

Sources below are relative to `src/`; the exact lines are in `PROJECT.json`.

**`EventTable`** models the table of `event_dispatch.c` as a value (slots and
counter) with one operator per C function, since every C function holds the
event lock from its first to its last statement. `Subscribed` looks for a free
slot and not for a duplicate; `Unsubscribed` empties one slot; `Snapshot` is the
copy `TE_EventDispatchFire` makes before it releases the lock.

**`PluginLoader`** is the loader with that table, the calls into plugins, and
the pipe server as a reader of the table. `ui.pc` says where the UI thread is
between the functions of `core_manager.c` and the loops of `plugin_loader.c`;
the loops take a step per plugin, and a call into a plugin (`call`) takes a step
per subscription, so a fault can come between any two. `plugins` is
`g_plugins[]`; entries keep the id they got at load when `SortByPriority`
permutes them. `pending` is the copy a fired event still has to call, one event
at a time. SHUTDOWN, `WM_ENDSESSION` and `WM_DESTROY` are sent messages, so both
`Quiesce` and `BeginShutdown` may come while `pending` is not empty; `WM_TE_INIT`
is posted, and a start-up finds no event under way. A fault is `TE_E_FAIL` with
the effects made so far.

**`PluginLifecycle`** is the abstract specification: each plugin moves through
unloaded, loaded, initialized and enabled one step at a time, is never unmapped
while it can be called, and starts to listen only while it is initialized and
not yet enabled. `PluginLoader` implements it under the mapping `Phase`,
`Listening` (property `LifecycleSpec`).

**`EngineCore`** composes hook, subclass procedure, core manager, pipe server
and host. It sees one plugin (what `PluginLoader` says of each is not repeated),
the posted queue of the UI thread, and windows as numbers. `ui` is the frame
the UI thread is in; `through` records whether the frame was entered through a
plugin's own subclass procedure. Sent messages are taken before posted ones.
`Disturbances` selects what else may happen: taskbar windows destroyed and
recreated, crashes of Explorer, the end of the session, foreign `WM_NULL`s, a
hung UI thread, plugin code that lets sent messages in.

**`IconDiscovery`** models the discovery worker of `icon_hover.c` and the bitmap
cache of `icon_capture.cpp`. `phase` is where Enable or Disable is (`Enabled` is
`g_hover_state.enabled`, true in phase `on` only); `worker[w].at` is where a
worker thread is between two of its looks at the shared state; `slot` is
`s_pending_discovery`; `heap` counts payloads between `calloc` and `free`;
`cache` maps keys to bitmap handles, which GDI reuses. The taskbar's content is
a version number. `shown[m]` has the list in the monitor's `icon_cache`, the
handle in the tree's `cached_bitmaps`, and whether the surface was drawn from the
bitmap the cache has now (`intact`): `FinishRebuildIconData` takes over an empty
list without touching the tree, and otherwise draws the surface only when its
size or the handle has changed (`dcomp_overlay.cpp:583`). The providers a query
asks are served by the UI thread, so in `Join` a query may or may not return:
when it does not, the wait ends after its 3 s with the worker alive. `revived`
notes that Enable has come while such a worker was still there.

**`FrameLoop`** models `frame_loop.cpp` between the UI thread and the frame
worker. `ui.at` walks through the statements of a mouse move, leave or bounce
(in-place write, the two increments of the sequence number, the fields of the
snapshot, the index) and through Start, Stop and Shutdown; `worker.at` through
`FrameLoopWorkerThread` and the tick. `loop` is `s_loop_active`, the three
events and the timer. `icons[m].aim` is what the icons of a monitor move
towards: the floating-point springs become "the icons are where the last tick
aimed". A cursor position is the number of the input that set it. `Paint` waits
for an idle UI thread (`WaitsForUi`) where the code calls `ShowWindow` or
`SetWindowPos` on an overlay, which Windows sends to its owner. `past` notes the
windows in which the code may lose an input (`missed`, `raced`) or a start
(`restarted`), so that the properties can name them.

**`MediaIsland`** has the media worker of `gsmtc_source.cpp` with its command
queue and asynchronous queries, `MediaStateBridge`, and the pill of
`dynamic_island.cpp`. Four threads call the wake callback, `TE_FrameLoopStart`,
which is `Claim` and `Show`; a tick is `Poll`, `Draw`, `Settle`. The loop itself
is that of `FrameLoop`, seen from one client.

**`TaskbarPlugins`** composes `taskbar_resize.c`, `taskbar_transparency.c` with
`tray_discovery.c` and `composition_api.c`, and what reaches them: reload
section by section (`config.todo`), commands, display and DPI changes, stop,
start and crash. Every C function is an operator from a state of the plugins to
the next one; an action is a handler, because all of it runs on the thread that
owns the taskbars. `desk` is the outside: windows, work area, accents. On a
change of the DPI both plugins act first and pass the message on, so Explorer
lays out last (`LaidOut`): any of the taskbars and the work area may be native
afterwards, except the height of the primary taskbar, which the subclass forces.

**`LogRing`** models `te_log_impl.c`: a producer claims a position, clears,
fills and publishes its slot in separate steps; the holder of `g_flush_cs`
tests, takes and writes slots; `TE_LogShutdown` may come at any point. `file`
is the sequence of messages written, each named by its position.

**`SettingsFlow`** follows a setting from a card of the window to the engine.
`gui` is the save under way and its step (load, rename, copy, RELOAD, command),
`disk` the two files, `editor` somebody who writes a file in place, `watcher`
and `queue` the two ways a reload comes, `engine` the UI thread in Explorer with
the tree it loaded and whether the plugin is on. `layout` is the file the engine
chose at its start; the window always writes the one beside the program. The
menu of the tray icon (`TrayMenu`) is the other sender: "Enable" and "Disable
Taskbar Resize" of `tray_menu.c` and "Reload Config" of the C++ host go through the
same pipe and change neither the file nor a card. `OnAsSaved` therefore excepts a
last command that was lost or was the tray's (`past.astray`), until the window's
next command arrives, a reload finds the section changed with no command behind it,
or Explorer starts again.

**`HostRecovery`** has the main thread of either host, any number of monitor
threads (`crash_recovery.c` starts one for every injection), the hooks that are
installed and the two handles that remember them, the tray icon, and Explorers
that end and start.

**`TaskbarTracking`** models the rest of `taskbar_subclass.c`. `tracked` is the
table (a window's entry has the last place, `was_in_taskbar` and
`timer_active`), `subclassed` and `timer` are what Windows holds, `win` the
windows, which exist until the end of WM_NCDESTROY. `cursor.new` is a
WM_MOUSEMOVE in the input queue and `posted` the WM_TE_TASKBAR_MOUSEMOVE of the
hook; `told` is what `OnTaskbarMouse` of `icon_hover` made of the events. The
engine is reduced to the phases of its life; its teardown is two steps around
the call that disables the plugins.

The modules `MC...` instantiate these for TLC. `PluginLoader_proofs` (with the
lemmas about `EventTable` and the refinement of `PluginLifecycle`),
`EngineCore_proofs`, `LogRing_proofs`, `FrameLoop_proofs`, `IconDiscovery_proofs`,
`SettingsFlow_proofs`, `TaskbarPlugins_proofs` and `TaskbarTracking_proofs` hold
the proofs. Definitions
marked as mutants are changed versions of the definition that follows them, each a
plausible slip (a dropped guard, a missing reset, another order); every property
of a passing run fails for one of them.

How they fit together: `PluginLoader` says what the loader does with any plugin,
`EngineCore` puts the loader's calls under the messages and threads of the
engine, and the plugin modules (`IconDiscovery`, `FrameLoop`, `MediaIsland`,
`TaskbarPlugins`) take Enable and Disable as the loader calls them, one after
the other on one thread. `SettingsFlow` is in front of `TaskbarPlugins`: where
the first ends (`ReloadEnds`), the second looks into the sections.
`HostRecovery` is what `EngineCore` sees as inject and unhook. `TaskbarTracking`
ends where `FrameLoop` begins, at a mouse move or a leave.

## The runs

| Run | Shows | Bounds | Distinct states |
|---|---|---|---|
| `plugin_loader` | no subscription of an unmapped DLL, and no call of one but after a teardown inside a callback, the exact counter, the lifecycle refinement | two plugins, four files (one a duplicate name, one unusable), table of 3, 2 faults each | 222 422 |
| `engine_core` | names of commands are freed exactly once, the engine is on the live window with the gate closed, no server thread after the unmapping; an acknowledged SHUTDOWN takes the engine down, a living taskbar gets its engine | 3 windows, a queue of 3, all commands, every disturbance but `early` and `short` | 109 504 |
| `icon_discovery` | payload accounting, one worker, nothing outlives Disable but a worker in its query, trees never go back, announced changes are shown where the rebuild does not keep a surface | 2 monitors, of which only the primary may be blank, 2 contents, one display or settings change, 2 handles | 827 447 |
| `frame_loop` | snapshots are whole, a settled loop has animated the last input, the loop settles | 2 monitors, 3 inputs and stops, at most 2 stops | 994 547 |
| `media_island` | the pill shows the current session, the join ends, the loop rests | 2 sessions, 2 changes and turns, at most 1 Disable of the island | 768 093 |
| `taskbar_plugins` | accents and sizes follow the settings and are undone | primary and 2 secondary taskbars (symmetric), 2 edits or commands, 3 displays, stops or crashes | 935 394 |
| `log_ring` | order, the last flush, every complete message is flushed | 2 producers, ring of 2, 4 messages | 186 705 |
| `settings_flow` | no value lost before the file, on as saved, the engine catches up | 1 slider and the toggle, 2 changes or commands of the tray, queue of 2, 1 crash | 728 302 |
| `host_recovery` | hooked in the end, closing ends | 2 Explorers, 2 repeated announcements, 4 monitors | 332 114 |
| `taskbar_tracking` | the table names living windows, a teardown lets go of all but for a device change behind it, a leave is told | primary and 2 secondary taskbars, table of 2, 2 moves, 5 changes | 131 664 |
| `finalize_through_frame`, `disable_hangs` | disagreements, see below | as the run they belong to, or smaller | |

Why the bounds are enough.

*Loader.* The interesting disagreements are between load order, table order and
id, and need two plugins of different priority and a third file that is refused;
the files come in every order. A table of 3 for 3 subscriptions fills as soon as
a fault in Enable leaves callbacks behind that the next Enable adds again, so
refusal of a subscription is reached. Two faults let a plugin fault in Enable
and again in the Disable that follows. Start-ups and teardowns are unlimited.

*Engine.* Three windows give a window that dies before, during and after its
initialisation and a successor for each; a queue of three holds a command, a
FINALIZE and an INIT together. The queue bound limits what the environment adds
(commands, the host's `WM_NULL`), never a message the code posts to itself.

*Discovery.* Two monitors make the worker's loop have a middle at which Disable,
a message or an invalidation can come; two contents suffice for a tree to go
back; with two handles every reuse of a deleted handle by the other key occurs.
`MaxPosted` limits the messages waiting when the plugin is enabled, so the
worker is never blocked by it. Two thread numbers make a second worker
representable, which `TypeOK` excludes.

*Frame loop.* Two monitors let the cursor leave one for the other, so the worker
reads one snapshot while the other is written. With three inputs a snapshot slot
is used a second time while its first reader is still at it, which is the case
the sequence number exists for; two stops leave room for stop, start, stop
around one timer.

*Media island.* With two sessions and two changes, a query for one session
completes after the other became current, a change falls into the start of the
source, and a second wake meets the first. One Disable and the Enable after it
show what an earlier life of the source leaves behind.

*Taskbar plugins.* Two secondary taskbars give one that is tracked and one that
is not. Three events are a display that goes, one that comes within the 150 ms
of the timer, and a stop or crash; two edits are a section removed or changed
and brought back.

*Log.* A ring of two is lapped by the third message and its slots are used twice
by four, while both producers are in different slots. A third producer adds only
more of the same: two claims are already unordered.

*Settings.* Two changes give a save that overtakes another, a command behind
an older reload, and a command of the tray before or behind one of the window. More cards add more keys to the same tree; one slider and the
toggle are the two kinds that differ in what they send.

*Host.* Two Explorers are one end and one restart; the two repetitions give two
more monitor threads, so that up to four of them, two looking at the same end,
race with the main thread.

*Tracking.* Three windows and a table of two make it full with a window left
over, the primary one or a secondary one. Four changes are a start and three of:
a window that goes, one that comes, a display or device change, a plugin enabled
again, an end of session. Two moves put the cursor on a taskbar and off it.

Named assumptions of the models. `EngineCore`: without `short`, the 200 ms sleep
of the host outlasts the teardown (`Unhook`); without `early`, the host is
closed only when the engine is up or has been shut down; without `hang`,
`SendMessageTimeout` returns with the reply; without `pump`, plugin code does not
dispatch sent messages. `IconDiscovery`: every step of the worker but the query
ends within the 3 s of the join; in the run (`Revive = FALSE`) the plugin is not
enabled again before a worker that Disable gave up has ended, and only the
primary taskbar (`Blank`) may answer with no icon. The proofs have neither
restriction: the properties name an earlier Enable as their exception
(`revived`). With `Revive = TRUE`, one monitor and one handle, TLC finds no error
in 107 559 states either. `HostRecovery`: the user answers the
message box of a failed first injection before anything else happens.
`TaskbarTracking`: with `Nested = FALSE`, no display or device change is sent
while a teardown disables the plugins; between WM_DESTROY and WM_NCDESTROY of
any taskbar, the primary one included, they do get in (`LetsIn`). A button pressed or released while the cursor rests makes
the timer tell again; the model has no buttons.

## Fairness

*`EngineCore!FairSpec`*: the UI thread goes on pumping (`UiStep`), the server
thread goes on (`ServerStep`), and a host that can inject does (`Inject`, called
directly at start-up and from the handler of `TaskbarCreated`). Users,
clients, Explorer's destructions and crashes owe nothing.

*`IconDiscovery!FairSpec`*: the UI thread dispatches what waits (messages and
timers) and finishes an Enable or a Disable it began; each worker is scheduled.
The query is taken to return. The user, the displays and the icons owe nothing.
The two sources of endless triggers are bounded (`MaxVersion`, `MaxStirs`): the
debounce restarts with every shell message, so a window opening every 250 ms for
ever would postpone the discovery for ever, in the code as in an unbounded model.

*`FrameLoop!FairSpec`*: an operation of the UI thread is straight-line code and
goes on, the worker is scheduled, an armed timer fires. Inputs owe nothing; they
are bounded because `RestsWhenQuiet` is about what happens after the last.

*`MediaIsland!FairSpec`*: each thread in `TE_FrameLoopStart`, the media worker,
a query under way, the UI thread, the announcement timer and the tick go on. A
tick while the loop is active is what `FrameLoop` shows of it, except in its
frozen window. Players and users owe nothing.

*`LogRing!FairSpec`*: a producer that claimed a position finishes (nothing in
`TE_LogWrite` waits), the flusher thread wakes (it waits with a timeout of
100 ms). Nobody need write or call `TE_LogFlush`.

*`SettingsFlow!FairSpec`*: a save that was begun, the slider timers, the watcher
and the engine's UI thread go on. Changes, the tray, editors and crashes owe
nothing; an
editor need not finish.

*`HostRecovery!FairSpec`*: an injection and an ending of the main thread and each
monitor thread go on. Explorer and the user owe nothing; the properties ask only
about an Explorer that stays, or a host that is being closed.

*`TaskbarTracking!Spec`*: the UI thread goes on with a teardown and the
destruction of a window, and retrieves what is posted, its input and its timers.
Posted messages come before input and timers last, so each of the two must run
dry first: the moves are bounded, and a cursor that rests sends nothing.

`PluginLoader` and `TaskbarPlugins` state no liveness: the teardown of the first
ends if each plugin returns, and the handlers of the second are single steps.

## The proofs

### The plugin loader

For every set of plugins, every `Meta` and `EventsOf`, every size of both tables
and every number of faults, `PluginLoader_proofs` shows

* `TypeCorrect`: `Spec => []TypeOK`
* `NoCallIntoUnmapped`: `Spec => []CallbacksAreMapped`
* `CountAlwaysExact`: `Spec => []CountExact`
* `LoaderInvariant`: `Spec => []LoaderInv`, from which the three follow.

The copy of an event is excepted from the moment `TE_PluginLoaderShutdownAll`
begins until the next start-up (`TornDown`): a session end or a `WM_DESTROY` sent
to the taskbar while a callback dispatches messages unmaps the DLLs, and
`TE_EventDispatchFire` goes on with its copy. Only its exception handler stands
between that and a crash. Everything else a callback may bring about, a sent
SHUTDOWN included, leaves the copy callable.

Assumptions: the two bounds are naturals (the table is not empty), `Meta` and
`EventsOf` are functions of the right type, and `NoSub` is not a subscription.

`CallbacksAreMapped` is not inductive: that a callback's owner is mapped
survives `FreeDll` only because `ShutdownNext` removed every slot filed under
the plugin's id, and that helps only if each slot is filed under the id of the
plugin that owns its callback. `LoaderInv` therefore adds

* `AllFiledRight`: each subscription, in the table or (until
  `TE_PluginLoaderShutdownAll` begins) in the copy of an event, has owner and id
  of one and the same mapped entry;
* `EntriesDistinct`: names and ids each pick one entry, and ids are in
  `1..Len(plugins)` (so the next id is fresh, and the sort cannot confuse two);
* `CallInv`: a call in progress is for an existing entry, and the current
  plugin id is that entry's;
* `MappedInv`: which entries are mapped at each point of the teardown, and that
  the entry about to be freed has no subscription;
* `PendingInv`: the engine starts under no event (it may be torn down under one);
* `CountExact`, because `Subscribed` and `Snapshot` trust the counter.

The proof has one lemma per group of actions that disturb the same conjuncts
(`ControlInv`, `EnteringInv`, `SubscriptionInv`, `EventInv`, `LoadInv`,
`SortInv`, `ShutdownInv`, `FreeInv` and others), and `NextInv` puts them
together. `SortInv` uses that `StableOrder` makes the permutation injective on
a finite index set, hence onto. The lemmas at the start of the module say what each
table operator does to the active slots and to the counter.

### The loader implements the life cycle

`LoaderImplementsLifecycle`: `Spec => LifecycleSpec`, the abstract specification
with the mapping of `PluginLoader` substituted. Each action of the loader has
a lemma that says which action of `PluginLifecycle` it is, or that it changes no
phase and no listener: `EndCallFlags` for the three results of a call,
others for the load, the sort (entries move, phases do not), the teardown and
the subscriptions. Besides `LoaderInv` that needs

* `PhaseInv`: no entry is enabled and uninitialized, or initialized and unmapped,
  and which phases are possible at each point of the load and of the teardown;
* `CallPhaseInv`: a call to `Initialize`, `Enable` or `Disable` is made where the
  loader makes it, of the entry it is at, in the phase it is meant for.

No assumption is added.

### The engine core

For any number of windows, crashes and sessions, any bound of the queue and
any set of disturbances, `EngineCore_proofs` shows

* `TypeCorrect`: `Spec => []TypeOK` (with it: the count of live names is never
  negative)
* `NamesFreedOnce`: `Spec => []PayloadsOwned`
* `NoServerLeft`: `Spec => []NoServerAfterUnmap`
* `OneEngineOneWindow`: `Spec => []EngineOnOneWindow`, if `"short"` is not
  among the disturbances.

The last assumption is the code's own: `main.c:70` sleeps 200 ms where the
teardown should be awaited, and with a shorter sleep the host posts its WM_TE_INIT
to an engine that is still going down.

A teardown drains the queue, which in the model is a function defined by
recursion over the queue (`Kept`). What it returns is proved by a least
counterexample: `LeastNumber` (from the library's `WFMin`), `KeptExists` (a
function satisfies the recursion), `DrainedKeeps` (no command is left,
everything else was in the queue). `EngineInv` adds to the properties

* `CoreInv`: the engine is up exactly while the plugins are mapped, and then on the
  live, subclassed window; the frames that work on the engine find one;
* `NamesInv`: a window without the subclass, which nobody would serve, has no
  command that owns a name in its queue, nor is one being handled.

The names in the queue are counted message by message (`Count`, `Of`): the
lemmas about them say what a post, a dispatch and the drain add or take.

`GateInv` adds, for the window: at most one WM_TE_INIT is queued or being
dispatched (`Pending`), and only behind a closed gate and without an engine. The
gate is what makes `EngineOnOneWindow` true: `HookGate` shows that whoever finds
it open finds no engine and no WM_TE_INIT under way.

### The log ring

For every set of threads, every size of the ring and every number of messages,
`LogRing_proofs` shows

* `TypeCorrect`: `Spec => []TypeOK`, lapped or not (with it: `g_read_pos` never
  passes `g_write_pos`)
* `OrderAlwaysKept`: `Spec => []FileInOrder`
* `LastFlushAlwaysComplete`: `Spec => []LastFlushComplete`.

The last two say something only while no producer laps the reader, as the code
promises nothing then. Assumptions: the ring is not empty, the number of
messages is a natural.

`FileInOrder` is not inductive: that the next entry has the right text depends
on who owns its slot. `RingInv` adds

* `PositionsInv`: a producer is alone at its position and below `g_write_pos`;
  whoever flushes reads at `g_read_pos`, up to a `g_write_pos` of before;
* `SlotsInv`, while nobody lapped: each position between `g_read_pos` and
  `g_write_pos` has a slot of its own; its producer holds it unready, and when
  the producer is done the slot has the message and is ready or being written; a
  ready slot belongs to such a position;
* `ShutdownInv`: what was complete at the shutdown is below the `g_write_pos`
  that the last flush looked at, and below `g_read_pos` when it has ended.

`SlotsDiffer` is the arithmetic: two positions less than a lap apart have
different slots. The flush of the shutdown can stop early only at an unready
slot, and by `SlotsInv` the position there has a producer, so it was not
complete: that is the exception in `LastFlushComplete`.

### The frame loop

For any number of monitors, inputs and stops, `FrameLoop_proofs` shows

* `TypeCorrect`: `Spec => []TypeOK`
* `SnapshotsWhole`: `Spec => []SnapshotWhole`
* `SnapshotsConsistent`: `Spec => []FrameInv`, from which the two follow
* `RestsShowingHover`: `Spec => []SettledShowsHover`

The UI thread writes a mouse snapshot into the spare slot between two increments
of a sequence number, and the frame worker reads the number, the index, the slot
and the number again. `FrameInv` says why this is enough:

* `SequenceInv`: a number is odd exactly while its monitor is being written, and
  at most twice the number of inputs, less what the loop over the monitors still
  has to add (the wrap at 2^32 is beyond the bound);
* `PublishedInv`: the current slot of every monitor was published, and before
  the index flips so was the spare one;
* `ReaderInv`: the number the worker read is even and not above the present one;
  as long as both are equal, what it copied is the current slot.

The writer may go through a whole write between any two steps of the reader: the
number is then higher, and the reader's conjuncts say nothing.

`SettledShowsHover` speaks of a loop that has put itself to sleep. It needs
`FrameInv` and four more conjuncts, together `ShownInv`:

* `HoverInv`: what the UI thread has written of the last mouse event so far, in
  place and as a snapshot, is where the cursor is. The worker writes to the state
  in place too: a snapshot that is the current one of a monitor that is not being
  published puts the same there, any other sets `past.raced`;
* `LifeInv`: a settled loop has no tick under way, and while the UI thread is
  starting the loop, no tick from after the start gets beyond its first monitor,
  because its Paint waits for that thread;
* `TickInv`: in a tick that saw every input and has found all monitors at rest, the
  ones behind it show the cursor;
* `SettledInv`: the property for every place of the worker and, of the UI thread, all
  but those of an input it has not brought to the loop yet (`Pending`).

Only the checks at the end of an input and the start tell the loop of an input
(`ToldBefore`): the one that finds the loop active sets `past.unseen`, and the
next tick clears it. The invariant was checked by TLC first, with the bounds of
the run and with one event more.

### The icon discovery

For any number of monitors, workers, bitmap handles and changes,
`IconDiscovery_proofs` shows

* `TypeCorrect`: `Spec => []TypeOK`
* `PayloadsOwnedOnce`: `Spec => []PayloadsAccounted`
* `DisableLeavesNothing`: `Spec => []NothingOutlivesDisable`
* `TreesNeverOlder`: `Spec => ShownNeverOlder`, an action property
* `DiscoveryConsistent`: `Spec => []DiscoveryInv`, from which the four follow.

A query that is in flight when Disable waits for the worker outlasts the wait:
its providers are served by the thread that waits. So Disable goes on beside the
worker, and `NothingOutlivesDisable` says how little that worker may still have
and do. Were the plugin enabled again before the worker has returned from its
query, there would be two; from then on (`revived`) `NothingOutlivesDisable`,
`ShownNeverOlder`, `ChangesShown` and the one-worker part of `TypeOK` promise
nothing, while the ownership of the payloads still holds. Assumptions: there is a
monitor, at least as many handles as monitors, finitely many workers, and the
taskbar has a first version.

`DiscoveryInv` adds to the properties

* `CarriedInv`: what a worker has in its hands at each step of its loop;
* `SlotsInv`: a payload lies in the slot of its own monitor, and the UI thread
  has taken one only while the plugin is enabled;
* `OneWorkerInv`, if `~revived`: a living worker is the one whose handle the
  plugin has; from the end of the join to the next Enable it is in its query or
  on its way out;
* `CleanInv`, if `~revived`: what a disabled plugin has in the cache and the slots;
* `AgeInv`, if `~revived`: from the tree over the payload being built from and the
  one in the slot to the list of the worker, each was queried no earlier than
  the one before.

`PayloadsAccounted` counts sets; `SlotCount` and `HandCount` say how a count
changes with one member. `AgeInv` is where one worker matters: a second one
could put an older list into a slot than the UI thread has taken out of it
(`PublishAge` uses that all others are gone). Most steps only let lists go
(`AgeKept`); the others are a query, an exchange, the UI thread's taking and its
building.

### The settings flow

For any number of sliders, changes, crashes and any bound of the queue,
`SettingsFlow_proofs` shows

* `TypeCorrect`: `Spec => []TypeOK`
* `CardsReach`: `Spec => []CardsReachFile`
* `OnFollows`: `Spec => []OnAsSaved`
* `SettingsConsistent`: `Spec => []SettingsInv`, from which the three follow.

Assumptions: the user may make a change, the queue has room for a message, and
the marks `Torn` and `NoTree` are neither a tree nor an open editor.

Both properties speak of moments when nothing is under way; `SettingsInv` says what
holds in between:

* `JobsInv`: the cards stand still while there are saves to make, so each save
  holds what they show, and its command is the one of the toggle;
* `FileInv`: a setting without a timer, a save to come or an exception is in the
  file, or will be when the editor that is writing it has ended (`DefaultTree`);
* `MoveInv`: the tree a save has read and is about to write is right for every
  setting no later save will write; an editor that wrote in the meantime is an
  exception (`apart`) only for the setting it changed, and loses that change;
* `HeldInv`: a torn file has somebody who writes it, and the engine never has a torn
  file open;
* `RootInv`: the engine has the tree of its file unless a reload is queued or under
  way or the watcher will ask for one (`Heard`), somebody is writing the file, or
  the change fell into the start of the engine;
* `OnInv`: unless the last command was lost, was the tray's (`past.astray`) or is
  still to be sent, the last command in the queue is the one of the toggle, and once no command is left the
  plugin is on as the toggle shows or as the engine's tree says.

`OnInv` is where the two ways meet: a command leaves the toggle's value behind,
a reload with a changed section the file's, and `OnAsSaved` asks for the moment when
the two are the same. The steps are proved by role: `NewJobs` for whatever gives
the window saves to make, `Writes` for whatever changes a file under the watcher,
`GoesOn` and `JobEnds` for the steps of a save, `EditorStep`, and `EngineSide` for
the watcher and the engine.

### The taskbar plugins

For any set of secondary taskbars and any number of edits and events,
`TaskbarPlugins_proofs` shows

* `TypeCorrect`: `Spec => []TypeOK`
* `AccentsAlwaysFollow`: `Spec => []AccentsFollow`
* `SizesAlwaysFollow`: `Spec => []SizesFollow`
* `Invariant`: `Spec => []IInv`, from which the three follow.

The model writes a handler as a function of the whole state, `Now`, so the
invariant is a predicate of such a state and the lemmas go call by call: `Applied`
and `Restored` for `ApplyTaskbarSize` and `RestoreTaskbarSize`, `Discovered`,
`PolicyApplied`, `AllRestored` and `RefreshedCovers` for the accents, then each
plugin's Enable, Disable and handlers, then the actions (`...Keeps`). `IInv` says

* `SizesInv`: what `taskbar_resize` shows while it is on; that everything is
  native once it is off; and in both cases `Restorable`, that the saved work area is
  the one a native bar of this resolution and DPI leaves, without which Disable
  could not put it back;
* `AccentsInv`: the tracked taskbars are the only ones with an accent, and they
  have that of the settings, or the debounce timer that will see to it is set
  (`Covered`); the cached policy, which is what the calls compare with, is the
  one of the settings while the plugin is active;
* `HeardInv`: a plugin is on only in a taskbar that is up, and the transparency has
  the settings of its section, unless the reload still has to do that section or
  the plugin was off when it changed.

The exceptions are in the invariant where they are in the properties: `stale`,
`moved` and `misread` for the sizes, `late`, `narrowed` and `unheard` for the
accents. Of the conjuncts only the one about the section needs `Free`. The branch of `TransOnConfigChanged` that restores all
taskbars because the plugin was switched off in its settings is never taken: a
reload disables the plugin before it publishes the section.

### The taskbar tracking

For any number of secondary taskbars, any size of the table and any number of
changes, if `~Nested`, `TaskbarTracking_proofs` shows

* `TypeCorrect`: `Spec => []TypeOK`, which says that the table names only windows
  that exist and are subclassed, and no more than it has room for
* `NothingLeft`: `Spec => []NothingLeftWhenDown`
* `TrackingConsistent`: `Spec => []TrackingInv`, from which the two follow.

`NothingLeftWhenDown` is not inductive: that a teardown lets go of every taskbar
depends on where a subclassed window can be found. `TrackingInv` adds

* `SubclassInv`: a subclassed window exists, and it is in the table, it is the
  primary taskbar, or it is being destroyed, which a teardown cannot meet, since it
  starts where the thread is free;
* `ClosingInv`: what is left while the plugins are disabled: the primary taskbar
  at most, and in the table at most the one to keep, which is dying or belongs to a
  session that ends;
* `DownInv`: the same when the engine is down, unless a device change has found
  the taskbars again (`found`).

`found` is the one way out that the property names. The primary taskbar tears the
engine down in its WM_DESTROY but keeps its subclass procedure until its
WM_NCDESTROY, and WM_DEVICECHANGE tracks without asking whether the engine is
initialised: sent in between, it subclasses the secondary taskbars again, and only
the next teardown lets go of them. `LetGoOfAll` is the property without it, which TLC
refutes.

`TrackAllShape` and `LetGoShape` say what the two functions on the table
guarantee; every step of a message handler uses one of them or leaves the table
alone (`Kept`). `Nested` lets a sent message in while a teardown disables the
plugins. With it both theorems fail, and TLC shows how: a display change tracks the
taskbars again, behind the teardown, and when the table was full as the hook
subclassed the primary taskbar, the rest of the teardown takes the subclass away
and leaves the entry.

### Only model-checked

* All liveness properties: TLAPS has no rules here for fairness and `ENABLED`.
* `TypeOK` and `ShowsCurrent` of `MediaIsland`, and `TypeOK` of `HostRecovery`. No
  proof was written for them; `HostRecovery` promises nothing but liveness.

No module declares a recursive operator. Where a definition recurses over data
(the drain of a queue) it is a recursive function, and the proof takes a least
counterexample.

## Disagreements found

Two are runs that end in a counterexample:

* **`finalize_through_frame`**. SHUTDOWN disables the plugins and posts
  FINALIZE behind what is already posted. An ENABLE in between brings a plugin's
  subclass procedure back, FINALIZE arrives through it, and the DLL is freed
  under its own frame.
* **`disable_hangs`**. `icon_hover`'s Disable joins the media worker from the UI
  thread (`gsmtc_source.cpp:110`). A worker that has just published shows the
  overlay, whose window messages go to the UI thread: both wait for ever.

The rest are properties in the modules that promise what a document, a comment
or a test says and that TLC refutes. They are not among the runs; name the
property in the cfg given here, with the setting in brackets, to see the trace.

| Property | cfg | What says so | What the code does |
|---|---|---|---|
| `ThreeStrikes` | PluginLoader [`MaxFaults = 3`] | `fault_isolation.h:20` | the fault counter is kept and nothing reads it |
| `UninjectedOnlyWhenDown` | EngineCore [`Disturbances` with `"short"`, `"early"`] | `dllmain.c:66` | the host unhooks 200 ms after an acknowledgement that is written before the teardown |
| `PumpNeverStuck` | EngineCore [with `"pump"`, `"gui"`] | `phase_3_taskbar_resize.md:131` | the loader holds its lock while a plugin broadcasts; a SHUTDOWN sent meanwhile asks for it again |
| `EnableShowsIcons` | IconDiscovery | `icon_hover.c:1244` | Enable sets the trigger before its flag; a worker that wakes in between drops it |
| `WorkerTerminated` | IconDiscovery | `icon_hover.c:1334` | a query in flight waits for the UI thread that waits for the worker; Disable ignores that its 3 s ran out |
| `TornFree` | FrameLoop | `frame_loop.cpp:9` | `continue` in the read loop jumps to a comparison with an old number, so an odd one can pass |
| `LeaveIsAnimated` | FrameLoop | `frame_loop.h:60` | a leave that finds the loop active in its last tick is not animated |
| `TicksOnLiveDevice` | FrameLoop | `frame_loop.h:26` | Stop does not wait for a tick under way; Disable destroys the device it uses |
| `DrawnIsPresented` | MediaIsland | `dynamic_island.cpp:536` | a redraw clears the dirty flag the loop looks at before it commits |
| `OthersLeaveSize` | TaskbarPlugins | `docs/07_Configuration.md:90`, `te_events.h:30` | `taskbar_resize` takes any plugin's section for its own |
| `DisableReverts` | TaskbarPlugins | `docs/04_Plugin_System.md:52` | taskbars that left the list keep their accent |
| `NewestFlushed` | LogRing | `te_log.h:30` | after a lap the flusher waits at a slot that was consumed |
| `TrayRestored` | HostRecovery [`MaxShells = 2`, `MaxRepeats = 0`] | `main.c:41` | `TE_TrayCreate` returns early the second time |
| `RestIsShown` | TaskbarTracking | `docs/phases/phase_4_icon_hover.md:15` | a taskbar's timer tells twice that the mouse has left, `OnTaskbarMouse` takes it as a leave of all taskbars (`icon_hover.c:944`), and the mouse may have entered another one in between; with `Secondaries = {}` it holds |
| `LetGoOfAll` | TaskbarTracking | `taskbar_subclass.h:103` | a device change between WM_DESTROY and WM_NCDESTROY of the primary taskbar tracks the others again, with the engine down |
| `NothingLeftWhenDown` | TaskbarTracking [`Nested = TRUE`] | `taskbar_subclass.h:108` | a display change sent while the teardown disables the plugins finds the engine initialised and tracks the windows again |

Met on the way and visible in the state spaces without a property of their own:
an engine torn down inside a callback leaves `TE_EventDispatchFire` calling
through the rest of its copy into unmapped DLLs (`TornDown`);
a window that saves copies its file over hand-made changes of the user's one;
monitor threads that lost their handle live on after Stop; a change of the file
between the engine's load and its watch is loaded by nobody (`past.missed`); the
tray's menu switches the resize on and off behind the back of the window and the
file, which go on showing what was saved (`past.astray`); a tree of icons may be drawn from a bitmap the cache has deleted, and when GDI gives
the next bitmap the same handle the surface is kept and stays wrong
(`PicturesCurrent` of `IconDiscovery` may never come true again; `ChangesShown`
excepts it as `reused`).

Where a passing property names an exception (`missed`, `raced`, `restarted`,
`late`, `narrowed`, `misread`, `stale`, `lapped`, ...), the exception is such a
window of the code, set by the one step that opens it. The property then says
that there is no other way.

## What is not modelled

* The message filter of `taskbar_subclass.c`: a set of message numbers, but the
  branch that should forward a subscribed message is empty. The registration of
  the shell hook, of virtual desktops and of power notifications.
* `TaskbarTracking`: monitors, `is_primary` and dragging; a taskbar that belongs
  to another process.
* Partial reads and header validation of the pipe protocol (one request at a
  time, an invalid one is "no message"); a pipe server or a watcher that fails to
  start; a slow client that outlasts the 3 s join.
* `IconDiscovery`: a failing Enable (it undoes what it did), the eviction at 64
  bitmaps, a failing extraction, displays beyond `TE_MAX_MONITORS`.
* `FrameLoop`: the adaptive interval of the timer, the springs, dragging.
* `MediaIsland`: failing queries, torn writes of `m_cachedSnapshot` (two threads
  fill it without a lock), `show_idle_pill`, several completions at once, a tick
  that uses the source while Disable frees it.
* `TaskbarPlugins`: colours, paddings and spacing beyond "height" and "mode"; the
  state store beyond its one key; settings changed while a plugin is off are not
  heard by it, which the model keeps as `unheard`.
* `LogRing`: the 32-bit wrap of the positions, rotation, a second
  `TE_LogInit` over a producer in the middle of a message, the 3 s limit of the
  join.
* `SettingsFlow`: several plugins in one file, JSONC syntax, navigation between
  pages. `_wfopen` with `"rb"` shares reading only, so a file the engine has open
  cannot be replaced: that is modelled (`HeldByEngine`).
* `HostRecovery`: menu and message boxes, the mutex of the single instance. A
  thread id of 0 makes a hook on every thread: that is modelled (`Everything`).
* Floating-point animation and layout (`magnification.c`, `DockPhysics.cpp`),
  DirectComposition drawing, UI Automation, the windows of the GUI: I/O or real
  arithmetic. `ThirdParty/` is vendored.

## The plan

Done: the loader and its proofs; `EngineCore`; `IconDiscovery`; `SettingsFlow`
(with the reload); `HostRecovery`; `FrameLoop`; `MediaIsland`; `LogRing`
and its proofs; `TaskbarPlugins`; `TaskbarTracking`.

Theorems: the loader, its refinement of the life cycle, the log ring, the engine
core, the frame loop, the icon discovery, the settings flow, the taskbar plugins
and the taskbar tracking are done.

Next: the theorem of `ShowsCurrent` of `MediaIsland`.
