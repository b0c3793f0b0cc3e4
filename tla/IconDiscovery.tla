---------------------------- MODULE IconDiscovery ----------------------------
(* The asynchronous icon discovery of the icon hover plugin (icon_hover.c)   *)
(* with its bitmap cache (icon_capture.cpp).                                 *)
(*                                                                           *)
(* Explorer's UI thread enables and disables the plugin, hears of changes    *)
(* of the taskbar and builds the visual trees.  A worker thread, woken by    *)
(* an event, asks UI Automation for the icons of each monitor's taskbar,     *)
(* fetches their bitmaps from the cache, puts the result into the monitor's  *)
(* slot and posts a message.  Neither side ever takes a lock of the other:   *)
(* they share the flag g_hover_state.enabled, two events, the slots and the  *)
(* cache.                                                                    *)
(*                                                                           *)
(* The query is answered by Explorer's own providers, on the UI thread:      *)
(* while that thread waits for the worker in Disable, nobody answers, and a  *)
(* query in flight outlasts the wait unless it has all its answers already.  *)
(* What a taskbar shows is a version number, and the icons of monitor m are  *)
(* one icon with the cache key m.                                            *)
EXTENDS Naturals, Sequences, FiniteSets

CONSTANTS
    MaxMonitors,    \* TE_MAX_MONITORS
    Threads,        \* the workers that may be alive at the same time
    Handles,        \* the bitmap handles GDI hands out, and reuses
    MaxVersion,     \* how often the icons of the taskbar change
    MaxStirs,       \* how often the displays or the settings change
    MaxPosted,      \* how many messages may wait when the plugin is enabled
    Blank,          \* the monitors whose discovery may find no icon
    Revive          \* whether Enable may find a worker of before alive

ASSUME MonitorsAssumption == MaxMonitors \in Nat \ {0} /\ MaxPosted \in Nat
ASSUME BoundsAssumption == MaxVersion \in Nat \ {0} /\ MaxStirs \in Nat
ASSUME HandlesAssumption ==
    Handles \subseteq Nat \ {0} /\ Cardinality(Handles) >= MaxMonitors
ASSUME ThreadsAssumption == Threads \subseteq Nat \ {0} /\ IsFiniteSet(Threads)
ASSUME RunAssumption == Blank \subseteq 1..MaxMonitors /\ Revive \in BOOLEAN

VARIABLES
    phase,          \* the plugin, and which part of Enable or Disable runs
    monitors,       \* g_hover_state.monitor_count
    active,         \* the monitors whose is_active is set
    revived,        \* Enable has found a worker alive that Disable gave up
    timer,          \* s_shell_hook_rebuild_timer is set
    building,       \* the payload the UI thread has taken out of its slot
    shown,          \* each monitor's icon_cache and its visual tree
    reused,         \* a handle still remembered has been given out again
    thread,         \* s_discovery_thread, 0 when NULL
    stop,           \* s_discovery_stop_event
    trigger,        \* s_discovery_trigger_event
    slot,           \* s_pending_discovery
    worker,         \* where each worker thread is
    heap,           \* payloads allocated and not yet freed
    cache,          \* the bitmap cached for each key, 0 when there is none
    posted,         \* WM_TE_ICONS_DISCOVERED messages in the queue
    version,        \* the icons the taskbars have now
    hook,           \* a shell hook message waits for the UI thread
    stirs           \* display and settings changes so far

vars == << phase, monitors, active, revived, timer, building, shown, reused,
           thread, stop, trigger, slot, worker, heap, cache, posted, version,
           hook, stirs >>

pluginVars == << phase, monitors, active, revived >>
treeVars   == << building, shown, reused >>
eventVars  == << thread, stop, trigger >>
worldVars  == << version, hook, stirs >>

Monitors == 1..MaxMonitors
Primary  == 1
NoHandle == 0
Key      == Monitors

\* A DiscoveryPayload: its monitor, the version the query saw, the bitmap.
Payload   == [m : Monitors, ver : 0..MaxVersion, bmp : Handles \cup {NoHandle}]
NoPayload == [m |-> 0, ver |-> 0, bmp |-> NoHandle]
EmptyCache == [k \in Key |-> NoHandle]

\* What a monitor shows: the list in its icon_cache and whether it is empty,
\* the handle the tree remembers (cached_bitmaps), and whether the surface
\* was drawn from the bitmap the cache has now.
Tree == [ver : 0..MaxVersion, empty : BOOLEAN,
         bmp : Handles \cup {NoHandle}, intact : BOOLEAN]
NoTree == [ver |-> 0, empty |-> FALSE, bmp |-> NoHandle, intact |-> FALSE]

\* g_hover_state.enabled: Enable sets it last and Disable clears it first.
Enabled == phase = "on"

\* The UI thread is in its message loop, not inside Enable, Disable or the
\* handler of a discovery message.
Pumping == phase \in {"off", "on", "unmapped"} /\ building = NoPayload

Holding == {"query", "capture", "captured", "publish"}
Gone    == [at |-> "gone", n |-> 0, load |-> NoPayload]

\* What both threads, the cache and the queue hold.
SharedTypes ==
    /\ phase \in {"unmapped", "off", "enabling", "on",
                  "stopping", "joining", "flushing"}
    /\ monitors \in 0..MaxMonitors /\ active \subseteq 1..monitors
    /\ revived \in BOOLEAN
    /\ timer \in BOOLEAN /\ building \in Payload \cup {NoPayload}
    /\ shown \in [Monitors -> Tree] /\ reused \in BOOLEAN
    /\ thread \in Threads \cup {0}
    /\ stop \in {"null", "clear", "set"} /\ trigger \in {"null", "clear", "set"}
    /\ slot \in [Monitors -> Payload \cup {NoPayload}]
    /\ cache \in [Key -> Handles \cup {NoHandle}]
    /\ posted \in Seq(Monitors)
    /\ version \in 1..MaxVersion /\ hook \in BOOLEAN /\ stirs \in 0..MaxStirs

\* Types; and two workers are never alive at once, however triggers and joins
\* are ordered, unless Enable overtook a worker that Disable gave up.
TypeOK ==
    /\ SharedTypes
    /\ \A w \in Threads :
          /\ worker[w].at \in Holding \cup {"gone", "wait", "woken", "next", "post"}
          /\ worker[w].n \in 0..MaxMonitors
          /\ worker[w].load.m \in 0..(MaxMonitors + 1)
    /\ ~revived => \A v, w \in Threads : Gone \in {worker[v], worker[w]} \/ v = w
    /\ heap \in Nat

Init ==
    /\ phase = "off" /\ monitors = 0 /\ active = {}
    /\ revived = FALSE /\ reused = FALSE
    /\ timer = FALSE /\ building = NoPayload
    /\ shown = [m \in Monitors |-> NoTree]
    /\ thread = 0 /\ stop = "null" /\ trigger = "null"
    /\ slot = [m \in Monitors |-> NoPayload]
    /\ worker = [w \in Threads |-> Gone]
    /\ heap = 0 /\ cache = EmptyCache /\ posted = << >>
    /\ version = 1 /\ hook = FALSE /\ stirs = 0
-----------------------------------------------------------------------------
(* The UI thread: waking the worker.                                         *)

\* TriggerAsyncUiaDiscovery uses the worker it has, or starts one.
CreateThread ==
    LET free == {w \in Threads : worker[w] = Gone}
    IN \E w \in free :
          /\ \A t \in free : w <= t
          /\ thread' = w
          /\ worker' = [worker EXCEPT ![w].at = "wait"]

\* Mutant: the running worker is not looked for.
StartAnother == CreateThread

StartWorker ==
    IF thread # 0 THEN UNCHANGED << thread, worker >> ELSE CreateThread

TriggerAsyncUiaDiscovery ==
    /\ stop' = IF stop = "null" THEN "clear" ELSE stop
    /\ trigger' = "set"
    /\ StartWorker

\* The bitmaps of the keys S are deleted: what was drawn from them is out of
\* date, and the trees still remember their handles.
Drop(S) ==
    /\ cache' = [k \in Key |-> IF k \in S THEN NoHandle ELSE cache[k]]
    /\ shown' = [m \in Monitors |->
                   IF m \in S THEN [shown[m] EXCEPT !.intact = FALSE] ELSE shown[m]]

\* OnShellHook: the window's bitmaps are dropped and the debounce restarted.
OnShellHook ==
    /\ Pumping /\ hook
    /\ hook' = FALSE
    /\ IF Enabled
       THEN timer' = TRUE /\ \E S \in SUBSET Key : Drop(S)
       ELSE UNCHANGED << timer, cache, shown >>
    /\ UNCHANGED << pluginVars, building, reused, eventVars, slot, worker, heap,
                    posted, version, stirs >>

\* ShellHookDebounceProc: the quiet period is over.
ShellHookDebounceProc ==
    /\ Pumping /\ timer
    /\ timer' = FALSE
    /\ IF Enabled THEN TriggerAsyncUiaDiscovery ELSE UNCHANGED << eventVars, worker >>
    /\ UNCHANGED << pluginVars, treeVars, slot, heap, cache, posted, worldVars >>

\* The trees of the monitors in gone are destroyed, all bitmaps deleted.
DropAll(gone) ==
    /\ cache' = EmptyCache
    /\ shown' = [m \in Monitors |->
                   IF m \in gone THEN NoTree
                   ELSE [shown[m] EXCEPT !.intact = FALSE]]

\* Mutant: UpdateMonitors without RebuildIconData.
UpdateWithoutRebuild ==
    /\ Pumping /\ Enabled
    /\ stirs < MaxStirs /\ stirs' = stirs + 1
    /\ \E gone \in SUBSET (active \ {Primary}) :
          /\ active' = active \ gone
          /\ DropAll(gone)
    /\ UNCHANGED << phase, monitors, revived, timer, building, reused, eventVars, slot, worker,
                    heap, posted, version, hook >>

\* UpdateMonitors, on a display, DPI or geometry event: monitors go, at most
\* one is added behind the others, and all bitmaps are thrown away.
UpdateMonitors ==
    /\ Pumping /\ Enabled
    /\ stirs < MaxStirs /\ stirs' = stirs + 1
    /\ \E gone \in SUBSET (active \ {Primary}), found \in BOOLEAN :
          /\ monitors' = IF found /\ monitors < MaxMonitors
                         THEN monitors + 1 ELSE monitors
          /\ active' = (active \ gone) \cup (monitors + 1 .. monitors')
          /\ DropAll(gone)
    /\ TriggerAsyncUiaDiscovery
    /\ UNCHANGED << phase, revived, timer, building, reused, slot, heap, posted,
                    version, hook >>

\* OnConfigChanged ends in RebuildIconData.
OnConfigChanged ==
    /\ Pumping /\ Enabled
    /\ stirs < MaxStirs /\ stirs' = stirs + 1
    /\ TriggerAsyncUiaDiscovery
    /\ UNCHANGED << pluginVars, timer, treeVars, slot, heap, cache, posted,
                    version, hook >>
-----------------------------------------------------------------------------
(* The UI thread: WM_TE_ICONS_DISCOVERED.                                    *)

\* The slot is emptied; without the plugin's subclass the message is lost.
TakePayload ==
    /\ Pumping /\ posted # << >>
    /\ posted' = Tail(posted)
    /\ IF Enabled
       THEN /\ building' = slot[Head(posted)]
            /\ slot' = [slot EXCEPT ![Head(posted)] = NoPayload]
       ELSE UNCHANGED << building, slot >>
    /\ UNCHANGED << pluginVars, timer, shown, reused, eventVars, worker, heap,
                    cache, worldVars >>

\* TE_DCompBuildVisualTreeForTarget for the payload's list: the surface is
\* kept when its size and the bitmap's handle are the tree's, else it is drawn
\* from the bitmap, whether or not the cache still has it.
Built(m, resized) ==
    [ver |-> building.ver, empty |-> FALSE, bmp |-> building.bmp,
     intact |-> IF shown[m].bmp = building.bmp /\ ~resized
                THEN shown[m].intact ELSE cache[m] = building.bmp]

\* FinishRebuildIconDataForMonitor, while the worker may be at the cache: an
\* empty list replaces icon_cache and leaves the tree alone.  Then the payload
\* is freed.
FinishRebuildIconData ==
    /\ building # NoPayload
    /\ LET m == building.m
       IN \/ /\ m \notin active
             /\ UNCHANGED shown
          \/ /\ m \in active /\ building.bmp = NoHandle
             /\ shown' = [shown EXCEPT ![m] =
                             [@ EXCEPT !.ver = building.ver, !.empty = TRUE]]
          \/ /\ m \in active /\ building.bmp # NoHandle
             /\ \E resized \in BOOLEAN :
                   shown' = [shown EXCEPT ![m] = Built(m, resized)]
    /\ building' = NoPayload /\ heap' = heap - 1
    /\ UNCHANGED << pluginVars, timer, reused, eventVars, slot, worker, cache, posted,
                    worldVars >>
-----------------------------------------------------------------------------
(* The UI thread: the plugin's life.                                         *)

Quiet == \A w \in Threads : worker[w] = Gone

\* Enable up to TriggerAsyncUiaDiscovery; the flag is still clear.
BeginEnable ==
    /\ phase = "off" /\ Pumping /\ Len(posted) <= MaxPosted
    /\ Revive \/ Quiet
    /\ phase' = "enabling"
    /\ \E n \in Monitors : monitors' = n /\ active' = 1..n
    /\ revived' = (revived \/ ~Quiet)
    /\ TriggerAsyncUiaDiscovery
    /\ UNCHANGED << timer, treeVars, slot, heap, cache, posted, worldVars >>

EndEnable ==
    /\ phase = "enabling" /\ phase' = "on"
    /\ UNCHANGED << monitors, active, revived, timer, treeVars, eventVars, slot, worker,
                    heap, cache, posted, worldVars >>

\* Disable up to the lock: flag, timer, subscriptions, overlays.
BeginDisable ==
    /\ phase = "on" /\ Pumping
    /\ phase' = "stopping" /\ monitors' = 0 /\ active' = {}
    /\ timer' = FALSE
    /\ shown' = [m \in Monitors |-> NoTree] /\ reused' = FALSE
    /\ UNCHANGED << revived, building, eventVars, slot, worker, heap, cache,
                    posted, worldVars >>

SignalStop ==
    /\ phase = "stopping" /\ phase' = "joining"
    /\ stop' = IF stop = "null" THEN "null" ELSE "set"
    /\ UNCHANGED << monitors, active, revived, timer, treeVars, thread, trigger, slot,
                    worker, heap, cache, posted, worldVars >>

\* Mutant: the thread's handle is closed without waiting for the thread.
CloseWithoutWait ==
    /\ phase = "joining" /\ phase' = "flushing"
    /\ thread' = 0 /\ stop' = "null" /\ trigger' = "null"
    /\ UNCHANGED << monitors, active, revived, timer, treeVars, slot, worker, heap, cache,
                    posted, worldVars >>

\* The wait for the worker ends, after 3 s if its query waits for this very
\* thread, and the handles are closed.
Join ==
    /\ phase = "joining" /\ phase' = "flushing"
    /\ \/ thread = 0 \/ worker[thread] = Gone
       \/ worker[thread].at = "query"
    /\ thread' = 0 /\ stop' = "null" /\ trigger' = "null"
    /\ UNCHANGED << monitors, active, revived, timer, treeVars, slot, worker, heap, cache,
                    posted, worldVars >>

\* The pending payloads are freed, then the cache.
Flush ==
    /\ phase = "flushing" /\ phase' = "off"
    /\ heap' = heap - Cardinality({m \in Monitors : slot[m] # NoPayload})
    /\ slot' = [m \in Monitors |-> NoPayload]
    /\ cache' = EmptyCache
    /\ UNCHANGED << monitors, active, revived, timer, treeVars, eventVars, worker, posted,
                    worldVars >>

\* Shutdown, which finds nothing left to stop, and FreeLibrary.
Unload ==
    /\ phase = "off" /\ Pumping
    /\ phase' = "unmapped"
    /\ UNCHANGED << monitors, active, revived, timer, treeVars, eventVars, slot, worker,
                    heap, cache, posted, worldVars >>

Load ==
    /\ phase = "unmapped" /\ Pumping
    /\ Quiet
    /\ phase' = "off"
    /\ UNCHANGED << monitors, active, revived, timer, treeVars, eventVars, slot, worker,
                    heap, cache, posted, worldVars >>
-----------------------------------------------------------------------------
(* The worker, UiaDiscoveryWorkerThread.                                     *)

Abort == stop = "set" \/ ~Enabled

\* w goes on at the step at, with what else it has got in load.
Goes(w, at, load) ==
    worker' = [worker EXCEPT ![w].at = at, ![w].load = load]

\* WaitForMultipleObjects: the stop event comes first.
Wake(w) ==
    /\ worker[w].at = "wait"
    /\ \/ /\ stop # "clear" \/ trigger = "null"
          /\ worker' = [worker EXCEPT ![w] = Gone]
          /\ UNCHANGED trigger
       \/ /\ stop = "clear" /\ trigger = "set"
          /\ trigger' = "clear"
          /\ Goes(w, "woken", NoPayload)
    /\ UNCHANGED << pluginVars, timer, treeVars, thread, stop, slot, heap, cache,
                    posted, worldVars >>

\* The trigger is consumed whether or not there is anything to do.
StartPass(w) ==
    /\ worker[w].at = "woken"
    /\ IF Abort
       THEN Goes(w, "wait", NoPayload)
       ELSE worker' = [worker EXCEPT ![w] =
                [at |-> "next", n |-> monitors, load |-> [NoPayload EXCEPT !.m = 1]]]
    /\ UNCHANGED << pluginVars, timer, treeVars, eventVars, slot, heap, cache,
                    posted, worldVars >>

\* One round of the loop over the monitors begins.
NextMonitor(w) ==
    LET m == worker[w].load.m
    IN  /\ worker[w].at = "next"
        /\ \/ /\ m > worker[w].n \/ Abort
              /\ Goes(w, "wait", NoPayload)
              /\ UNCHANGED heap
           \/ /\ m <= worker[w].n /\ ~Abort /\ m \notin active
              /\ Goes(w, "next", [NoPayload EXCEPT !.m = m + 1])
              /\ UNCHANGED heap
           \/ /\ m <= worker[w].n /\ ~Abort /\ m \in active
              /\ Goes(w, "query", [NoPayload EXCEPT !.m = m])
              /\ heap' = heap + 1
        /\ UNCHANGED << pluginVars, timer, treeVars, eventVars, slot, cache,
                        posted, worldVars >>

\* The worker frees its payload and leaves the loop.
GiveUp(w) ==
    /\ Goes(w, "wait", NoPayload)
    /\ heap' = heap - 1

\* TE_UiaDiscoverIcons returns what the taskbar has at some moment, or no
\* icon at all; then there is nothing to capture.
QueryReturns(w) ==
    /\ worker[w].at = "query"
    /\ \/ /\ Abort /\ GiveUp(w)
       \/ /\ ~Abort /\ UNCHANGED heap
          /\ \E at \in {"capture", "captured"} :
                /\ at = "captured" => worker[w].load.m \in Blank
                /\ Goes(w, at, [worker[w].load EXCEPT !.ver = version])
    /\ UNCHANGED << pluginVars, timer, treeVars, eventVars, slot, cache, posted,
                    worldVars >>

Live(c) == {c[k] : k \in Key} \ {NoHandle}

\* The handles a tree or a payload of monitor k still names.
Remembered(k) ==
    {p.bmp : p \in {shown[k], slot[k]}
                 \cup {q \in {building} \cup {worker[w].load : w \in Threads} : q.m = k}}

\* TE_IconCaptureGetBitmapEx: the key's bitmap, or a new one under a handle
\* that is free.
GetBitmap(w) ==
    /\ worker[w].at = "capture"
    /\ \/ /\ Abort /\ GiveUp(w) /\ UNCHANGED << cache, reused >>
       \/ /\ ~Abort /\ UNCHANGED heap
          /\ LET k == worker[w].load.m
             IN \E h \in IF cache[k] # NoHandle THEN {cache[k]} ELSE Handles \ Live(cache) :
                   /\ cache' = [cache EXCEPT ![k] = h]
                   /\ reused' = (reused \/ (cache[k] # h /\ h \in Remembered(k)))
                   /\ Goes(w, "captured", [worker[w].load EXCEPT !.bmp = h])
    /\ UNCHANGED << pluginVars, timer, building, shown, eventVars, slot, posted,
                    worldVars >>

\* The last look at the flag before the payload is given away.
Recheck(w) ==
    /\ worker[w].at = "captured"
    /\ \/ Abort /\ GiveUp(w)
       \/ ~Abort /\ Goes(w, "publish", worker[w].load) /\ UNCHANGED heap
    /\ UNCHANGED << pluginVars, timer, treeVars, eventVars, slot, cache, posted,
                    worldVars >>

\* Mutant: the payload the exchange returns is not freed.
PublishOver(w) ==
    LET m == worker[w].load.m
    IN  /\ worker[w].at = "publish"
        /\ slot' = [slot EXCEPT ![m] = worker[w].load]
        /\ Goes(w, "post", [NoPayload EXCEPT !.m = m])
        /\ UNCHANGED << pluginVars, timer, treeVars, eventVars, heap, cache,
                        posted, worldVars >>

\* The exchange: an older payload found in the slot is freed.
Publish(w) ==
    LET m == worker[w].load.m
    IN  /\ worker[w].at = "publish"
        /\ slot' = [slot EXCEPT ![m] = worker[w].load]
        /\ heap' = IF slot[m] = NoPayload THEN heap ELSE heap - 1
        /\ Goes(w, "post", [NoPayload EXCEPT !.m = m])
        /\ UNCHANGED << pluginVars, timer, treeVars, eventVars, cache, posted,
                        worldVars >>

Post(w) ==
    LET m == worker[w].load.m
    IN  /\ worker[w].at = "post"
        /\ posted' = Append(posted, m)
        /\ Goes(w, "next", [NoPayload EXCEPT !.m = m + 1])
        /\ UNCHANGED << pluginVars, timer, treeVars, eventVars, slot, heap, cache,
                        worldVars >>

WorkerStep(w) ==
    \/ Wake(w) \/ StartPass(w) \/ NextMonitor(w) \/ QueryReturns(w)
    \/ GetBitmap(w) \/ Recheck(w) \/ Publish(w) \/ Post(w)
-----------------------------------------------------------------------------
\* A window opens or closes: the taskbar changes and Explorer will say so.
IconsChange ==
    /\ version < MaxVersion /\ ~hook
    /\ version' = version + 1 /\ hook' = TRUE
    /\ UNCHANGED << pluginVars, timer, treeVars, eventVars, slot, worker, heap,
                    cache, posted, stirs >>

\* What the UI thread owes: messages, timers, and the rest of what it began.
UiStep ==
    \/ OnShellHook \/ ShellHookDebounceProc
    \/ TakePayload \/ FinishRebuildIconData
    \/ EndEnable \/ SignalStop \/ Join \/ Flush

Next ==
    \/ UiStep \/ UpdateMonitors \/ OnConfigChanged
    \/ BeginEnable \/ BeginDisable \/ Unload \/ Load
    \/ IconsChange
    \/ \E w \in Threads : WorkerStep(w)

Spec == Init /\ [][Next]_vars

\* Both threads are scheduled.  The user owes nothing.
FairSpec == Spec /\ WF_vars(UiStep) /\ \A w \in Threads : WF_vars(WorkerStep(w))
-----------------------------------------------------------------------------
(* What must hold.                                                           *)

\* Every payload the worker allocates has one owner until it is freed: the
\* worker, a slot or the UI thread.  None leaks when a newer one replaces it
\* or when Disable comes between, none is freed twice.
PayloadsAccounted ==
    heap = Cardinality({m \in Monitors : slot[m] # NoPayload})
           + Cardinality({w \in Threads : worker[w].at \in Holding})
           + (IF building = NoPayload THEN 0 ELSE 1)

\* Disable leaves at most what it could not wait for: one worker that is in
\* its query, or has come back from it, with the payload of that query.  No
\* other payload and no bitmap is left, and such a worker touches nothing more.
NothingOutlivesDisable ==
    phase \in {"off", "unmapped"} /\ ~revived =>
        /\ \A w \in Threads : worker[w] = Gone \/ worker[w].at \in {"query", "wait"}
        /\ heap = Cardinality({w \in Threads : worker[w].at = "query"})
        /\ slot = [m \in Monitors |-> NoPayload] /\ cache = EmptyCache

\* While the plugin stays enabled no monitor goes back to an older list of
\* icons than the one it has.
ShownNeverOlder ==
    [][~revived =>
          \A m \in Monitors :
             shown'[m].ver >= shown[m].ver \/ shown'[m] = NoTree]_vars

\* Every active monitor has the list of the icons as they are; its tree is
\* made of the bitmaps the cache has, and drawn from them unless GDI has given
\* a bitmap the handle of a deleted one that was still remembered.
UpToDate ==
    \A m \in active :
        /\ shown[m].ver = version
        /\ \/ shown[m].empty
           \/ shown[m].bmp = cache[m] /\ (shown[m].intact \/ reused)

\* After a change that Explorer announces, every active monitor is brought
\* up to date, whatever is invalidated or replaced meanwhile.
ChangesShown == (hook /\ Enabled /\ ~revived) ~> (UpToDate \/ ~Enabled)

\* Every bitmap shown is the one in the cache.
PicturesCurrent == \A m \in active : shown[m].empty \/ shown[m].intact

\* Once Disable has returned its worker has ended.
WorkerTerminated == phase \in {"off", "unmapped"} => Quiet

\* Enable starts a discovery, and the icons appear.
EnableShowsIcons ==
    phase = "enabling" ~>
        (shown[Primary] # NoTree \/ phase \notin {"enabling", "on"})
=============================================================================
