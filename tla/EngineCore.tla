----------------------------- MODULE EngineCore -----------------------------
(* The engine inside explorer.exe: how the WH_GETMESSAGE hook brings it up   *)
(* (dllmain.c), how the subclassed taskbar window runs it                    *)
(* (taskbar_subclass.c, core_manager.c), how the pipe server commands it     *)
(* (ipc_server.c) and how the tray host injects and uninjects it             *)
(* (App/src/main.c, App/TaskbarEngineHost.cpp).                              *)
(*                                                                           *)
(* Four parties run concurrently: Explorer's UI thread, the pipe server      *)
(* thread, the config watcher thread and the host process.  The UI thread    *)
(* takes sent messages before posted ones and dispatches posted ones in      *)
(* order.  The plugins are one: what PluginLoader.tla says of each of them   *)
(* is not repeated here.                                                     *)
EXTENDS Naturals, Sequences, FiniteSets

CONSTANTS
    MaxWindows,     \* how many taskbar windows Explorer creates
    MaxQueue,       \* how many posted messages wait when another is posted
    Commands,       \* the commands clients and the watcher issue
    Disturbances    \* what else may happen, a subset of Disturbing

Disturbing ==
    { "destroy",    \* Explorer destroys and recreates its taskbar window
      "crash",      \* explorer.exe dies and is restarted
      "session",    \* the Windows session ends
      "stray",      \* a WM_NULL for another window of the UI thread
      "hang",       \* SendMessageTimeout gives up on the UI thread
      "pump",       \* a plugin callback lets sent messages in
      "early",      \* the host closes before the engine is up
      "gui",        \* the settings GUI asks for SHUTDOWN as well
      "short" }     \* Sleep(200) ends before the teardown does

ASSUME BoundsAssumption == MaxWindows \in Nat \ {0} /\ MaxQueue \in Nat \ {0}
ASSUME CommandsAssumption == Commands \subseteq {"ENABLE", "DISABLE", "RELOAD"}
ASSUME DisturbancesAssumption == Disturbances \subseteq Disturbing

VARIABLES
    window,         \* the live Shell_TrayWnd, 0 when there is none
    created,        \* how many there have been: handles are 1..created
    queue,          \* messages posted to the window
    ui,             \* what the UI thread is executing
    gate,           \* g_is_initialized: 0 closed, 1 claimed, 2 shut down
    known,          \* g_taskbarHwnd of dllmain.c, 0 when NULL
    subclassed,     \* TE_TaskbarSubclassProc is installed on the window
    core,           \* g_core.taskbar_hwnd while g_core.initialized, else 0
    plugin,         \* "unmapped", "mapped", "enabled" (with its subclass)
    ipc,            \* where the pipe server thread is
    running,        \* g_ipc.is_running
    sent,           \* a sent TE_CMD_SHUTDOWN waits for the UI thread
    payloads,       \* names allocated by _strdup and not yet freed
    host,           \* the tray host: "off", "running", "closing", "sleeping"
    hooked,         \* its hook is set, so EngineDLL is mapped in Explorer
    announced       \* TaskbarCreated is on its way to the host

vars == << window, created, queue, ui, gate, known, subclassed, core, plugin,
           ipc, running, sent, payloads, host, hooked, announced >>

explorerVars == << window, created, announced >>
hostVars     == << host, hooked >>
dllVars      == << gate, known, subclassed >>
engineVars   == << ui, core, plugin >>
serverVars   == << ipc, running, sent >>

PayloadCommands == {"ENABLE", "DISABLE"}
IpcCommands     == PayloadCommands \cup {"RELOAD"}
Posted          == {"NULL", "INIT", "FINALIZE"} \cup IpcCommands
Handled         == Posted \cup {"none", "SHUTDOWN", "DESTROY", "ENDSESSION"}

Idle == [at |-> "idle", msg |-> "none", through |-> FALSE]

\* A message reaches the engine's procedure through the frame of the
\* plugin's own subclass procedure when that one is installed above it.
Frame(step, msg) ==
    [at |-> step, msg |-> msg, through |-> plugin = "enabled"]

\* How many of the messages of q own an allocated name.
Owning(q) == Cardinality({i \in 1..Len(q) : q[i] \in PayloadCommands})

TypeOK ==
    /\ window \in 0..MaxWindows /\ created \in 0..MaxWindows
    /\ queue \in Seq(Posted)
    /\ ui \in [at : {"idle", "dispatch", "switch", "disable", "stop",
                     "ncdestroy", "stuck"},
               msg : Handled, through : BOOLEAN]
    /\ gate \in 0..2 /\ known \in 0..MaxWindows /\ subclassed \in BOOLEAN
    /\ core \in 0..MaxWindows
    /\ plugin \in {"unmapped", "mapped", "enabled"}
    /\ ipc \in {"none", "listening", "serving", "acked", "sending", "exited"}
    /\ running \in BOOLEAN /\ sent \in BOOLEAN
    /\ payloads \in Nat
    /\ host \in {"off", "running", "closing", "sleeping"}
    /\ hooked \in BOOLEAN /\ announced \in BOOLEAN

\* Explorer has its taskbar; nothing is injected.
Init ==
    /\ window = 1 /\ created = 1 /\ announced = FALSE
    /\ queue = <<>> /\ ui = Idle
    /\ gate = 0 /\ known = 0 /\ subclassed = FALSE
    /\ core = 0 /\ plugin = "unmapped"
    /\ ipc = "none" /\ running = FALSE /\ sent = FALSE
    /\ payloads = 0
    /\ host = "off" /\ hooked = FALSE
-----------------------------------------------------------------------------
(* The hook, TE_GetMsgHookProc.  It runs on the UI thread for every posted   *)
(* message that thread retrieves, of whatever window.                        *)

IsWindow(hwnd) == hwnd # 0 /\ hwnd = window

\* As Reopens, but forgetting the window that is gone.
ReopensAfterShutdown(isNull) == isNull /\ gate = 2

\* WM_NULL reopens the gate of an engine that was shut down or whose window
\* is gone.
Reopens(isNull) == isNull /\ (gate = 2 \/ ~IsWindow(known))

\* The hook's effect, given what is left of the queue once the message is
\* out: whoever finds the gate open claims it, subclasses the taskbar and
\* posts WM_TE_INIT, or leaves it open when there is no taskbar.
HookSees(isNull, rest) ==
    IF hooked /\ (gate = 0 \/ Reopens(isNull))
      THEN IF window # 0
             THEN /\ gate' = 1 /\ known' = window /\ subclassed' = TRUE
                  /\ queue' = Append(rest, "INIT")
             ELSE /\ gate' = 0 /\ queue' = rest
                  /\ UNCHANGED <<known, subclassed>>
      ELSE /\ queue' = rest
           /\ UNCHANGED dllVars

\* A message for some other window of the UI thread is retrieved.
OtherMessage(isNull) ==
    /\ ui = Idle /\ ~sent
    /\ isNull => "stray" \in Disturbances
    /\ HookSees(isNull, queue)
    /\ UNCHANGED <<ui, core, plugin, payloads>>
    /\ UNCHANGED <<explorerVars, hostVars, serverVars>>

\* GetMessage takes the oldest posted message, the hook sees it, and
\* DispatchMessage follows.  Sent messages go first.
Retrieve ==
    /\ ui = Idle /\ ~sent
    /\ queue # <<>>
    /\ HookSees(Head(queue) = "NULL", Tail(queue))
    /\ ui' = Frame("dispatch", Head(queue))
    /\ UNCHANGED <<core, plugin, payloads>>
    /\ UNCHANGED <<explorerVars, hostVars, serverVars>>
-----------------------------------------------------------------------------
(* TE_TaskbarSubclassProc and the handlers it calls.                         *)

Dispatching(msg) == ui.at = "dispatch" /\ ui.msg = msg

\* A window that is not subclassed passes engine messages to DefWindowProc,
\* and no handler cares for WM_NULL.
Ignore ==
    /\ ui.at = "dispatch"
    /\ ~subclassed \/ ui.msg = "NULL"
    /\ ui' = Idle
    /\ UNCHANGED <<queue, core, plugin, payloads>>
    /\ UNCHANGED <<explorerVars, hostVars, dllVars, serverVars>>

\* WM_TE_INIT: TE_CoreManagerInit loads the plugins, enables those the
\* configuration enables and starts the pipe server, unless it already has.
HandleInit ==
    /\ Dispatching("INIT") /\ subclassed
    /\ ui' = Idle
    /\ IF core = 0
         THEN /\ core' = window
              /\ plugin' \in {"mapped", "enabled"}
              /\ running' = TRUE /\ ipc' = "listening"
              /\ UNCHANGED sent
         ELSE UNCHANGED <<core, plugin, serverVars>>
    /\ UNCHANGED <<queue, payloads>>
    /\ UNCHANGED <<explorerVars, hostVars, dllVars>>

\* What is left of the payloads when the handler of msg has freed its name.
Freed(msg) == IF msg \in PayloadCommands THEN payloads - 1 ELSE payloads

\* TE_PluginLoaderEnablePluginByName, DisablePluginByName and
\* TE_CoreManagerReloadConfig take the plugin lock and call the plugin.  An
\* engine that is not initialised only frees the name.
BeginCommand ==
    /\ ui.at = "dispatch" /\ ui.msg \in IpcCommands /\ subclassed
    /\ IF core # 0
         THEN ui' = [ui EXCEPT !.at = "switch"] /\ UNCHANGED payloads
         ELSE ui' = Idle /\ payloads' = Freed(ui.msg)
    /\ UNCHANGED <<queue, core, plugin>>
    /\ UNCHANGED <<explorerVars, hostVars, dllVars, serverVars>>

\* As EndCommand, but the name is freed again by the caller.
EndCommandFreesTwice ==
    /\ ui.at = "switch"
    /\ ui' = Idle
    /\ plugin' = IF ui.msg = "DISABLE" THEN "mapped" ELSE "enabled"
    /\ payloads' = IF ui.msg \in PayloadCommands THEN payloads - 2
                                                 ELSE payloads
    /\ UNCHANGED <<queue, core>>
    /\ UNCHANGED <<explorerVars, hostVars, dllVars, serverVars>>

\* The call returns, the name is freed and the lock is released.
EndCommand ==
    /\ ui.at = "switch"
    /\ ui' = Idle
    /\ plugin' \in CASE ui.msg = "ENABLE"  -> {plugin, "enabled"}
                     [] ui.msg = "DISABLE" -> {"mapped"}
                     [] ui.msg = "RELOAD"  -> {plugin, "mapped", "enabled"}
    /\ payloads' = Freed(ui.msg)
    /\ UNCHANGED <<queue, core>>
    /\ UNCHANGED <<explorerVars, hostVars, dllVars, serverVars>>

\* The sent TE_CMD_SHUTDOWN: TE_PluginLoaderDisableAll runs first.
BeginShutdown ==
    /\ ui = Idle /\ sent
    /\ sent' = FALSE
    /\ IF subclassed
         THEN /\ ui' = Frame("disable", "SHUTDOWN")
              /\ UNCHANGED <<ipc, running>>
         ELSE /\ ipc' = IF ipc = "sending" THEN "exited" ELSE ipc
              /\ UNCHANGED <<ui, running>>
    /\ UNCHANGED <<queue, core, plugin, payloads>>
    /\ UNCHANGED <<explorerVars, hostVars, dllVars>>

Disabled == IF plugin = "enabled" THEN "mapped" ELSE plugin

\* As EndShutdown, but without the post.
EndShutdownForgetsToPost ==
    /\ ui.at = "disable"
    /\ plugin' = Disabled
    /\ ui' = Idle
    /\ ipc' = IF ipc = "sending" THEN "exited" ELSE ipc
    /\ UNCHANGED <<queue, core, payloads, sent, running>>
    /\ UNCHANGED <<explorerVars, hostVars, dllVars>>

\* The plugins are disabled, WM_TE_SHUTDOWN_FINALIZE is posted and the
\* sender gets its reply.
EndShutdown ==
    /\ ui.at = "disable"
    /\ plugin' = Disabled
    /\ queue' = Append(queue, "FINALIZE")
    /\ ui' = Idle
    /\ ipc' = IF ipc = "sending" THEN "exited" ELSE ipc
    /\ UNCHANGED <<core, payloads, sent, running>>
    /\ UNCHANGED <<explorerVars, hostVars, dllVars>>
-----------------------------------------------------------------------------
(* Teardown, TE_CoreManagerShutdownExcept.  It first stops the pipe server   *)
(* and waits for its thread, then takes everything else down.                *)

\* TE_IpcServerStop tells the thread to end; the frame then waits for it.
Stopping(frame) == /\ ui' = frame
                   /\ running' = FALSE

\* WM_TE_SHUTDOWN_FINALIZE; a no-op when the engine is down already.
HandleFinalize ==
    /\ Dispatching("FINALIZE") /\ subclassed
    /\ IF core # 0
         THEN Stopping([ui EXCEPT !.at = "stop"])
         ELSE ui' = Idle /\ UNCHANGED running
    /\ UNCHANGED <<queue, core, plugin, payloads, ipc, sent>>
    /\ UNCHANGED <<explorerVars, hostVars, dllVars>>

\* The wait for the thread is over: it has ended, or it is itself waiting in
\* SendMessageTimeout for this very thread and three seconds have passed.
Joined == ipc \in {"none", "exited", "sending"}

\* What TE_CoreManagerShutdownExcept(except) leaves in the queue: the loop
\* over PeekMessage removes the commands, one after the other, and frees
\* their names.
Kept(q) ==
    LET kept[i \in 0..Len(q)] ==
            IF i = 0 THEN <<>>
            ELSE IF q[i] \in IpcCommands THEN kept[i - 1]
                                         ELSE Append(kept[i - 1], q[i])
    IN kept

Drained(q) == Kept(q)[Len(q)]

\* As TakeDown, without the wait.
TakeDownUnjoined ==
    /\ ui.at = "stop"
    /\ ipc' = IF ipc = "exited" THEN "none" ELSE ipc
    /\ plugin' = "unmapped"
    /\ subclassed' = (subclassed /\ ui.msg # "FINALIZE")
    /\ queue' = Drained(queue)
    /\ payloads' = payloads - (Owning(queue) - Owning(queue'))
    /\ core' = 0 /\ gate' = 2 /\ known' = 0
    /\ ui' = IF ui.msg = "DESTROY" THEN [ui EXCEPT !.at = "ncdestroy"]
                                   ELSE Idle
    /\ UNCHANGED <<running, sent>>
    /\ UNCHANGED <<explorerVars, hostVars>>

\* As TakeDown, but the loop drops the commands with their names.
TakeDownLeaksNames ==
    /\ ui.at = "stop" /\ Joined
    /\ ipc' = IF ipc = "exited" THEN "none" ELSE ipc
    /\ plugin' = "unmapped"
    /\ subclassed' = (subclassed /\ ui.msg # "FINALIZE")
    /\ queue' = Drained(queue)
    /\ core' = 0 /\ gate' = 2 /\ known' = 0
    /\ ui' = IF ui.msg = "DESTROY" THEN [ui EXCEPT !.at = "ncdestroy"]
                                   ELSE Idle
    /\ UNCHANGED <<payloads, running, sent>>
    /\ UNCHANGED <<explorerVars, hostVars>>

\* Everything after TE_IpcServerStop.  The window being destroyed, and the
\* one whose session ends, keeps its subclass.
TakeDown ==
    /\ ui.at = "stop" /\ Joined
    /\ ipc' = IF ipc = "exited" THEN "none" ELSE ipc
    /\ plugin' = "unmapped"
    /\ subclassed' = (subclassed /\ ui.msg # "FINALIZE")
    /\ queue' = Drained(queue)
    /\ payloads' = payloads - (Owning(queue) - Owning(queue'))
    /\ core' = 0 /\ gate' = 2 /\ known' = 0
    /\ ui' = IF ui.msg = "DESTROY" THEN [ui EXCEPT !.at = "ncdestroy"]
                                   ELSE Idle
    /\ UNCHANGED <<running, sent>>
    /\ UNCHANGED <<explorerVars, hostVars>>

\* As BeginDestroy, but no window is the engine's.
BeginDestroyUnheeded ==
    /\ "destroy" \in Disturbances
    /\ ui = Idle /\ window # 0
    /\ ui' = Frame("ncdestroy", "DESTROY")
    /\ UNCHANGED <<queue, core, plugin, payloads, serverVars>>
    /\ UNCHANGED <<explorerVars, hostVars, dllVars>>

\* WM_DESTROY of the engine's window tears the engine down; any other
\* taskbar window just goes.
BeginDestroy ==
    /\ "destroy" \in Disturbances
    /\ ui = Idle /\ window # 0
    /\ IF subclassed /\ core = window
         THEN Stopping(Frame("stop", "DESTROY"))
         ELSE /\ ui' = Frame("ncdestroy", "DESTROY")
              /\ UNCHANGED running
    /\ UNCHANGED <<queue, core, plugin, payloads, ipc, sent>>
    /\ UNCHANGED <<explorerVars, hostVars, dllVars>>

\* WM_NCDESTROY removes the subclass and drains the commands once more.
\* With the window go its posted messages, and whoever sent to it gets an
\* error for an answer.
NcDestroy ==
    /\ ui.at = "ncdestroy"
    /\ payloads' = payloads - (IF subclassed THEN Owning(queue) ELSE 0)
    /\ window' = 0 /\ queue' = <<>> /\ subclassed' = FALSE
    /\ sent' = FALSE
    /\ ipc' = IF ipc = "sending" THEN "exited" ELSE ipc
    /\ ui' = Idle
    /\ UNCHANGED <<created, announced, gate, known, core, plugin, running>>
    /\ UNCHANGED hostVars

\* WM_ENDSESSION, sent by the system.
EndSession ==
    /\ "session" \in Disturbances
    /\ ui = Idle /\ window # 0
    /\ subclassed /\ core = window
    /\ Stopping(Frame("stop", "ENDSESSION"))
    /\ UNCHANGED <<queue, core, plugin, payloads, ipc, sent>>
    /\ UNCHANGED <<explorerVars, hostVars, dllVars>>

\* A plugin callback sends a message of its own (SPI_SETWORKAREA with
\* SPIF_SENDCHANGE) and so lets a sent TE_CMD_SHUTDOWN in.  Its handler asks
\* for the plugin lock, which this thread holds, and never gets it.
NestedShutdown ==
    /\ "pump" \in Disturbances
    /\ ui.at = "switch" /\ sent
    /\ sent' = FALSE
    /\ ui' = [ui EXCEPT !.at = "stuck"]
    /\ UNCHANGED <<queue, core, plugin, payloads, ipc, running>>
    /\ UNCHANGED <<explorerVars, hostVars, dllVars>>
-----------------------------------------------------------------------------
(* The pipe server thread, TE_IpcServerThread, and the watcher's posts.      *)

\* A client is connected and g_ipc.is_running has been looked at.
Accept ==
    /\ ipc = "listening" /\ running
    /\ ipc' = "serving"
    /\ UNCHANGED <<queue, payloads, running, sent>>
    /\ UNCHANGED <<engineVars, explorerVars, hostVars, dllVars>>

\* The loop ends: is_running is FALSE or the stop event is set.
Leave ==
    /\ ipc = "listening" /\ ~running
    /\ ipc' = "exited"
    /\ UNCHANGED <<queue, payloads, running, sent>>
    /\ UNCHANGED <<engineVars, explorerVars, hostVars, dllVars>>

\* ENABLE and DISABLE post a copy of the name, which is freed when the post
\* fails; RELOAD posts no payload.
ServePost(cmd) ==
    /\ ipc = "serving"
    /\ Len(queue) < MaxQueue
    /\ ipc' = "listening"
    /\ IF window # 0
         THEN /\ queue' = Append(queue, cmd)
              /\ payloads' = payloads + (IF cmd \in PayloadCommands THEN 1
                                                                    ELSE 0)
         ELSE UNCHANGED <<queue, payloads>>
    /\ UNCHANGED <<running, sent>>
    /\ UNCHANGED <<engineVars, explorerVars, hostVars, dllVars>>

\* A query is answered, or the client sends no valid message.
ServeOther ==
    /\ ipc = "serving"
    /\ ipc' = "listening"
    /\ UNCHANGED <<queue, payloads, running, sent>>
    /\ UNCHANGED <<engineVars, explorerVars, hostVars, dllVars>>

\* SHUTDOWN: the acknowledgement is written before anything is done.  The
\* client is the host that closes or the GUI (gui_main.cpp).
ServeShutdown ==
    /\ ipc = "serving"
    /\ ipc' = "acked" /\ running' = FALSE
    /\ \/ host = "closing" /\ host' = "sleeping"
       \/ "gui" \in Disturbances /\ UNCHANGED host
    /\ UNCHANGED <<queue, payloads, sent, ui, core, plugin, hooked>>
    /\ UNCHANGED <<explorerVars, dllVars>>

\* SendMessageTimeout to the taskbar, if there still is one.
SendShutdown ==
    /\ ipc = "acked"
    /\ ipc' = IF window # 0 THEN "sending" ELSE "exited"
    /\ sent' = (window # 0)
    /\ UNCHANGED <<queue, payloads, running>>
    /\ UNCHANGED <<engineVars, explorerVars, hostVars, dllVars>>

\* It gives up: the UI thread is waiting for this thread, or is hung.  The
\* message may or may not be withdrawn.
SendTimesOut ==
    /\ ipc = "sending"
    /\ ui.at = "stop" \/ "hang" \in Disturbances
    /\ ipc' = "exited"
    /\ sent' \in {sent, FALSE}
    /\ UNCHANGED <<queue, payloads, running>>
    /\ UNCHANGED <<engineVars, explorerVars, hostVars, dllVars>>

\* The config watcher lives as long as the engine is initialised.
WatcherPosts ==
    /\ "RELOAD" \in Commands
    /\ core # 0 /\ window # 0
    /\ Len(queue) < MaxQueue
    /\ queue' = Append(queue, "RELOAD")
    /\ UNCHANGED <<payloads, serverVars>>
    /\ UNCHANGED <<engineVars, explorerVars, hostVars, dllVars>>
-----------------------------------------------------------------------------
(* The host, and Explorer's own comings and goings.                          *)

\* Nothing of the engine is left running or about to run.
Down ==
    /\ core = 0 /\ ~subclassed
    /\ ipc \in {"none", "exited"} /\ ~sent
    /\ ui = Idle /\ \A i \in 1..Len(queue) : queue[i] # "INIT"

\* InjectHook at start-up and on TaskbarCreated: set the hook (replacing an
\* earlier one) and post WM_NULL to wake it.
Inject ==
    /\ host = "off" \/ (host = "running" /\ announced)
    /\ window # 0 /\ Len(queue) < MaxQueue
    /\ host' = "running" /\ hooked' = TRUE /\ announced' = FALSE
    /\ queue' = Append(queue, "NULL")
    /\ UNCHANGED <<window, created>>
    /\ UNCHANGED <<engineVars, payloads, dllVars, serverVars>>

\* WM_CLOSE: the host asks for SHUTDOWN.  Without "early" it is closed only
\* when the engine is up or has been shut down.
Close ==
    /\ host = "running"
    /\ "early" \in Disturbances \/ ipc # "none" \/ gate = 2
    /\ host' = "closing"
    /\ UNCHANGED <<queue, hooked, explorerVars>>
    /\ UNCHANGED <<engineVars, payloads, dllVars, serverVars>>

\* No server answers and the retries run out.
GiveUp ==
    /\ host = "closing"
    /\ ipc \notin {"listening", "serving"}
    /\ host' = "sleeping"
    /\ UNCHANGED <<queue, hooked, explorerVars>>
    /\ UNCHANGED <<engineVars, payloads, dllVars, serverVars>>

\* Sleep(200), UnhookWindowsHookEx, and EngineDLL leaves Explorer with its
\* statics.  Nothing makes the host wait for the teardown; it is an
\* assumption of the runs without "short" that the sleep outlasts it.
Unhook ==
    /\ host = "sleeping"
    /\ "short" \in Disturbances \/ Down
    /\ host' = "off" /\ hooked' = FALSE
    /\ gate' = 0 /\ known' = 0
    /\ UNCHANGED <<queue, subclassed, explorerVars>>
    /\ UNCHANGED <<engineVars, payloads, serverVars>>

\* Explorer creates a taskbar and broadcasts TaskbarCreated.
CreateTaskbar ==
    /\ ui = Idle /\ window = 0 /\ created < MaxWindows
    /\ window' = created + 1 /\ created' = created + 1
    /\ announced' = (host \in {"running", "closing", "sleeping"})
    /\ UNCHANGED <<queue, hostVars>>
    /\ UNCHANGED <<engineVars, payloads, dllVars, serverVars>>

\* explorer.exe dies with everything in it; the hook dies with its thread.
Crash ==
    /\ "crash" \in Disturbances
    /\ window' = 0 /\ queue' = <<>> /\ ui' = Idle
    /\ gate' = 0 /\ known' = 0 /\ subclassed' = FALSE
    /\ core' = 0 /\ plugin' = "unmapped"
    /\ ipc' = "none" /\ running' = FALSE /\ sent' = FALSE
    /\ payloads' = 0
    /\ hooked' = FALSE
    /\ UNCHANGED <<created, announced, host>>
-----------------------------------------------------------------------------
UiStep ==
    \/ Retrieve \/ Ignore
    \/ HandleInit \/ BeginCommand \/ EndCommand
    \/ BeginShutdown \/ EndShutdown
    \/ HandleFinalize \/ TakeDown \/ NcDestroy

ServerStep ==
    \/ Leave \/ ServeOther \/ ServeShutdown \/ SendShutdown \/ SendTimesOut
    \/ \E cmd \in Commands : ServePost(cmd)

Environment ==
    \/ \E isNull \in BOOLEAN : OtherMessage(isNull)
    \/ BeginDestroy \/ EndSession \/ NestedShutdown
    \/ Accept \/ WatcherPosts
    \/ Close \/ CreateTaskbar \/ Crash

HostStep == Inject \/ GiveUp \/ Unhook

Next == UiStep \/ ServerStep \/ HostStep \/ Environment

Spec == Init /\ [][Next]_vars

\* The UI thread keeps pumping, the server thread keeps running, and a host
\* that is asked to inject does.
FairSpec == Spec /\ WF_vars(UiStep) /\ WF_vars(ServerStep) /\ WF_vars(Inject)
-----------------------------------------------------------------------------
(* What must hold.                                                           *)

\* Every name allocated for a command is owned by exactly one message, in
\* the queue or in the handler's hands: none leaks, none is freed twice.
PayloadsOwned ==
    payloads = Owning(queue)
               + (IF ui.at \in {"dispatch", "switch", "stuck"}
                     /\ ui.msg \in PayloadCommands THEN 1 ELSE 0)

\* While the engine is initialised its window is alive and subclassed, and
\* the hook's gate is closed on that very window: no other party can find
\* the gate open and initialise a second time.
EngineOnOneWindow ==
    core # 0 => core = window /\ known = core /\ gate = 1 /\ subclassed

\* Once the plugins are unmapped no server thread serves: none of its
\* requests (they read the plugin table) can still be under way.
NoServerAfterUnmap ==
    plugin = "unmapped" => ipc \notin {"listening", "serving", "acked"}

\* WM_TE_SHUTDOWN_FINALIZE frees the plugins with no plugin frame below it.
FramesUnrollFirst ==
    (ui.at = "stop" /\ ui.msg = "FINALIZE") => ~ui.through

\* EngineDLL leaves Explorer only when the engine is down: not initialised,
\* off the taskbar and without a thread.
UninjectedOnlyWhenDown ==
    ~hooked => /\ core = 0 /\ ~subclassed
               /\ ipc \notin {"listening", "serving", "acked", "sending"}

\* The UI thread is never blocked for good by a command.
PumpNeverStuck == ui.at # "stuck"

\* An acknowledged SHUTDOWN reaches the UI thread, unless SendMessageTimeout
\* gives up on it, and one that the UI thread begins takes the engine down.
ShutdownCompletes ==
    /\ (ipc = "acked") ~> (core = 0 \/ ui.msg = "SHUTDOWN" \/ (ipc = "exited" /\ ~sent))
    /\ (ui.msg = "SHUTDOWN") ~> (core = 0)

\* A taskbar that is announced or injected into gets its engine, unless it
\* goes, the host goes, or the UI thread blocks itself.
EngineComesUp ==
    \A w \in 1..MaxWindows :
        (host = "running" /\ window = w /\ (announced \/ \E i \in 1..Len(queue) : queue[i] = "NULL"))
            ~> (core = w \/ window # w \/ host # "running" \/ ui.at = "stuck")
=============================================================================
