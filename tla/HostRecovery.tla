---------------------------- MODULE HostRecovery ----------------------------
(***************************************************************************)
(* The tray host: it keeps a hook on the thread of Explorer's taskbar      *)
(* while Explorers come and go, and leaves no hook behind.                 *)
(*                                                                         *)
(* There are two hosts, of which a mutex lets one run: TaskbarEngine       *)
(* (main.c, tray.c, crash_recovery.c) and TaskbarEngineHost, the C++       *)
(* variant, which has no monitor threads. Both inject again when a new     *)
(* taskbar announces itself with TaskbarCreated. In the first, every       *)
(* injection also starts a monitor thread that waits for the end of        *)
(* Explorer's thread, looks for the next taskbar and hooks it too.         *)
(*                                                                         *)
(* Explorers are numbered; a hook is a record of the Explorer whose thread *)
(* it is on and of a number that no other hook or handle has.              *)
(***************************************************************************)
EXTENDS Naturals

CONSTANTS MaxShells,     \* bound on the Explorers that are started
          MaxRepeats     \* bound on TaskbarCreated without a new taskbar

ASSUME BoundsAssumption == MaxShells \in Nat \ {0} /\ MaxRepeats \in Nat

\* Each announcement starts at most one monitor, and for each Explorer a monitor
\* sets at most one hook: these many threads and handles are enough.
MaxMonitors == MaxShells + MaxRepeats
Shells      == 1..MaxShells
Monitors    == 1..MaxMonitors
Numbers     == 1..(MaxMonitors * MaxShells + 3)
Everything  == 0                                   \* thread id 0: every thread
None        == [shell |-> 0, number |-> 0]         \* a NULL handle
Hooks       == [shell: Shells \cup {Everything}, number: Numbers]

VARIABLES host,      \* which of the two programs runs
          shell,     \* the newest Explorer and whether it has a taskbar
          main,      \* the host's main thread; target: the taskbar it found
          hook,      \* g_hook
          recovered, \* g_recovered_hook
          hooks,     \* the hooks that are installed
          monitor,   \* the monitor threads; target: the Explorer each looks at
          last,      \* g_monitor_thread: the thread started last, or 0
          stop,      \* g_stop_monitor
          tray,      \* created: g_tray_created; on: the Explorer that shows the icon
          past       \* the counters behind the bounds; created: unread messages

vars == <<host, shell, main, hook, recovered, hooks, monitor, last, stop, tray, past>>

HasMonitors == host = "TaskbarEngine"

TypeOK ==
    /\ host \in {"TaskbarEngine", "TaskbarEngineHost"}
    /\ shell \in [number: Shells, up: BOOLEAN]
    /\ main \in [pc: {"start", "find", "thread", "set", "loop", "closing", "join", "unhook",
                      "leaving", "gone"},
                 target: 0..MaxShells, first: BOOLEAN]
    /\ hook \in [shell: Shells, number: Numbers] \cup {None}
    /\ recovered \in Hooks \cup {None}
    /\ hooks \subseteq Hooks
    /\ monitor \in [Monitors -> [pc: {"none", "look", "wait", "sleep", "find", "thread",
                                      "unhook", "set", "pause", "done"},
                                 target: 0..MaxShells]]
    /\ last \in 0..MaxMonitors
    /\ stop \in BOOLEAN
    /\ tray \in [created: BOOLEAN, on: 0..MaxShells]
    /\ past \in [created: 0..MaxMonitors, repeats: 0..MaxRepeats,
                 monitors: 0..MaxMonitors]

Alive(s) == shell.up /\ s = shell.number

\* GetWindowThreadProcessId: 0 when the window has gone.
ThreadOf(s) == IF Alive(s) THEN s ELSE 0

\* SetWindowsHookEx succeeds on a thread that lives, and hooks every thread when
\* it is given none.
FreeNumber   == CHOOSE n \in Numbers : \A h \in hooks \cup {hook, recovered} : h.number # n
HookOf(s)    == IF s = Everything \/ Alive(s)
                THEN [shell |-> s, number |-> FreeNumber] ELSE None
Installed(h) == hooks \cup ({h} \ {None})

(***************************************************************************)
(* Explorer. Its end takes the hooks on its thread and the tray icon with  *)
(* it. A new taskbar is announced to all top-level windows; Windows also   *)
(* repeats the announcement when the display changes.                      *)
(***************************************************************************)
ShellEnds ==
    /\ shell.up
    /\ shell' = [shell EXCEPT !.up = FALSE]
    /\ hooks' = {h \in hooks : h.shell # shell.number}
    /\ tray' = [tray EXCEPT !.on = 0]
    /\ UNCHANGED <<host, main, hook, recovered, monitor, last, stop, past>>

ShellStarts ==
    /\ ~shell.up /\ shell.number < MaxShells
    /\ shell' = [number |-> shell.number + 1, up |-> TRUE]
    /\ past' = [past EXCEPT !.created = @ + 1]
    /\ UNCHANGED <<host, main, hook, recovered, hooks, monitor, last, stop, tray>>

ShellRepeats ==
    /\ shell.up /\ past.repeats < MaxRepeats
    /\ past' = [past EXCEPT !.created = @ + 1, !.repeats = @ + 1]
    /\ UNCHANGED <<host, shell, main, hook, recovered, hooks, monitor, last, stop, tray>>

(***************************************************************************)
(* The tray icon. TE_TrayCreate of main.c does nothing the second time;    *)
(* SetupTrayIcon of the C++ host adds the icon every time.                 *)
(***************************************************************************)
ShownBy == IF shell.up THEN shell.number ELSE 0

TrayCreated ==
    tray' = IF HasMonitors /\ tray.created THEN tray
            ELSE [created |-> TRUE, on |-> ShownBy]

(***************************************************************************)
(* Injection by the main thread, at the start and on every announcement:   *)
(* take out the hook of before, look for a taskbar for two seconds, set a  *)
(* hook on its thread and start a monitor.                                 *)
(***************************************************************************)
StartsInjection ==
    /\ TrayCreated
    /\ hooks' = hooks \ {hook}
    /\ hook' = None

Start ==
    /\ main.pc = "start"
    /\ StartsInjection
    /\ main' = [main EXCEPT !.pc = "find"]
    /\ UNCHANGED <<host, shell, recovered, monitor, last, stop, past>>

\* Mutant: a handle that is not NULL is taken for a hook that is in place.
TaskbarCreatedIfUnhooked ==
    /\ main.pc = "loop" /\ past.created > 0
    /\ IF hook = None
       THEN StartsInjection /\ main' = [main EXCEPT !.pc = "find"]
       ELSE TrayCreated /\ UNCHANGED <<hook, hooks, main>>
    /\ past' = [past EXCEPT !.created = @ - 1]
    /\ UNCHANGED <<host, shell, recovered, monitor, last, stop>>

TaskbarCreated ==
    /\ main.pc = "loop" /\ past.created > 0
    /\ StartsInjection
    /\ past' = [past EXCEPT !.created = @ - 1]
    /\ main' = [main EXCEPT !.pc = "find"]
    /\ UNCHANGED <<host, shell, recovered, monitor, last, stop>>

\* A first injection that fails ends TaskbarEngine; any other failure is ignored.
AfterInjection(ok) ==
    main' = [pc |-> IF ~ok /\ main.first /\ HasMonitors THEN "closing" ELSE "loop",
             target |-> 0, first |-> FALSE]

FindTaskbar ==
    /\ main.pc = "find"
    /\ IF shell.up THEN main' = [main EXCEPT !.pc = "thread", !.target = shell.number]
                   ELSE AfterInjection(FALSE)
    /\ UNCHANGED <<host, shell, hook, recovered, hooks, monitor, last, stop, tray, past>>

\* Mutant: the thread id is not looked at before it is used.
FindThreadUnchecked ==
    /\ main.pc = "thread"
    /\ main' = [main EXCEPT !.pc = "set", !.target = ThreadOf(@)]
    /\ UNCHANGED <<host, shell, hook, recovered, hooks, monitor, last, stop, tray, past>>

FindThread ==
    /\ main.pc = "thread"
    /\ IF ThreadOf(main.target) = 0 THEN AfterInjection(FALSE)
                                    ELSE main' = [main EXCEPT !.pc = "set"]
    /\ UNCHANGED <<host, shell, hook, recovered, hooks, monitor, last, stop, tray, past>>

\* TE_CrashRecoveryStart: the handle of the thread of before is overwritten.
SetHook ==
    /\ main.pc = "set"
    /\ LET h == HookOf(main.target)
           m == past.monitors + 1
           starts == h # None /\ HasMonitors
       IN  /\ hook' = h /\ hooks' = Installed(h)
           /\ AfterInjection(h # None)
           /\ monitor' = IF starts THEN [monitor EXCEPT ![m].pc = "look"] ELSE monitor
           /\ last' = IF starts THEN m ELSE last
           /\ stop' = IF starts THEN FALSE ELSE stop
           /\ past' = [past EXCEPT !.monitors = IF starts THEN m ELSE @]
    /\ UNCHANGED <<host, shell, recovered, tray>>

(***************************************************************************)
(* A monitor thread.                                                       *)
(***************************************************************************)
Goes(m, pc, target) == monitor' = [monitor EXCEPT ![m] = [pc |-> pc, target |-> target]]
At(m, pc)           == monitor[m].pc = pc /\ main.pc # "gone"

LookForShell(m) ==
    /\ At(m, "look")
    /\ IF shell.up THEN Goes(m, "wait", shell.number) ELSE Goes(m, "pause", 0)
    /\ UNCHANGED <<recovered, hooks>>

\* Mutant: it waits for the end of Explorer without a limit.
WaitForShellOnly(m) ==
    /\ At(m, "wait")
    /\ ~Alive(monitor[m].target) /\ Goes(m, IF stop THEN "pause" ELSE "sleep", 0)
    /\ UNCHANGED <<recovered, hooks>>

\* It wakes every 500 ms to see whether it should stop.
WaitForShell(m) ==
    /\ At(m, "wait")
    /\ \/ stop /\ Goes(m, "pause", 0)
       \/ ~stop /\ ~Alive(monitor[m].target) /\ Goes(m, "sleep", 0)
    /\ UNCHANGED <<recovered, hooks>>

\* Two seconds later it looks for five seconds; it does not look at stop, nor at
\* whether the taskbar it found still has a thread.
FindNewShell(m) ==
    /\ \/ At(m, "sleep") /\ Goes(m, "find", 0)
       \/ At(m, "find") /\ shell.up  /\ Goes(m, "thread", shell.number)
       \/ At(m, "find") /\ ~shell.up /\ Goes(m, "pause", 0)
       \/ At(m, "thread") /\ Goes(m, "unhook", ThreadOf(monitor[m].target))
    /\ UNCHANGED <<recovered, hooks>>

UnhookRecovered(m) ==
    /\ At(m, "unhook")
    /\ hooks' = hooks \ {recovered}
    /\ recovered' = None
    /\ Goes(m, "set", monitor[m].target)

HookNewShell(m) ==
    /\ At(m, "set")
    /\ LET h == HookOf(monitor[m].target)
       IN  recovered' = h /\ hooks' = Installed(h)
    /\ Goes(m, "pause", 0)

Pause(m) ==
    /\ At(m, "pause")
    /\ Goes(m, IF stop THEN "done" ELSE "look", 0)
    /\ UNCHANGED <<recovered, hooks>>

MonitorStep(m) ==
    /\ \/ LookForShell(m) \/ WaitForShell(m) \/ FindNewShell(m)
       \/ UnhookRecovered(m) \/ HookNewShell(m) \/ Pause(m)
    /\ UNCHANGED <<host, shell, main, hook, last, stop, tray, past>>

(***************************************************************************)
(* The end of the host: the exit event, the menu, or a failed first        *)
(* injection. It sends SHUTDOWN, waits for the monitor started last,       *)
(* removes the hooks it knows of, and ends; the end of the process takes   *)
(* every other thread and hook with it.                                    *)
(***************************************************************************)
Close ==
    /\ main.pc = "loop"
    /\ main' = [main EXCEPT !.pc = "closing"]
    /\ UNCHANGED <<host, shell, hook, recovered, hooks, monitor, last, stop, tray, past>>

StopMonitor ==
    /\ main.pc = "closing"
    /\ main' = [main EXCEPT !.pc = "join"]
    /\ stop' = (stop \/ last # 0)
    /\ UNCHANGED <<host, shell, hook, recovered, hooks, monitor, last, tray, past>>

MonitorJoined ==
    /\ main.pc = "join"
    /\ last # 0 => monitor[last].pc = "done"
    /\ last' = 0
    /\ hooks' = hooks \ {recovered}
    /\ recovered' = None
    /\ main' = [main EXCEPT !.pc = "unhook"]
    /\ UNCHANGED <<host, shell, hook, monitor, stop, tray, past>>

Uninject ==
    /\ main.pc = "unhook"
    /\ hooks' = hooks \ {hook}
    /\ hook' = None
    /\ tray' = [created |-> FALSE, on |-> 0]
    /\ main' = [main EXCEPT !.pc = "leaving"]
    /\ UNCHANGED <<host, shell, recovered, monitor, last, stop, past>>

ProcessEnds ==
    /\ main.pc = "leaving"
    /\ hooks' = {}
    /\ main' = [main EXCEPT !.pc = "gone"]
    /\ UNCHANGED <<host, shell, hook, recovered, monitor, last, stop, tray, past>>

-----------------------------------------------------------------------------
\* The host is started with or without a taskbar.
Init ==
    /\ host \in {"TaskbarEngine", "TaskbarEngineHost"}
    /\ shell \in [number: {1}, up: BOOLEAN]
    /\ main = [pc |-> "start", target |-> 0, first |-> TRUE]
    /\ hook = None /\ recovered = None /\ hooks = {}
    /\ monitor = [m \in Monitors |-> [pc |-> "none", target |-> 0]]
    /\ last = 0 /\ stop = FALSE
    /\ tray = [created |-> FALSE, on |-> 0]
    /\ past = [created |-> 0, repeats |-> 0, monitors |-> 0]

InjectStep == Start \/ TaskbarCreated \/ FindTaskbar \/ FindThread \/ SetHook
Ending    == StopMonitor \/ MonitorJoined \/ Uninject \/ ProcessEnds
Shell     == main.pc # "gone" /\ (ShellEnds \/ ShellStarts \/ ShellRepeats)

Next ==
    \/ Shell \/ InjectStep \/ Close \/ Ending
    \/ \E m \in Monitors : MonitorStep(m)

\* The threads of the host run; Explorer and the user owe nothing.
FairSpec ==
    /\ Init /\ [][Next]_vars
    /\ WF_vars(InjectStep) /\ WF_vars(Ending)
    /\ \A m \in Monitors : WF_vars(MonitorStep(m))

-----------------------------------------------------------------------------
\* A host that runs has the Explorer that runs hooked in the end: once Explorer
\* stays up and nobody closes the host, some hook is on its thread for good,
\* however long Explorer was away, whichever of the threads saw it first, and
\* although every injection begins by taking a hook out.
HookedInTheEnd ==
    <>[](shell.up /\ main.pc \notin {"closing", "join", "unhook", "leaving", "gone"})
    => <>[](\E h \in hooks : h.shell = shell.number)

\* Closing ends. The main thread waits without limit for a monitor that may be
\* waiting for Explorer, asleep or setting a hook; it sees stop in time.
StopEnds == main.pc = "closing" ~> main.pc = "gone"

\* main.c:41 says it restores the tray icon when the taskbar was created anew:
\* when every announcement is handled, the icon is on the taskbar that is there.
TrayRestored ==
    main.pc = "loop" /\ past.created = 0 /\ shell.up => tray.on = shell.number

=============================================================================
