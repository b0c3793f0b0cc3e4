--------------------------- MODULE TaskbarTracking ---------------------------
(***************************************************************************)
(* The taskbar windows of Explorer that the engine subclasses and tracks   *)
(* (taskbar_subclass.c): how a display change, a device change and the     *)
(* debounce timer find them, how a teardown lets go of them, and how the   *)
(* mouse is followed over them, by the messages the hook posts and by the  *)
(* 32 ms timer of each window, until icon_hover hears of it.               *)
(*                                                                         *)
(* All of it runs on the UI thread of Explorer.  A handler is one step,    *)
(* except where it lets display and device changes in, which are sent:     *)
(* between WM_DESTROY and WM_NCDESTROY, and while a teardown disables the  *)
(* plugins.  A place of the cursor is the number of the move that led      *)
(* there.                                                                  *)
(***************************************************************************)
EXTENDS Naturals, FiniteSets

CONSTANTS Primary,      \* Shell_TrayWnd
          Secondaries,  \* the windows of class Shell_SecondaryTrayWnd
          Nowhere,      \* no taskbar
          MaxTracked,   \* TE_MAX_TRACKED_TASKBARS
          MaxMoves,     \* bound: moves of the cursor
          MaxChanges,   \* bound: what happens to windows and displays
          Nested        \* may sent messages come in while plugins are disabled?

ASSUME TaskbarTrackingAssumption ==
  /\ Primary \notin Secondaries /\ Nowhere \notin Secondaries \cup {Primary}
  /\ IsFiniteSet(Secondaries)
  /\ MaxTracked \in Nat \ {0} /\ MaxMoves \in Nat /\ MaxChanges \in Nat
  /\ Nested \in BOOLEAN

VARIABLES win,         \* the windows as Windows sees them
          subclassed,  \* windows with TE_TaskbarSubclassProc
          tracked,     \* s_tracked_taskbars: an entry for each tracked window
          timer,       \* windows whose timer 1001 runs
          debounce,    \* s_display_debounce_timer is set
          engine,      \* where the engine is in its life, what its teardown keeps;
                       \* history: session, found
          cursor,      \* where the cursor is
          posted,      \* per window: the place in a posted WM_TE_TASKBAR_MOUSEMOVE
          told,        \* what icon_hover has been told
          changes      \* how many changes there were

vars == <<win, subclassed, tracked, timer, debounce, engine, cursor, posted, told, changes>>
mouseVars == <<cursor, posted, told>>

Windows == Secondaries \cup {Primary}
Places == 0 .. MaxMoves      \* 0: none
Entry == [last: Places, was: BOOLEAN, active: BOOLEAN]
Fresh == [last |-> 0, was |-> FALSE, active |-> FALSE]
Tracked == DOMAIN tracked
Exists(w) == win[w] # "gone"     \* IsWindow
Nothing == [hover |-> Nowhere, place |-> [w \in Windows |-> 0]]

\* Types; and the table has room for what it names, and names only windows that exist and
\* are the engine's: a handle that is gone may be somebody else's by now.
TypeOK ==
  /\ win \in [Windows -> {"gone", "there", "dying"}]
  /\ subclassed \subseteq Windows
  /\ Tracked \subseteq {w \in subclassed : Exists(w)} /\ Cardinality(Tracked) <= MaxTracked
  /\ tracked \in [Tracked -> Entry]
  /\ timer \subseteq Windows
  /\ debounce \in BOOLEAN
  /\ engine \in [phase: {"down", "init", "lost", "up", "stopping", "closing"},
                 plugins: BOOLEAN, keep: Windows \cup {Nowhere}, session: BOOLEAN,
                 found: BOOLEAN]
  /\ cursor \in [on: Windows \cup {Nowhere}, place: Places, new: BOOLEAN]
  /\ posted \in [Windows -> Places]
  /\ told \in [hover: Windows \cup {Nowhere}, place: [Windows -> Places]]
  /\ changes \in 0 .. MaxChanges

Init ==
  /\ win \in [Windows -> {"gone", "there"}] /\ win[Primary] = "there"
  /\ subclassed = {} /\ tracked = [w \in {} |-> Fresh] /\ timer = {} /\ debounce = FALSE
  /\ engine = [phase |-> "down", plugins |-> FALSE, keep |-> Nowhere, session |-> FALSE,
               found |-> FALSE]
  /\ cursor = [on |-> Nowhere, place |-> 0, new |-> FALSE]
  /\ posted = [w \in Windows |-> 0]
  /\ told = Nothing
  /\ changes = 0

Initialized == engine.phase \in {"up", "stopping", "closing"}
\* The UI thread retrieves posted messages and timers only when no handler waits.
Free == engine.phase # "closing" /\ \A w \in Windows : win[w] # "dying"
\* Posted messages come in their order, before input; timers come when there is neither.
Idle == Free /\ ~cursor.new /\ \A w \in Windows : posted[w] = 0
NextPosted(w) == Free /\ posted[w] # 0 /\ \A v \in Windows : posted[v] # 0 => posted[w] <= posted[v]
Change == changes < MaxChanges /\ changes' = changes + 1

----------------------------------------------------------------------------
(* TE_TaskbarTrackAll, TE_TaskbarUntrackAllExcept *)

Without(ws) == [w \in Tracked \ ws |-> tracked[w]]

\* Windows that are gone leave the table, the primary taskbar comes first, the others while
\* there is room.  The primary is subclassed even when there is none.
TE_TaskbarTrackAll ==
  LET alive == {w \in Tracked : Exists(w)}
      room == MaxTracked - Cardinality(alive)
      first == {w \in {Primary} : Exists(w) /\ w \notin alive}
      others == {w \in Secondaries : Exists(w) /\ w \notin alive}
  IN \E new \in SUBSET (first \cup others) :
       /\ Cardinality(new) <= room
       /\ first \subseteq new \/ room = 0
       /\ others \subseteq new \/ Cardinality(new) = room
       /\ tracked' = [w \in alive \cup new |-> IF w \in alive THEN tracked[w] ELSE Fresh]
       /\ subclassed' = subclassed \cup first \cup new

\* What both forms do: the windows in the table lose their timer and their subclass.
LetGo(except) ==
  LET alive == {w \in Tracked : Exists(w)}
  IN /\ timer' = timer \ alive
     /\ subclassed' = subclassed \ (alive \ {except})
     /\ tracked' = [w \in alive \cap {except} |-> [tracked[w] EXCEPT !.active = FALSE]]

\* Mutant: the debounce timer is left running.
UntrackKeepsTimer(except) == LetGo(except) /\ UNCHANGED debounce

TE_TaskbarUntrackAllExcept(except) == LetGo(except) /\ debounce' = FALSE

----------------------------------------------------------------------------
(* The life of the engine *)

\* The hook finds the gate open: it subclasses the taskbar and posts WM_TE_INIT.
HookInstalls ==
  /\ engine.phase \in {"down", "lost"} /\ win[Primary] = "there" /\ Free /\ Change
  /\ subclassed' = subclassed \cup {Primary}
  /\ engine' = [engine EXCEPT !.phase = "init"]
  /\ UNCHANGED <<win, tracked, timer, debounce, mouseVars>>

WM_TE_INIT ==
  /\ engine.phase = "init" /\ Free
  /\ engine' = [engine EXCEPT !.phase = "up", !.plugins = TRUE, !.keep = Nowhere]
  /\ TE_TaskbarTrackAll
  /\ UNCHANGED <<win, timer, debounce, mouseVars, changes>>

\* TE_CMD_SHUTDOWN: the timer of the window is killed, the plugins are disabled and
\* WM_TE_SHUTDOWN_FINALIZE is posted.
TE_CMD_SHUTDOWN ==
  /\ engine.phase = "up" /\ Free
  /\ timer' = timer \ {Primary}
  /\ engine' = [engine EXCEPT !.phase = "stopping", !.plugins = FALSE]
  /\ told' = Nothing
  /\ UNCHANGED <<win, subclassed, tracked, debounce, cursor, posted, changes>>

\* A command that was posted before the finalization enables a plugin again.
EnableAgain ==
  /\ engine.phase = "stopping" /\ ~engine.plugins /\ Free /\ Change
  /\ engine' = [engine EXCEPT !.plugins = TRUE]
  /\ UNCHANGED <<win, subclassed, tracked, timer, debounce, mouseVars>>

\* TE_CoreManagerShutdownExcept, up to TE_PluginLoaderDisableAll.
BeginShutdown(except, ends) ==
  /\ TE_TaskbarUntrackAllExcept(except)
  /\ engine' = [engine EXCEPT !.phase = "closing", !.keep = except, !.session = @ \/ ends,
                              !.found = FALSE]

WM_TE_SHUTDOWN_FINALIZE ==
  /\ engine.phase = "stopping" /\ Free
  /\ BeginShutdown(Nowhere, FALSE)
  /\ UNCHANGED <<win, mouseVars, changes>>

\* The rest of TE_CoreManagerShutdownExcept.
EndShutdown ==
  /\ engine.phase = "closing"
  /\ subclassed' = subclassed \ ({Primary} \ {engine.keep})
  /\ engine' = [engine EXCEPT !.phase = "down", !.plugins = FALSE, !.keep = Nowhere]
  /\ told' = Nothing
  /\ UNCHANGED <<win, tracked, timer, debounce, cursor, posted, changes>>

\* The session ends.  Only the primary taskbar shuts the engine down.
WM_ENDSESSION(w) ==
  /\ w \in subclassed /\ win[w] = "there" /\ Free /\ Change
  /\ IF w = Primary /\ Initialized
       THEN BeginShutdown(w, TRUE)
       ELSE /\ timer' = timer \ {w}
            /\ engine' = [engine EXCEPT !.session = TRUE]
            /\ UNCHANGED <<subclassed, tracked, debounce>>
  /\ UNCHANGED <<win, mouseVars>>

----------------------------------------------------------------------------
(* Windows and displays *)

\* Explorer adds a taskbar.  A new window has a new handle: its name is not used again while
\* icon_hover holds it.
Create(w) ==
  /\ win[w] = "gone" /\ told.hover # w /\ Change
  /\ win' = [win EXCEPT ![w] = "there"]
  /\ UNCHANGED <<subclassed, tracked, timer, debounce, engine, mouseVars>>

WM_DESTROY(w) ==
  /\ win[w] = "there" /\ Free /\ Change
  /\ win' = [win EXCEPT ![w] = "dying"]
  /\ IF w \notin subclassed
       THEN UNCHANGED <<subclassed, tracked, timer, debounce, engine>>
     ELSE IF w = Primary /\ Initialized
       THEN BeginShutdown(w, FALSE)
       ELSE /\ tracked' = Without({w}) /\ timer' = timer \ {w}
            /\ UNCHANGED <<subclassed, debounce, engine>>
  /\ UNCHANGED mouseVars

\* The window goes, and with it what was posted to it, WM_TE_INIT included.
Goes(w) ==
  /\ win[w] = "dying" /\ engine.phase # "closing"
  /\ win' = [win EXCEPT ![w] = "gone"]
  /\ subclassed' = subclassed \ {w}
  /\ timer' = timer \ {w}
  /\ posted' = [posted EXCEPT ![w] = 0]
  /\ engine' = IF w = Primary /\ engine.phase = "init" THEN [engine EXCEPT !.phase = "lost"]
               ELSE engine
  /\ cursor' = IF cursor.on = w THEN [cursor EXCEPT !.on = Nowhere, !.new = FALSE] ELSE cursor
  /\ UNCHANGED <<debounce, told, changes>>

\* Mutant: WM_DESTROY is trusted to have taken the window out of the table.
NcDestroyTrusts(w) == Goes(w) /\ UNCHANGED tracked

WM_NCDESTROY(w) ==
  /\ Goes(w)
  /\ tracked' = IF w \in subclassed THEN Without({w}) ELSE tracked

\* A sent message gets through while the thread is free and while a taskbar is being
\* destroyed, the primary one after its teardown too; with Nested also while plugins are
\* disabled, when taskbar_resize broadcasts the work area.
LetsIn == engine.phase = "closing" => Nested /\ engine.plugins

WM_DISPLAYCHANGE ==
  /\ LetsIn /\ Primary \in subclassed /\ Initialized /\ Change
  /\ TE_TaskbarTrackAll
  /\ debounce' = TRUE
  /\ UNCHANGED <<win, timer, engine, mouseVars>>

\* Sent to any subclassed window; nobody asks whether the engine is initialised.  A primary
\* taskbar that has torn the engine down keeps its subclass until WM_NCDESTROY, so that it
\* still finds the others.
WM_DEVICECHANGE ==
  /\ LetsIn /\ (\E w \in subclassed : Exists(w)) /\ Change
  /\ TE_TaskbarTrackAll
  /\ engine' = [engine EXCEPT !.found = @ \/ (engine.phase = "down" /\ win[Primary] = "dying")]
  /\ UNCHANGED <<win, timer, debounce, mouseVars>>

DisplayChangeDebounceProc ==
  /\ debounce /\ Idle
  /\ debounce' = FALSE
  /\ IF Initialized THEN TE_TaskbarTrackAll ELSE UNCHANGED <<tracked, subclassed>>
  /\ UNCHANGED <<win, timer, engine, mouseVars, changes>>

----------------------------------------------------------------------------
(* The mouse *)

CursorMoves(to) ==
  /\ cursor.place < MaxMoves
  /\ to # Nowhere => win[to] = "there"
  /\ cursor' = [on |-> to, place |-> cursor.place + 1, new |-> to # Nowhere]
  /\ UNCHANGED <<win, subclassed, tracked, timer, debounce, engine, posted, told, changes>>

\* TE_TaskbarEnsureTimer, where guard says that it is called.
EnsureTimer(w, guard) ==
  LET starts == guard /\ w \in Tracked /\ ~tracked[w].active
  IN /\ tracked' = IF starts THEN [tracked EXCEPT ![w].active = TRUE] ELSE tracked
     /\ timer' = IF starts THEN timer \cup {w} ELSE timer

\* The UI thread retrieves WM_MOUSEMOVE, of the taskbar itself or of a child.  The hook
\* replaces the message it posted before; the subclass sees only the taskbar's own.
WM_MOUSEMOVE ==
  /\ cursor.new /\ Free /\ \A w \in Windows : posted[w] = 0
  /\ cursor' = [cursor EXCEPT !.new = FALSE]
  /\ posted' = IF engine.phase # "down" /\ (cursor.on \in Tracked \/ cursor.on = Primary)
               THEN [posted EXCEPT ![cursor.on] = cursor.place] ELSE posted
  /\ \E own \in BOOLEAN : EnsureTimer(cursor.on, own /\ cursor.on \in subclassed)
  /\ UNCHANGED <<win, subclassed, debounce, engine, told, changes>>

\* TE_EVENT_TASKBAR_MOUSE as OnTaskbarMouse takes it: a leave is one of all taskbars.
Fires(w, in, place) ==
  told' = IF ~engine.plugins THEN told
          ELSE [hover |-> IF in THEN w ELSE Nowhere,
                place |-> IF in THEN [told.place EXCEPT ![w] = place] ELSE told.place]

\* Mutant: the timer is left to WM_MOUSEMOVE.
PostedWithoutTimer(w) ==
  /\ NextPosted(w) /\ ~(w = Primary /\ engine.phase = "init")
  /\ posted' = [posted EXCEPT ![w] = 0]
  /\ IF w \in subclassed /\ Initialized THEN Fires(w, TRUE, posted[w]) ELSE UNCHANGED told
  /\ UNCHANGED <<tracked, timer, win, subclassed, debounce, engine, cursor, changes>>

\* WM_TE_INIT was posted before.
WM_TE_TASKBAR_MOUSEMOVE(w) ==
  /\ NextPosted(w) /\ ~(w = Primary /\ engine.phase = "init")
  /\ posted' = [posted EXCEPT ![w] = 0]
  /\ IF w \in subclassed /\ Initialized
       THEN EnsureTimer(w, TRUE) /\ Fires(w, TRUE, posted[w])
       ELSE UNCHANGED <<tracked, timer, told>>
  /\ UNCHANGED <<win, subclassed, debounce, engine, cursor, changes>>

\* WM_TIMER 1001: the first tick off the taskbar tells, the second tells again and ends.
WM_TIMER(w) ==
  /\ w \in timer /\ w \in subclassed /\ Idle
  /\ LET in == cursor.on = w
         seen == w \in Tracked
     IN IF ~Initialized
          THEN /\ timer' = timer \ {w}
               /\ tracked' = IF seen THEN [tracked EXCEPT ![w].active = FALSE] ELSE tracked
               /\ UNCHANGED told
        ELSE IF seen /\ (in \/ tracked[w].was)
          THEN /\ tracked' = [tracked EXCEPT ![w].last = cursor.place, ![w].was = in]
               /\ IF tracked[w].last # cursor.place \/ tracked[w].was # in
                    THEN Fires(w, in, cursor.place) ELSE UNCHANGED told
               /\ UNCHANGED timer
        ELSE IF seen
          THEN /\ tracked' = [tracked EXCEPT ![w].active = FALSE]
               /\ timer' = timer \ {w}
               /\ Fires(w, FALSE, cursor.place)
        ELSE UNCHANGED <<tracked, timer, told>>
  /\ UNCHANGED <<win, subclassed, debounce, engine, cursor, posted, changes>>

----------------------------------------------------------------------------
UiThread(w) == WM_TIMER(w) \/ WM_TE_TASKBAR_MOUSEMOVE(w) \/ WM_NCDESTROY(w)

Next ==
  \/ HookInstalls \/ WM_TE_INIT \/ TE_CMD_SHUTDOWN \/ EnableAgain
  \/ WM_TE_SHUTDOWN_FINALIZE \/ EndShutdown
  \/ WM_DISPLAYCHANGE \/ WM_DEVICECHANGE \/ DisplayChangeDebounceProc
  \/ WM_MOUSEMOVE \/ CursorMoves(Nowhere)
  \/ \E w \in Windows : \/ WM_ENDSESSION(w) \/ Create(w) \/ WM_DESTROY(w)
                        \/ CursorMoves(w) \/ UiThread(w)

\* The UI thread goes on with what it began and with its timers; users, Explorer, the host
\* and the displays owe nothing.
Spec ==
  /\ Init /\ [][Next]_vars
  /\ WF_vars(EndShutdown) /\ WF_vars(DisplayChangeDebounceProc) /\ WF_vars(WM_MOUSEMOVE)
  /\ \A w \in Windows : /\ WF_vars(WM_TIMER(w)) /\ WF_vars(WM_TE_TASKBAR_MOUSEMOVE(w))
                        /\ WF_vars(WM_NCDESTROY(w))

----------------------------------------------------------------------------
(* Properties. *)

\* A teardown lets go of every taskbar: when the engine is down, no window calls into the
\* DLL the host is about to unhook, nor does the debounce timer, unless the session ends.
\* One way out: a device change sent to the primary taskbar between its WM_DESTROY, which
\* has torn the engine down, and its WM_NCDESTROY (taskbar_subclass.c:464) subclasses the
\* taskbars again, until the next teardown.
NothingLeftWhenDown ==
  engine.phase = "down" /\ ~engine.session =>
    ~debounce /\ (engine.found \/ \A w \in subclassed : win[w] = "dying")

\* "Remove subclass and untrack all": the same without that way out.
LetGoOfAll ==
  engine.phase = "down" /\ ~engine.session => \A w \in subclassed : win[w] = "dying"

Up == engine.phase = "up" /\ ~engine.session

\* "When the mouse leaves, icons smoothly settle back", "zero CPU when the mouse is away":
\* when the cursor stays off the taskbars, icon_hover ends up told so, whatever message of
\* an earlier place was still on its way, and no timer goes on.
LeaveIsTold ==
  <>[](cursor.on = Nowhere /\ Up) =>
    <>[](timer = {} /\ (told.hover = Nowhere \/ win[told.hover] = "gone"))

\* "When the user moves their mouse over the taskbar: icons near the cursor smoothly scale
\* up": the plugin that was told of the place where the cursor rests ends up there.
RestIsShown ==
  \A w \in Windows :
    <>[](cursor.on = w /\ Up /\ told.place[w] = cursor.place) => <>[](told.hover = w)
==============================================================================
