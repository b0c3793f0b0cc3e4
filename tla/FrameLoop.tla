---------------------------- MODULE FrameLoop ----------------------------
(***************************************************************************)
(* The animation loop of icon_hover (frame_loop.cpp) between the UI thread *)
(* of Explorer and the frame worker.  The UI thread writes the mouse state *)
(* of every monitor twice, once in place and once as a double-buffered     *)
(* snapshot under a sequence number; the worker reads the snapshot without *)
(* a lock, moves the icons and puts the loop to sleep when all are at      *)
(* rest.  ShowWindow and SetWindowPos on an overlay are sent to the UI     *)
(* thread that owns it, so the worker's Paint waits for that thread.       *)
(* Cursor positions and times are the number of the input that set them;   *)
(* the springs and interpolations of a tick are "the icons reached what    *)
(* the last tick aimed at".                                                *)
(***************************************************************************)
EXTENDS Naturals, FiniteSets

CONSTANTS Count,      \* monitors with a taskbar, numbered 1 .. Count
          MaxInputs,  \* bound: mouse events and notification flashes
          MaxStops,   \* bound: display changes and teardowns
          MaxEvents   \* bound: the two together

ASSUME FrameLoopAssumption ==
  /\ Count \in Nat \ {0}
  /\ MaxInputs \in Nat
  /\ MaxStops \in Nat
  /\ MaxEvents \in Nat

Monitors == 1 .. Count

VARIABLES plugin,   \* the plugin: enabled, its device and overlays, its stops
          loop,     \* s_loop_active, the three events, the timer
          mouse,    \* monitors[m].mouse, written by both threads
          buffer,   \* s_monitor_buffers[m]: sequence, index, two slots
          icons,    \* monitors[m].anim and the overlay's opacity
          ui,       \* where the UI thread is
          worker,   \* where the frame worker is
          past      \* history: what a later step must still know

vars == <<plugin, loop, mouse, buffer, icons, ui, worker, past>>

Times == 0 .. MaxInputs
Unknown == Count + 1     \* no mouse event since the plugin was enabled
Mouse == [in: BOOLEAN, cur: Times, qpc: Times]
AtRest == [in |-> FALSE, cur |-> 0, qpc |-> 0]

UiAt == {"idle", "write", "begin", "fill", "stamp", "flip", "end", "check", "bounce",
         "ensure", "claim", "reset", "show", "wake",
         "stop", "signal", "cancel", "after", "destroy", "shutdown", "join", "close"}
Publishing == {"begin", "fill", "stamp", "flip"}
TickAt == {"enter", "seq1", "copy", "copied", "seq2", "apply", "applied", "move",
           "paint", "commit", "settle"}
WorkerAt == {"none", "idle", "woken", "arm", "loop", "wait", "fire", "cancelled", "after",
             "rearm", "exited"} \cup TickAt

PluginStates == [enabled: BOOLEAN, device: BOOLEAN, stops: 0 .. MaxStops, inputs: Times]
LoopStates == [active: BOOLEAN, stop: BOOLEAN, wake: BOOLEAN, shut: BOOLEAN,
               timer: {"off", "armed", "signaled"}]
Buffers == [seq: 0 .. 2 * MaxInputs, idx: {0, 1}, slot: [{0, 1} -> Mouse]]
IconStates == [aim: Mouse, prev: Times, bounce: BOOLEAN, alpha: BOOLEAN, impulse: BOOLEAN]
UiStates == [at: UiAt, m: 0 .. Count + 1, input: {"none", "move", "leave", "flash"},
             on: 0 .. Count, then: {"none", "update", "disable", "shutdown"}]
WorkerStates == [at: WorkerAt, m: 0 .. Count + 1, snap: Mouse, seq1: 0 .. 2 * MaxInputs,
                 seq2: 0 .. 2 * MaxInputs, slot: {0, 1}, quiet: BOOLEAN, still: BOOLEAN,
                 rest: BOOLEAN]
Histories == [seen: [Monitors -> SUBSET Mouse], hover: 0 .. Count + 1, unseen: BOOLEAN,
              missed: BOOLEAN, raced: BOOLEAN, restarted: BOOLEAN,
              ended: {"settled", "stopped"}]

TypeOK ==
  /\ plugin \in PluginStates
  /\ loop \in LoopStates
  /\ mouse \in [Monitors -> Mouse]
  /\ buffer \in [Monitors -> Buffers]
  /\ icons \in [Monitors -> IconStates]
  /\ ui \in UiStates
  /\ worker \in WorkerStates
  /\ past \in Histories

Init ==
  /\ plugin = [enabled |-> TRUE, device |-> TRUE, stops |-> 0, inputs |-> 0]
  /\ loop = [active |-> FALSE, stop |-> FALSE, wake |-> FALSE, shut |-> FALSE, timer |-> "off"]
  /\ mouse = [m \in Monitors |-> AtRest]
  /\ buffer = [m \in Monitors |-> [seq |-> 0, idx |-> 0, slot |-> [i \in {0, 1} |-> AtRest]]]
  /\ icons = [m \in Monitors |-> [aim |-> AtRest, prev |-> 0, bounce |-> FALSE,
                                  alpha |-> FALSE, impulse |-> FALSE]]
  /\ ui = [at |-> "idle", m |-> 0, input |-> "none", on |-> 0, then |-> "none"]
  /\ worker = [at |-> "none", m |-> 0, snap |-> AtRest, seq1 |-> 0, seq2 |-> 0,
               slot |-> 0, quiet |-> FALSE, still |-> FALSE, rest |-> FALSE]
  /\ past = [seen |-> [m \in Monitors |-> {AtRest}], hover |-> 0, unseen |-> FALSE,
             missed |-> FALSE, raced |-> FALSE, restarted |-> FALSE,
             ended |-> "settled"]

----------------------------------------------------------------------------
(* The UI thread: mouse events, flashes of a notification. *)

UiGoes(to) == ui' = [ui EXCEPT !.at = to]
Now == plugin.inputs
MoreEvents == plugin.inputs + plugin.stops < MaxEvents

\* OnTaskbarMouse, OnShellHook: nothing is done while the plugin is disabled.
Input(kind, on) ==
  /\ ui.at = "idle"
  /\ MoreEvents
  /\ plugin.enabled
  /\ plugin.inputs < MaxInputs
  /\ plugin' = [plugin EXCEPT !.inputs = @ + 1]
  /\ ui' = [ui EXCEPT !.at = IF kind = "flash" THEN "bounce" ELSE "write", !.m = 1,
                      !.input = kind, !.on = on]
  /\ past' = [past EXCEPT !.hover = CASE kind = "move" -> on
                                      [] kind = "leave" -> 0
                                      [] OTHER -> @,
                           !.raced = @ /\ kind = "flash"]
  /\ UNCHANGED <<loop, mouse, buffer, icons, worker>>

\* What an input makes of monitor m's mouse state.  A monitor the cursor is not
\* on keeps its time stamp.
Written(m, old) ==
  CASE ui.input = "move" /\ m = ui.on -> [in |-> TRUE, cur |-> Now, qpc |-> Now]
    [] ui.input = "move" /\ m # ui.on -> [old EXCEPT !.in = FALSE]
    [] OTHER -> [old EXCEPT !.in = FALSE, !.qpc = IF old.in THEN Now ELSE @]

WriteInPlace ==
  /\ ui.at = "write"
  /\ mouse' = [mouse EXCEPT ![ui.m] = Written(ui.m, @)]
  /\ UiGoes("begin")
  /\ UNCHANGED <<plugin, loop, buffer, icons, worker, past>>

\* What is published for m: the state in place, but a leave stamps every monitor.
Published(m) == IF ui.input = "leave" THEN [mouse[m] EXCEPT !.qpc = Now] ELSE mouse[m]

Spare(m) == 1 - buffer[m].idx

BeginPublish ==
  /\ ui.at = "begin"
  /\ buffer' = [buffer EXCEPT ![ui.m].seq = @ + 1]
  /\ UiGoes("fill")
  /\ UNCHANGED <<plugin, loop, mouse, icons, worker, past>>

FillSnapshot ==
  /\ ui.at = "fill"
  /\ buffer' = [buffer EXCEPT ![ui.m].slot[Spare(ui.m)] =
                  [Published(ui.m) EXCEPT !.qpc = buffer[ui.m].slot[Spare(ui.m)].qpc]]
  /\ UiGoes("stamp")
  /\ UNCHANGED <<plugin, loop, mouse, icons, worker, past>>

StampSnapshot ==
  /\ ui.at = "stamp"
  /\ buffer' = [buffer EXCEPT ![ui.m].slot[Spare(ui.m)].qpc = Published(ui.m).qpc]
  /\ past' = [past EXCEPT !.seen[ui.m] = @ \cup {buffer'[ui.m].slot[Spare(ui.m)]}]
  /\ UiGoes("flip")
  /\ UNCHANGED <<plugin, loop, mouse, icons, worker>>

FlipIndex ==
  /\ ui.at = "flip"
  /\ buffer' = [buffer EXCEPT ![ui.m].idx = 1 - @]
  /\ UiGoes("end")
  /\ UNCHANGED <<plugin, loop, mouse, icons, worker, past>>

\* Mutant: the sequence number is advanced by two at the end.
EndPublishByTwo ==
  /\ ui.at = "end"
  /\ buffer' = [buffer EXCEPT ![ui.m].seq = @ + 2]
  /\ ui' = [ui EXCEPT !.m = @ + 1, !.at = IF ui.m < Count THEN "write" ELSE "check"]
  /\ UNCHANGED <<plugin, loop, mouse, icons, worker, past>>

EndPublish ==
  /\ ui.at = "end"
  /\ buffer' = [buffer EXCEPT ![ui.m].seq = @ + 1]
  /\ ui' = [ui EXCEPT !.m = @ + 1, !.at = IF ui.m < Count THEN "write" ELSE "check"]
  /\ UNCHANGED <<plugin, loop, mouse, icons, worker, past>>

\* TE_FrameLoopTriggerIconBounceForMonitor: the velocity in place and the impulse.
TriggerBounce ==
  /\ ui.at = "bounce"
  /\ icons' = [icons EXCEPT ![ui.on].bounce = TRUE, ![ui.on].impulse = TRUE]
  /\ UiGoes("check")
  /\ UNCHANGED <<plugin, loop, mouse, buffer, worker, past>>

\* A loop that is active is left alone; a flash makes the overlay visible itself.
CheckActive ==
  /\ ui.at = "check"
  /\ UiGoes(IF loop.active THEN "idle" ELSE "ensure")
  /\ icons' = IF loop.active /\ ui.input = "flash"
              THEN [icons EXCEPT ![ui.on].alpha = TRUE] ELSE icons
  /\ past' = [past EXCEPT !.unseen = loop.active]
  /\ UNCHANGED <<plugin, loop, mouse, buffer, worker>>

----------------------------------------------------------------------------
(* The UI thread: starting and stopping the loop. *)

\* Paint shows or hides a window of the UI thread and returns when that thread has
\* handled the message, or at once when the window is gone.
WaitsForUi == worker.at = "paint" /\ plugin.device /\ ui.at # "idle"

EnsureWorker ==
  /\ ui.at = "ensure"
  /\ worker' = IF worker.at = "none" THEN [worker EXCEPT !.at = "idle"] ELSE worker
  /\ UiGoes("claim")
  /\ UNCHANGED <<plugin, loop, mouse, buffer, icons, past>>

ClaimStart ==
  /\ ui.at = "claim"
  /\ loop' = [loop EXCEPT !.active = TRUE]
  /\ UiGoes(IF loop.active THEN "idle" ELSE "reset")
  /\ past' = IF loop.active THEN past
             ELSE [past EXCEPT !.missed = FALSE, !.unseen = worker.at \in TickAt,
                                !.restarted = TRUE]
  /\ UNCHANGED <<plugin, mouse, buffer, icons, worker>>

ResetStop ==
  /\ ui.at = "reset"
  /\ loop' = [loop EXCEPT !.stop = FALSE]
  /\ UiGoes("show")
  /\ UNCHANGED <<plugin, mouse, buffer, icons, worker, past>>

ShowOverlays ==
  /\ ui.at = "show"
  /\ icons' = [m \in Monitors |-> [icons[m] EXCEPT !.alpha = TRUE]]
  /\ UiGoes("wake")
  /\ UNCHANGED <<plugin, loop, mouse, buffer, worker, past>>

SetWake ==
  /\ ui.at = "wake"
  /\ loop' = [loop EXCEPT !.wake = TRUE]
  /\ UiGoes("idle")
  /\ UNCHANGED <<plugin, mouse, buffer, icons, worker, past>>

\* UpdateMonitors, Disable and Shutdown begin with a stop; Disable clears the flag first.
BeginStop(what) ==
  /\ ui.at = "idle"
  /\ MoreEvents
  /\ plugin.stops < MaxStops
  /\ what \in {"update", "disable"} => plugin.enabled
  /\ what = "shutdown" => ~plugin.enabled /\ worker.at # "none"
  /\ plugin' = [plugin EXCEPT !.stops = @ + 1, !.enabled = @ /\ what # "disable"]
  /\ ui' = [ui EXCEPT !.at = "stop", !.then = what]
  /\ past' = IF what = "disable" THEN [past EXCEPT !.hover = Unknown] ELSE past
  /\ UNCHANGED <<loop, mouse, buffer, icons, worker>>

ClaimStop ==
  /\ ui.at = "stop"
  /\ loop' = [loop EXCEPT !.active = FALSE]
  /\ UiGoes(IF loop.active THEN "signal" ELSE "after")
  /\ past' = IF loop.active THEN [past EXCEPT !.ended = "stopped"] ELSE past
  /\ UNCHANGED <<plugin, mouse, buffer, icons, worker>>

SignalStop ==
  /\ ui.at = "signal"
  /\ loop' = [loop EXCEPT !.stop = TRUE]
  /\ UiGoes("cancel")
  /\ UNCHANGED <<plugin, mouse, buffer, icons, worker, past>>

\* Cancelling leaves a timer that is already signaled signaled.
Cancelled == IF loop.timer = "armed" THEN "off" ELSE loop.timer

CancelTimer ==
  /\ ui.at = "cancel"
  /\ loop' = [loop EXCEPT !.timer = Cancelled]
  /\ UiGoes("after")
  /\ UNCHANGED <<plugin, mouse, buffer, icons, worker, past>>

AfterStop ==
  /\ ui.at = "after"
  /\ UiGoes(CASE ui.then = "update" -> "idle"
              [] ui.then = "disable" -> "destroy"
              [] ui.then = "shutdown" -> "shutdown")
  /\ UNCHANGED <<plugin, loop, mouse, buffer, icons, worker, past>>

\* The rest of Disable: overlays and device go, whatever the worker is doing.
DestroyDevice ==
  /\ ui.at = "destroy"
  /\ plugin' = [plugin EXCEPT !.device = FALSE]
  /\ icons' = [m \in Monitors |-> [icons[m] EXCEPT !.alpha = FALSE]]
  /\ UiGoes("idle")
  /\ UNCHANGED <<loop, mouse, buffer, worker, past>>

\* Enable: a device and overlays that are not shown.  The records of the secondary
\* monitors are zeroed, that of the first keeps what it had.
Enable ==
  /\ ui.at = "idle"
  /\ ~plugin.enabled
  /\ plugin' = [plugin EXCEPT !.enabled = TRUE, !.device = TRUE]
  /\ mouse' = [m \in Monitors |-> IF m = 1 THEN mouse[1] ELSE AtRest]
  /\ icons' = [m \in Monitors |-> IF m = 1 THEN icons[1]
                                  ELSE [icons[m] EXCEPT !.aim = AtRest, !.bounce = FALSE]]
  /\ UNCHANGED <<loop, buffer, ui, worker, past>>

SetShutdown ==
  /\ ui.at = "shutdown"
  /\ loop' = [loop EXCEPT !.shut = TRUE]
  /\ UiGoes("join")
  /\ UNCHANGED <<plugin, mouse, buffer, icons, worker, past>>

\* The join gives up after three seconds, which a worker that waits for this very
\* thread outlasts.
JoinWorker ==
  /\ ui.at = "join"
  /\ worker.at \in {"exited", "none"} \/ WaitsForUi
  /\ UiGoes("close")
  /\ UNCHANGED <<plugin, loop, mouse, buffer, icons, worker, past>>

CloseHandles ==
  /\ ui.at = "close"
  /\ loop' = [loop EXCEPT !.stop = FALSE, !.wake = FALSE, !.shut = FALSE, !.timer = "off"]
  /\ worker' = IF worker.at = "exited" THEN [worker EXCEPT !.at = "none"] ELSE worker
  /\ UiGoes("idle")
  /\ UNCHANGED <<plugin, mouse, buffer, icons, past>>

----------------------------------------------------------------------------
(* The worker outside of a tick. *)

WorkerGoes(to) == worker' = [worker EXCEPT !.at = to]

\* WaitForMultipleObjects: the first signaled handle of the list.
WorkerWakes ==
  /\ worker.at = "idle"
  /\ loop.shut \/ loop.wake
  /\ WorkerGoes(IF loop.shut THEN "exited" ELSE "woken")
  /\ loop' = [loop EXCEPT !.wake = @ /\ loop.shut]
  /\ UNCHANGED <<plugin, mouse, buffer, icons, ui, past>>

WorkerResetsStop ==
  /\ worker.at = "woken"
  /\ loop' = [loop EXCEPT !.stop = FALSE]
  /\ WorkerGoes("arm")
  /\ UNCHANGED <<plugin, mouse, buffer, icons, ui, past>>

ArmTimer ==
  /\ worker.at \in {"arm", "rearm"}
  /\ loop' = [loop EXCEPT !.timer = "armed"]
  /\ past' = [past EXCEPT !.restarted = FALSE]
  /\ WorkerGoes("loop")
  /\ UNCHANGED <<plugin, mouse, buffer, icons, ui>>

TimerFires ==
  /\ loop.timer = "armed"
  /\ loop' = [loop EXCEPT !.timer = "signaled"]
  /\ UNCHANGED <<plugin, mouse, buffer, icons, ui, worker, past>>

LoopCondition ==
  /\ worker.at = "loop"
  /\ WorkerGoes(IF loop.active THEN "wait" ELSE "idle")
  /\ UNCHANGED <<plugin, loop, mouse, buffer, icons, ui, past>>

ActiveWait ==
  /\ worker.at = "wait"
  /\ \/ /\ loop.shut
        /\ WorkerGoes("exited")
        /\ loop' = [loop EXCEPT !.timer = Cancelled]
     \/ /\ ~loop.shut /\ loop.stop
        /\ WorkerGoes("idle")
        /\ loop' = [loop EXCEPT !.timer = Cancelled]
     \/ /\ ~loop.shut /\ ~loop.stop /\ loop.timer = "signaled"
        /\ WorkerGoes("fire")
        /\ loop' = [loop EXCEPT !.timer = "off"]
  /\ UNCHANGED <<plugin, mouse, buffer, icons, ui, past>>

\* Before and after the callback the worker looks whether the loop is still active.
StillActive ==
  /\ worker.at \in {"fire", "after"}
  /\ WorkerGoes(CASE ~loop.active -> "idle"
                  [] loop.active /\ worker.at = "fire" -> "enter"
                  [] OTHER -> "rearm")
  /\ loop' = IF loop.active THEN loop ELSE [loop EXCEPT !.timer = Cancelled]
  /\ UNCHANGED <<plugin, mouse, buffer, icons, ui, past>>

----------------------------------------------------------------------------
(* The worker in a tick: FrameTimerCallback, ProcessMonitorTick. *)

EnterTick ==
  /\ worker.at = "enter"
  /\ worker' = [worker EXCEPT !.at = IF loop.active /\ plugin.enabled THEN "seq1" ELSE "after",
                              !.m = 1, !.rest = TRUE, !.snap = AtRest, !.seq1 = 0, !.seq2 = 0]
  /\ past' = [past EXCEPT !.unseen = FALSE]
  /\ UNCHANGED <<plugin, loop, mouse, buffer, icons, ui>>

\* An odd sequence number is compared with the one of the attempt before: "continue"
\* in a do-while goes to the condition.
ReadSequence ==
  /\ worker.at = "seq1"
  /\ LET s == buffer[worker.m].seq IN
     worker' = [worker EXCEPT !.seq1 = s,
                              !.at = CASE s % 2 = 0 -> "copy"
                                       [] s % 2 = 1 /\ s = worker.seq2 -> "apply"
                                       [] OTHER -> "seq1"]
  /\ UNCHANGED <<plugin, loop, mouse, buffer, icons, ui, past>>

\* The slot is copied while it may be written: the fields first, the stamp last.
CopyFields ==
  /\ worker.at = "copy"
  /\ LET b == buffer[worker.m] IN
     worker' = [worker EXCEPT !.at = "copied", !.slot = b.idx,
                              !.snap = [b.slot[b.idx] EXCEPT !.qpc = 0]]
  /\ UNCHANGED <<plugin, loop, mouse, buffer, icons, ui, past>>

CopyStamp ==
  /\ worker.at = "copied"
  /\ worker' = [worker EXCEPT !.at = "seq2",
                              !.snap.qpc = buffer[worker.m].slot[worker.slot].qpc]
  /\ UNCHANGED <<plugin, loop, mouse, buffer, icons, ui, past>>

\* Mutant: the second read of the sequence number is not compared.
ReadSequenceOnce ==
  /\ worker.at = "seq2"
  /\ worker' = [worker EXCEPT !.seq2 = buffer[worker.m].seq, !.at = "apply"]
  /\ UNCHANGED <<plugin, loop, mouse, buffer, icons, ui, past>>

ReadSequenceAgain ==
  /\ worker.at = "seq2"
  /\ LET s == buffer[worker.m].seq IN
     worker' = [worker EXCEPT !.seq2 = s, !.at = IF s = worker.seq1 THEN "apply" ELSE "seq1"]
  /\ UNCHANGED <<plugin, loop, mouse, buffer, icons, ui, past>>

\* The snapshot a reader of monitor m finds.
Current(m) == buffer[m].slot[buffer[m].idx]

\* A snapshot newer than the state in place replaces it, field by field.
ApplyFields ==
  /\ worker.at = "apply"
  /\ LET newer == worker.snap.qpc > mouse[worker.m].qpc IN
     /\ mouse' = IF newer
                 THEN [mouse EXCEPT ![worker.m].in = worker.snap.in,
                                    ![worker.m].cur = worker.snap.cur]
                 ELSE mouse
     /\ WorkerGoes(IF newer THEN "applied" ELSE "move")
     /\ past' = [past EXCEPT !.raced =
                   \/ @
                   \/ newer /\ (ui.at \in Publishing \/ worker.snap # Current(worker.m))]
  /\ UNCHANGED <<plugin, loop, buffer, icons, ui>>

ApplyStamp ==
  /\ worker.at = "applied"
  /\ mouse' = [mouse EXCEPT ![worker.m].qpc = worker.snap.qpc]
  /\ WorkerGoes("move")
  /\ UNCHANGED <<plugin, loop, buffer, icons, ui, past>>

\* What the icons of a monitor move towards: the cursor on it, or rest.
Target(m) == IF mouse[m].in THEN [mouse[m] EXCEPT !.qpc = 0] ELSE AtRest

\* Mutant: the impulse is read and not exchanged for zero.
MoveIconsByLoad ==
  /\ worker.at = "move"
  /\ LET m == worker.m IN
     /\ worker' = [worker EXCEPT
                     !.at = "paint",
                     !.still = mouse[m].cur = icons[m].prev,
                     !.quiet = /\ icons[m].aim = Target(m)
                               /\ ~icons[m].bounce /\ ~icons[m].impulse]
     /\ icons' = [icons EXCEPT ![m].aim = Target(m), ![m].prev = mouse[m].cur,
                               ![m].bounce = FALSE]
  /\ UNCHANGED <<plugin, loop, mouse, buffer, ui, past>>

\* Impulse, scale, offset, tilt, position: what a tick aims at is reached by the next.
MoveIcons ==
  /\ worker.at = "move"
  /\ LET m == worker.m IN
     /\ worker' = [worker EXCEPT
                     !.at = "paint",
                     !.still = mouse[m].cur = icons[m].prev,
                     !.quiet = /\ icons[m].aim = Target(m)
                               /\ ~icons[m].bounce /\ ~icons[m].impulse]
     /\ icons' = [icons EXCEPT ![m].aim = Target(m), ![m].prev = mouse[m].cur,
                               ![m].bounce = FALSE, ![m].impulse = FALSE]
  /\ UNCHANGED <<plugin, loop, mouse, buffer, ui, past>>

\* Mutant: only the last monitor decides whether all are settled.
PaintLastOnly ==
  /\ worker.at = "paint"
  /\ ~WaitsForUi
  /\ LET m == worker.m
         settled == worker.quiet /\ (mouse[m].in => worker.still)
         gone == settled /\ ~mouse[m].in
     IN /\ icons' = [icons EXCEPT ![m].alpha = ~gone /\ plugin.device,
                                  ![m].aim = IF gone THEN AtRest ELSE @,
                                  ![m].bounce = @ /\ ~gone]
        /\ worker' = [worker EXCEPT
                        !.rest = settled, !.m = m + 1,
                        !.seq1 = 0, !.seq2 = 0, !.snap = AtRest,
                        !.at = IF m < Count /\ plugin.device THEN "seq1" ELSE "commit"]
  /\ UNCHANGED <<plugin, loop, mouse, buffer, ui, past>>

\* The end of ProcessMonitorTick: is the monitor settled, and what is its opacity.
\* The loop over the monitors ends early when Disable has set their number to zero.
Paint ==
  /\ worker.at = "paint"
  /\ ~WaitsForUi
  /\ LET m == worker.m
         settled == worker.quiet /\ (mouse[m].in => worker.still)
         gone == settled /\ ~mouse[m].in
     IN /\ icons' = [icons EXCEPT ![m].alpha = ~gone /\ plugin.device,
                                  ![m].aim = IF gone THEN AtRest ELSE @,
                                  ![m].bounce = @ /\ ~gone]
        /\ worker' = [worker EXCEPT
                        !.rest = @ /\ settled, !.m = m + 1,
                        !.seq1 = 0, !.seq2 = 0, !.snap = AtRest,
                        !.at = IF m < Count /\ plugin.device THEN "seq1" ELSE "commit"]
  /\ UNCHANGED <<plugin, loop, mouse, buffer, ui, past>>

Commit ==
  /\ worker.at = "commit"
  /\ WorkerGoes("settle")
  /\ UNCHANGED <<plugin, loop, mouse, buffer, icons, ui, past>>

\* When every monitor is at rest the loop stops itself.
Settle ==
  /\ worker.at = "settle"
  /\ WorkerGoes("after")
  /\ IF worker.rest /\ loop.active
     THEN /\ loop' = [loop EXCEPT !.active = FALSE, !.timer = Cancelled]
          /\ past' = [past EXCEPT !.ended = "settled", !.missed = past.unseen]
     ELSE UNCHANGED <<loop, past>>
  /\ UNCHANGED <<plugin, mouse, buffer, icons, ui>>

----------------------------------------------------------------------------

InputStep ==
  \/ \E m \in Monitors : Input("move", m) \/ Input("flash", m)
  \/ Input("leave", 0)

UiContinues ==
  \/ WriteInPlace \/ BeginPublish \/ FillSnapshot \/ StampSnapshot \/ FlipIndex \/ EndPublish
  \/ TriggerBounce \/ CheckActive
  \/ EnsureWorker \/ ClaimStart \/ ResetStop \/ ShowOverlays \/ SetWake
  \/ ClaimStop \/ SignalStop \/ CancelTimer \/ AfterStop \/ DestroyDevice
  \/ SetShutdown \/ JoinWorker \/ CloseHandles

Tick ==
  \/ EnterTick \/ ReadSequence \/ CopyFields \/ CopyStamp \/ ReadSequenceAgain
  \/ ApplyFields \/ ApplyStamp \/ MoveIcons \/ Paint \/ Commit \/ Settle

WorkerStep ==
  \/ WorkerWakes \/ WorkerResetsStop \/ ArmTimer \/ LoopCondition \/ ActiveWait
  \/ StillActive \/ Tick

Next ==
  \/ InputStep \/ Enable
  \/ \E what \in {"update", "disable", "shutdown"} : BeginStop(what)
  \/ UiContinues \/ WorkerStep \/ TimerFires

Spec == Init /\ [][Next]_vars

\* An operation of the UI thread is straight-line code, the worker is scheduled, and
\* an armed timer fires.  The user owes nothing.
FairSpec == Spec /\ WF_vars(UiContinues) /\ WF_vars(WorkerStep) /\ WF_vars(TimerFires)

----------------------------------------------------------------------------
(* Properties. *)

\* A snapshot the worker takes because both reads of the sequence number agree on an
\* even value is one that was published, never a mixture of two (frame_loop.cpp:197-203).
SnapshotWhole ==
  worker.at = "apply" /\ worker.seq1 % 2 = 0 => worker.snap \in past.seen[worker.m]

\* Every snapshot the worker takes was published: "tear-free physics reads"
\* (frame_loop.cpp:9).  The "continue" in the read loop (frame_loop.cpp:199) lets one out.
TornFree == worker.at = "apply" => worker.snap \in past.seen[worker.m]

\* When the loop has put itself to sleep, the monitor under the cursor is the one that
\* is magnified, every other overlay is hidden, and no impulse is left over; unless an
\* input came in the very tick that ended the loop and found it active, or started it
\* again while a tick from before a stop was still at work (frame_loop.cpp:671-672,
\* 1091, 816), or the worker wrote a snapshot from before the input over what the input
\* wrote in place (frame_loop.cpp:205-213): that input is shown by the next one.
SettledShowsHover ==
  (/\ ~loop.active /\ past.ended = "settled" /\ ui.at = "idle" /\ worker.at \in {"idle", "none"}
   /\ plugin.enabled /\ past.hover # Unknown /\ ~past.missed /\ ~past.raced)
  => \A m \in Monitors : /\ icons[m].aim.in = (past.hover = m)
                         /\ icons[m].alpha => icons[m].aim.in
                         /\ ~icons[m].impulse

\* The same without the exception: a leave always "initiates the settle animation"
\* (frame_loop.h:60).
LeaveIsAnimated ==
  (/\ ~loop.active /\ past.ended = "settled" /\ ui.at = "idle" /\ worker.at = "idle"
   /\ plugin.enabled /\ past.hover = 0)
  => \A m \in Monitors : ~icons[m].aim.in

\* An active loop that waits for a timer nobody set: it was stopped and started again
\* after the worker armed the timer (frame_loop.cpp:816-822, 857-866, 757).
Frozen == /\ loop.active /\ worker.at = "wait" /\ loop.timer = "off"
          /\ ~loop.stop /\ ~loop.shut /\ past.restarted

\* "Stop the animation frame loop immediately" (frame_loop.h:26): no tick uses the device
\* that Disable destroys after the stop.
TicksOnLiveDevice == worker.at \in {"move", "commit"} => plugin.device

\* Once the inputs end the loop stops by itself ("settling to 0.0% CPU", frame_loop.cpp:10),
\* unless a stop and a start left it frozen; nothing else may.
RestsWhenQuiet == <>[](~loop.active \/ Frozen)
==========================================================================
