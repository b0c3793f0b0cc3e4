------------------------- MODULE FrameLoop_proofs -------------------------
(***************************************************************************)
(* For any number of monitors, inputs and stops: a snapshot the frame      *)
(* worker takes between two equal, even reads of the sequence number is    *)
(* one the UI thread published, and a loop that has put itself to sleep    *)
(* shows where the cursor is.                                              *)
(***************************************************************************)
EXTENDS FrameLoop, TLAPS

USE FrameLoopAssumption DEF FrameLoopAssumption

Writing == {"write", "begin", "fill", "stamp", "flip", "end"}
Stopping == {"stop", "signal", "cancel", "after"}
PerMonitor == {"seq1", "copy", "copied", "seq2", "apply", "applied", "move", "paint"}
Odd == {"fill", "stamp", "flip", "end"}

\* The loop variables that index the monitors, and why a stop was begun.
IndexInv ==
  /\ ui.at \in Writing => ui.m \in Monitors /\ plugin.inputs > 0
  /\ ui.at \in Stopping => ui.then # "none"
  /\ worker.at \in PerMonitor => worker.m \in Monitors

\* A sequence number is odd exactly while its snapshot is being written, and two
\* more for every input that has published the monitor.
UnderWay(m) == ui.at \in Odd /\ m = ui.m
ToCome(m) ==
  \/ ui.at \in Writing /\ m > ui.m
  \/ ui.at \in {"write", "begin"} /\ m = ui.m

SequenceInv ==
  \A m \in Monitors :
    /\ buffer[m].seq % 2 = IF UnderWay(m) THEN 1 ELSE 0
    /\ UnderWay(m) => buffer[m].seq + 1 <= 2 * plugin.inputs
    /\ ToCome(m) => buffer[m].seq + 2 <= 2 * plugin.inputs
    /\ buffer[m].seq <= 2 * plugin.inputs

\* The current slot was published, and so is the spare one before the index flips.
PublishedInv ==
  /\ \A m \in Monitors : Current(m) \in past.seen[m]
  /\ ui.at = "flip" => buffer[ui.m].slot[Spare(ui.m)] \in past.seen[ui.m]

\* What the reader has copied is the current snapshot as long as the sequence
\* number is the one it read first.
ReaderInv ==
  /\ worker.at \in {"copy", "copied", "seq2"} =>
       worker.seq1 % 2 = 0 /\ worker.seq1 <= buffer[worker.m].seq
  /\ worker.at = "copied" /\ buffer[worker.m].seq = worker.seq1 =>
       /\ worker.slot = buffer[worker.m].idx
       /\ worker.snap = [Current(worker.m) EXCEPT !.qpc = 0]
  /\ worker.at = "seq2" /\ buffer[worker.m].seq = worker.seq1 =>
       worker.snap \in past.seen[worker.m]
  /\ SnapshotWhole

FrameInv == TypeOK /\ IndexInv /\ SequenceInv /\ PublishedInv /\ ReaderInv

----------------------------------------------------------------------------
(* Types.                                                                  *)

LEMMA Parity ==
  \A s \in Nat : s % 2 \in {0, 1} /\ (s + 1) % 2 = 1 - (s % 2)
OBVIOUS

\* The mouse states an input makes, in place and as a snapshot.
LEMMA InputTypes ==
  ASSUME TypeOK, NEW m \in Monitors
  PROVE  Written(m, mouse[m]) \in Mouse /\ Published(m) \in Mouse
BY DEF TypeOK, Written, Published, Mouse, Now, PluginStates

\* What the actions change of a record leaves it of its type.
LEMMA MouseChanges ==
  ASSUME NEW s \in Mouse, NEW t \in Times
  PROVE  [s EXCEPT !.qpc = t] \in Mouse
BY DEF Mouse

LEMMA UiChanges ==
  ASSUME NEW u \in UiStates, NEW to \in UiAt, NEW m \in 0 .. Count + 1
  PROVE  /\ [u EXCEPT !.at = to] \in UiStates
         /\ [u EXCEPT !.m = m, !.at = to] \in UiStates
         /\ \A kind \in {"move", "leave", "flash"}, on \in 0 .. Count :
              [u EXCEPT !.at = to, !.m = m, !.input = kind, !.on = on] \in UiStates
BY Zenon DEF UiStates

LEMMA WorkerChanges ==
  ASSUME NEW w \in WorkerStates, NEW to \in WorkerAt, NEW m \in 0 .. Count + 1,
         NEW s \in Mouse, NEW n \in 0 .. 2 * MaxInputs,
         NEW b \in BOOLEAN, NEW c \in BOOLEAN, NEW i \in {0, 1}
  PROVE  /\ [w EXCEPT !.at = to] \in WorkerStates
         /\ [w EXCEPT !.at = to, !.m = m, !.rest = b, !.snap = s, !.seq1 = n, !.seq2 = n]
              \in WorkerStates
         /\ [w EXCEPT !.at = to, !.slot = i, !.snap = s] \in WorkerStates
         /\ [w EXCEPT !.at = to, !.still = b, !.quiet = c] \in WorkerStates
         /\ [w EXCEPT !.rest = b, !.m = m, !.seq1 = n, !.seq2 = n, !.snap = s, !.at = to]
              \in WorkerStates
BY Zenon DEF WorkerStates

LEMMA IconChanges ==
  ASSUME NEW c \in IconStates, NEW a \in Mouse, NEW t \in Times,
         NEW b \in BOOLEAN, NEW d \in BOOLEAN
  PROVE  /\ [c EXCEPT !.alpha = b] \in IconStates
         /\ [c EXCEPT !.bounce = TRUE, !.impulse = TRUE] \in IconStates
         /\ [c EXCEPT !.aim = a, !.bounce = FALSE] \in IconStates
         /\ [c EXCEPT !.aim = a, !.prev = t, !.bounce = FALSE, !.impulse = FALSE] \in IconStates
         /\ [c EXCEPT !.alpha = b, !.aim = a, !.bounce = d] \in IconStates
BY Zenon DEF IconStates

LEMMA IconsKept ==
  ASSUME TypeOK, NEW m, NEW c \in IconStates
  PROVE  [icons EXCEPT ![m] = c] \in [Monitors -> IconStates]
BY DEF TypeOK

LEMMA HistoryChanges ==
  ASSUME NEW p \in Histories, NEW h \in 0 .. Count + 1, NEW b \in BOOLEAN
  PROVE  [p EXCEPT !.hover = h, !.raced = b] \in Histories
BY Zenon DEF Histories

LEMMA Moves ==
  ASSUME TypeOK
  PROVE  /\ \A to \in UiAt : [ui EXCEPT !.at = to] \in UiStates
         /\ \A to \in WorkerAt : [worker EXCEPT !.at = to] \in WorkerStates
BY UiChanges DEF TypeOK, UiStates, WorkerStates

LEMMA InitInv == Init => FrameInv
<1> SUFFICES ASSUME Init PROVE FrameInv
    OBVIOUS
<1>1. AtRest \in Mouse /\ 0 \in Times
    BY DEF AtRest, Mouse, Times
<1>2. TypeOK
    <2>1. plugin \in PluginStates /\ loop \in LoopStates /\ mouse \in [Monitors -> Mouse]
        BY <1>1 DEF Init, PluginStates, LoopStates
    <2>2. buffer \in [Monitors -> Buffers] /\ icons \in [Monitors -> IconStates]
        BY <1>1 DEF Init, Buffers, IconStates
    <2>3. ui \in UiStates
        BY DEF Init, UiStates, UiAt
    <2>4. worker \in WorkerStates
        BY <1>1 DEF Init, WorkerStates, WorkerAt
    <2>5. past \in Histories
        BY <1>1 DEF Init, Histories
    <2>6. QED
        BY <2>1, <2>2, <2>3, <2>4, <2>5 DEF TypeOK
<1>3. IndexInv /\ ReaderInv
    BY DEF Init, IndexInv, Writing, Stopping, PerMonitor, ReaderInv, SnapshotWhole
<1>4. SequenceInv
    BY DEF Init, SequenceInv, UnderWay, ToCome, Odd, Writing
<1>5. PublishedInv
    BY DEF Init, PublishedInv, Current
<1>6. QED
    BY <1>2, <1>3, <1>4, <1>5 DEF FrameInv

LEMMA PublishType ==
  ASSUME FrameInv,
         WriteInPlace \/ BeginPublish \/ FillSnapshot \/ StampSnapshot \/ FlipIndex \/ EndPublish
  PROVE  TypeOK'
<1> USE DEF FrameInv, TypeOK
<1>1. ui.m \in Monitors /\ buffer[ui.m] \in Buffers
    BY DEF WriteInPlace, BeginPublish, FillSnapshot, StampSnapshot, FlipIndex, EndPublish,
           IndexInv, Writing
<1>2. \A b \in Buffers : [buffer EXCEPT ![ui.m] = b] \in [Monitors -> Buffers]
    OBVIOUS
<1>3. Spare(ui.m) \in {0, 1}
    BY <1>1 DEF Spare, Buffers
<1>4. CASE WriteInPlace
    <2>1. mouse' \in [Monitors -> Mouse]
        BY <1>1, <1>4, InputTypes DEF WriteInPlace
    <2>2. QED
        BY <1>4, <2>1, Moves DEF WriteInPlace, UiGoes, UiAt
<1>5. CASE BeginPublish
    <2>1. buffer[ui.m].seq + 1 <= 2 * MaxInputs
        BY <1>1, <1>5
           DEF BeginPublish, SequenceInv, ToCome, Times, PluginStates, Buffers
    <2>2. [buffer[ui.m] EXCEPT !.seq = @ + 1] \in Buffers
        BY <1>1, <2>1 DEF Buffers
    <2>3. QED
        BY <1>2, <1>5, <2>2, Moves DEF BeginPublish, UiGoes, UiAt
<1>6. CASE FillSnapshot
    <2> DEFINE s == [Published(ui.m) EXCEPT !.qpc = buffer[ui.m].slot[Spare(ui.m)].qpc]
    <2>1. s \in Mouse
        BY <1>1, <1>3, InputTypes DEF Mouse, Buffers
    <2>2. [buffer[ui.m] EXCEPT !.slot[Spare(ui.m)] = s] \in Buffers
        BY <1>1, <1>3, <2>1 DEF Buffers
    <2>3. QED
        BY <1>2, <1>6, <2>2, Moves DEF FillSnapshot, UiGoes, UiAt
<1>7. CASE StampSnapshot
    <2> DEFINE b == [buffer[ui.m] EXCEPT !.slot[Spare(ui.m)].qpc = Published(ui.m).qpc]
    <2>1. [buffer[ui.m].slot[Spare(ui.m)] EXCEPT !.qpc = Published(ui.m).qpc] \in Mouse
        <3>1. Published(ui.m).qpc \in Times /\ buffer[ui.m].slot[Spare(ui.m)] \in Mouse
            BY <1>1, <1>3, InputTypes DEF Mouse, Buffers
        <3>2. QED
            BY <3>1, MouseChanges
    <2>2. b \in Buffers
        BY <1>1, <1>3, <2>1 DEF Buffers
    <2>3. buffer' = [buffer EXCEPT ![ui.m] = b]
        BY <1>7 DEF StampSnapshot
    <2>4. b.slot[Spare(ui.m)] \in Mouse /\ buffer'[ui.m] = b
        BY <1>1, <1>3, <2>2, <2>3 DEF Buffers
    <2>5. buffer' \in [Monitors -> Buffers]
        BY <1>2, <2>2, <2>3
    <2>6. past' \in Histories
        <3>1. past' = [past EXCEPT !.seen[ui.m] = @ \cup {b.slot[Spare(ui.m)]}]
            <4>1. Spare(ui.m) = 1 - buffer[ui.m].idx
                BY DEF Spare
            <4>2. QED
                BY <1>7, <2>4, <4>1 DEF StampSnapshot
        <3> HIDE DEF b
        <3>2. QED
            BY <1>1, <2>4, <3>1 DEF Histories
    <2>7. QED
        BY <1>7, <2>5, <2>6, Moves DEF StampSnapshot, UiGoes, UiAt
<1>8. CASE FlipIndex
    <2>1. [buffer[ui.m] EXCEPT !.idx = 1 - @] \in Buffers
        BY <1>1 DEF Buffers
    <2>2. QED
        BY <1>2, <1>8, <2>1, Moves DEF FlipIndex, UiGoes, UiAt
<1>9. CASE EndPublish
    <2>1. buffer[ui.m].seq + 1 <= 2 * MaxInputs
        BY <1>1, <1>9
           DEF EndPublish, SequenceInv, UnderWay, Odd, Times, PluginStates, Buffers
    <2>2. [buffer[ui.m] EXCEPT !.seq = @ + 1] \in Buffers
        BY <1>1, <2>1 DEF Buffers
    <2>3. ui' \in UiStates
        <3>1. ui.m + 1 \in 0 .. Count + 1 /\ "write" \in UiAt /\ "check" \in UiAt
            BY <1>1 DEF Monitors, UiAt
        <3>2. QED
            BY <1>9, <3>1, UiChanges DEF EndPublish
    <2>4. QED
        BY <1>2, <1>9, <2>2, <2>3 DEF EndPublish
<1>10. QED
    BY <1>4, <1>5, <1>6, <1>7, <1>8, <1>9

LEMMA UiType ==
  ASSUME FrameInv, UiContinues
  PROVE  TypeOK'
<1> USE DEF FrameInv, TypeOK
<1>1. CASE WriteInPlace \/ BeginPublish \/ FillSnapshot \/ StampSnapshot \/ FlipIndex \/ EndPublish
    BY <1>1, PublishType
<1>2. CASE TriggerBounce \/ CheckActive
    <2> DEFINE hit == [icons[ui.on] EXCEPT !.bounce = TRUE, !.impulse = TRUE]
               seen == [icons[ui.on] EXCEPT !.alpha = TRUE]
    <2>1. icons' \in [Monitors -> IconStates]
        <3>1. ui.on \in Monitors => hit \in IconStates /\ seen \in IconStates
            <4>1. ui.on \in Monitors => icons[ui.on] \in IconStates
                OBVIOUS
            <4>2. \A c \in IconStates : /\ [c EXCEPT !.bounce = TRUE, !.impulse = TRUE] \in IconStates
                                        /\ [c EXCEPT !.alpha = TRUE] \in IconStates
                BY Zenon DEF IconStates
            <4>3. QED
                BY <4>1, <4>2
        <3>2. icons' \in {icons, [icons EXCEPT ![ui.on] = hit], [icons EXCEPT ![ui.on] = seen]}
            BY <1>2 DEF TriggerBounce, CheckActive
        <3> HIDE DEF hit, seen
        <3>3. QED
            BY <3>1, <3>2
    <2>2. past' \in Histories
        BY <1>2 DEF TriggerBounce, CheckActive, LoopStates, Histories
    <2>3. QED
        BY <1>2, <2>1, <2>2, Moves DEF TriggerBounce, CheckActive, UiGoes, UiAt
<1>3. CASE EnsureWorker
    BY <1>3, Moves DEF EnsureWorker, UiGoes, UiAt, WorkerAt
<1>4. CASE ClaimStart
    <2>1. (worker.at \in TickAt) \in BOOLEAN
        OBVIOUS
    <2>2. past' \in Histories
        BY <1>4, <2>1 DEF ClaimStart, Histories
    <2>3. loop' \in LoopStates
        BY <1>4 DEF ClaimStart, LoopStates
    <2>4. QED
        BY <1>4, <2>2, <2>3, Moves DEF ClaimStart, UiGoes, UiAt
<1>5. CASE ResetStop \/ ShowOverlays \/ SetWake
    <2>1. icons' \in [Monitors -> IconStates]
        <3>1. \A m \in Monitors : [icons[m] EXCEPT !.alpha = TRUE] \in IconStates
            BY DEF IconStates
        <3>2. QED
            BY <1>5, <3>1 DEF ResetStop, ShowOverlays, SetWake
    <2>2. loop' \in LoopStates
        BY <1>5 DEF ResetStop, ShowOverlays, SetWake, LoopStates
    <2>3. QED
        BY <1>5, <2>1, <2>2, Moves DEF ResetStop, ShowOverlays, SetWake, UiGoes, UiAt
<1>6. CASE ClaimStop \/ SignalStop \/ CancelTimer
    <2>1. past' \in Histories /\ loop' \in LoopStates
        BY <1>6 DEF ClaimStop, SignalStop, CancelTimer, Cancelled, LoopStates, Histories
    <2>2. QED
        BY <1>6, <2>1, Moves DEF ClaimStop, SignalStop, CancelTimer, UiGoes, UiAt
<1>7. CASE AfterStop
    <2>1. ui.then \in {"update", "disable", "shutdown"}
        BY <1>7 DEF AfterStop, IndexInv, Stopping, UiStates
    <2>2. QED
        BY <1>7, <2>1, Moves DEF AfterStop, UiGoes, UiAt
<1>8. CASE DestroyDevice \/ SetShutdown \/ JoinWorker
    <2>1. plugin' \in PluginStates /\ loop' \in LoopStates
        BY <1>8 DEF DestroyDevice, SetShutdown, JoinWorker, PluginStates, LoopStates
    <2>2. icons' \in [Monitors -> IconStates]
        <3>1. \A m \in Monitors : [icons[m] EXCEPT !.alpha = FALSE] \in IconStates
            BY DEF IconStates
        <3>2. QED
            BY <1>8, <3>1 DEF DestroyDevice, SetShutdown, JoinWorker
    <2>3. QED
        BY <1>8, <2>1, <2>2, Moves DEF DestroyDevice, SetShutdown, JoinWorker, UiGoes, UiAt
<1>9. CASE CloseHandles
    <2>1. loop' \in LoopStates
        BY <1>9 DEF CloseHandles, LoopStates
    <2>2. QED
        BY <1>9, <2>1, Moves DEF CloseHandles, UiGoes, UiAt, WorkerAt
<1>10. QED
    BY <1>1, <1>2, <1>3, <1>4, <1>5, <1>6, <1>7, <1>8, <1>9 DEF UiContinues

LEMMA TickType ==
  ASSUME FrameInv, Tick
  PROVE  TypeOK'
<1> USE DEF FrameInv, TypeOK
<1>1. AtRest \in Mouse /\ 0 \in Times
    BY DEF AtRest, Mouse, Times
<1>2. worker.at \in PerMonitor =>
        /\ worker.m \in Monitors
        /\ buffer[worker.m] \in Buffers
        /\ Current(worker.m) \in Mouse
        /\ mouse[worker.m] \in Mouse
    BY DEF IndexInv, Current, Buffers
<1>3. CASE EnterTick
    <2>1. worker' \in WorkerStates
        <3>1. 1 \in 0 .. Count + 1 /\ 0 \in 0 .. 2 * MaxInputs
            OBVIOUS
        <3>2. "seq1" \in WorkerAt /\ "after" \in WorkerAt
            BY DEF WorkerAt, TickAt
        <3>3. QED
            BY <1>1, <1>3, <3>1, <3>2, WorkerChanges DEF EnterTick
    <2>2. past' \in Histories
        BY <1>3 DEF EnterTick, Histories
    <2>3. QED
        BY <1>3, <2>1, <2>2 DEF EnterTick
<1>4. CASE ReadSequence
    <2>1. buffer[worker.m].seq \in 0 .. 2 * MaxInputs
        BY <1>2, <1>4 DEF ReadSequence, PerMonitor, Buffers
    <2>2. worker' \in WorkerStates
        BY <1>4, <2>1 DEF ReadSequence, WorkerStates, WorkerAt, TickAt
    <2>3. QED
        BY <1>4, <2>2 DEF ReadSequence
<1>5. CASE CopyFields
    <2>1. [Current(worker.m) EXCEPT !.qpc = 0] \in Mouse /\ buffer[worker.m].idx \in {0, 1}
        BY <1>1, <1>2, <1>5 DEF CopyFields, PerMonitor, Mouse, Buffers
    <2>2. worker' \in WorkerStates
        BY <1>5, <2>1 DEF CopyFields, Current, WorkerStates, WorkerAt, TickAt
    <2>3. QED
        BY <1>5, <2>2 DEF CopyFields
<1>6. CASE CopyStamp
    <2>1. buffer[worker.m].slot[worker.slot].qpc \in Times
        BY <1>2, <1>6 DEF CopyStamp, PerMonitor, Mouse, Buffers, WorkerStates
    <2>2. [worker.snap EXCEPT !.qpc = buffer[worker.m].slot[worker.slot].qpc] \in Mouse
        BY <2>1 DEF WorkerStates, Mouse
    <2>3. worker' \in WorkerStates
        BY <1>6, <2>2 DEF CopyStamp, WorkerStates, WorkerAt, TickAt
    <2>4. QED
        BY <1>6, <2>3 DEF CopyStamp
<1>7. CASE ReadSequenceAgain
    <2>1. buffer[worker.m].seq \in 0 .. 2 * MaxInputs
        BY <1>2, <1>7 DEF ReadSequenceAgain, PerMonitor, Buffers
    <2>2. worker' \in WorkerStates
        BY <1>7, <2>1 DEF ReadSequenceAgain, WorkerStates, WorkerAt, TickAt
    <2>3. QED
        BY <1>7, <2>2 DEF ReadSequenceAgain
<1>8. CASE ApplyFields
    <2>1. mouse' \in [Monitors -> Mouse]
        BY <1>2, <1>8 DEF ApplyFields, PerMonitor, WorkerStates, Mouse
    <2>2. past' \in Histories
        BY <1>8, Zenon DEF ApplyFields, Histories
    <2>3. QED
        BY <1>8, <2>1, <2>2, Moves DEF ApplyFields, WorkerGoes, WorkerAt, TickAt
<1>9. CASE ApplyStamp
    <2>1. mouse' \in [Monitors -> Mouse]
        BY <1>2, <1>9 DEF ApplyStamp, PerMonitor, WorkerStates, Mouse
    <2>2. QED
        BY <1>9, <2>1, Moves DEF ApplyStamp, WorkerGoes, WorkerAt, TickAt
<1>10. CASE MoveIcons
    <2>1. Target(worker.m) \in Mouse /\ mouse[worker.m].cur \in Times
        BY <1>1, <1>2, <1>10 DEF MoveIcons, Target, PerMonitor, Mouse
    <2>2. icons' \in [Monitors -> IconStates]
        <3> DEFINE c == [icons[worker.m] EXCEPT !.aim = Target(worker.m),
                                 !.prev = mouse[worker.m].cur, !.bounce = FALSE, !.impulse = FALSE]
        <3>1. icons[worker.m] \in IconStates
            BY <1>2, <1>10 DEF MoveIcons, PerMonitor
        <3>2. c \in IconStates
            BY <2>1, <3>1, IconChanges
        <3>3. icons' = [icons EXCEPT ![worker.m] = c]
            BY <1>10 DEF MoveIcons
        <3> HIDE DEF c
        <3>4. QED
            BY <3>2, <3>3, IconsKept
    <2>3. worker' \in WorkerStates
        BY <1>10, Zenon DEF MoveIcons, WorkerStates, WorkerAt, TickAt
    <2>4. QED
        BY <1>10, <2>2, <2>3 DEF MoveIcons
<1>11. CASE Paint
    <2>1. worker.m \in Monitors
        BY <1>2, <1>11 DEF Paint, PerMonitor
    <2> DEFINE settled == worker.quiet /\ (mouse[worker.m].in => worker.still)
               gone == settled /\ ~mouse[worker.m].in
               shown == ~gone /\ plugin.device
               aim == IF gone THEN AtRest ELSE icons[worker.m].aim
               bounce == icons[worker.m].bounce /\ ~gone
               rest == worker.rest /\ settled
               to == IF worker.m < Count /\ plugin.device THEN "seq1" ELSE "commit"
    <2>2. icons' \in [Monitors -> IconStates]
        <3> DEFINE c == [icons[worker.m] EXCEPT !.alpha = shown, !.aim = aim, !.bounce = bounce]
        <3>1. shown \in BOOLEAN /\ bounce \in BOOLEAN
            OBVIOUS
        <3>2. icons[worker.m] \in IconStates /\ aim \in Mouse
            BY <1>1, <2>1 DEF IconStates
        <3>3. icons' = [icons EXCEPT ![worker.m] = c]
            BY <1>11 DEF Paint
        <3> HIDE DEF shown, aim, bounce
        <3>4. c \in IconStates
            BY <1>1, <3>1, <3>2, IconChanges
        <3> HIDE DEF c
        <3>5. QED
            BY <3>3, <3>4, IconsKept
    <2>3. worker' \in WorkerStates
        <3>1. rest \in BOOLEAN
            OBVIOUS
        <3>2. worker.m + 1 \in 0 .. Count + 1 /\ 0 \in 0 .. 2 * MaxInputs
            BY <2>1 DEF Monitors
        <3>3. to \in WorkerAt
            BY DEF WorkerAt, TickAt
        <3>4. worker' = [worker EXCEPT !.rest = rest, !.m = worker.m + 1, !.seq1 = 0,
                                       !.seq2 = 0, !.snap = AtRest, !.at = to]
            BY <1>11 DEF Paint
        <3> HIDE DEF rest, to
        <3>5. QED
            BY <1>1, <3>1, <3>2, <3>3, <3>4, WorkerChanges
    <2>4. QED
        BY <1>11, <2>2, <2>3 DEF Paint
<1>12. CASE Commit \/ Settle
    <2>1. loop' \in LoopStates
        BY <1>12 DEF Commit, Settle, Cancelled, LoopStates
    <2>2. past' \in Histories
        BY <1>12 DEF Commit, Settle, Histories
    <2>3. QED
        BY <1>12, <2>1, <2>2, Moves DEF Commit, Settle, WorkerGoes, WorkerAt, TickAt
<1>13. QED
    BY <1>3, <1>4, <1>5, <1>6, <1>7, <1>8, <1>9, <1>10, <1>11, <1>12 DEF Tick

LEMMA NextType ==
  ASSUME FrameInv, [Next]_vars
  PROVE  TypeOK'
<1> USE DEF FrameInv, TypeOK
<1>1. CASE InputStep
    <2>1. PICK kind \in {"move", "leave", "flash"}, on \in 0 .. Count : Input(kind, on)
        BY <1>1 DEF InputStep, Monitors
    <2>2. plugin' \in PluginStates
        BY <2>1 DEF Input, PluginStates, Times
    <2>3. ui' \in UiStates
        <3>1. 1 \in 0 .. Count + 1 /\ "write" \in UiAt /\ "bounce" \in UiAt
            BY DEF UiAt
        <3>2. QED
            BY <2>1, <3>1, UiChanges DEF Input
    <2>4. past' \in Histories
        <3> DEFINE raced == past.raced /\ kind = "flash"
                   hover == CASE kind = "move" -> on [] kind = "leave" -> 0
                              [] OTHER -> past.hover
        <3>1. raced \in BOOLEAN
            OBVIOUS
        <3>2. on \in 0 .. Count + 1 /\ past.hover \in 0 .. Count + 1
            BY DEF Histories
        <3>3. hover \in 0 .. Count + 1
            BY <3>2
        <3>4. past' = [past EXCEPT !.hover = hover, !.raced = raced]
            BY <2>1 DEF Input
        <3> HIDE DEF raced, hover
        <3>5. QED
            BY <3>1, <3>3, <3>4, HistoryChanges
    <2>5. QED
        BY <2>1, <2>2, <2>3, <2>4 DEF Input
<1>2. CASE Enable
    <2>1. AtRest \in Mouse
        BY DEF AtRest, Mouse, Times
    <2>2. plugin' \in PluginStates
        BY <1>2 DEF Enable, PluginStates
    <2>3. mouse' \in [Monitors -> Mouse]
        BY <1>2, <2>1 DEF Enable
    <2>4. icons' \in [Monitors -> IconStates]
        <3>1. \A m \in Monitors : [icons[m] EXCEPT !.aim = AtRest, !.bounce = FALSE] \in IconStates
            BY <2>1, IconChanges DEF Mouse, Times
        <3>2. QED
            BY <1>2, <3>1 DEF Enable
    <2>5. QED
        BY <1>2, <2>2, <2>3, <2>4 DEF Enable
<1>3. CASE \E what \in {"update", "disable", "shutdown"} : BeginStop(what)
    <2>1. plugin' \in PluginStates
        <3>1. PICK what : BeginStop(what)
            BY <1>3
        <3> DEFINE enabled == plugin.enabled /\ what # "disable"
        <3>2. enabled \in BOOLEAN
            OBVIOUS
        <3>3. plugin' = [plugin EXCEPT !.stops = @ + 1, !.enabled = enabled]
            BY <3>1 DEF BeginStop
        <3>4. plugin.stops + 1 \in 0 .. MaxStops
            BY <3>1 DEF BeginStop, PluginStates
        <3>5. \A p \in PluginStates, n \in 0 .. MaxStops, b \in BOOLEAN :
                [p EXCEPT !.stops = n, !.enabled = b] \in PluginStates
            BY Zenon DEF PluginStates
        <3> HIDE DEF enabled
        <3>6. QED
            BY <3>2, <3>3, <3>4, <3>5
    <2>2. ui' \in UiStates
        BY <1>3 DEF BeginStop, UiStates, UiAt
    <2>3. past' \in Histories
        BY <1>3 DEF BeginStop, Histories, Unknown
    <2>4. QED
        BY <1>3, <2>1, <2>2, <2>3 DEF BeginStop
<1>4. CASE UiContinues
    BY <1>4, UiType
<1>5. CASE Tick
    BY <1>5, TickType
<1>6. CASE WorkerWakes \/ WorkerResetsStop \/ ArmTimer
    <2>1. loop' \in LoopStates /\ past' \in Histories
        BY <1>6 DEF WorkerWakes, WorkerResetsStop, ArmTimer, LoopStates, Histories
    <2>2. QED
        BY <1>6, <2>1, Moves
           DEF WorkerWakes, WorkerResetsStop, ArmTimer, WorkerGoes, WorkerAt
<1>7. CASE LoopCondition \/ ActiveWait \/ StillActive
    <2>1. loop' \in LoopStates
        BY <1>7 DEF LoopCondition, ActiveWait, StillActive, Cancelled, LoopStates
    <2>2. \E to \in {"wait", "idle", "exited", "fire", "enter", "rearm"} : WorkerGoes(to)
        BY <1>7 DEF LoopCondition, ActiveWait, StillActive
    <2>3. worker' \in WorkerStates
        BY <2>2, Moves DEF WorkerGoes, WorkerAt, TickAt
    <2>4. QED
        BY <1>7, <2>1, <2>3 DEF LoopCondition, ActiveWait, StillActive
<1>8. CASE TimerFires
    <2>1. loop' \in LoopStates
        BY <1>8 DEF TimerFires, LoopStates
    <2>2. QED
        BY <1>8, <2>1 DEF TimerFires
<1>9. CASE UNCHANGED vars
    BY <1>9 DEF vars
<1>10. QED
    BY <1>1, <1>2, <1>3, <1>4, <1>5, <1>6, <1>7, <1>8, <1>9 DEF Next, WorkerStep

----------------------------------------------------------------------------
(* The sequence number.                                                    *)

\* Steps that leave every snapshot and the publishing of them alone.
QuietUi ==
  \/ TriggerBounce \/ CheckActive
  \/ EnsureWorker \/ ClaimStart \/ ResetStop \/ ShowOverlays \/ SetWake
  \/ ClaimStop \/ SignalStop \/ CancelTimer \/ AfterStop \/ DestroyDevice
  \/ SetShutdown \/ JoinWorker \/ CloseHandles
  \/ \E what \in {"update", "disable", "shutdown"} : BeginStop(what)

Publish ==
  \/ WriteInPlace \/ BeginPublish \/ FillSnapshot \/ StampSnapshot \/ FlipIndex \/ EndPublish

LEMMA QuietUiFrame ==
  ASSUME FrameInv, QuietUi
  PROVE  /\ ui.at \notin Writing /\ ui'.at \notin Writing
         /\ buffer' = buffer
         /\ plugin'.inputs = plugin.inputs
         /\ past'.seen = past.seen
<1> USE DEF FrameInv, TypeOK
<1>1. CASE TriggerBounce \/ CheckActive \/ ResetStop \/ ShowOverlays \/ SetWake
    BY <1>1 DEF TriggerBounce, CheckActive, ResetStop, ShowOverlays, SetWake, UiGoes, Writing,
                UiStates, Histories
<1>2. CASE EnsureWorker \/ ClaimStart \/ CloseHandles
    BY <1>2 DEF EnsureWorker, ClaimStart, CloseHandles, UiGoes, Writing, UiStates, Histories
<1>3. CASE ClaimStop \/ SignalStop \/ CancelTimer
    BY <1>3 DEF ClaimStop, SignalStop, CancelTimer, UiGoes, Writing, UiStates, Histories
<1>4. CASE DestroyDevice \/ SetShutdown \/ JoinWorker
    BY <1>4 DEF DestroyDevice, SetShutdown, JoinWorker, UiGoes, Writing, UiStates, PluginStates
<1>5. CASE AfterStop
    <2>1. ui.then \in {"update", "disable", "shutdown"}
        BY <1>5 DEF AfterStop, IndexInv, Stopping, UiStates
    <2>2. QED
        BY <1>5, <2>1 DEF AfterStop, UiGoes, Writing, UiStates
<1>6. CASE \E what \in {"update", "disable", "shutdown"} : BeginStop(what)
    BY <1>6 DEF BeginStop, Writing, UiStates, PluginStates, Histories
<1>7. QED
    BY <1>1, <1>2, <1>3, <1>4, <1>5, <1>6 DEF QuietUi

\* Steps of the worker, and Enable, which does not touch the buffers either.
LEMMA WorkerFrame ==
  ASSUME TypeOK, WorkerStep \/ Enable \/ TimerFires \/ UNCHANGED vars
  PROVE  /\ ui' = ui /\ buffer' = buffer
         /\ plugin'.inputs = plugin.inputs
         /\ past'.seen = past.seen
<1> USE DEF TypeOK
<1>1. CASE WorkerWakes \/ WorkerResetsStop \/ ArmTimer \/ LoopCondition
    BY <1>1 DEF WorkerWakes, WorkerResetsStop, ArmTimer, LoopCondition, Histories
<1>2. CASE ActiveWait \/ StillActive
    BY <1>2 DEF ActiveWait, StillActive
<1>3. CASE EnterTick \/ ReadSequence \/ CopyFields \/ CopyStamp \/ ReadSequenceAgain
    BY <1>3 DEF EnterTick, ReadSequence, CopyFields, CopyStamp, ReadSequenceAgain, Histories
<1>4. CASE ApplyFields \/ ApplyStamp \/ MoveIcons \/ Paint
    BY <1>4 DEF ApplyFields, ApplyStamp, MoveIcons, Paint, Histories
<1>5. CASE Commit \/ Settle \/ Enable \/ TimerFires \/ UNCHANGED vars
    BY <1>5 DEF Commit, Settle, Enable, TimerFires, vars, Histories, PluginStates
<1>6. QED
    BY <1>1, <1>2, <1>3, <1>4, <1>5 DEF WorkerStep, Tick

LEMMA Steps ==
  [Next]_vars => InputStep \/ Publish \/ QuietUi
                   \/ WorkerStep \/ Enable \/ TimerFires \/ UNCHANGED vars
BY DEF Next, UiContinues, Publish, QuietUi

LEMMA NextSequence ==
  ASSUME FrameInv, [Next]_vars
  PROVE  SequenceInv'
<1> USE DEF FrameInv, SequenceInv, UnderWay, ToCome
<1>1. /\ \A m \in Monitors : m \in Nat /\ buffer[m].seq \in Nat /\ buffer[m] \in Buffers
      /\ plugin.inputs \in Nat
    BY DEF TypeOK, Buffers, PluginStates, Times, Monitors
<1>2. CASE InputStep
    <2>1. PICK kind, on : Input(kind, on)
        BY <1>2 DEF InputStep
    <2>2. /\ ui.at = "idle" /\ buffer' = buffer
          /\ plugin'.inputs = plugin.inputs + 1
          /\ ui'.at \in {"write", "bounce"}
        BY <2>1 DEF Input, TypeOK, PluginStates, UiStates
    <2>3. QED
        BY <1>1, <2>2 DEF Odd, Writing
<1>3. CASE Publish
    <2>1. ui.m \in Monitors /\ plugin' = plugin
        BY <1>3 DEF Publish, WriteInPlace, BeginPublish, FillSnapshot, StampSnapshot,
                    FlipIndex, EndPublish, IndexInv, Writing
    <2>2. CASE WriteInPlace
        <3>1. /\ ui.at = "write" /\ ui'.at = "begin" /\ ui'.m = ui.m /\ buffer' = buffer
            BY <2>2 DEF WriteInPlace, UiGoes, TypeOK, UiStates
        <3>2. QED
            BY <2>1, <3>1 DEF Odd, Writing
    <2>3. CASE BeginPublish
        <3>1. /\ ui.at = "begin" /\ ui'.at = "fill" /\ ui'.m = ui.m
              /\ \A m \in Monitors : buffer'[m].seq = IF m = ui.m THEN buffer[m].seq + 1
                                                                   ELSE buffer[m].seq
            BY <2>1, <2>3 DEF BeginPublish, UiGoes, TypeOK, UiStates, Buffers
        <3>2. QED
            BY <1>1, <2>1, <3>1, Parity DEF Odd, Writing
    <2>4. CASE FillSnapshot \/ StampSnapshot \/ FlipIndex
        <3>1. /\ ui.at \in {"fill", "stamp", "flip"} /\ ui'.at \in {"stamp", "flip", "end"}
              /\ ui'.m = ui.m
            BY <2>4 DEF FillSnapshot, StampSnapshot, FlipIndex, UiGoes, TypeOK, UiStates
        <3>2. \A m \in Monitors : buffer'[m].seq = buffer[m].seq
            <4>1. CASE FillSnapshot
                BY <2>1, <4>1 DEF FillSnapshot, TypeOK, Buffers
            <4>2. CASE StampSnapshot
                BY <2>1, <4>2 DEF StampSnapshot, TypeOK, Buffers
            <4>3. CASE FlipIndex
                BY <2>1, <4>3 DEF FlipIndex, TypeOK, Buffers
            <4>4. QED
                BY <2>4, <4>1, <4>2, <4>3
        <3>3. QED
            BY <2>1, <3>1, <3>2 DEF Odd, Writing
    <2>5. CASE EndPublish
        <3>1. /\ ui.at = "end" /\ ui'.at \in {"write", "check"} /\ ui'.m = ui.m + 1
              /\ ui.m < Count <=> ui'.at = "write"
              /\ \A m \in Monitors : buffer'[m].seq = IF m = ui.m THEN buffer[m].seq + 1
                                                                   ELSE buffer[m].seq
            BY <2>1, <2>5 DEF EndPublish, TypeOK, UiStates, Buffers
        <3>2. QED
            BY <1>1, <2>1, <3>1, Parity DEF Odd, Writing
    <2>6. QED
        BY <1>3, <2>2, <2>3, <2>4, <2>5 DEF Publish
<1>4. CASE QuietUi
    BY <1>4, QuietUiFrame DEF Odd, Writing
<1>5. CASE WorkerStep \/ Enable \/ TimerFires \/ UNCHANGED vars
    BY <1>5, WorkerFrame
<1>6. QED
    BY <1>2, <1>3, <1>4, <1>5, Steps

LEMMA NextIndex ==
  ASSUME FrameInv, [Next]_vars
  PROVE  IndexInv'
<1> USE DEF FrameInv, IndexInv
<1>1. CASE InputStep
    <2>1. PICK kind, on : Input(kind, on)
        BY <1>1 DEF InputStep
    <2>2. ui'.at \in {"write", "bounce"} /\ ui'.m = 1 /\ worker' = worker
        BY <2>1 DEF Input, TypeOK, UiStates
    <2>3. plugin'.inputs > 0 /\ 1 \in Monitors
        BY <2>1 DEF Input, TypeOK, PluginStates, Times, Monitors
    <2>4. QED
        BY <2>2, <2>3 DEF Stopping
<1>2. CASE Publish
    <2>1. plugin' = plugin /\ worker' = worker
        BY <1>2 DEF Publish, WriteInPlace, BeginPublish, FillSnapshot, StampSnapshot, FlipIndex,
                    EndPublish
    <2>2. ui.at \in Writing /\ ui'.at \notin Stopping
        BY <1>2 DEF Publish, WriteInPlace, BeginPublish, FillSnapshot, StampSnapshot, FlipIndex,
                    EndPublish, UiGoes, TypeOK, UiStates, Writing, Stopping
    <2>3. ui'.at \in Writing => ui'.m \in Monitors
        <3>1. CASE EndPublish
            BY <2>2, <3>1 DEF EndPublish, TypeOK, UiStates, Writing, Monitors
        <3>2. CASE ~EndPublish
            BY <1>2, <2>2, <3>2
               DEF Publish, WriteInPlace, BeginPublish, FillSnapshot, StampSnapshot, FlipIndex,
                   UiGoes, TypeOK, UiStates
        <3>3. QED
            BY <3>1, <3>2
    <2>4. QED
        BY <2>1, <2>2, <2>3
<1>3. CASE QuietUi
    <2>1. ui'.at \notin Writing
        BY <1>3, QuietUiFrame
    <2>2. ui'.at \in Stopping => ui'.then # "none"
        <3>1. CASE \E what \in {"update", "disable", "shutdown"} : BeginStop(what)
            BY <3>1 DEF BeginStop, TypeOK, UiStates
        <3>2. CASE ClaimStop \/ SignalStop \/ CancelTimer
            BY <3>2 DEF ClaimStop, SignalStop, CancelTimer, UiGoes, TypeOK, UiStates, Stopping
        <3>3. CASE TriggerBounce \/ CheckActive \/ ResetStop \/ ShowOverlays \/ SetWake
            BY <3>3 DEF TriggerBounce, CheckActive, ResetStop, ShowOverlays, SetWake, UiGoes,
                        TypeOK, UiStates, Stopping
        <3>4. CASE EnsureWorker \/ ClaimStart \/ CloseHandles
            BY <3>4 DEF EnsureWorker, ClaimStart, CloseHandles, UiGoes, TypeOK, UiStates, Stopping
        <3>5. CASE DestroyDevice \/ SetShutdown \/ JoinWorker \/ AfterStop
            BY <3>5 DEF DestroyDevice, SetShutdown, JoinWorker, AfterStop, UiGoes, TypeOK,
                        UiStates, Stopping
        <3>6. QED
            BY <1>3, <3>1, <3>2, <3>3, <3>4, <3>5 DEF QuietUi
    <2>3. worker'.at \in PerMonitor => worker' = worker
        BY <1>3 DEF QuietUi, TriggerBounce, CheckActive, EnsureWorker, ClaimStart, ResetStop,
                    ShowOverlays, SetWake, ClaimStop, SignalStop, CancelTimer, AfterStop,
                    DestroyDevice, SetShutdown, JoinWorker, CloseHandles, BeginStop,
                    TypeOK, WorkerStates, PerMonitor
    <2>4. QED
        BY <2>1, <2>2, <2>3
<1>4. CASE WorkerStep \/ Enable \/ TimerFires \/ UNCHANGED vars
    <2>1. worker'.at \in PerMonitor => worker'.m \in Monitors
        <3>1. CASE WorkerWakes \/ WorkerResetsStop \/ ArmTimer \/ LoopCondition
            BY <3>1 DEF WorkerWakes, WorkerResetsStop, ArmTimer, LoopCondition, WorkerGoes,
                        TypeOK, WorkerStates, PerMonitor
        <3>2. CASE ActiveWait \/ StillActive
            BY <3>2 DEF ActiveWait, StillActive, WorkerGoes, TypeOK, WorkerStates, PerMonitor
        <3>3. CASE EnterTick
            BY <3>3 DEF EnterTick, TypeOK, WorkerStates, Monitors
        <3>4. CASE ReadSequence \/ CopyFields \/ CopyStamp \/ ReadSequenceAgain
            BY <3>4 DEF ReadSequence, CopyFields, CopyStamp, ReadSequenceAgain, TypeOK,
                        WorkerStates, PerMonitor
        <3>5. CASE ApplyFields \/ ApplyStamp \/ MoveIcons
            BY <3>5 DEF ApplyFields, ApplyStamp, MoveIcons, WorkerGoes, TypeOK, WorkerStates,
                        PerMonitor
        <3>6. CASE Paint
            <4>1. worker.m \in Monitors
                BY <3>6 DEF Paint, PerMonitor
            <4>2. worker'.m = worker.m + 1 /\ (worker'.at \in PerMonitor => worker.m < Count)
                BY <3>6 DEF Paint, TypeOK, WorkerStates, PerMonitor
            <4>3. QED
                BY <4>1, <4>2 DEF Monitors
        <3>7. CASE Commit \/ Settle
            BY <3>7 DEF Commit, Settle, WorkerGoes, TypeOK, WorkerStates, PerMonitor
        <3>8. CASE Enable \/ TimerFires \/ UNCHANGED vars
            BY <3>8 DEF Enable, TimerFires, vars
        <3>9. QED
            BY <1>4, <3>1, <3>2, <3>3, <3>4, <3>5, <3>6, <3>7, <3>8 DEF WorkerStep, Tick
    <2>2. QED
        BY <1>4, <2>1, WorkerFrame
<1>5. QED
    BY <1>1, <1>2, <1>3, <1>4, Steps

----------------------------------------------------------------------------
(* The snapshots.                                                          *)

\* What a step of the writer leaves of a monitor that is not being published,
\* and of the current slot of one that is.
LEMMA PublishFrame ==
  ASSUME FrameInv, Publish
  PROVE  /\ ui.m \in Monitors /\ ui.at \in Writing /\ worker' = worker
         /\ \A m \in Monitors \ {ui.m} : buffer'[m] = buffer[m]
         /\ \A m \in Monitors : past.seen[m] \subseteq past'.seen[m]
         /\ \A m \in Monitors : buffer[m].seq <= buffer'[m].seq
<1> USE DEF FrameInv, TypeOK
<1>1. ui.m \in Monitors /\ ui.at \in Writing /\ worker' = worker
    BY DEF Publish, WriteInPlace, BeginPublish, FillSnapshot, StampSnapshot, FlipIndex,
           EndPublish, IndexInv, Writing
<1>2. \A m \in Monitors \ {ui.m} : buffer'[m] = buffer[m]
    BY <1>1 DEF Publish, WriteInPlace, BeginPublish, FillSnapshot, StampSnapshot, FlipIndex,
                EndPublish
<1>3. \A m \in Monitors : past.seen[m] \subseteq past'.seen[m]
    <2>1. CASE StampSnapshot
        BY <1>1, <2>1 DEF StampSnapshot, Histories
    <2>2. CASE ~StampSnapshot
        BY <2>2 DEF Publish, WriteInPlace, BeginPublish, FillSnapshot, FlipIndex, EndPublish
    <2>3. QED
        BY <2>1, <2>2
<1>4. \A m \in Monitors : buffer[m].seq <= buffer'[m].seq
    <2>1. \A m \in Monitors : buffer[m].seq \in Nat
        BY DEF Buffers
    <2>2. buffer'[ui.m].seq \in {buffer[ui.m].seq, buffer[ui.m].seq + 1}
        BY <1>1 DEF Publish, WriteInPlace, BeginPublish, FillSnapshot, StampSnapshot, FlipIndex,
                    EndPublish, Buffers
    <2>3. QED
        BY <1>2, <2>1, <2>2
<1>5. QED
    BY <1>1, <1>2, <1>3, <1>4

LEMMA NextPublished ==
  ASSUME FrameInv, [Next]_vars
  PROVE  PublishedInv'
<1> USE DEF FrameInv, PublishedInv, Current, Spare
<1>1. CASE Publish
    <2>1. /\ ui.m \in Monitors
          /\ \A m \in Monitors \ {ui.m} : buffer'[m] = buffer[m]
          /\ \A m \in Monitors : past.seen[m] \subseteq past'.seen[m]
        BY <1>1, PublishFrame
    <2>2. buffer[ui.m] \in Buffers
        BY <2>1 DEF TypeOK
    <2> DEFINE b == buffer'[ui.m]
    <2>3. /\ b.slot[b.idx] \in past'.seen[ui.m]
          /\ ui'.at = "flip" => ui'.m = ui.m /\ b.slot[1 - b.idx] \in past'.seen[ui.m]
        <3>1. CASE WriteInPlace \/ BeginPublish \/ EndPublish
            <4>1. /\ buffer'[ui.m].idx = buffer[ui.m].idx
                  /\ buffer'[ui.m].slot = buffer[ui.m].slot
                BY <2>1, <2>2, <3>1 DEF WriteInPlace, BeginPublish, EndPublish, TypeOK, Buffers
            <4>2. ui'.at # "flip"
                BY <3>1 DEF WriteInPlace, BeginPublish, EndPublish, UiGoes, TypeOK, UiStates
            <4>3. QED
                BY <2>1, <4>1, <4>2
        <3>2. CASE FillSnapshot
            BY <2>1, <2>2, <3>2 DEF FillSnapshot, UiGoes, TypeOK, Buffers, UiStates
        <3>3. CASE StampSnapshot
            <4>1. /\ buffer'[ui.m].idx = buffer[ui.m].idx
                  /\ buffer'[ui.m].slot[buffer[ui.m].idx] = buffer[ui.m].slot[buffer[ui.m].idx]
                <5>1. buffer'[ui.m] = [buffer[ui.m] EXCEPT
                                         !.slot[Spare(ui.m)].qpc = Published(ui.m).qpc]
                    BY <2>1, <3>3 DEF StampSnapshot, TypeOK
                <5>2. buffer[ui.m].idx # Spare(ui.m) /\ buffer[ui.m].idx \in {0, 1}
                    BY <2>2 DEF Buffers
                <5>3. QED
                    BY <2>2, <5>1, <5>2, Zenon DEF Buffers
            <4>2. ui'.m = ui.m
                BY <3>3 DEF StampSnapshot, UiGoes, TypeOK, UiStates
            <4>3. buffer'[ui.m].slot[1 - buffer[ui.m].idx] \in past'.seen[ui.m]
                <5> DEFINE x == buffer'[ui.m].slot[Spare(ui.m)]
                <5>1. past' = [past EXCEPT !.seen[ui.m] = @ \cup {x}]
                    BY <3>3 DEF StampSnapshot
                <5>2. x = buffer'[ui.m].slot[1 - buffer[ui.m].idx]
                    BY <4>1
                <5> HIDE DEF x
                <5>3. x \in past'.seen[ui.m]
                    BY <2>1, <5>1 DEF TypeOK, Histories
                <5>4. QED
                    BY <5>2, <5>3
            <4>4. QED
                BY <2>1, <4>1, <4>2, <4>3
        <3>4. CASE FlipIndex
            BY <2>1, <2>2, <3>4 DEF FlipIndex, UiGoes, TypeOK, Buffers, UiStates
        <3>5. QED
            BY <1>1, <3>1, <3>2, <3>3, <3>4 DEF Publish
    <2>4. QED
        BY <2>1, <2>3
<1>2. CASE InputStep
    <2>1. PICK kind, on : Input(kind, on)
        BY <1>2 DEF InputStep
    <2>2. buffer' = buffer /\ past'.seen = past.seen /\ ui'.at # "flip"
        BY <2>1 DEF Input, TypeOK, UiStates, Histories
    <2>3. QED
        BY <2>2
<1>3. CASE QuietUi
    BY <1>3, QuietUiFrame DEF Writing
<1>4. CASE WorkerStep \/ Enable \/ TimerFires \/ UNCHANGED vars
    BY <1>4, WorkerFrame
<1>5. QED
    BY <1>1, <1>2, <1>3, <1>4, Steps

\* While the sequence number stays at the even number the reader began with, nothing
\* of the monitor it reads changes.
LEMMA NothingPublished ==
  ASSUME FrameInv, Publish, worker.at \in {"copy", "copied", "seq2"},
         buffer'[worker.m].seq = worker.seq1
  PROVE  /\ buffer[worker.m].seq = worker.seq1
         /\ buffer'[worker.m] = buffer[worker.m]
<1> USE DEF FrameInv
<1> DEFINE b == buffer[worker.m]
<1>1. worker.m \in Monitors /\ b \in Buffers /\ b.seq \in Nat /\ worker.seq1 \in Nat
    BY DEF IndexInv, PerMonitor, TypeOK, Buffers, WorkerStates
<1>2. worker.seq1 % 2 = 0 /\ worker.seq1 <= b.seq
    BY DEF ReaderInv
<1>3. b.seq = worker.seq1
    BY <1>1, <1>2, PublishFrame
<1>4. b.seq % 2 = 0
    BY <1>2, <1>3
<1>5. ~UnderWay(worker.m)
    BY <1>1, <1>4 DEF SequenceInv
<1>6. CASE worker.m # ui.m
    BY <1>1, <1>3, <1>6, PublishFrame
<1>7. CASE worker.m = ui.m
    <2>1. ~BeginPublish
        <3>1. BeginPublish => buffer'[ui.m].seq = buffer[ui.m].seq + 1
            BY <1>1, <1>7 DEF BeginPublish, TypeOK, Buffers
        <3>2. QED
            BY <1>1, <1>3, <1>7, <3>1
    <2>2. WriteInPlace
        BY <1>5, <1>7, <2>1
           DEF Publish, UnderWay, Odd, FillSnapshot, StampSnapshot, FlipIndex, EndPublish
    <2>3. QED
        BY <1>3, <2>2 DEF WriteInPlace
<1>8. QED
    BY <1>6, <1>7

LEMMA NextReader ==
  ASSUME FrameInv, [Next]_vars
  PROVE  ReaderInv'
<1> USE DEF FrameInv, ReaderInv, SnapshotWhole, Current
<1> DEFINE Reading == {"copy", "copied", "seq2", "apply"}
<1>1. worker.at \in PerMonitor => worker.m \in Monitors
    BY DEF IndexInv
<1>2. CASE Publish
    <2>1. /\ worker' = worker
          /\ \A m \in Monitors : past.seen[m] \subseteq past'.seen[m]
          /\ \A m \in Monitors : buffer[m].seq <= buffer'[m].seq
        BY <1>2, PublishFrame
    <2>2. \A m \in Monitors : buffer[m].seq \in Nat /\ buffer'[m].seq \in Nat
        <3>1. TypeOK /\ TypeOK'
            BY NextType
        <3>2. QED
            BY <3>1 DEF TypeOK, Buffers
    <2>3. worker.seq1 \in Nat
        BY DEF TypeOK, WorkerStates
    <2>4. worker.at \in {"copy", "copied", "seq2"} => worker.seq1 <= buffer'[worker.m].seq
        BY <1>1, <2>1, <2>2, <2>3 DEF PerMonitor
    <2>5. QED
        BY <1>1, <1>2, <2>1, <2>4, NothingPublished DEF PerMonitor
<1>3. CASE InputStep
    <2>1. PICK kind, on : Input(kind, on)
        BY <1>3 DEF InputStep
    <2>2. buffer' = buffer /\ past'.seen = past.seen /\ worker' = worker
        BY <2>1 DEF Input, TypeOK, Histories
    <2>3. QED
        BY <2>2
<1>4. CASE QuietUi
    <2>1. worker'.at \in Reading => worker' = worker
        BY <1>4 DEF QuietUi, TriggerBounce, CheckActive, EnsureWorker, ClaimStart, ResetStop,
                    ShowOverlays, SetWake, ClaimStop, SignalStop, CancelTimer, AfterStop,
                    DestroyDevice, SetShutdown, JoinWorker, CloseHandles, BeginStop,
                    TypeOK, WorkerStates
    <2>2. QED
        BY <1>4, <2>1, QuietUiFrame
<1>5. CASE Enable \/ TimerFires \/ UNCHANGED vars
    <2>1. worker' = worker
        BY <1>5 DEF Enable, TimerFires, vars
    <2>2. QED
        BY <1>5, <2>1, WorkerFrame
<1>6. CASE WorkerStep
    <2>1. buffer' = buffer /\ past'.seen = past.seen
        BY <1>6, WorkerFrame DEF FrameInv
    <2>2. CASE ReadSequence
        <3>1. /\ worker.at = "seq1" /\ worker'.m = worker.m
              /\ worker'.seq1 = buffer[worker.m].seq
              /\ worker'.at \in {"copy", "apply", "seq1"}
              /\ worker'.at = "copy" => buffer[worker.m].seq % 2 = 0
              /\ worker'.at = "apply" => buffer[worker.m].seq % 2 = 1
            BY <2>2 DEF ReadSequence, TypeOK, WorkerStates
        <3>2. buffer[worker.m].seq \in Nat
            BY <1>1, <3>1 DEF TypeOK, Buffers, PerMonitor
        <3>3. QED
            BY <2>1, <3>1, <3>2
    <2>3. CASE CopyFields
        <3>1. /\ worker'.at = "copied" /\ worker'.m = worker.m /\ worker'.seq1 = worker.seq1
              /\ worker'.slot = buffer[worker.m].idx
              /\ worker'.snap = [Current(worker.m) EXCEPT !.qpc = 0]
            BY <2>3 DEF CopyFields, TypeOK, WorkerStates
        <3>2. worker.at = "copy"
            BY <2>3 DEF CopyFields
        <3>3. QED
            BY <2>1, <3>1, <3>2
    <2>4. CASE CopyStamp
        <3>1. /\ worker.at = "copied"
              /\ worker'.at = "seq2" /\ worker'.m = worker.m /\ worker'.seq1 = worker.seq1
              /\ worker'.snap = [worker.snap EXCEPT
                                   !.qpc = buffer[worker.m].slot[worker.slot].qpc]
            BY <2>4 DEF CopyStamp, TypeOK, WorkerStates
        <3>2. worker.m \in Monitors /\ Current(worker.m) \in Mouse
            BY <1>1, <3>1 DEF TypeOK, Buffers, PerMonitor
        <3>3. buffer[worker.m].seq = worker.seq1 => worker'.snap = Current(worker.m)
            BY <3>1, <3>2 DEF Mouse
        <3>4. QED
            BY <2>1, <3>1, <3>2, <3>3 DEF PublishedInv
    <2>5. CASE ReadSequenceAgain
        <3>1. /\ worker.at = "seq2" /\ worker'.m = worker.m /\ worker'.seq1 = worker.seq1
              /\ worker'.snap = worker.snap /\ worker'.at \in {"apply", "seq1"}
              /\ worker'.at = "apply" => buffer[worker.m].seq = worker.seq1
            BY <2>5 DEF ReadSequenceAgain, TypeOK, WorkerStates
        <3>2. QED
            BY <2>1, <3>1
    <2>6. CASE ApplyFields \/ ApplyStamp \/ MoveIcons \/ Paint \/ Commit \/ Settle \/ EnterTick
        <3>1. worker'.at \notin Reading
            <4>1. CASE ApplyFields \/ ApplyStamp \/ Commit \/ Settle
                BY <4>1 DEF ApplyFields, ApplyStamp, Commit, Settle, WorkerGoes, TypeOK,
                            WorkerStates
            <4>2. CASE MoveIcons
                BY <4>2 DEF MoveIcons, TypeOK, WorkerStates
            <4>3. CASE Paint
                BY <4>3 DEF Paint, TypeOK, WorkerStates
            <4>4. CASE EnterTick
                BY <4>4 DEF EnterTick, TypeOK, WorkerStates
            <4>5. QED
                BY <2>6, <4>1, <4>2, <4>3, <4>4
        <3>2. QED
            BY <3>1
    <2>7. CASE \/ WorkerWakes \/ WorkerResetsStop \/ ArmTimer \/ LoopCondition
               \/ ActiveWait \/ StillActive
        <3>1. PICK to \in {"exited", "woken", "arm", "loop", "wait", "idle", "fire", "enter",
                            "rearm"} : WorkerGoes(to)
            BY <2>7 DEF WorkerWakes, WorkerResetsStop, ArmTimer, LoopCondition, ActiveWait,
                        StillActive
        <3>2. worker'.at \notin Reading
            BY <3>1 DEF WorkerGoes, TypeOK, WorkerStates
        <3>3. QED
            BY <3>2
    <2>8. QED
        BY <1>6, <2>2, <2>3, <2>4, <2>5, <2>6, <2>7 DEF WorkerStep, Tick
<1>7. QED
    BY <1>2, <1>3, <1>4, <1>5, <1>6, Steps

----------------------------------------------------------------------------
(* What a loop at rest shows.                                              *)

\* The UI thread has an input it has not brought to the loop yet; it starts the loop.
Pending == Writing \cup {"bounce", "check", "ensure", "claim"}
Starting == {"reset", "show", "wake"}

WrittenNow(m) == ui.at \notin Writing \/ m < ui.m \/ (m = ui.m /\ ui.at # "write")
PublishedNow(m) == ui.at \notin Writing \/ m < ui.m \/ (m = ui.m /\ ui.at = "end")

\* What the UI thread has written of the last mouse event, in place and as a
\* snapshot, is where the cursor is; unless an old snapshot was written over it.
Hovered ==
  \A m \in Monitors :
    /\ WrittenNow(m) => mouse[m].in = (past.hover = m)
    /\ PublishedNow(m) => Current(m).in = (past.hover = m)
    /\ ui.at \in {"stamp", "flip"} /\ m = ui.m => buffer[m].slot[Spare(m)].in = (past.hover = m)

HoverInv ==
  /\ ui.at \in Writing => \/ ui.input = "move" /\ past.hover = ui.on
                          \/ ui.input = "leave" /\ past.hover = 0
  /\ past.hover # Unknown /\ ~past.raced => Hovered

\* The plugin and the loop between two operations of the UI thread: a settled loop has
\* no tick under way, and a loop being started none that got past its first monitor,
\* unless it is one from before the start.
LifeInv ==
  /\ ~plugin.enabled => past.hover = Unknown
  /\ plugin.enabled => plugin.device
  /\ ui.at \in Pending \cup Starting => plugin.enabled
  /\ ui.at = "destroy" \/ (ui.at \in Stopping /\ ui.then = "disable") => ~plugin.enabled
  /\ ui.at \in {"ensure", "claim"} => ~loop.active
  /\ ~loop.active /\ past.ended = "settled" => worker.at \notin TickAt \cup {"wait", "fire"}
  /\ ui.at \in Starting =>
       /\ loop.active \/ past.missed
       /\ \/ past.unseen \/ worker.at \notin TickAt \ {"enter"}
          \/ worker.at \in PerMonitor /\ worker.m = 1

\* The last mouse event is known and the loop was told of every input.
Told == plugin.enabled /\ past.hover # Unknown /\ ~past.raced /\ ui.at \notin Pending

Shows(m) ==
  /\ icons[m].aim.in = (past.hover = m)
  /\ icons[m].alpha => icons[m].aim.in
  /\ ~icons[m].impulse

\* A tick that saw every input leaves behind it monitors that show the cursor, as long
\* as it found them at rest.
Passed == worker.rest => \A m \in Monitors : m < worker.m => Shows(m)
Moved == icons[worker.m].aim.in = (past.hover = worker.m) /\ ~icons[worker.m].impulse

Ticked ==
  /\ worker.at \in PerMonitor \cup {"commit", "settle"} => Passed
  /\ worker.at \in {"commit", "settle"} => worker.m > Count
  /\ worker.at = "paint" => Moved

TickInv == Told /\ ~past.unseen => Ticked

SettledInv ==
  Told /\ ~loop.active /\ past.ended = "settled" /\ ~past.missed => \A m \in Monitors : Shows(m)

ShownInv == FrameInv /\ HoverInv /\ LifeInv /\ TickInv /\ SettledInv

LEMMA NextHover ==
  ASSUME FrameInv, LifeInv, HoverInv, [Next]_vars
  PROVE  HoverInv'
<1> USE DEF FrameInv
<1>1. \A m \in Monitors : /\ m \in Nat /\ m # 0 /\ mouse[m] \in Mouse
                          /\ buffer[m] \in Buffers /\ Spare(m) \in {0, 1}
    BY DEF TypeOK, Monitors, Spare, Buffers
<1>2. ui.at \in Writing => ui.m \in Monitors
    BY DEF IndexInv
<1>3. CASE InputStep
    <2>1. PICK kind, on : /\ kind \in {"move", "leave", "flash"}
                          /\ kind = "leave" => on = 0
                          /\ Input(kind, on)
        BY <1>3 DEF InputStep
    <2>2. /\ ui.at = "idle" /\ mouse' = mouse /\ buffer' = buffer
          /\ ui'.m = 1 /\ ui'.input = kind /\ ui'.on = on
          /\ ui'.at = IF kind = "flash" THEN "bounce" ELSE "write"
          /\ past'.hover = CASE kind = "move" -> on [] kind = "leave" -> 0 [] OTHER -> past.hover
          /\ past'.raced = (past.raced /\ kind = "flash")
        BY <2>1 DEF Input, TypeOK, UiStates, Histories
    <2>3. CASE kind = "flash"
        <3>1. ui'.at = "bounce" /\ past'.hover = past.hover /\ (past.raced => past'.raced)
            BY <2>2, <2>3
        <3>2. \A m \in Monitors : WrittenNow(m) /\ PublishedNow(m) /\ Current(m)' = Current(m)
            BY <2>2 DEF WrittenNow, PublishedNow, Current, Writing
        <3>3. Hovered => Hovered'
            BY <2>2, <3>1, <3>2 DEF Hovered
        <3>4. QED
            BY <3>1, <3>3 DEF HoverInv, Writing
    <2>4. CASE kind # "flash"
        <3>1. ui'.at = "write" /\ ui'.m = 1
            BY <2>2, <2>4
        <3>2. Hovered'
            BY <1>1, <3>1 DEF Hovered, WrittenNow, PublishedNow, Writing, Monitors
        <3>3. QED
            BY <2>1, <2>2, <2>4, <3>2 DEF HoverInv
    <2>5. QED
        BY <2>3, <2>4
<1>4. CASE Publish
    <2>1. /\ ui.m \in Monitors /\ ui.at \in Writing
          /\ \A m \in Monitors \ {ui.m} : buffer'[m] = buffer[m]
        BY <1>4, PublishFrame
    <2>2. /\ past'.hover = past.hover /\ past'.raced = past.raced
          /\ ui'.input = ui.input /\ ui'.on = ui.on
        BY <1>4 DEF Publish, WriteInPlace, BeginPublish, FillSnapshot, StampSnapshot, FlipIndex,
                    EndPublish, UiGoes, TypeOK, UiStates, Histories
    <2>3. SUFFICES ASSUME past.hover # Unknown, ~past.raced, Hovered
                   PROVE  Hovered'
        BY <2>1, <2>2 DEF HoverInv
    <2>4. CASE WriteInPlace
        <3>1. /\ ui.at = "write" /\ ui'.at = "begin" /\ ui'.m = ui.m /\ buffer' = buffer
              /\ \A m \in Monitors \ {ui.m} : mouse'[m] = mouse[m]
              /\ mouse'[ui.m] = Written(ui.m, mouse[ui.m])
            BY <2>1, <2>4 DEF WriteInPlace, UiGoes, TypeOK, UiStates
        <3>2. mouse'[ui.m].in = (past.hover = ui.m)
            <4>1. Written(ui.m, mouse[ui.m]).in = (ui.input = "move" /\ ui.m = ui.on)
                BY <1>1, <2>1 DEF Written, Mouse
            <4>2. QED
                BY <1>1, <2>1, <3>1, <4>1 DEF HoverInv
        <3>3. QED
            BY <1>1, <2>1, <2>2, <2>3, <3>1, <3>2
               DEF Hovered, WrittenNow, PublishedNow, Current, Spare, Writing
    <2>5. CASE BeginPublish
        <3>1. /\ ui.at = "begin" /\ ui'.at = "fill" /\ ui'.m = ui.m /\ mouse' = mouse
              /\ \A m \in Monitors : buffer'[m].idx = buffer[m].idx /\ buffer'[m].slot = buffer[m].slot
            BY <2>1, <2>5 DEF BeginPublish, UiGoes, TypeOK, UiStates, Buffers
        <3>2. QED
            BY <2>1, <2>2, <2>3, <3>1 DEF Hovered, WrittenNow, PublishedNow, Current, Spare, Writing
    <2>6. CASE FillSnapshot
        <3>1. /\ ui.at = "fill" /\ ui'.at = "stamp" /\ ui'.m = ui.m /\ mouse' = mouse
              /\ buffer'[ui.m].idx = buffer[ui.m].idx
              /\ buffer'[ui.m].slot[Spare(ui.m)] =
                   [Published(ui.m) EXCEPT !.qpc = buffer[ui.m].slot[Spare(ui.m)].qpc]
              /\ buffer'[ui.m].slot[buffer[ui.m].idx] = buffer[ui.m].slot[buffer[ui.m].idx]
            BY <1>1, <2>1, <2>6 DEF FillSnapshot, UiGoes, TypeOK, UiStates, Buffers, Spare
        <3>2. buffer'[ui.m].slot[Spare(ui.m)].in = mouse[ui.m].in
            <4>1. Published(ui.m) \in Mouse /\ Published(ui.m).in = mouse[ui.m].in
                BY <1>1, <2>1, InputTypes DEF Published, Mouse
            <4>2. QED
                BY <3>1, <4>1 DEF Mouse
        <3>3. mouse[ui.m].in = (past.hover = ui.m)
            BY <2>1, <2>3, <3>1 DEF Hovered, WrittenNow
        <3>4. \A m \in Monitors : /\ WrittenNow(m)' => WrittenNow(m)
                                  /\ PublishedNow(m)' => PublishedNow(m)
                                  /\ Current(m)' = Current(m)
            BY <2>1, <3>1 DEF WrittenNow, PublishedNow, Current, Writing
        <3>5. Spare(ui.m)' = Spare(ui.m)
            BY <3>1 DEF Spare
        <3>6. buffer'[ui.m].slot[Spare(ui.m)'].in = (past.hover = ui.m)
            BY <3>2, <3>3, <3>5
        <3>7. QED
            BY <2>2, <2>3, <3>1, <3>4, <3>6 DEF Hovered
    <2>7. CASE StampSnapshot
        <3>1. ui.at = "stamp" /\ ui'.at = "flip" /\ ui'.m = ui.m /\ mouse' = mouse
            BY <2>7 DEF StampSnapshot, UiGoes, TypeOK, UiStates
        <3>2. /\ buffer'[ui.m].idx = buffer[ui.m].idx
              /\ \A i \in {0, 1} : buffer'[ui.m].slot[i].in = buffer[ui.m].slot[i].in
            <4>1. buffer'[ui.m] = [buffer[ui.m] EXCEPT
                                    !.slot[Spare(ui.m)].qpc = Published(ui.m).qpc]
                BY <2>1, <2>7 DEF StampSnapshot, TypeOK
            <4>2. QED
                BY <1>1, <2>1, <4>1 DEF Buffers, Mouse
        <3>3. buffer[ui.m].idx \in {0, 1}
            BY <1>1, <2>1 DEF Buffers
        <3>4. \A m \in Monitors : /\ WrittenNow(m)' => WrittenNow(m)
                                  /\ PublishedNow(m)' => PublishedNow(m)
                                  /\ Current(m)'.in = Current(m).in
            BY <2>1, <3>1, <3>2, <3>3 DEF WrittenNow, PublishedNow, Current, Writing
        <3>5. Spare(ui.m)' = Spare(ui.m)
            BY <3>1, <3>2 DEF Spare
        <3>6. buffer'[ui.m].slot[Spare(ui.m)'].in = (past.hover = ui.m)
            BY <1>1, <2>1, <2>3, <3>1, <3>2, <3>5 DEF Hovered
        <3>7. QED
            BY <2>2, <2>3, <3>1, <3>4, <3>6 DEF Hovered
    <2>8. CASE FlipIndex
        <3>1. /\ ui.at = "flip" /\ ui'.at = "end" /\ ui'.m = ui.m /\ mouse' = mouse
              /\ buffer'[ui.m].idx = Spare(ui.m) /\ buffer'[ui.m].slot = buffer[ui.m].slot
            BY <1>1, <2>1, <2>8 DEF FlipIndex, UiGoes, TypeOK, UiStates, Buffers, Spare
        <3>2. QED
            BY <2>1, <2>2, <2>3, <3>1 DEF Hovered, WrittenNow, PublishedNow, Current, Spare, Writing
    <2>9. CASE EndPublish
        <3>1. /\ ui.at = "end" /\ ui'.at \in {"write", "check"} /\ ui'.m = ui.m + 1
              /\ ui'.at = "check" => ui.m = Count
              /\ mouse' = mouse
              /\ \A m \in Monitors : buffer'[m].idx = buffer[m].idx /\ buffer'[m].slot = buffer[m].slot
            BY <1>1, <2>1, <2>9 DEF EndPublish, TypeOK, UiStates, Buffers, Monitors
        <3>2. \A m \in Monitors : /\ WrittenNow(m)' => WrittenNow(m) /\ PublishedNow(m)
                                  /\ PublishedNow(m)' => PublishedNow(m)
            BY <1>1, <2>1, <3>1 DEF WrittenNow, PublishedNow, Writing, Monitors
        <3>3. QED
            BY <2>2, <2>3, <3>1, <3>2 DEF Hovered, Current
    <2>10. QED
        BY <1>4, <2>4, <2>5, <2>6, <2>7, <2>8, <2>9 DEF Publish
<1>5. CASE QuietUi
    <2>1. ui.at \notin Writing /\ ui'.at \notin Writing /\ buffer' = buffer
        BY <1>5, QuietUiFrame
    <2>2. /\ mouse' = mouse /\ past'.raced = past.raced
          /\ past'.hover \in {past.hover, Unknown}
        BY <1>5 DEF QuietUi, TriggerBounce, CheckActive, EnsureWorker, ClaimStart, ResetStop,
                    ShowOverlays, SetWake, ClaimStop, SignalStop, CancelTimer, AfterStop,
                    DestroyDevice, SetShutdown, JoinWorker, CloseHandles, BeginStop,
                    TypeOK, Histories
    <2>3. QED
        BY <2>1, <2>2 DEF HoverInv, Hovered, WrittenNow, PublishedNow, Current, Spare, Writing
<1>6. CASE Enable
    BY <1>6 DEF Enable, LifeInv, HoverInv, Writing
<1>7. CASE ApplyFields
    <2> DEFINE k == worker.m
    <2>1. /\ worker.at = "apply" /\ k \in Monitors /\ worker.snap \in Mouse
          /\ ui' = ui /\ buffer' = buffer /\ past'.hover = past.hover
          /\ past.raced => past'.raced
        BY <1>7 DEF ApplyFields, IndexInv, PerMonitor, TypeOK, Histories, WorkerStates
    <2>2. \/ mouse' = mouse
          \/ /\ \A m \in Monitors \ {k} : mouse'[m] = mouse[m]
             /\ mouse'[k].in = worker.snap.in
             /\ ~past'.raced => ui.at \notin Publishing /\ worker.snap = Current(k)
        BY <1>1, <1>7, <2>1 DEF ApplyFields, TypeOK, Histories, Mouse
    <2>3. WrittenNow(k) /\ ui.at \notin Publishing => PublishedNow(k)
        BY DEF WrittenNow, PublishedNow, Publishing, Writing
    <2>4. QED
        BY <2>1, <2>2, <2>3 DEF HoverInv, Hovered, WrittenNow, PublishedNow, Current, Spare
<1>8. CASE ApplyStamp
    <2>1. /\ ui' = ui /\ buffer' = buffer /\ past' = past
          /\ \A m \in Monitors : mouse'[m].in = mouse[m].in
        BY <1>1, <1>8 DEF ApplyStamp, IndexInv, PerMonitor, TypeOK, Mouse
    <2>2. QED
        BY <2>1 DEF HoverInv, Hovered, WrittenNow, PublishedNow, Current, Spare
<1>9. CASE (WorkerStep /\ ~ApplyFields /\ ~ApplyStamp) \/ TimerFires \/ UNCHANGED vars
    <2>1. ui' = ui /\ buffer' = buffer
        BY <1>9, WorkerFrame
    <2>2. mouse' = mouse /\ past'.hover = past.hover /\ past'.raced = past.raced
        BY <1>9 DEF WorkerStep, Tick, WorkerWakes, WorkerResetsStop, ArmTimer, LoopCondition,
                    ActiveWait, StillActive, EnterTick, ReadSequence, CopyFields, CopyStamp,
                    ReadSequenceAgain, MoveIcons, Paint, Commit, Settle, TimerFires, vars,
                    TypeOK, Histories
    <2>3. QED
        BY <2>1, <2>2 DEF HoverInv, Hovered, WrittenNow, PublishedNow, Current, Spare
<1>10. QED
    BY <1>3, <1>4, <1>5, <1>6, <1>7, <1>8, <1>9, Steps

LEMMA NextLife ==
  ASSUME FrameInv, LifeInv, [Next]_vars
  PROVE  LifeInv'
<1> USE DEF FrameInv
<1> DEFINE PastKept == /\ past'.hover = past.hover /\ past'.ended = past.ended
                       /\ past'.missed = past.missed /\ past'.unseen = past.unseen
<1>1. CASE InputStep
    <2>1. PICK kind, on : Input(kind, on)
        BY <1>1 DEF InputStep
    <2>2. /\ plugin.enabled /\ plugin'.enabled /\ plugin'.device = plugin.device
          /\ loop' = loop /\ worker' = worker
          /\ ui'.at \in {"write", "bounce"}
          /\ past'.ended = past.ended
        BY <2>1 DEF Input, TypeOK, PluginStates, UiStates, Histories
    <2>3. QED
        BY <2>2 DEF LifeInv, Pending, Starting, Writing, Stopping
<1>2. CASE Publish
    <2>1. plugin' = plugin /\ loop' = loop /\ worker' = worker /\ PastKept
        BY <1>2 DEF Publish, WriteInPlace, BeginPublish, FillSnapshot, StampSnapshot, FlipIndex,
                    EndPublish, TypeOK, Histories
    <2>2. ui.at \in Writing /\ ui'.at \in Writing \cup {"check"}
        BY <1>2 DEF Publish, WriteInPlace, BeginPublish, FillSnapshot, StampSnapshot, FlipIndex,
                    EndPublish, UiGoes, TypeOK, UiStates, Writing
    <2>3. QED
        BY <2>1, <2>2 DEF LifeInv, Pending, Starting, Writing, Stopping
<1>3. CASE QuietUi
    <2>1. CASE TriggerBounce
        <3>1. /\ ui.at = "bounce" /\ ui'.at = "check"
              /\ plugin' = plugin /\ loop' = loop /\ worker' = worker /\ past' = past
            BY <2>1 DEF TriggerBounce, UiGoes, TypeOK, UiStates
        <3>2. QED
            BY <3>1 DEF LifeInv, Pending, Starting, Writing, Stopping
    <2>2. CASE CheckActive
        <3>1. /\ ui.at = "check" /\ ui'.at = IF loop.active THEN "idle" ELSE "ensure"
              /\ plugin' = plugin /\ loop' = loop /\ worker' = worker
              /\ past'.hover = past.hover /\ past'.ended = past.ended
            BY <2>2 DEF CheckActive, UiGoes, TypeOK, UiStates, Histories
        <3>2. QED
            BY <3>1 DEF LifeInv, Pending, Starting, Writing, Stopping
    <2>3. CASE EnsureWorker
        <3>1. /\ ui.at = "ensure" /\ ui'.at = "claim"
              /\ plugin' = plugin /\ loop' = loop /\ past' = past
              /\ worker'.at \in {worker.at, "idle"}
            BY <2>3 DEF EnsureWorker, UiGoes, TypeOK, UiStates, WorkerStates
        <3>2. QED
            BY <3>1 DEF LifeInv, Pending, Starting, Writing, Stopping, TickAt
    <2>4. CASE ClaimStart
        <3>1. ui.at = "claim" /\ ~loop.active /\ plugin.enabled
            BY <2>4 DEF ClaimStart, LifeInv, Pending
        <3>2. /\ ui'.at = "reset" /\ plugin' = plugin /\ worker' = worker
              /\ loop'.active /\ past'.hover = past.hover
              /\ past'.unseen = (worker.at \in TickAt)
            BY <2>4, <3>1 DEF ClaimStart, UiGoes, TypeOK, UiStates, LoopStates, Histories
        <3>3. QED
            BY <3>1, <3>2 DEF LifeInv, Pending, Starting, Writing, Stopping
    <2>5. CASE ResetStop \/ ShowOverlays \/ SetWake
        <3>1. /\ ui.at \in Starting /\ ui'.at \in Starting \cup {"idle"}
              /\ plugin' = plugin /\ worker' = worker /\ past' = past
              /\ loop'.active = loop.active
            BY <2>5 DEF ResetStop, ShowOverlays, SetWake, UiGoes, TypeOK, UiStates, LoopStates,
                        Starting
        <3>2. QED
            BY <3>1 DEF LifeInv, Pending, Starting, Writing, Stopping
    <2>6. CASE \E what \in {"update", "disable", "shutdown"} : BeginStop(what)
        <3>1. PICK what \in {"update", "disable", "shutdown"} : BeginStop(what)
            BY <2>6
        <3>2. /\ ui'.at = "stop" /\ ui'.then = what
              /\ plugin'.enabled = (plugin.enabled /\ what # "disable")
              /\ plugin'.device = plugin.device
              /\ past'.hover = (IF what = "disable" THEN Unknown ELSE past.hover)
              /\ past'.ended = past.ended
              /\ loop' = loop /\ worker' = worker
            BY <3>1 DEF BeginStop, TypeOK, UiStates, PluginStates, Histories
        <3>3. QED
            BY <3>2 DEF LifeInv, Pending, Starting, Writing, Stopping
    <2>7. CASE ClaimStop
        <3>1. /\ ui.at = "stop" /\ ui'.at \in {"signal", "after"} /\ ui'.then = ui.then
              /\ plugin' = plugin /\ worker' = worker
              /\ past'.hover = past.hover
              /\ past'.ended = IF loop.active THEN "stopped" ELSE past.ended
            BY <2>7 DEF ClaimStop, UiGoes, TypeOK, UiStates, LoopStates, Histories
        <3>2. QED
            BY <3>1 DEF LifeInv, Pending, Starting, Writing, Stopping
    <2>8. CASE SignalStop \/ CancelTimer
        <3>1. /\ ui.at \in Stopping /\ ui'.at \in Stopping /\ ui'.then = ui.then
              /\ plugin' = plugin /\ worker' = worker /\ past' = past
              /\ loop'.active = loop.active
            BY <2>8 DEF SignalStop, CancelTimer, UiGoes, TypeOK, UiStates, LoopStates, Stopping
        <3>2. QED
            BY <3>1 DEF LifeInv, Pending, Starting, Writing, Stopping
    <2>9. CASE AfterStop
        <3>1. ui.at = "after" /\ ui.then \in {"update", "disable", "shutdown"}
            BY <2>9 DEF AfterStop, IndexInv, Stopping, TypeOK, UiStates
        <3>2. /\ ui'.at \in {"idle", "destroy", "shutdown"}
              /\ ui'.at = "destroy" => ui.then = "disable"
              /\ plugin' = plugin /\ worker' = worker /\ past' = past /\ loop' = loop
            BY <2>9, <3>1 DEF AfterStop, UiGoes, TypeOK, UiStates
        <3>3. QED
            BY <3>1, <3>2 DEF LifeInv, Pending, Starting, Writing, Stopping
    <2>10. CASE DestroyDevice
        <3>1. /\ ui.at = "destroy" /\ ui'.at = "idle"
              /\ plugin'.enabled = plugin.enabled
              /\ worker' = worker /\ past' = past /\ loop' = loop
            BY <2>10 DEF DestroyDevice, UiGoes, TypeOK, UiStates, PluginStates
        <3>2. QED
            BY <3>1 DEF LifeInv, Pending, Starting, Writing, Stopping
    <2>11. CASE SetShutdown \/ JoinWorker \/ CloseHandles
        <3>1. /\ ui'.at \in {"join", "close", "idle"}
              /\ plugin' = plugin /\ past' = past /\ loop'.active = loop.active
              /\ worker'.at \in {worker.at, "none"}
            BY <2>11 DEF SetShutdown, JoinWorker, CloseHandles, UiGoes, TypeOK, UiStates,
                         LoopStates, WorkerStates
        <3>2. QED
            BY <3>1 DEF LifeInv, Pending, Starting, Writing, Stopping, TickAt
    <2>12. QED
        BY <1>3, <2>1, <2>2, <2>3, <2>4, <2>5, <2>6, <2>7, <2>8, <2>9, <2>10, <2>11 DEF QuietUi
<1>4. CASE Enable
    <2>1. /\ ui.at = "idle" /\ ui' = ui /\ plugin'.enabled /\ plugin'.device
          /\ loop' = loop /\ worker' = worker /\ past' = past
        BY <1>4 DEF Enable, TypeOK, PluginStates
    <2>2. QED
        BY <2>1 DEF LifeInv, Pending, Starting, Writing, Stopping
<1>5. CASE TimerFires \/ UNCHANGED vars
    <2>1. /\ ui' = ui /\ plugin' = plugin /\ worker' = worker /\ past' = past
          /\ loop'.active = loop.active
        BY <1>5 DEF TimerFires, vars, TypeOK, LoopStates
    <2>2. QED
        BY <2>1 DEF LifeInv
<1>6. CASE WorkerStep
    <2>1. ui' = ui /\ plugin' = plugin /\ past'.hover = past.hover
        BY <1>6 DEF WorkerStep, Tick, WorkerWakes, WorkerResetsStop, ArmTimer, LoopCondition,
                    ActiveWait, StillActive, EnterTick, ReadSequence, CopyFields, CopyStamp,
                    ReadSequenceAgain, ApplyFields, ApplyStamp, MoveIcons, Paint, Commit, Settle,
                    TypeOK, Histories
    <2> DEFINE WorkerLife ==
                 /\ ui.at \in {"ensure", "claim"} => ~loop.active
                 /\ ~loop.active /\ past.ended = "settled" =>
                      worker.at \notin TickAt \cup {"wait", "fire"}
                 /\ ui.at \in Starting =>
                      /\ loop.active \/ past.missed
                      /\ \/ past.unseen \/ worker.at \notin TickAt \ {"enter"}
                         \/ worker.at \in PerMonitor /\ worker.m = 1
    <2>2. WorkerLife
        BY DEF LifeInv
    <2>3. SUFFICES WorkerLife'
        BY <2>1 DEF LifeInv
    <2>4. CASE WorkerWakes \/ WorkerResetsStop \/ ArmTimer
        <3>1. /\ worker'.at \in {"exited", "woken", "arm", "loop"}
              /\ loop'.active = loop.active /\ PastKept
            BY <2>4 DEF WorkerWakes, WorkerResetsStop, ArmTimer, WorkerGoes, TypeOK,
                        WorkerStates, LoopStates, Histories
        <3>2. QED
            BY <2>1, <2>2, <3>1 DEF TickAt
    <2>5. CASE LoopCondition
        <3>1. /\ worker'.at = IF loop.active THEN "wait" ELSE "idle"
              /\ loop' = loop /\ past' = past
            BY <2>5 DEF LoopCondition, WorkerGoes, TypeOK, WorkerStates
        <3>2. QED
            BY <2>1, <2>2, <3>1 DEF TickAt
    <2>6. CASE ActiveWait
        <3>1. /\ worker.at = "wait" /\ worker'.at \in {"exited", "idle", "fire"}
              /\ loop'.active = loop.active /\ past' = past
            BY <2>6 DEF ActiveWait, WorkerGoes, TypeOK, WorkerStates, LoopStates
        <3>2. QED
            BY <2>1, <2>2, <3>1 DEF TickAt
    <2>7. CASE StillActive
        <3>1. /\ worker'.at \in {"idle", "enter", "rearm"} /\ (worker'.at = "enter" => loop.active)
              /\ loop'.active = loop.active /\ past' = past
            BY <2>7 DEF StillActive, WorkerGoes, TypeOK, WorkerStates, LoopStates
        <3>2. QED
            BY <2>1, <2>2, <3>1 DEF TickAt
    <2>8. CASE EnterTick
        <3>1. /\ worker.at = "enter" /\ worker'.at \in {"seq1", "after"} /\ worker'.m = 1
              /\ loop' = loop /\ past'.ended = past.ended /\ past'.missed = past.missed
            BY <2>8 DEF EnterTick, TypeOK, WorkerStates, Histories
        <3>2. QED
            BY <2>1, <2>2, <3>1 DEF TickAt, PerMonitor
    <2>9. CASE \/ ReadSequence \/ CopyFields \/ CopyStamp \/ ReadSequenceAgain
               \/ ApplyFields \/ ApplyStamp \/ MoveIcons
        <3>1. /\ worker.at \in PerMonitor /\ worker'.at \in PerMonitor /\ worker'.m = worker.m
              /\ loop' = loop /\ PastKept
            <4>1. CASE ReadSequence \/ CopyFields \/ CopyStamp \/ ReadSequenceAgain
                BY <4>1 DEF ReadSequence, CopyFields, CopyStamp, ReadSequenceAgain, TypeOK,
                            WorkerStates, PerMonitor
            <4>2. CASE ApplyFields \/ ApplyStamp
                BY <4>2 DEF ApplyFields, ApplyStamp, WorkerGoes, TypeOK, WorkerStates, Histories,
                            PerMonitor
            <4>3. CASE MoveIcons
                BY <4>3 DEF MoveIcons, TypeOK, WorkerStates, PerMonitor
            <4>4. QED
                BY <2>9, <4>1, <4>2, <4>3
        <3>2. PerMonitor \subseteq TickAt \ {"enter"}
            BY DEF PerMonitor, TickAt
        <3>3. QED
            BY <2>1, <2>2, <3>1, <3>2
    <2>10. CASE Paint
        <3>1. /\ worker.at = "paint" /\ worker'.at \in {"seq1", "commit"}
              /\ loop' = loop /\ past' = past
            BY <2>10 DEF Paint, TypeOK, WorkerStates
        <3>2. ui.at \notin Starting
            BY <2>10 DEF Paint, WaitsForUi, LifeInv, Starting
        <3>3. QED
            BY <2>1, <2>2, <3>1, <3>2 DEF TickAt
    <2>11. CASE Commit
        <3>1. /\ worker.at = "commit" /\ worker'.at = "settle"
              /\ loop' = loop /\ past' = past
            BY <2>11 DEF Commit, WorkerGoes, TypeOK, WorkerStates
        <3>2. QED
            BY <2>1, <2>2, <3>1 DEF TickAt, PerMonitor
    <2>12. CASE Settle
        <3>1. /\ worker.at = "settle" /\ worker'.at = "after" /\ past'.unseen = past.unseen
              /\ \/ loop' = loop /\ past' = past
                 \/ ~loop'.active /\ past'.missed = past.unseen
            BY <2>12 DEF Settle, WorkerGoes, TypeOK, WorkerStates, LoopStates, Histories
        <3>2. QED
            BY <2>1, <2>2, <3>1 DEF TickAt, PerMonitor
    <2>13. QED
        BY <1>6, <2>4, <2>5, <2>6, <2>7, <2>8, <2>9, <2>10, <2>11, <2>12 DEF WorkerStep, Tick
<1>7. QED
    BY <1>1, <1>2, <1>3, <1>4, <1>5, <1>6, Steps

\* Only at the end of an input and of a start does the loop become told; the hovered
\* monitor is then the one it was.
LEMMA ToldBefore ==
  ASSUME FrameInv, LifeInv, [Next]_vars, Told'
  PROVE  past'.hover = past.hover /\ (Told \/ CheckActive \/ ClaimStart)
<1> USE DEF FrameInv
<1>1. CASE InputStep
    <2>1. ui'.at \in {"write", "bounce"}
        BY <1>1 DEF InputStep, Input, TypeOK, UiStates
    <2>2. QED
        BY <2>1 DEF Told, Pending, Writing
<1>2. CASE Publish
    <2>1. ui'.at \in Writing \cup {"check"}
        BY <1>2 DEF Publish, WriteInPlace, BeginPublish, FillSnapshot, StampSnapshot, FlipIndex,
                    EndPublish, UiGoes, TypeOK, UiStates, Writing
    <2>2. QED
        BY <2>1 DEF Told, Pending
<1>3. CASE QuietUi
    <2>1. CASE TriggerBounce \/ EnsureWorker
        <3>1. ui'.at \in {"check", "claim"}
            BY <2>1 DEF TriggerBounce, EnsureWorker, UiGoes, TypeOK, UiStates
        <3>2. QED
            BY <3>1 DEF Told, Pending
    <2>2. CASE CheckActive \/ ClaimStart
        BY <2>2 DEF CheckActive, ClaimStart, TypeOK, Histories
    <2>3. CASE \E what \in {"update", "disable", "shutdown"} : BeginStop(what)
        <3>1. PICK what \in {"update", "disable", "shutdown"} : BeginStop(what)
            BY <2>3
        <3>2. /\ ui.at = "idle"
              /\ plugin'.enabled = (plugin.enabled /\ what # "disable")
              /\ past'.hover = IF what = "disable" THEN Unknown ELSE past.hover
              /\ past'.raced = past.raced
            BY <3>1 DEF BeginStop, TypeOK, PluginStates, Histories
        <3>3. QED
            BY <3>2 DEF Told, Pending, Writing
    <2>4. CASE \/ ResetStop \/ ShowOverlays \/ SetWake \/ ClaimStop \/ SignalStop \/ CancelTimer
               \/ AfterStop \/ DestroyDevice \/ SetShutdown \/ JoinWorker \/ CloseHandles
        <3>1. /\ ui.at \notin Pending
              /\ plugin'.enabled = plugin.enabled
              /\ past'.hover = past.hover /\ past'.raced = past.raced
            BY <2>4 DEF ResetStop, ShowOverlays, SetWake, ClaimStop, SignalStop, CancelTimer,
                        AfterStop, DestroyDevice, SetShutdown, JoinWorker, CloseHandles,
                        TypeOK, PluginStates, Histories, Pending, Writing
        <3>2. QED
            BY <3>1 DEF Told
    <2>5. QED
        BY <1>3, <2>1, <2>2, <2>3, <2>4 DEF QuietUi
<1>4. CASE Enable
    BY <1>4 DEF Enable, LifeInv, Told
<1>5. CASE WorkerStep \/ TimerFires \/ UNCHANGED vars
    <2>1. ui' = ui /\ plugin' = plugin /\ past'.hover = past.hover
        BY <1>5 DEF WorkerStep, Tick, WorkerWakes, WorkerResetsStop, ArmTimer, LoopCondition,
                    ActiveWait, StillActive, EnterTick, ReadSequence, CopyFields, CopyStamp,
                    ReadSequenceAgain, ApplyFields, ApplyStamp, MoveIcons, Paint, Commit, Settle,
                    TimerFires, vars, TypeOK, Histories
    <2>2. past.raced => past'.raced
        BY <1>5 DEF WorkerStep, Tick, WorkerWakes, WorkerResetsStop, ArmTimer, LoopCondition,
                    ActiveWait, StillActive, EnterTick, ReadSequence, CopyFields, CopyStamp,
                    ReadSequenceAgain, ApplyFields, ApplyStamp, MoveIcons, Paint, Commit, Settle,
                    TimerFires, vars, TypeOK, Histories
    <2>3. QED
        BY <2>1, <2>2 DEF Told
<1>6. QED
    BY <1>1, <1>2, <1>3, <1>4, <1>5, Steps

\* While the loop is told and stays so, the worker's are the only steps that change
\* what the icons aim at.
LEMMA IconsKeep ==
  ASSUME FrameInv, LifeInv, [Next]_vars, Told, Told'
  PROVE  icons' = icons \/ ShowOverlays \/ MoveIcons \/ Paint
<1>1. CASE InputStep \/ Publish \/ Enable
    BY <1>1 DEF InputStep, Input, Publish, WriteInPlace, BeginPublish, FillSnapshot,
                StampSnapshot, FlipIndex, EndPublish, Enable, Told
<1>2. CASE QuietUi
    <2>1. CASE TriggerBounce \/ CheckActive
        BY <2>1 DEF TriggerBounce, CheckActive, Told, Pending
    <2>2. CASE DestroyDevice
        <3>1. ui.at = "destroy"
            BY <2>2 DEF DestroyDevice
        <3>2. QED
            BY <3>1 DEF LifeInv, Told
    <2>3. CASE ~(TriggerBounce \/ CheckActive \/ DestroyDevice \/ ShowOverlays)
        BY <1>2, <2>3 DEF QuietUi, EnsureWorker, ClaimStart, ResetStop, SetWake, ClaimStop,
                          SignalStop, CancelTimer, AfterStop, SetShutdown, JoinWorker,
                          CloseHandles, BeginStop
    <2>4. QED
        BY <2>1, <2>2, <2>3
<1>3. CASE (WorkerStep /\ ~MoveIcons /\ ~Paint) \/ TimerFires \/ UNCHANGED vars
    BY <1>3 DEF WorkerStep, Tick, WorkerWakes, WorkerResetsStop, ArmTimer, LoopCondition,
                ActiveWait, StillActive, EnterTick, ReadSequence, CopyFields, CopyStamp,
                ReadSequenceAgain, ApplyFields, ApplyStamp, Commit, Settle, TimerFires, vars
<1>4. QED
    BY <1>1, <1>2, <1>3, Steps

\* Paint finds the monitor settled, and nothing left to show on it.
FoundSettled == worker.quiet /\ (mouse[worker.m].in => worker.still)
FoundGone == FoundSettled /\ ~mouse[worker.m].in

\* What ShowOverlays, MoveIcons and Paint make of the icons of a monitor.
LEMMA OverlaysShown ==
  ASSUME TypeOK, ShowOverlays
  PROVE  \A m \in Monitors : /\ icons'[m].aim = icons[m].aim
                             /\ icons'[m].impulse = icons[m].impulse
BY DEF ShowOverlays, TypeOK, IconStates

LEMMA IconsMoved ==
  ASSUME FrameInv, MoveIcons
  PROVE  /\ worker.m \in Monitors
         /\ icons'[worker.m].aim = Target(worker.m)
         /\ ~icons'[worker.m].impulse
         /\ \A m \in Monitors \ {worker.m} : icons'[m] = icons[m]
<1> USE DEF FrameInv, TypeOK
<1>1. worker.m \in Monitors /\ icons[worker.m] \in IconStates
    BY DEF MoveIcons, IndexInv, PerMonitor
<1> DEFINE c == [icons[worker.m] EXCEPT !.aim = Target(worker.m),
                         !.prev = mouse[worker.m].cur, !.bounce = FALSE, !.impulse = FALSE]
<1>2. icons' = [icons EXCEPT ![worker.m] = c]
    BY DEF MoveIcons
<1>3. c.aim = Target(worker.m) /\ ~c.impulse
    BY <1>1 DEF IconStates
<1> HIDE DEF c
<1>4. QED
    BY <1>1, <1>2, <1>3

LEMMA IconsPainted ==
  ASSUME FrameInv, Paint
  PROVE  /\ worker.m \in Monitors
         /\ icons'[worker.m].impulse = icons[worker.m].impulse
         /\ icons'[worker.m].alpha = (~FoundGone /\ plugin.device)
         /\ icons'[worker.m].aim = IF FoundGone THEN AtRest ELSE icons[worker.m].aim
         /\ \A m \in Monitors \ {worker.m} : icons'[m] = icons[m]
<1> USE DEF FrameInv, TypeOK
<1>1. worker.m \in Monitors /\ icons[worker.m] \in IconStates
    BY DEF Paint, IndexInv, PerMonitor
<1> DEFINE alpha == ~FoundGone /\ plugin.device
           aim == IF FoundGone THEN AtRest ELSE icons[worker.m].aim
           bounce == icons[worker.m].bounce /\ ~FoundGone
           c == [icons[worker.m] EXCEPT !.alpha = alpha, !.aim = aim, !.bounce = bounce]
<1>2. icons' = [icons EXCEPT ![worker.m] = c]
    BY DEF Paint, FoundGone, FoundSettled
<1> HIDE DEF alpha, aim, bounce
<1>3. c.aim = aim /\ c.alpha = alpha /\ c.impulse = icons[worker.m].impulse
    BY <1>1 DEF IconStates
<1> HIDE DEF c
<1>4. /\ icons'[worker.m].impulse = icons[worker.m].impulse
      /\ icons'[worker.m].alpha = alpha /\ icons'[worker.m].aim = aim
      /\ \A m \in Monitors \ {worker.m} : icons'[m] = icons[m]
    BY <1>1, <1>2, <1>3
<1>5. QED
    BY <1>1, <1>4 DEF alpha, aim

LEMMA NextTick ==
  ASSUME FrameInv, LifeInv, HoverInv, TickInv, [Next]_vars
  PROVE  TickInv'
<1> USE DEF FrameInv
<1> SUFFICES ASSUME Told', ~past'.unseen
             PROVE  Ticked'
    BY DEF TickInv
<1>1. past'.hover = past.hover /\ (Told \/ CheckActive \/ ClaimStart)
    BY ToldBefore
<1>2. CASE CheckActive
    <2>1. ui'.at = (IF loop.active THEN "idle" ELSE "ensure") /\ past'.unseen = loop.active
        BY <1>2 DEF CheckActive, UiGoes, TypeOK, UiStates, Histories
    <2>2. QED
        BY <2>1 DEF Told, Pending
<1>3. CASE ClaimStart
    <2>1. worker' = worker /\ (~loop.active => past'.unseen = (worker.at \in TickAt))
        BY <1>3 DEF ClaimStart, TypeOK, Histories
    <2>2. worker'.at \notin TickAt
        BY <1>3, <2>1 DEF ClaimStart, LifeInv
    <2>3. QED
        BY <2>2 DEF Ticked, PerMonitor, TickAt
<1>4. CASE Told /\ ~CheckActive /\ ~ClaimStart /\ ~Tick
    <2>1. past'.unseen = past.unseen
        BY <1>4 DEF Next, InputStep, Input, Enable, BeginStop, UiContinues, WriteInPlace,
                    BeginPublish, FillSnapshot, StampSnapshot, FlipIndex, EndPublish,
                    TriggerBounce, EnsureWorker, ResetStop, ShowOverlays, SetWake, ClaimStop,
                    SignalStop, CancelTimer, AfterStop, DestroyDevice, SetShutdown, JoinWorker,
                    CloseHandles, WorkerStep, WorkerWakes, WorkerResetsStop, ArmTimer,
                    LoopCondition, ActiveWait, StillActive, TimerFires, vars, TypeOK, Histories
    <2>2. Ticked
        BY <1>4, <2>1 DEF TickInv
    <2>3. worker' = worker \/ worker'.at \notin TickAt \ {"enter"}
        <3>1. CASE WorkerStep
            <4>1. worker'.at \in {"exited", "woken", "arm", "loop", "wait", "idle", "fire", "enter",
                                  "rearm"}
                BY <1>4, <3>1
                   DEF WorkerStep, WorkerWakes, WorkerResetsStop, ArmTimer, LoopCondition,
                       ActiveWait, StillActive, WorkerGoes, TypeOK, WorkerStates
            <4>2. QED
                BY <4>1 DEF TickAt
        <3>2. CASE QuietUi
            <4>1. CASE EnsureWorker \/ CloseHandles
                <5>1. worker' = worker \/ worker'.at \in {"idle", "none"}
                    BY <4>1 DEF EnsureWorker, CloseHandles, TypeOK, WorkerStates
                <5>2. QED
                    BY <5>1 DEF TickAt
            <4>2. CASE ~EnsureWorker /\ ~CloseHandles
                BY <3>2, <4>2
                   DEF QuietUi, TriggerBounce, CheckActive, ClaimStart, ResetStop, ShowOverlays,
                       SetWake, ClaimStop, SignalStop, CancelTimer, AfterStop, DestroyDevice,
                       SetShutdown, JoinWorker, BeginStop
            <4>3. QED
                BY <4>1, <4>2
        <3>3. CASE InputStep \/ Publish \/ Enable \/ TimerFires \/ UNCHANGED vars
            BY <3>3 DEF InputStep, Input, Publish, WriteInPlace, BeginPublish, FillSnapshot,
                        StampSnapshot, FlipIndex, EndPublish, Enable, TimerFires, vars
        <3>4. QED
            BY <3>1, <3>2, <3>3, Steps
    <2>4. CASE worker'.at \notin TickAt \ {"enter"}
        BY <2>4 DEF Ticked, PerMonitor, TickAt
    <2>5. CASE worker' = worker /\ icons' = icons
        BY <1>1, <2>2, <2>5 DEF Ticked, Passed, Moved, Shows
    <2>6. CASE worker' = worker /\ ShowOverlays
        <3>1. \/ worker.at \notin TickAt \ {"enter"}
              \/ worker.at \in PerMonitor /\ worker.m = 1
            BY <2>1, <2>6 DEF ShowOverlays, LifeInv, Starting
        <3>2. CASE worker.at \in PerMonitor /\ worker.m = 1
            <4>1. Passed'
                BY <2>6, <3>2 DEF Passed, Monitors
            <4>2. worker.at = "paint" => Moved'
                BY <1>1, <2>2, <2>6, <3>2, OverlaysShown DEF Ticked, Moved, Monitors
            <4>3. QED
                BY <2>6, <3>2, <4>1, <4>2 DEF Ticked, PerMonitor
        <3>3. QED
            BY <2>4, <2>6, <3>1, <3>2
    <2>7. QED
        BY <1>4, <2>3, <2>4, <2>5, <2>6, IconsKeep DEF Tick
<1>5. CASE Told /\ Tick
    <2>1. ui' = ui /\ plugin' = plugin /\ ui.at \notin Writing /\ plugin.device
        BY <1>5 DEF Tick, EnterTick, ReadSequence, CopyFields, CopyStamp, ReadSequenceAgain,
                    ApplyFields, ApplyStamp, MoveIcons, Paint, Commit, Settle,
                    Told, Pending, LifeInv
    <2>2. ~past.raced
        BY <1>5 DEF Told
    <2>3. \A m \in Monitors : mouse[m].in = (past.hover = m)
        BY <1>5, <2>1, <2>2 DEF HoverInv, Hovered, WrittenNow, Told
    <2>4. CASE EnterTick
        <3>1. worker'.at \in {"seq1", "after"} /\ worker'.m = 1
            BY <2>4 DEF EnterTick, TypeOK, WorkerStates
        <3>2. QED
            BY <3>1 DEF Ticked, Passed, Monitors
    <2>5. past'.unseen = past.unseen \/ EnterTick
        BY <1>5 DEF Tick, ReadSequence, CopyFields, CopyStamp, ReadSequenceAgain,
                    ApplyFields, ApplyStamp, MoveIcons, Paint, Commit, Settle, TypeOK, Histories
    <2>6. Ticked \/ EnterTick
        BY <1>5, <2>5 DEF TickInv
    <2>7. CASE ~EnterTick /\ (\/ ReadSequence \/ CopyFields \/ CopyStamp \/ ReadSequenceAgain
                              \/ ApplyFields \/ ApplyStamp)
        <3>1. /\ worker.at \in PerMonitor /\ worker'.at \in PerMonitor \ {"paint"}
              /\ worker'.m = worker.m /\ worker'.rest = worker.rest /\ icons' = icons
            BY <2>7 DEF ReadSequence, CopyFields, CopyStamp, ReadSequenceAgain, ApplyFields,
                        ApplyStamp, WorkerGoes, TypeOK, WorkerStates, PerMonitor
        <3>2. QED
            BY <1>1, <2>6, <2>7, <3>1 DEF Ticked, Passed, Shows, PerMonitor
    <2>8. CASE MoveIcons
        <3>1. /\ worker.at = "move" /\ worker'.at = "paint" /\ worker'.m = worker.m
              /\ worker'.rest = worker.rest
            BY <2>8 DEF MoveIcons, TypeOK, WorkerStates
        <3>2. Passed
            BY <2>6, <3>1 DEF Ticked, PerMonitor, EnterTick
        <3>3. worker.m \in Nat
            BY <2>8, IconsMoved DEF Monitors
        <3>4. Passed'
            BY <1>1, <2>8, <3>1, <3>2, <3>3, IconsMoved DEF Passed, Shows, Monitors
        <3>5. Target(worker.m).in = (past.hover = worker.m)
            <4>1. worker.m \in Monitors /\ mouse[worker.m] \in Mouse
                BY <2>8, IconsMoved DEF TypeOK
            <4>2. QED
                BY <2>3, <4>1 DEF Target, AtRest, Mouse
        <3>6. Moved'
            BY <1>1, <2>8, <3>1, <3>5, IconsMoved DEF Moved
        <3>7. QED
            BY <3>1, <3>4, <3>6 DEF Ticked
    <2>9. CASE Paint
        <3>1. worker.at = "paint" /\ worker.m \in Monitors
            BY <2>9, IconsPainted DEF Paint
        <3>2. /\ worker'.m = worker.m + 1 /\ worker'.rest = (worker.rest /\ FoundSettled)
              /\ worker'.at = IF worker.m < Count THEN "seq1" ELSE "commit"
            BY <2>1, <2>9 DEF Paint, FoundSettled, TypeOK, WorkerStates
        <3>3. Passed /\ Moved
            BY <2>6, <3>1 DEF Ticked, PerMonitor, EnterTick
        <3>4. \A m \in Monitors : m = worker.m /\ FoundSettled => Shows(m)'
            <4>1. icons'[worker.m].aim.in = (past.hover = worker.m)
                <5>1. icons'[worker.m].aim = IF FoundGone THEN AtRest ELSE icons[worker.m].aim
                    BY <2>9, IconsPainted
                <5>2. FoundGone => past.hover # worker.m
                    BY <2>3, <3>1 DEF FoundGone
                <5>3. CASE FoundGone
                    <6>1. icons'[worker.m].aim.in = FALSE
                        BY <5>1, <5>3 DEF AtRest
                    <6>2. QED
                        BY <5>2, <5>3, <6>1
                <5>4. CASE ~FoundGone
                    BY <3>3, <5>1, <5>4 DEF Moved
                <5>5. QED
                    BY <5>3, <5>4
            <4>2. ~icons'[worker.m].impulse
                BY <2>9, <3>3, IconsPainted DEF Moved
            <4>3. FoundSettled /\ icons'[worker.m].alpha => past.hover = worker.m
                BY <2>3, <2>9, <3>1, IconsPainted DEF FoundGone
            <4>4. FoundSettled => (icons'[worker.m].alpha => icons'[worker.m].aim.in)
                BY <4>1, <4>3
            <4>5. QED
                BY <1>1, <4>1, <4>2, <4>4 DEF Shows
        <3>5. \A m \in Monitors \ {worker.m} : Shows(m) => Shows(m)'
            BY <1>1, <2>9, IconsPainted DEF Shows
        <3>6. Passed'
            <4> SUFFICES ASSUME worker.rest, FoundSettled, NEW m \in Monitors, m < worker.m + 1
                         PROVE  Shows(m)'
                BY <3>2 DEF Passed
            <4>1. m = worker.m \/ m < worker.m
                BY <3>1 DEF Monitors
            <4>2. QED
                BY <3>3, <3>4, <3>5, <4>1 DEF Passed
        <3>7. worker'.at = "commit" => worker'.m > Count
            BY <3>1, <3>2 DEF Monitors
        <3>8. QED
            BY <3>2, <3>6, <3>7 DEF Ticked
    <2>10. CASE Commit \/ Settle
        <3>1. /\ worker.at \in {"commit", "settle"} /\ worker'.at \in {"settle", "after"}
              /\ worker'.m = worker.m /\ worker'.rest = worker.rest /\ icons' = icons
            BY <2>10 DEF Commit, Settle, WorkerGoes, TypeOK, WorkerStates
        <3>2. QED
            BY <1>1, <2>6, <3>1 DEF Ticked, Passed, Shows, PerMonitor, EnterTick
    <2>11. QED
        BY <1>5, <2>4, <2>7, <2>8, <2>9, <2>10 DEF Tick
<1>6. QED
    BY <1>1, <1>2, <1>3, <1>4, <1>5

LEMMA NextSettled ==
  ASSUME FrameInv, LifeInv, TickInv, SettledInv, [Next]_vars
  PROVE  SettledInv'
<1> USE DEF FrameInv
<1> SUFFICES ASSUME Told', ~loop'.active, past'.ended = "settled", ~past'.missed
             PROVE  (\A m \in Monitors : Shows(m))'
    BY DEF SettledInv
<1>1. past'.hover = past.hover /\ (Told \/ CheckActive \/ ClaimStart)
    BY ToldBefore
<1>2. CASE CheckActive
    <2>1. ui'.at = (IF loop.active THEN "idle" ELSE "ensure") /\ loop' = loop
        BY <1>2 DEF CheckActive, UiGoes, TypeOK, UiStates
    <2>2. QED
        BY <2>1 DEF Told, Pending
<1>3. CASE ClaimStart
    BY <1>3 DEF ClaimStart, TypeOK, LoopStates
<1>4. CASE Told /\ ~CheckActive /\ ~ClaimStart
    <2>1. CASE Settle /\ worker.rest /\ loop.active
        <3>1. worker.at = "settle" /\ past'.missed = past.unseen /\ icons' = icons
            BY <2>1 DEF Settle, TypeOK, Histories
        <3>2. Passed /\ worker.m > Count
            BY <1>4, <3>1 DEF TickInv, Ticked
        <3>3. worker.m \in Nat
            BY DEF TypeOK, WorkerStates
        <3>4. QED
            BY <1>1, <2>1, <3>1, <3>2, <3>3 DEF Passed, Shows, Monitors
    <2>2. CASE ~(Settle /\ worker.rest /\ loop.active)
        <3>1. \/ ClaimStop
              \/ /\ loop'.active = loop.active
                 /\ past'.ended = past.ended /\ past'.missed = past.missed
            <4>1. CASE InputStep \/ Publish \/ Enable \/ TimerFires \/ UNCHANGED vars
                BY <4>1 DEF InputStep, Input, Publish, WriteInPlace, BeginPublish, FillSnapshot,
                            StampSnapshot, FlipIndex, EndPublish, Enable, TimerFires, vars,
                            TypeOK, LoopStates, Histories
            <4>2. CASE QuietUi
                BY <1>4, <4>2
                   DEF QuietUi, TriggerBounce, EnsureWorker, ResetStop, ShowOverlays, SetWake,
                       SignalStop, CancelTimer, AfterStop, DestroyDevice, SetShutdown,
                       JoinWorker, CloseHandles, BeginStop, TypeOK, LoopStates, Histories
            <4>3. CASE WorkerStep
                BY <2>2, <4>3
                   DEF WorkerStep, Tick, WorkerWakes, WorkerResetsStop, ArmTimer, LoopCondition,
                       ActiveWait, StillActive, EnterTick, ReadSequence, CopyFields, CopyStamp,
                       ReadSequenceAgain, ApplyFields, ApplyStamp, MoveIcons, Paint, Commit,
                       Settle, TypeOK, LoopStates, Histories
            <4>4. QED
                BY <4>1, <4>2, <4>3, Steps
        <3>2. ClaimStop => /\ past'.missed = past.missed
                           /\ past'.ended = IF loop.active THEN "stopped" ELSE past.ended
            BY DEF ClaimStop, TypeOK, Histories
        <3>3. ~loop.active /\ past.ended = "settled" /\ ~past.missed
            BY <3>1, <3>2
        <3>4. \A m \in Monitors : Shows(m)
            BY <1>4, <3>3 DEF SettledInv
        <3>5. ~MoveIcons /\ ~Paint
            BY <3>3 DEF MoveIcons, Paint, LifeInv, TickAt
        <3>6. ~ShowOverlays
            BY <3>3 DEF ShowOverlays, LifeInv, Starting
        <3>7. icons' = icons
            BY <1>4, <3>5, <3>6, IconsKeep
        <3>8. QED
            BY <1>1, <3>4, <3>7 DEF Shows
    <2>3. QED
        BY <2>1, <2>2
<1>5. QED
    BY <1>1, <1>2, <1>3, <1>4

LEMMA InitShown == Init => ShownInv
<1> SUFFICES ASSUME Init PROVE ShownInv
    OBVIOUS
<1>1. FrameInv
    BY InitInv
<1>2. /\ ui.at = "idle" /\ past.hover = 0
      /\ \A m \in Monitors :
           /\ m # 0 /\ ~mouse[m].in /\ ~Current(m).in
           /\ ~icons[m].aim.in /\ ~icons[m].alpha /\ ~icons[m].impulse
    BY DEF Init, Current, AtRest, Monitors
<1>3. \A m \in Monitors : mouse[m].in \in BOOLEAN /\ Current(m).in \in BOOLEAN
    BY <1>1 DEF FrameInv, TypeOK, Buffers, Mouse, Current
<1>4. \A m \in Monitors : icons[m].aim.in = FALSE
    BY <1>2 DEF Init, AtRest
<1>5. HoverInv
    BY <1>2, <1>3 DEF HoverInv, Hovered, Writing
<1>6. LifeInv
    BY DEF Init, LifeInv, Pending, Starting, Writing, Stopping, TickAt
<1>7. TickInv
    BY DEF Init, TickInv, Ticked, PerMonitor
<1>8. SettledInv
    BY <1>2, <1>4 DEF SettledInv, Shows
<1>9. QED
    BY <1>1, <1>5, <1>6, <1>7, <1>8 DEF ShownInv

----------------------------------------------------------------------------

\* In every reachable state the sequence numbers, the slots and what the reader has
\* copied fit together.
THEOREM SnapshotsConsistent == Spec => []FrameInv
<1>1. Init => FrameInv
    BY InitInv
<1>2. FrameInv /\ [Next]_vars => FrameInv'
    BY NextType, NextIndex, NextSequence, NextPublished, NextReader DEF FrameInv
<1>3. QED
    BY <1>1, <1>2, PTL DEF Spec

\* Every sequence number is at most twice the number of inputs, every loop over the
\* monitors stays in the table, every thread is at a place of its code.
THEOREM TypeCorrect == Spec => []TypeOK
<1>1. FrameInv => TypeOK
    BY DEF FrameInv
<1>2. QED
    BY <1>1, SnapshotsConsistent, PTL

\* A snapshot taken between two reads of one even sequence number is one that was
\* published (frame_loop.cpp:197-203), whatever the writer did in between.
THEOREM SnapshotsWhole == Spec => []SnapshotWhole
<1>1. FrameInv => SnapshotWhole
    BY DEF FrameInv, ReaderInv
<1>2. QED
    BY <1>1, SnapshotsConsistent, PTL

\* When the loop has put itself to sleep (frame_loop.cpp:671-672) the overlay under the
\* cursor is the one that is magnified, every other one is hidden and no impulse is
\* left, whatever inputs, stops and starts came before; with the exceptions the
\* property names.
THEOREM RestsShowingHover == Spec => []SettledShowsHover
<1>1. Init => ShownInv
    BY InitShown
<1>2. ShownInv /\ [Next]_vars => ShownInv'
    <2> SUFFICES ASSUME ShownInv, [Next]_vars PROVE ShownInv'
        OBVIOUS
    <2>1. FrameInv'
        BY NextType, NextIndex, NextSequence, NextPublished, NextReader DEF FrameInv, ShownInv
    <2>2. HoverInv' /\ LifeInv'
        BY NextHover, NextLife DEF ShownInv
    <2>3. TickInv' /\ SettledInv'
        BY NextTick, NextSettled DEF ShownInv
    <2>4. QED
        BY <2>1, <2>2, <2>3 DEF ShownInv
<1>3. ShownInv => SettledShowsHover
    BY DEF ShownInv, SettledInv, SettledShowsHover, Told, Pending, Writing, Shows
<1>4. QED
    BY <1>1, <1>2, <1>3, PTL DEF Spec
=============================================================================
