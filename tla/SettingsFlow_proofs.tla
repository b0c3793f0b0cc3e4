------------------------ MODULE SettingsFlow_proofs ------------------------
(***************************************************************************)
(* For any number of sliders and any bounds: no value is lost between a    *)
(* card of the settings window and the file, and once everything has       *)
(* arrived the plugin runs exactly when the file says so.                  *)
(***************************************************************************)
EXTENDS SettingsFlow, SequenceTheorems, TLAPS

USE BoundsAssumption DEF BoundsAssumption

----------------------------------------------------------------------------
(* Types. *)

Commands == {"none", "enable", "disable"}
Messages == {"reload", "enable", "disable"}
Updates  == UNION {[K -> Values] : K \in SUBSET Keys}
Jobs     == [updates: Updates, command: Commands]

Disks    == [Files -> Trees \cup {Torn}]
Card     == [value: Values, armed: BOOLEAN]
CardMaps == [Keys -> Card]
GuiPcs   == {"load", "move", "copy", "copying", "reload", "command"}
Guis     == [todo: Seq(Jobs), pc: GuiPcs, tree: Trees \cup {NoTree}]
Edits    == [file: Files, tree: Trees]
Pcs      == {"down", "load", "plugins", "running"}
Engines  == [pc: Pcs, opened: BOOLEAN, root: Trees \cup {NoTree}, on: BOOLEAN]
Watchers == [pc: {"off", "waiting", "debounce"}, changed: BOOLEAN]
Pasts    == [apart: SUBSET Keys, missed: BOOLEAN, astray: BOOLEAN, edits: Values,
             crashes: 0 .. MaxCrashes]

WindowTypes == cards \in CardMaps /\ cards[Enabled].value \in {0, 1} /\ gui \in Guis
FileTypes   == disk \in Disks /\ layout \in Files /\ editor \in Edits \cup {NoTree}
EngineTypes ==
    /\ engine \in Engines /\ watcher \in Watchers
    /\ queue \in Seq(Messages) /\ Len(queue) <= MaxQueue

Typed == WindowTypes /\ FileTypes /\ EngineTypes /\ past \in Pasts

LEMMA TypedIsTypeOK == Typed => TypeOK
BY DEF Typed, TypeOK, WindowTypes, FileTypes, EngineTypes, Messages, Disks, Card, CardMaps,
       GuiPcs, Guis, Edits, Pcs, Engines, Watchers, Pasts

LEMMA Trees2 ==
    /\ Torn \notin Trees /\ NoTree \notin Trees /\ NoTree \notin Edits
    /\ Enabled \in Keys /\ Sliders \subseteq Keys
    /\ 0 \in Values /\ 1 \in Values /\ "default" \in Files /\ "user" \in Files
BY DEF Trees, Keys, Values, Files, Edits

----------------------------------------------------------------------------
(* The invariant. *)

\* The members of a sequence.
All(s) == {s[i] : i \in 1 .. Len(s)}

\* The window begins a save where it has one to make, and a save has read a tree where it
\* goes on to write it.
PcInv ==
    /\ WindowIdle => gui.pc = "load"
    /\ gui.pc \in {"move", "copying"} => gui.tree \in Trees
    /\ gui.pc = "command" => Job.command # "none"

\* The cards stand still while there are saves to make: each holds what they show.
JobsInv ==
    \A job \in All(gui.todo) :
        /\ job.command \in {"none", Command(cards[Enabled].value)}
        /\ \A k \in DOMAIN job.updates : job.updates[k] = cards[k].value

\* The saves that still have to reach the file.
Waiting == IF gui.pc \in {"load", "move"} THEN All(gui.todo) ELSE All(Tail(gui.todo))

Unsaved(jobs, k) ==
    \/ cards[k].armed \/ k \in past.apart
    \/ \E job \in jobs : k \in DOMAIN job.updates

\* What is in the file beside the program, or will be when the editor has written it.
DefaultTree == IF HeldByEditor("default") THEN editor.tree ELSE disk["default"]

FileInv == \A k \in Keys : ~Unsaved(Waiting, k) => DefaultTree[k] = cards[k].value

\* The tree a save is about to write, whatever an editor did since it was read.
MoveInv ==
    gui.pc = "move" =>
        \A k \in Keys :
            k \in DOMAIN Job.updates \/ ~Unsaved(All(Tail(gui.todo)), k) =>
                gui.tree[k] = cards[k].value

\* Who writes a file in place, and that nobody does while the engine has it open.
HeldInv ==
    /\ disk["default"] = Torn <=> HeldByEditor("default")
    /\ editor # NoTree => disk[editor.file] = Torn
    /\ gui.pc = "copying" => disk["user"] = Torn /\ ~HeldByEditor("user")
    /\ engine.opened => disk[layout] # Torn

SaveInv == PcInv /\ JobsInv /\ FileInv /\ MoveInv /\ HeldInv

RunInv ==
    /\ engine.pc = "running" <=> watcher.pc # "off"
    /\ engine.pc # "running" => queue = <<>>

\* No reload is under way, nor will the watcher ask for one.
Heard ==
    /\ watcher = [pc |-> "waiting", changed |-> FALSE]
    /\ ~engine.opened /\ "reload" \notin All(queue)

\* The engine has the tree of its file, unless it is told to read it or somebody writes it.
RootInv ==
    ~past.missed =>
        /\ engine.pc = "load" /\ ~engine.opened => disk[layout] = Torn
        /\ engine.pc = "plugins" \/ (engine.pc = "running" /\ Heard) =>
              disk[layout] \in {engine.root, Torn}

CommandsLeft == \E job \in All(gui.todo) : job.command # "none"

\* The last command in a queue, if there is one, is c.
LastCommand(q, c) ==
    \A i \in 1 .. Len(q) :
        q[i] # "reload" /\ (\A j \in i + 1 .. Len(q) : q[j] = "reload") => q[i] = c

\* Unless the last command was lost, came from the tray or is still to be sent: it is the one
\* the toggle shows, and once it is handled the plugin is on as the toggle shows or as a file
\* said later.
OnInv ==
    ~past.astray /\ ~CommandsLeft =>
        /\ LastCommand(queue, Command(cards[Enabled].value))
        /\ All(queue) \subseteq {"reload"} =>
              engine.on \in {IsOn(engine.root), cards[Enabled].value = 1}

SettingsInv == Typed /\ SaveInv /\ RunInv /\ RootInv /\ OnInv

----------------------------------------------------------------------------
(* Sequences. *)

LEMMA AllFacts ==
    ASSUME NEW S, NEW s \in Seq(S)
    PROVE  /\ All(s) \subseteq S
           /\ s # <<>> => /\ Head(s) \in S /\ Tail(s) \in Seq(S)
                          /\ All(s) = {Head(s)} \cup All(Tail(s))
<1>1. All(s) \subseteq S
    BY DEF All
<1>2. ASSUME s # <<>>
      PROVE  /\ Head(s) \in S /\ Tail(s) \in Seq(S)
             /\ All(s) = {Head(s)} \cup All(Tail(s))
    <2>1. /\ Len(s) \in Nat \ {0} /\ Head(s) = s[1] /\ Tail(s) \in Seq(S)
          /\ Len(Tail(s)) = Len(s) - 1
          /\ \A i \in 1 .. Len(s) - 1 : Tail(s)[i] = s[i + 1]
        BY <1>2
    <2>2. ASSUME NEW x \in All(s) PROVE x \in {Head(s)} \cup All(Tail(s))
        <3>1. PICK i \in 1 .. Len(s) : x = s[i]
            BY <2>2 DEF All
        <3>2. CASE i = 1
            BY <2>1, <3>1, <3>2
        <3>3. CASE i # 1
            <4>1. i - 1 \in 1 .. Len(Tail(s)) /\ Tail(s)[i - 1] = s[i]
                BY <2>1, <3>3
            <4>2. QED
                BY <3>1, <4>1 DEF All
        <3>4. QED
            BY <3>2, <3>3
    <2>3. ASSUME NEW x \in All(Tail(s)) PROVE x \in All(s)
        <3>1. PICK i \in 1 .. Len(Tail(s)) : x = Tail(s)[i]
            BY <2>3 DEF All
        <3>2. i + 1 \in 1 .. Len(s) /\ x = s[i + 1]
            BY <2>1, <3>1
        <3>3. QED
            BY <3>2 DEF All
    <2>4. Head(s) \in All(s)
        BY <2>1 DEF All
    <2>5. QED
        BY <1>1, <2>1, <2>2, <2>3, <2>4
<1>3. QED
    BY <1>1, <1>2

LEMMA AllEmpty == All(<<>>) = {}
BY DEF All

LEMMA AllOne == \A x : All(<<x>>) = {x}
BY DEF All

LEMMA AllAppend ==
    ASSUME NEW S, NEW s \in Seq(S), NEW x \in S
    PROVE  All(Append(s, x)) = All(s) \cup {x}
<1>1. /\ Len(s) \in Nat /\ Len(Append(s, x)) = Len(s) + 1
      /\ \A i \in 1 .. Len(s) : Append(s, x)[i] = s[i]
      /\ Append(s, x)[Len(s) + 1] = x
    OBVIOUS
<1>2. 1 .. Len(s) + 1 = 1 .. Len(s) \cup {Len(s) + 1}
    BY <1>1
<1>3. QED
    BY <1>1, <1>2 DEF All

LEMMA AllConcat ==
    ASSUME NEW S, NEW s \in Seq(S), NEW t \in Seq(S)
    PROVE  s \o t \in Seq(S) /\ All(s \o t) = All(s) \cup All(t)
<1>1. /\ s \o t \in Seq(S) /\ Len(s) \in Nat /\ Len(t) \in Nat
      /\ Len(s \o t) = Len(s) + Len(t)
      /\ \A i \in 1 .. Len(s) + Len(t) :
            (s \o t)[i] = IF i <= Len(s) THEN s[i] ELSE t[i - Len(s)]
    OBVIOUS
<1>2. ASSUME NEW x \in All(s \o t) PROVE x \in All(s) \cup All(t)
    <2>1. PICK i \in 1 .. Len(s) + Len(t) : x = (s \o t)[i]
        BY <1>1, <1>2 DEF All
    <2>2. CASE i <= Len(s)
        BY <1>1, <2>1, <2>2 DEF All
    <2>3. CASE ~(i <= Len(s))
        <3>1. i - Len(s) \in 1 .. Len(t) /\ x = t[i - Len(s)]
            BY <1>1, <2>1, <2>3
        <3>2. QED
            BY <3>1 DEF All
    <2>4. QED
        BY <2>2, <2>3
<1>3. ASSUME NEW x \in All(s) PROVE x \in All(s \o t)
    BY <1>1, <1>3 DEF All
<1>4. ASSUME NEW x \in All(t) PROVE x \in All(s \o t)
    <2>1. PICK i \in 1 .. Len(t) : x = t[i]
        BY <1>4 DEF All
    <2>2. i + Len(s) \in 1 .. Len(s) + Len(t) /\ (s \o t)[i + Len(s)] = t[i]
        BY <1>1, <2>1
    <2>3. QED
        BY <1>1, <2>1, <2>2 DEF All
<1>5. QED
    BY <1>1, <1>2, <1>3, <1>4

\* What posting and retrieving do to the last command.
LEMMA LastPosted ==
    ASSUME NEW q \in Seq(Messages), NEW c, LastCommand(q, c)
    PROVE  LastCommand(Append(q, "reload"), c)
<1> DEFINE r == Append(q, "reload")
<1>1. /\ Len(q) \in Nat /\ Len(r) = Len(q) + 1 /\ r[Len(q) + 1] = "reload"
      /\ \A i \in 1 .. Len(q) : r[i] = q[i]
    BY DEF Messages
<1> HIDE DEF r
<1>2. SUFFICES ASSUME NEW i \in 1 .. Len(r), r[i] # "reload",
                      \A j \in i + 1 .. Len(r) : r[j] = "reload"
               PROVE  r[i] = c
    BY DEF LastCommand, r
<1>3. i \in 1 .. Len(q) /\ q[i] = r[i]
    BY <1>1, <1>2
<1>4. ASSUME NEW j \in i + 1 .. Len(q) PROVE q[j] = "reload"
    BY <1>1, <1>2, <1>3
<1>5. QED
    BY <1>2, <1>3, <1>4 DEF LastCommand

LEMMA LastOwn ==
    ASSUME NEW q \in Seq(Messages), NEW c \in Messages \ {"reload"}
    PROVE  LastCommand(Append(q, c), c)
<1> DEFINE r == Append(q, c)
<1>1. /\ Len(q) \in Nat /\ Len(r) = Len(q) + 1 /\ r[Len(q) + 1] = c
    OBVIOUS
<1> HIDE DEF r
<1>2. SUFFICES ASSUME NEW i \in 1 .. Len(r), r[i] # "reload",
                      \A j \in i + 1 .. Len(r) : r[j] = "reload"
               PROVE  r[i] = c
    BY DEF LastCommand, r
<1>3. CASE i = Len(q) + 1
    BY <1>1, <1>3
<1>4. CASE i # Len(q) + 1
    <2>1. Len(r) \in i + 1 .. Len(r)
        BY <1>1, <1>4
    <2>2. QED
        BY <1>1, <1>2, <2>1
<1>5. QED
    BY <1>3, <1>4

LEMMA LastRetrieved ==
    ASSUME NEW q \in Seq(Messages), q # <<>>, NEW c, LastCommand(q, c)
    PROVE  /\ LastCommand(Tail(q), c)
           /\ All(Tail(q)) \subseteq {"reload"} /\ Head(q) # "reload" => Head(q) = c
<1>1. /\ Len(q) \in Nat \ {0} /\ Head(q) = q[1] /\ Len(Tail(q)) = Len(q) - 1
      /\ \A i \in 1 .. Len(q) - 1 : Tail(q)[i] = q[i + 1]
    OBVIOUS
<1>2. LastCommand(Tail(q), c)
    <2>1. SUFFICES ASSUME NEW i \in 1 .. Len(Tail(q)), Tail(q)[i] # "reload",
                          \A j \in i + 1 .. Len(Tail(q)) : Tail(q)[j] = "reload"
                   PROVE  Tail(q)[i] = c
        BY DEF LastCommand
    <2>2. i + 1 \in 1 .. Len(q) /\ q[i + 1] = Tail(q)[i]
        BY <1>1
    <2>3. ASSUME NEW j \in i + 2 .. Len(q) PROVE q[j] = "reload"
        <3>1. j - 1 \in i + 1 .. Len(Tail(q)) /\ Tail(q)[j - 1] = q[j]
            BY <1>1
        <3>2. QED
            BY <2>1, <3>1
    <2>4. (i + 1) + 1 = i + 2
        BY <1>1
    <2>5. QED
        BY <2>1, <2>2, <2>3, <2>4 DEF LastCommand
<1>3. ASSUME All(Tail(q)) \subseteq {"reload"}, Head(q) # "reload" PROVE Head(q) = c
    <2>1. ASSUME NEW j \in 2 .. Len(q) PROVE q[j] = "reload"
        <3>1. j - 1 \in 1 .. Len(Tail(q)) /\ Tail(q)[j - 1] = q[j]
            BY <1>1
        <3>2. QED
            BY <1>3, <3>1 DEF All
    <2>2. QED
        BY <1>1, <1>3, <2>1 DEF LastCommand
<1>4. QED
    BY <1>2, <1>3

----------------------------------------------------------------------------
(* Records. *)

LEMMA GuiChanges ==
    ASSUME NEW g \in Guis
    PROVE  /\ \A s \in Seq(Jobs) : [g EXCEPT !.todo = s] \in Guis
           /\ \A p \in GuiPcs : [g EXCEPT !.pc = p] \in Guis
           /\ \A p \in GuiPcs, t \in Trees \cup {NoTree} :
                 /\ [g EXCEPT !.pc = p, !.tree = t] \in Guis
                 /\ [g EXCEPT !.tree = t, !.pc = p] \in Guis
                 /\ \A s \in Seq(Jobs) : [todo |-> s, pc |-> p, tree |-> t] \in Guis
BY Zenon DEF Guis

LEMMA EngineChanges ==
    ASSUME NEW e \in Engines
    PROVE  /\ \A p \in Pcs : [e EXCEPT !.pc = p] \in Engines
           /\ \A p \in Pcs, o \in BOOLEAN : [e EXCEPT !.pc = p, !.opened = o] \in Engines
           /\ \A b \in BOOLEAN : [e EXCEPT !.opened = b] \in Engines /\ [e EXCEPT !.on = b] \in Engines
           /\ \A o \in BOOLEAN, r \in Trees \cup {NoTree}, b \in BOOLEAN :
                 /\ [e EXCEPT !.opened = o, !.root = r, !.on = b] \in Engines
                 /\ \A p \in Pcs : [pc |-> p, opened |-> o, root |-> r, on |-> b] \in Engines
BY Zenon DEF Engines

LEMMA PastChanges ==
    ASSUME NEW h \in Pasts
    PROVE  /\ \A e \in Values : [h EXCEPT !.edits = e] \in Pasts
           /\ \A a \in SUBSET Keys : [h EXCEPT !.apart = a] \in Pasts
           /\ \A m \in BOOLEAN : [h EXCEPT !.missed = m] \in Pasts /\ [h EXCEPT !.astray = m] \in Pasts
           /\ \A a \in SUBSET Keys, m \in BOOLEAN : [h EXCEPT !.apart = a, !.missed = m] \in Pasts
           /\ \A e \in Values, m \in BOOLEAN :
                 /\ [h EXCEPT !.edits = e, !.missed = m] \in Pasts
                 /\ [h EXCEPT !.edits = e, !.astray = m] \in Pasts
           /\ \A m, a \in BOOLEAN : [h EXCEPT !.missed = m, !.astray = a] \in Pasts
           /\ \A c \in 0 .. MaxCrashes : [h EXCEPT !.crashes = c] \in Pasts
BY Zenon DEF Pasts

LEMMA CardChanges ==
    ASSUME NEW c \in CardMaps, NEW k \in Keys, NEW v \in Values, NEW b \in BOOLEAN
    PROVE  /\ [c EXCEPT ![k] = [value |-> v, armed |-> b]] \in CardMaps
           /\ [c EXCEPT ![k].armed = b] \in CardMaps /\ [c EXCEPT ![k].value = v] \in CardMaps
<1>1. c[k] \in Card
    BY DEF CardMaps
<1>2. /\ [c[k] EXCEPT !.armed = b] \in Card /\ [c[k] EXCEPT !.value = v] \in Card
      /\ [value |-> v, armed |-> b] \in Card
    BY <1>1, Zenon DEF Card
<1> DEFINE x == [c[k] EXCEPT !.armed = b]
           y == [c[k] EXCEPT !.value = v]
           z == [value |-> v, armed |-> b]
<1>3. x \in Card /\ y \in Card /\ z \in Card
    BY <1>2
<1> HIDE DEF x, y, z
<1>4. [c EXCEPT ![k] = x] \in CardMaps /\ [c EXCEPT ![k] = y] \in CardMaps
      /\ [c EXCEPT ![k] = z] \in CardMaps
    BY <1>3 DEF CardMaps
<1>5. QED
    BY <1>4 DEF x, y, z

\* The parts of the invariant, and the values they range over.
LEMMA InvFacts ==
    SettingsInv =>
        /\ Typed /\ WindowTypes /\ FileTypes /\ EngineTypes /\ past \in Pasts
        /\ PcInv /\ JobsInv /\ FileInv /\ MoveInv /\ HeldInv /\ RunInv /\ RootInv /\ OnInv
        /\ gui.todo \in Seq(Jobs) /\ past.apart \subseteq Keys /\ past.edits \in Values
        /\ past.missed \in BOOLEAN /\ past.astray \in BOOLEAN
        /\ \A k \in Keys : cards[k].value \in Values /\ cards[k].armed \in BOOLEAN
        /\ engine.pc \in Pcs /\ engine.opened \in BOOLEAN /\ engine.on \in BOOLEAN
BY DEF SettingsInv, Typed, SaveInv, WindowTypes, Guis, Pasts, CardMaps, Card, EngineTypes,
       Engines

\* The save that is under way.
LEMMA JobFacts ==
    ASSUME SettingsInv, ~WindowIdle
    PROVE  /\ Job \in Jobs /\ Job.updates \in Updates /\ Job.command \in Commands
           /\ DOMAIN Job.updates \subseteq Keys
           /\ Tail(gui.todo) \in Seq(Jobs) /\ All(gui.todo) = {Job} \cup All(Tail(gui.todo))
           /\ Job.command \in {"none", Command(cards[Enabled].value)}
           /\ \A k \in DOMAIN Job.updates : Job.updates[k] = cards[k].value
<1>1. gui.todo \in Seq(Jobs) /\ gui.todo # <<>> /\ JobsInv
    BY InvFacts DEF WindowIdle
<1>2. /\ Job \in Jobs /\ Tail(gui.todo) \in Seq(Jobs)
      /\ All(gui.todo) = {Job} \cup All(Tail(gui.todo))
    BY <1>1, AllFacts DEF Job
<1>3. Job.updates \in Updates /\ Job.command \in Commands
    BY <1>2 DEF Jobs
<1>4. DOMAIN Job.updates \subseteq Keys
    BY <1>3 DEF Updates
<1>5. QED
    BY <1>1, <1>2, <1>3, <1>4 DEF JobsInv

----------------------------------------------------------------------------
(* What leaves parts of the invariant alone. *)

LEMMA SaveKept ==
    ASSUME SettingsInv, UNCHANGED <<disk, layout, cards, gui, editor>>, past'.apart = past.apart,
           engine'.opened => disk[layout] # Torn
    PROVE  SaveInv'
<1>1. PcInv /\ JobsInv /\ FileInv /\ MoveInv /\ HeldInv
    BY InvFacts
<1>2. PcInv' /\ JobsInv'
    BY <1>1 DEF PcInv, JobsInv, WindowIdle, Job
<1>3. FileInv' /\ MoveInv'
    BY <1>1 DEF FileInv, MoveInv, Unsaved, Waiting, DefaultTree, HeldByEditor, Job
<1>4. HeldInv'
    BY <1>1 DEF HeldInv, HeldByEditor
<1>5. QED
    BY <1>2, <1>3, <1>4 DEF SaveInv

LEMMA RootKept ==
    ASSUME SettingsInv, UNCHANGED <<disk, layout, engine, watcher, queue>>,
           past'.missed = past.missed
    PROVE  RunInv' /\ RootInv'
BY InvFacts DEF RunInv, RootInv, Heard

LEMMA OnKept ==
    ASSUME SettingsInv, UNCHANGED <<engine, queue>>, past'.astray = past.astray,
           cards'[Enabled].value = cards[Enabled].value, CommandsLeft => CommandsLeft'
    PROVE  OnInv'
BY InvFacts DEF OnInv

\* A change of a file, which the watcher hears of if it is there.
LEMMA Writes ==
    ASSUME SettingsInv, UNCHANGED <<layout, engine, queue>>, NEW f \in Files, Noticed(f),
           \A g \in Files \ {f} : disk'[g] = disk[g],
           \/ disk' = disk /\ past'.missed = past.missed
           \/ past'.missed = (past.missed \/ Unwatched(f))
    PROVE  /\ watcher' \in Watchers /\ RunInv' /\ RootInv'
<1>1. /\ RunInv /\ RootInv /\ watcher \in Watchers /\ layout \in Files /\ engine.pc \in Pcs
    BY InvFacts DEF EngineTypes, FileTypes
<1> DEFINE c == watcher.changed \/ (f = EngineFile /\ watcher.pc # "off")
<1>2. c \in BOOLEAN /\ watcher' = [watcher EXCEPT !.changed = c]
    BY DEF Noticed
<1> HIDE DEF c
<1>3. watcher' \in Watchers /\ watcher'.pc = watcher.pc /\ watcher'.changed = c
    BY <1>1, <1>2 DEF Watchers
<1>4. RunInv'
    BY <1>1, <1>3 DEF RunInv
<1>5. Heard' => Heard /\ ~c
    <2>1. Heard' => watcher'.pc = "waiting" /\ watcher'.changed = FALSE
        BY DEF Heard
    <2>2. watcher = [pc |-> watcher.pc, changed |-> watcher.changed] /\ watcher.changed \in BOOLEAN
        BY <1>1 DEF Watchers
    <2>3. Heard' => ~watcher.changed /\ watcher.pc = "waiting" /\ ~c
        BY <1>3, <2>1, <2>2 DEF c
    <2>4. QED
        BY <2>2, <2>3 DEF Heard
<1>6. RootInv'
    <2>1. CASE disk'[layout] = disk[layout]
        <3>1. ~past'.missed => ~past.missed
            OBVIOUS
        <3>2. QED
            BY <1>1, <1>5, <2>1, <3>1 DEF RootInv
    <2>2. CASE disk'[layout] # disk[layout]
        <3>1. f = layout /\ past'.missed = (past.missed \/ Unwatched(f))
            BY <1>1, <2>2
        <3>2. ~past'.missed => engine.pc \notin {"load", "plugins"}
            BY <3>1 DEF Unwatched, EngineFile
        <3>3. engine.pc = "running" => c
            BY <1>1, <3>1 DEF c, RunInv, EngineFile
        <3>4. QED
            BY <1>1, <1>5, <3>2, <3>3 DEF RootInv
    <2>3. QED
        BY <2>1, <2>2
<1>7. QED
    BY <1>3, <1>4, <1>6

----------------------------------------------------------------------------
(* The cards. *)

\* An idle window gets saves to make: they hold what the cards show now, and whatever they
\* do not hold has a timer running or did not move.
LEMMA NewJobs ==
    ASSUME SettingsInv, WindowIdle, NEW jobs \in Seq(Jobs), gui' = [gui EXCEPT !.todo = jobs],
           cards' \in CardMaps, cards'[Enabled].value \in {0, 1}, past' \in Pasts,
           past'.apart = past.apart, past'.missed = past.missed, past'.astray = past.astray,
           UNCHANGED <<disk, layout, editor, engine, watcher, queue>>,
           \A job \in All(jobs) :
              /\ job.command \in {"none", Command(cards'[Enabled].value)}
              /\ \A k \in DOMAIN job.updates : job.updates[k] = cards'[k].value,
           \A k \in Keys : \/ cards'[k].armed \/ cards'[k] = cards[k]
                           \/ \E job \in All(jobs) : k \in DOMAIN job.updates,
           \/ cards'[Enabled].value = cards[Enabled].value
           \/ \E job \in All(jobs) : job.command # "none"
    PROVE  SettingsInv'
<1>1. /\ gui \in Guis /\ gui.pc = "load" /\ gui.todo = <<>>
      /\ FileTypes /\ EngineTypes /\ FileInv /\ HeldInv /\ OnInv
    BY InvFacts DEF WindowTypes, PcInv, WindowIdle
<1>2. gui' \in Guis /\ gui'.todo = jobs /\ gui'.pc = "load"
    <2>1. gui' \in Guis
        BY <1>1, GuiChanges, Trees2 DEF GuiPcs
    <2>2. QED
        BY <1>1, <2>1 DEF Guis
<1>3. Typed'
    BY <1>1, <1>2 DEF Typed, WindowTypes, FileTypes, EngineTypes
<1>4. PcInv' /\ MoveInv'
    BY <1>2 DEF PcInv, MoveInv
<1>5. JobsInv'
    BY <1>2 DEF JobsInv
<1>6. FileInv'
    <2>1. DefaultTree' = DefaultTree
        BY DEF DefaultTree, HeldByEditor
    <2>2. Waiting = {} /\ Waiting' = All(jobs)
        BY <1>1, <1>2, AllEmpty DEF Waiting
    <2>3. SUFFICES ASSUME NEW k \in Keys, ~Unsaved(Waiting, k)' PROVE DefaultTree[k] = cards'[k].value
        BY <2>1 DEF FileInv
    <2>4. /\ ~cards'[k].armed /\ k \notin past.apart
          /\ ~(\E job \in All(jobs) : k \in DOMAIN job.updates)
        BY <2>2, <2>3 DEF Unsaved
    <2>5. cards'[k] = cards[k]
        BY <2>4
    <2>6. ~Unsaved(Waiting, k)
        BY <2>2, <2>4, <2>5 DEF Unsaved
    <2>7. QED
        BY <1>1, <2>5, <2>6 DEF FileInv
<1>7. HeldInv'
    BY <1>1, <1>2 DEF HeldInv, HeldByEditor
<1>8. RunInv' /\ RootInv'
    BY RootKept
<1>9. OnInv'
    <2>1. ~CommandsLeft
        BY <1>1, AllEmpty DEF CommandsLeft
    <2>2. ~CommandsLeft' => cards'[Enabled].value = cards[Enabled].value
        BY <1>2 DEF CommandsLeft
    <2>3. QED
        BY <1>1, <2>1, <2>2 DEF OnInv
<1>10. QED
    BY <1>3, <1>4, <1>5, <1>6, <1>7, <1>8, <1>9 DEF SettingsInv, SaveInv

LEMMA SaveFacts ==
    ASSUME NEW u \in Updates, NEW c \in Commands
    PROVE  /\ Save(u, c) \in Jobs /\ <<Save(u, c)>> \in Seq(Jobs)
           /\ Save(u, c).updates = u /\ Save(u, c).command = c
<1>1. Save(u, c) \in Jobs /\ Save(u, c).updates = u /\ Save(u, c).command = c
    BY DEF Save, Jobs
<1>2. QED
    BY <1>1

LEMMA OneFacts ==
    ASSUME NEW k \in Keys, NEW v \in Values
    PROVE  One(k, v) \in Updates /\ DOMAIN One(k, v) = {k} /\ One(k, v)[k] = v
<1>1. One(k, v) \in [{k} -> Values] /\ {k} \in SUBSET Keys
    BY DEF One
<1>2. QED
    BY <1>1 DEF One, Updates

LEMMA AllKeys == \A t \in Trees : t \in Updates /\ DOMAIN t = Keys
BY DEF Trees, Updates

LEMMA CommandFacts ==
    /\ \A v \in {0, 1} : Command(v) \in Commands \ {"none"}
    /\ \A v \in {0, 1} : Command(v) \in Messages \ {"reload"}
    /\ Command(1) = "enable"
BY DEF Command, Commands, Messages

LEMMA FlipFacts ==
    ASSUME NEW v \in {0, 1}
    PROVE  /\ Flip(v) \in Jobs /\ <<Flip(v)>> \in Seq(Jobs) /\ Flip(v).command = Command(v)
           /\ DOMAIN Flip(v).updates = {Enabled} /\ Flip(v).updates[Enabled] = v
<1>1. v \in Values /\ Enabled \in Keys /\ Command(v) \in Commands
    BY Trees2, CommandFacts
<1> DEFINE u == One(Enabled, v)
<1>2. u \in Updates /\ DOMAIN u = {Enabled} /\ u[Enabled] = v
    BY <1>1, OneFacts
<1>3. Flip(v) = Save(u, Command(v))
    BY DEF Flip
<1> HIDE DEF u
<1>4. QED
    BY <1>1, <1>2, <1>3, SaveFacts

LEMMA Edited ==
    ASSUME SettingsInv, past.edits < MaxEdits
    PROVE  LET h == [past EXCEPT !.edits = @ + 1]
           IN  /\ h \in Pasts /\ h.apart = past.apart /\ h.missed = past.missed
               /\ h.astray = past.astray /\ Fresh \in Values
<1>1. past \in Pasts /\ past.edits \in Values /\ past.edits + 1 \in Values
    BY InvFacts DEF Values
<1>2. [past EXCEPT !.edits = past.edits + 1] \in Pasts
    BY <1>1, PastChanges
<1>3. QED
    BY <1>1, <1>2 DEF Pasts, Fresh

LEMMA Slides ==
    ASSUME SettingsInv, NEW k \in Sliders, Slide(k)
    PROVE  SettingsInv'
<1>1. /\ WindowIdle /\ past.edits < MaxEdits /\ past' = [past EXCEPT !.edits = @ + 1]
      /\ cards' = [cards EXCEPT ![k] = [value |-> Fresh, armed |-> TRUE]]
      /\ UNCHANGED <<disk, layout, gui, editor, engine, watcher, queue>>
    BY DEF Slide
<1>2. cards \in CardMaps /\ k \in Keys /\ k # Enabled /\ gui \in Guis /\ gui.todo = <<>>
      /\ cards[Enabled].value \in {0, 1}
    BY <1>1, InvFacts, Trees2 DEF WindowTypes, WindowIdle
<1>3. cards' \in CardMaps
    BY <1>1, <1>2, Edited, CardChanges
<1>4. cards'[k].armed /\ \A x \in Keys \ {k} : cards'[x] = cards[x]
    BY <1>1, <1>2 DEF CardMaps
<1>5. gui' = [gui EXCEPT !.todo = <<>>] /\ <<>> \in Seq(Jobs)
    BY <1>1, <1>2 DEF Guis
<1>6. QED
    BY <1>1, <1>2, <1>3, <1>4, <1>5, Edited, AllEmpty, NewJobs, Trees2

\* A slider whose timer ticks or that loses the focus.
LEMMA SavesOne ==
    ASSUME SettingsInv, NEW k \in Sliders, Tick(k) \/ LostFocus(k)
    PROVE  SettingsInv'
<1> DEFINE u == One(k, cards[k].value)
           job == Save(u, "none")
<1>1. /\ WindowIdle /\ cards' = [cards EXCEPT ![k].armed = FALSE]
      /\ gui' = [gui EXCEPT !.todo = <<job>>]
      /\ UNCHANGED <<disk, layout, editor, engine, watcher, queue>>
    BY DEF Tick, LostFocus
<1>2. cards \in CardMaps /\ k \in Keys /\ k # Enabled /\ cards[k] \in Card
      /\ cards[Enabled].value \in {0, 1} /\ cards[k].value \in Values
    BY InvFacts, Trees2 DEF WindowTypes, CardMaps
<1>3. cards' \in CardMaps
    BY <1>1, <1>2, CardChanges, Trees2
<1>4. cards'[k].value = cards[k].value /\ \A x \in Keys \ {k} : cards'[x] = cards[x]
    BY <1>1, <1>2 DEF CardMaps, Card
<1>5. past' \in Pasts /\ past'.apart = past.apart /\ past'.missed = past.missed
      /\ past'.astray = past.astray
    BY Edited, InvFacts DEF Tick, LostFocus
<1>6. /\ <<job>> \in Seq(Jobs) /\ job.command = "none" /\ DOMAIN job.updates = {k}
      /\ job.updates[k] = cards[k].value /\ All(<<job>>) = {job}
    <2>1. u \in Updates /\ DOMAIN u = {k} /\ u[k] = cards[k].value
        BY <1>2, OneFacts
    <2> HIDE DEF u
    <2>2. QED
        BY <2>1, SaveFacts, AllOne DEF Commands
<1> HIDE DEF job
<1>7. /\ \A j \in All(<<job>>) :
            /\ j.command \in {"none", Command(cards'[Enabled].value)}
            /\ \A x \in DOMAIN j.updates : j.updates[x] = cards'[x].value
      /\ \A x \in Keys : \/ cards'[x].armed \/ cards'[x] = cards[x]
                        \/ \E j \in All(<<job>>) : x \in DOMAIN j.updates
    BY <1>4, <1>6
<1>8. cards'[Enabled].value = cards[Enabled].value
    BY <1>2, <1>4, Trees2
<1>9. QED
    BY <1>1, <1>2, <1>3, <1>5, <1>6, <1>7, <1>8, NewJobs

LEMMA Toggles ==
    ASSUME SettingsInv, Toggle
    PROVE  SettingsInv'
<1> DEFINE v == 1 - cards[Enabled].value
<1>1. /\ WindowIdle /\ past.edits < MaxEdits /\ past' = [past EXCEPT !.edits = @ + 1]
      /\ cards' = [cards EXCEPT ![Enabled].value = v] /\ gui' = [gui EXCEPT !.todo = <<Flip(v)>>]
      /\ UNCHANGED <<disk, layout, editor, engine, watcher, queue>>
    BY DEF Toggle
<1>2. cards \in CardMaps /\ cards[Enabled] \in Card /\ v \in {0, 1} /\ Enabled \in Keys
    BY InvFacts, Trees2 DEF WindowTypes, CardMaps
<1> HIDE DEF v
<1>3. v \in Values /\ Command(v) # "none"
    BY <1>2, Trees2, CommandFacts
<1>4. cards' \in CardMaps
    BY <1>1, <1>2, <1>3, CardChanges
<1>5. cards'[Enabled].value = v /\ \A x \in Keys \ {Enabled} : cards'[x] = cards[x]
    BY <1>1, <1>2 DEF CardMaps, Card
<1>6. /\ <<Flip(v)>> \in Seq(Jobs) /\ Flip(v).command = Command(v)
      /\ DOMAIN Flip(v).updates = {Enabled} /\ Flip(v).updates[Enabled] = v
      /\ All(<<Flip(v)>>) = {Flip(v)}
    BY <1>2, FlipFacts, AllOne
<1>7. /\ past' \in Pasts /\ past'.apart = past.apart /\ past'.missed = past.missed
      /\ past'.astray = past.astray
    BY <1>1, Edited
<1>8. /\ \A j \in All(<<Flip(v)>>) :
            /\ j.command \in {"none", Command(cards'[Enabled].value)}
            /\ \A x \in DOMAIN j.updates : j.updates[x] = cards'[x].value
      /\ \A x \in Keys : \/ cards'[x].armed \/ cards'[x] = cards[x]
                        \/ \E j \in All(<<Flip(v)>>) : x \in DOMAIN j.updates
      /\ \E j \in All(<<Flip(v)>>) : j.command # "none"
    BY <1>3, <1>5, <1>6
<1>9. QED
    BY <1>1, <1>2, <1>4, <1>5, <1>6, <1>7, <1>8, NewJobs

\* A preset or the apply button: all values together, after the toggle if that moves.
LEMMA SavesAll ==
    ASSUME SettingsInv, WindowIdle, NEW v \in {0, 1}, NEW tree \in Trees, tree[Enabled] = v,
           NEW first \in {<<>>, <<Flip(v)>>},
           gui' = [gui EXCEPT !.todo = first \o <<Save(tree, Command(v))>>],
           cards' \in CardMaps, \A k \in Keys : cards'[k].value = tree[k],
           past' \in Pasts, past'.apart = past.apart, past'.missed = past.missed,
           past'.astray = past.astray, UNCHANGED <<disk, layout, editor, engine, watcher, queue>>
    PROVE  SettingsInv'
<1> DEFINE all == Save(tree, Command(v))
           jobs == first \o <<all>>
<1>1. /\ Flip(v) \in Jobs /\ <<Flip(v)>> \in Seq(Jobs) /\ Flip(v).command = Command(v)
      /\ DOMAIN Flip(v).updates = {Enabled} /\ Flip(v).updates[Enabled] = v
    BY FlipFacts
<1>2. /\ <<all>> \in Seq(Jobs) /\ all.updates = tree /\ all.command = Command(v)
      /\ DOMAIN tree = Keys
    <2>1. tree \in Updates /\ DOMAIN tree = Keys /\ Command(v) \in Commands
        BY AllKeys, CommandFacts
    <2>2. QED
        BY <2>1, SaveFacts
<1>3. first \in Seq(Jobs) /\ All(first) \subseteq {Flip(v)}
    <2>1. CASE first = <<>>
        BY <2>1, AllEmpty
    <2>2. CASE first = <<Flip(v)>>
        <3>1. All(<<Flip(v)>>) = {Flip(v)}
            BY AllOne
        <3>2. QED
            BY <1>1, <2>2, <3>1
    <2>3. QED
        BY <2>1, <2>2
<1> HIDE DEF all
<1>4. jobs \in Seq(Jobs) /\ All(jobs) = All(first) \cup {all}
    <2> DEFINE one == <<all>>
    <2>1. All(one) = {all} /\ one \in Seq(Jobs) /\ jobs = first \o one
        BY <1>2, AllOne
    <2> HIDE DEF one, jobs
    <2>2. first \o one \in Seq(Jobs) /\ All(first \o one) = All(first) \cup All(one)
        BY <1>3, <2>1, AllConcat
    <2>3. QED
        BY <2>1, <2>2
<1>5. Command(v) # "none" /\ cards'[Enabled].value = v /\ Enabled \in Keys
    BY CommandFacts, Trees2
<1>6. gui' = [gui EXCEPT !.todo = jobs]
    BY DEF all
<1> HIDE DEF jobs
<1>7. /\ \A j \in All(jobs) :
            /\ j.command \in {"none", Command(cards'[Enabled].value)}
            /\ \A x \in DOMAIN j.updates : j.updates[x] = cards'[x].value
      /\ \A x \in Keys : \E j \in All(jobs) : x \in DOMAIN j.updates
      /\ \E j \in All(jobs) : j.command # "none"
    <2>1. \A j \in All(jobs) : j = all \/ j = Flip(v)
        BY <1>3, <1>4
    <2>2. all \in All(jobs)
        BY <1>4
    <2>3. QED
        BY <1>1, <1>2, <1>5, <2>1, <2>2
<1>8. QED
    BY <1>4, <1>5, <1>6, <1>7, NewJobs

LEMMA Presets ==
    ASSUME SettingsInv, NEW v \in {0, 1}, Preset(v)
    PROVE  SettingsInv'
<1> DEFINE all == [k \in Keys |-> IF k = Enabled THEN v ELSE Fresh]
           first == IF v # cards[Enabled].value THEN <<Flip(v)>> ELSE <<>>
<1>1. /\ WindowIdle /\ past.edits < MaxEdits /\ past' = [past EXCEPT !.edits = @ + 1]
      /\ cards' = [k \in Keys |-> [value |-> all[k], armed |-> FALSE]]
      /\ gui' = [gui EXCEPT !.todo = first \o <<Save(all, Command(v))>>]
      /\ UNCHANGED <<disk, layout, editor, engine, watcher, queue>>
    BY DEF Preset
<1>2. Fresh \in Values /\ v \in Values
    BY <1>1, Edited, Trees2
<1>3. all \in Trees /\ all[Enabled] = v
    BY <1>2, Trees2 DEF Trees
<1>4. first \in {<<>>, <<Flip(v)>>}
    OBVIOUS
<1>5. /\ past' \in Pasts /\ past'.apart = past.apart /\ past'.missed = past.missed
      /\ past'.astray = past.astray
    BY <1>1, Edited
<1> HIDE DEF all, first
<1>6. cards' \in CardMaps /\ \A k \in Keys : cards'[k].value = all[k]
    BY <1>1, <1>3 DEF CardMaps, Card, Trees
<1>7. QED
    BY <1>1, <1>3, <1>4, <1>5, <1>6, SavesAll

LEMMA Applies ==
    ASSUME SettingsInv, Apply
    PROVE  SettingsInv'
<1> DEFINE all == [CardValues EXCEPT ![Enabled] = 1]
           first == IF cards[Enabled].value = 0 THEN <<Flip(1)>> ELSE <<>>
<1>1. /\ WindowIdle /\ past.edits < MaxEdits /\ past' = [past EXCEPT !.edits = @ + 1]
      /\ cards' = [cards EXCEPT ![Enabled].value = 1]
      /\ gui' = [gui EXCEPT !.todo = first \o <<Save(all, "enable")>>]
      /\ UNCHANGED <<disk, layout, editor, engine, watcher, queue>>
    BY DEF Apply
<1>2. cards \in CardMaps /\ (\A k \in Keys : cards[k] \in Card) /\ Enabled \in Keys /\ 1 \in Values
    BY InvFacts, Trees2 DEF WindowTypes, CardMaps
<1>3. all \in Trees /\ all[Enabled] = 1 /\ \A k \in Keys \ {Enabled} : all[k] = cards[k].value
    BY <1>2 DEF CardValues, Trees, Card
<1>4. first \in {<<>>, <<Flip(1)>>}
    OBVIOUS
<1>5. /\ past' \in Pasts /\ past'.apart = past.apart /\ past'.missed = past.missed
      /\ past'.astray = past.astray
    BY <1>1, Edited
<1> HIDE DEF all, first
<1>6. cards' \in CardMaps
    BY <1>1, <1>2, CardChanges
<1>7. \A k \in Keys : cards'[k].value = all[k]
    BY <1>1, <1>2, <1>3 DEF CardMaps, Card
<1>8. QED
    BY <1>1, <1>3, <1>4, <1>5, <1>6, <1>7, SavesAll, CommandFacts

----------------------------------------------------------------------------
(* The saves. *)

\* A save that is over leaves those after it, or its command.
LEMMA AfterFacts ==
    ASSUME SettingsInv, ~WindowIdle, gui' = AfterSave \/ gui' = NextJob
    PROVE  /\ gui' \in Guis /\ All(gui'.todo) \subseteq All(gui.todo) /\ PcInv'
           /\ Waiting' = All(Tail(gui.todo)) /\ gui'.pc \in {"load", "command"}
           /\ gui' = AfterSave /\ CommandsLeft => CommandsLeft'
<1>1. /\ gui \in Guis /\ Tail(gui.todo) \in Seq(Jobs)
      /\ All(gui.todo) = {Job} \cup All(Tail(gui.todo)) /\ gui.todo # <<>>
    BY InvFacts, JobFacts DEF WindowTypes, WindowIdle
<1>2. "load" \in GuiPcs /\ "command" \in GuiPcs /\ NoTree \in Trees \cup {NoTree}
    BY DEF GuiPcs
<1>3. CASE gui' = NextJob
    <2>1. gui' \in Guis /\ gui'.todo = Tail(gui.todo) /\ gui'.pc = "load"
        BY <1>1, <1>2, <1>3, GuiChanges DEF NextJob
    <2>2. gui' = AfterSave => Job.command = "none"
        BY <1>1, <2>1 DEF AfterSave, Guis
    <2>3. Waiting' = All(Tail(gui.todo)) /\ PcInv'
        BY <2>1 DEF Waiting, PcInv
    <2>4. gui' = AfterSave /\ CommandsLeft => CommandsLeft'
        BY <1>1, <2>1, <2>2 DEF CommandsLeft
    <2>5. QED
        BY <1>1, <2>1, <2>3, <2>4
<1>4. CASE gui' # NextJob
    <2>1. Job.command # "none" /\ gui' = [gui EXCEPT !.pc = "command", !.tree = NoTree]
        BY <1>4 DEF AfterSave
    <2>2. gui' \in Guis /\ gui'.todo = gui.todo /\ gui'.pc = "command"
        <3>1. gui' \in Guis
            BY <1>1, <1>2, <2>1, GuiChanges
        <3>2. QED
            BY <1>1, <2>1, <3>1 DEF Guis
    <2>3. Waiting' = All(Tail(gui.todo)) /\ PcInv'
        BY <1>1, <2>1, <2>2 DEF Waiting, PcInv, WindowIdle, Job
    <2>4. CommandsLeft => CommandsLeft'
        BY <2>2 DEF CommandsLeft
    <2>5. QED
        BY <1>1, <2>2, <2>3, <2>4
<1>5. QED
    BY <1>3, <1>4

LEMMA JobEnds ==
    ASSUME SettingsInv, ~WindowIdle, gui' = AfterSave \/ gui' = NextJob,
           UNCHANGED <<disk, layout, cards, editor, engine>>, past.apart \subseteq past'.apart,
           gui.pc \in {"load", "move"} => DOMAIN Job.updates \subseteq past'.apart
    PROVE  SaveInv'
<1>1. /\ JobsInv /\ FileInv /\ HeldInv
      /\ All(gui.todo) = {Job} \cup All(Tail(gui.todo))
    BY InvFacts, JobFacts
<1>2. /\ All(gui'.todo) \subseteq All(gui.todo) /\ PcInv'
      /\ Waiting' = All(Tail(gui.todo)) /\ gui'.pc \in {"load", "command"}
    BY AfterFacts
<1>3. JobsInv' /\ MoveInv' /\ HeldInv'
    BY <1>1, <1>2 DEF JobsInv, MoveInv, HeldInv, HeldByEditor
<1>4. FileInv'
    <2>1. DefaultTree' = DefaultTree
        BY DEF DefaultTree, HeldByEditor
    <2>2. SUFFICES ASSUME NEW k \in Keys, ~Unsaved(Waiting, k)' PROVE DefaultTree[k] = cards[k].value
        BY <2>1 DEF FileInv
    <2>3. /\ ~cards[k].armed /\ k \notin past'.apart
          /\ ~(\E job \in All(Tail(gui.todo)) : k \in DOMAIN job.updates)
        BY <1>2, <2>2 DEF Unsaved
    <2>4. \A job \in Waiting : k \notin DOMAIN job.updates
        BY <1>1, <2>3 DEF Waiting
    <2>5. ~Unsaved(Waiting, k)
        BY <2>3, <2>4 DEF Unsaved
    <2>6. QED
        BY <1>1, <2>5 DEF FileInv
<1>5. QED
    BY <1>2, <1>3, <1>4 DEF SaveInv

LEMMA SaveFailing ==
    ASSUME SettingsInv, ~WindowIdle, SaveFails, UNCHANGED <<layout, cards, editor, engine, queue>>
    PROVE  SettingsInv'
<1>1. /\ gui' = AfterSave /\ past' = [past EXCEPT !.apart = @ \cup DOMAIN Job.updates]
      /\ UNCHANGED <<disk, watcher>>
    BY DEF SaveFails
<1>2. /\ past \in Pasts /\ DOMAIN Job.updates \subseteq Keys /\ WindowTypes /\ FileTypes
      /\ EngineTypes
    BY InvFacts, JobFacts
<1>3. past.apart \cup DOMAIN Job.updates \in SUBSET Keys
    BY <1>2 DEF Pasts
<1>4. past' \in Pasts
    BY <1>1, <1>2, <1>3, PastChanges
<1>5. /\ past'.apart = past.apart \cup DOMAIN Job.updates /\ past'.missed = past.missed
      /\ past'.astray = past.astray
    BY <1>1, <1>2 DEF Pasts
<1>6. gui' \in Guis /\ (CommandsLeft => CommandsLeft')
    BY <1>1, AfterFacts
<1>7. Typed'
    BY <1>1, <1>2, <1>4, <1>6 DEF Typed, WindowTypes, FileTypes, EngineTypes
<1>8. SaveInv'
    BY <1>1, <1>5, JobEnds
<1>9. RunInv' /\ RootInv' /\ OnInv'
    BY <1>1, <1>5, <1>6, RootKept, OnKept
<1>10. QED
    BY <1>7, <1>8, <1>9 DEF SettingsInv

LEMMA Loads ==
    ASSUME SettingsInv, LoadFile
    PROVE  SettingsInv'
<1>1. ~WindowIdle /\ gui.pc = "load" /\ UNCHANGED <<layout, cards, editor, engine, queue>>
    BY DEF LoadFile, Saving
<1>2. CASE SaveFails
    BY <1>1, <1>2, SaveFailing
<1>3. CASE ~SaveFails
    <2> DEFINE tree == [k \in Keys |-> IF k \in DOMAIN Job.updates THEN Job.updates[k]
                                       ELSE disk["default"][k]]
    <2>1. /\ disk["default"] # Torn /\ gui' = [gui EXCEPT !.pc = "move", !.tree = tree]
          /\ Noticed("default") /\ UNCHANGED <<disk, past>>
        BY <1>3 DEF LoadFile
    <2>2. /\ gui \in Guis /\ WindowTypes /\ FileTypes /\ EngineTypes /\ past \in Pasts
          /\ PcInv /\ JobsInv /\ FileInv /\ HeldInv /\ disk["default"] \in Trees
        BY <2>1, InvFacts, Trees2 DEF WindowTypes, FileTypes, Disks
    <2>3. /\ All(gui.todo) = {Job} \cup All(Tail(gui.todo))
          /\ \A k \in DOMAIN Job.updates : Job.updates[k] = cards[k].value
        BY <1>1, JobFacts
    <2>4. tree \in Trees
        BY <2>2, <2>3, InvFacts DEF Trees
    <2>5. gui' \in Guis /\ gui'.todo = gui.todo /\ gui'.pc = "move" /\ gui'.tree = tree
        <3> HIDE DEF tree
        <3>1. tree \in Trees \cup {NoTree} /\ "move" \in GuiPcs
            BY <2>4 DEF GuiPcs
        <3>2. gui' \in Guis
            BY <2>1, <2>2, <3>1, GuiChanges
        <3>3. QED
            BY <2>1, <2>2, <3>2 DEF Guis
    <2>6. watcher' \in Watchers /\ RunInv' /\ RootInv'
        BY <1>1, <2>1, Writes, Trees2
    <2>7. Typed'
        BY <1>1, <2>1, <2>2, <2>5, <2>6 DEF Typed, WindowTypes, FileTypes, EngineTypes
    <2>8. PcInv' /\ JobsInv' /\ HeldInv'
        BY <1>1, <2>1, <2>2, <2>4, <2>5
           DEF PcInv, JobsInv, HeldInv, HeldByEditor, WindowIdle, Job
    <2>9. FileInv'
        BY <1>1, <2>1, <2>2, <2>5 DEF FileInv, Waiting, Unsaved, DefaultTree, HeldByEditor
    <2>10. MoveInv'
        <3>1. SUFFICES ASSUME NEW k \in Keys,
                              k \in DOMAIN Job.updates \/ ~Unsaved(All(Tail(gui.todo)), k)
                       PROVE  tree[k] = cards[k].value
            BY <1>1, <2>1, <2>5 DEF MoveInv, Unsaved, Job
        <3>2. CASE k \in DOMAIN Job.updates
            BY <2>3, <3>2
        <3>3. CASE k \notin DOMAIN Job.updates
            <4>1. ~Unsaved(Waiting, k)
                BY <1>1, <2>3, <3>1, <3>3 DEF Unsaved, Waiting
            <4>2. DefaultTree = disk["default"]
                BY <2>1, <2>2 DEF DefaultTree, HeldInv
            <4>3. QED
                BY <2>2, <3>3, <4>1, <4>2 DEF FileInv
        <3>4. QED
            BY <3>2, <3>3
    <2>11. OnInv'
        BY <1>1, <2>1, <2>5, OnKept DEF CommandsLeft
    <2>12. QED
        BY <2>6, <2>7, <2>8, <2>9, <2>10, <2>11 DEF SettingsInv, SaveInv
<1>4. QED
    BY <1>2, <1>3

\* A step of a save that goes on: the saves to make stay, and their commands.
LEMMA GoesOn ==
    ASSUME SettingsInv, UNCHANGED <<layout, cards, editor, engine, queue>>, ~WindowIdle,
           gui' \in Guis, gui'.todo = gui.todo, gui'.pc \in {"copy", "copying", "reload"},
           disk' \in Disks, past' \in Pasts, past'.astray = past.astray,
           watcher' \in Watchers, RunInv', RootInv', FileInv', HeldInv',
           gui'.pc = "copying" => gui'.tree \in Trees
    PROVE  SettingsInv'
<1>1. WindowTypes /\ FileTypes /\ EngineTypes /\ JobsInv
    BY InvFacts
<1>2. Typed'
    BY <1>1 DEF Typed, WindowTypes, FileTypes, EngineTypes
<1>3. PcInv' /\ JobsInv' /\ MoveInv'
    BY <1>1 DEF PcInv, JobsInv, MoveInv, WindowIdle
<1>4. OnInv'
    BY OnKept DEF CommandsLeft
<1>5. QED
    BY <1>2, <1>3, <1>4 DEF SettingsInv, SaveInv

LEMMA Moves ==
    ASSUME SettingsInv, MoveFile
    PROVE  SettingsInv'
<1>1. ~WindowIdle /\ gui.pc = "move" /\ UNCHANGED <<layout, cards, editor, engine, queue>>
    BY DEF MoveFile, Saving
<1>2. CASE SaveFails
    BY <1>1, <1>2, SaveFailing
<1>3. CASE ~SaveFails
    <2> DEFINE p == IF layout = "user" THEN "copy" ELSE "reload"
               a == past.apart \ DOMAIN Job.updates
               m == past.missed \/ Unwatched("default")
    <2>1. /\ ~HeldByEngine("default") /\ ~HeldByEditor("default")
          /\ disk' = [disk EXCEPT !["default"] = gui.tree] /\ Noticed("default")
          /\ gui' = [gui EXCEPT !.tree = NoTree, !.pc = p]
          /\ past' = [past EXCEPT !.apart = a, !.missed = m]
        BY <1>3 DEF MoveFile, Written
    <2>2. /\ gui \in Guis /\ FileTypes /\ past \in Pasts /\ gui.tree \in Trees /\ MoveInv
          /\ FileInv /\ HeldInv
        BY <1>1, InvFacts DEF WindowTypes, PcInv
    <2>3. p \in {"copy", "reload"} /\ p \in GuiPcs /\ a \in SUBSET Keys /\ m \in BOOLEAN
        BY InvFacts DEF GuiPcs, Unwatched
    <2>4. gui' \in Guis /\ gui'.todo = gui.todo /\ gui'.pc \in {"copy", "reload"}
        <3> HIDE DEF p
        <3>1. gui' \in Guis
            BY <2>1, <2>2, <2>3, GuiChanges
        <3>2. QED
            BY <2>1, <2>2, <2>3, <3>1 DEF Guis
    <2>5. past' \in Pasts /\ past'.apart = a /\ past'.missed = m /\ past'.astray = past.astray
        <3> HIDE DEF a, m
        <3>1. past' \in Pasts
            BY <2>1, <2>2, <2>3, PastChanges
        <3>2. QED
            BY <2>1, <2>2, <3>1 DEF Pasts
    <2>6. /\ disk' \in Disks /\ disk'["default"] = gui.tree
          /\ \A g \in Files \ {"default"} : disk'[g] = disk[g]
        BY <2>1, <2>2, Trees2 DEF FileTypes, Disks
    <2>7. watcher' \in Watchers /\ RunInv' /\ RootInv'
        BY <1>1, <2>1, <2>5, <2>6, Writes, Trees2
    <2>8. HeldInv'
        <3>1. gui.tree # Torn /\ layout \in Files /\ (editor # NoTree => editor.file \in Files)
            BY <2>2, Trees2 DEF FileTypes, Edits
        <3>2. editor # NoTree => editor.file # "default"
            BY <2>1 DEF HeldByEditor
        <3>3. QED
            BY <1>1, <2>1, <2>2, <2>4, <2>6, <3>1, <3>2 DEF HeldInv, HeldByEditor
    <2>9. FileInv'
        <3>1. DefaultTree' = gui.tree /\ Waiting' = All(Tail(gui.todo))
            BY <1>1, <2>1, <2>4, <2>6 DEF DefaultTree, HeldByEditor, Waiting
        <3>2. SUFFICES ASSUME NEW k \in Keys, ~Unsaved(Waiting, k)' PROVE gui.tree[k] = cards[k].value
            BY <1>1, <3>1 DEF FileInv
        <3>3. /\ ~cards[k].armed /\ k \notin a
              /\ ~(\E job \in All(Tail(gui.todo)) : k \in DOMAIN job.updates)
            BY <1>1, <2>5, <3>1, <3>2 DEF Unsaved
        <3>4. k \in DOMAIN Job.updates \/ ~Unsaved(All(Tail(gui.todo)), k)
            BY <3>3 DEF Unsaved
        <3>5. QED
            BY <1>1, <2>2, <3>4 DEF MoveInv
    <2>10. QED
        BY <1>1, <2>4, <2>5, <2>6, <2>7, <2>8, <2>9, GoesOn
<1>4. QED
    BY <1>2, <1>3

LEMMA CopyStarting ==
    ASSUME SettingsInv, CopyStarts
    PROVE  SettingsInv'
<1>1. ~WindowIdle /\ gui.pc = "copy" /\ UNCHANGED <<layout, cards, editor, engine, queue>>
    BY DEF CopyStarts, Saving
<1>2. gui \in Guis /\ FileTypes /\ past \in Pasts /\ FileInv /\ HeldInv /\ RunInv /\ RootInv
      /\ watcher \in Watchers
    BY InvFacts DEF WindowTypes, EngineTypes
<1>3. CASE gui' = [gui EXCEPT !.pc = "reload"] /\ UNCHANGED <<disk, watcher, past>>
    <2>1. gui' \in Guis /\ gui'.todo = gui.todo /\ gui'.pc = "reload"
        <3>1. gui' \in Guis
            BY <1>2, <1>3, GuiChanges DEF GuiPcs
        <3>2. QED
            BY <1>2, <1>3, <3>1 DEF Guis
    <2>2. RunInv' /\ RootInv'
        BY <1>1, <1>3, RootKept
    <2>3. FileInv' /\ HeldInv'
        BY <1>1, <1>2, <1>3, <2>1
           DEF FileInv, HeldInv, Waiting, Unsaved, DefaultTree, HeldByEditor
    <2>4. QED
        BY <1>1, <1>2, <1>3, <2>1, <2>2, <2>3, GoesOn DEF FileTypes
<1>4. CASE ~(gui' = [gui EXCEPT !.pc = "reload"] /\ UNCHANGED <<disk, watcher, past>>)
    <2> DEFINE tree == disk["default"]
               m == past.missed \/ Unwatched("user")
    <2>1. /\ ~HeldByEngine("user") /\ ~HeldByEditor("user") /\ tree # Torn
          /\ disk' = [disk EXCEPT !["user"] = Torn] /\ Noticed("user")
          /\ gui' = [gui EXCEPT !.pc = "copying", !.tree = tree]
          /\ past' = [past EXCEPT !.missed = m]
        BY <1>4 DEF CopyStarts, Written
    <2>2. tree \in Trees /\ "copying" \in GuiPcs /\ m \in BOOLEAN
        BY <1>2, <2>1, Trees2, InvFacts DEF FileTypes, Disks, GuiPcs, Unwatched
    <2>3. gui' \in Guis /\ gui'.todo = gui.todo /\ gui'.pc = "copying" /\ gui'.tree \in Trees
        <3> HIDE DEF tree
        <3>1. gui' \in Guis
            BY <1>2, <2>1, <2>2, GuiChanges
        <3>2. QED
            BY <1>2, <2>1, <2>2, <3>1 DEF Guis
    <2>4. past' \in Pasts /\ past'.apart = past.apart /\ past'.missed = m /\ past'.astray = past.astray
        <3> HIDE DEF m
        <3>1. past' \in Pasts
            BY <1>2, <2>1, <2>2, PastChanges
        <3>2. QED
            BY <1>2, <2>1, <3>1 DEF Pasts
    <2>5. /\ disk' \in Disks /\ disk'["user"] = Torn
          /\ \A g \in Files \ {"user"} : disk'[g] = disk[g]
        BY <1>2, <2>1, Trees2 DEF FileTypes, Disks
    <2>6. watcher' \in Watchers /\ RunInv' /\ RootInv'
        BY <1>1, <2>1, <2>4, <2>5, Writes, Trees2
    <2>7. disk'["default"] = disk["default"]
        BY <2>5, Trees2
    <2>8. HeldInv'
        <3>1. layout \in Files /\ (editor # NoTree => editor.file \in Files)
            BY <1>2 DEF FileTypes, Edits
        <3>2. engine.opened => layout # "user"
            BY <2>1 DEF HeldByEngine, EngineFile
        <3>3. QED
            BY <1>1, <1>2, <2>1, <2>3, <2>5, <2>7, <3>1, <3>2 DEF HeldInv, HeldByEditor
    <2>9. FileInv'
        BY <1>1, <1>2, <2>3, <2>4, <2>7 DEF FileInv, Waiting, Unsaved, DefaultTree, HeldByEditor
    <2>10. QED
        BY <1>1, <2>3, <2>4, <2>5, <2>6, <2>8, <2>9, GoesOn
<1>5. QED
    BY <1>3, <1>4

LEMMA CopyEnding ==
    ASSUME SettingsInv, CopyEnds
    PROVE  SettingsInv'
<1> DEFINE m == past.missed \/ Unwatched("user")
<1>1. /\ ~WindowIdle /\ gui.pc = "copying" /\ UNCHANGED <<layout, cards, editor, engine, queue>>
      /\ disk' = [disk EXCEPT !["user"] = gui.tree] /\ Noticed("user")
      /\ past' = [past EXCEPT !.missed = m]
      /\ gui' = [gui EXCEPT !.pc = "reload", !.tree = NoTree]
    BY DEF CopyEnds, Saving, Written
<1>2. gui \in Guis /\ FileTypes /\ past \in Pasts /\ FileInv /\ HeldInv /\ gui.tree \in Trees
    BY <1>1, InvFacts DEF WindowTypes, PcInv
<1>3. "reload" \in GuiPcs /\ NoTree \in Trees \cup {NoTree} /\ m \in BOOLEAN
    BY InvFacts DEF GuiPcs, Unwatched
<1> HIDE DEF m
<1>4. gui' \in Guis /\ gui'.todo = gui.todo /\ gui'.pc = "reload"
    <2>1. gui' \in Guis
        BY <1>1, <1>2, <1>3, GuiChanges
    <2>2. QED
        BY <1>1, <1>2, <2>1 DEF Guis
<1>5. past' \in Pasts /\ past'.apart = past.apart /\ past'.missed = m /\ past'.astray = past.astray
    <2>1. past' \in Pasts
        BY <1>1, <1>2, <1>3, PastChanges
    <2>2. QED
        BY <1>1, <1>2, <2>1 DEF Pasts
<1>6. /\ disk' \in Disks /\ disk'["user"] = gui.tree
      /\ \A g \in Files \ {"user"} : disk'[g] = disk[g]
    BY <1>1, <1>2, Trees2 DEF FileTypes, Disks
<1>7. watcher' \in Watchers /\ RunInv' /\ RootInv'
    BY <1>1, <1>5, <1>6, Writes, Trees2 DEF m
<1>8. disk'["default"] = disk["default"]
    BY <1>6, Trees2
<1>9. HeldInv'
    <2>1. layout \in Files /\ (editor # NoTree => editor.file \in Files) /\ gui.tree # Torn
        BY <1>2, Trees2 DEF FileTypes, Edits
    <2>2. QED
        BY <1>1, <1>2, <1>4, <1>6, <1>8, <2>1 DEF HeldInv, HeldByEditor
<1>10. FileInv'
    BY <1>1, <1>2, <1>4, <1>5, <1>8 DEF FileInv, Waiting, Unsaved, DefaultTree, HeldByEditor
<1>11. QED
    BY <1>1, <1>4, <1>5, <1>6, <1>7, <1>9, <1>10, GoesOn

\* A message of the window is in the queue afterwards, or nobody took it.
LEMMA PostedFacts ==
    ASSUME SettingsInv, NEW msg \in Messages, Posted(msg)
    PROVE  /\ queue' \in Seq(Messages) /\ Len(queue') <= MaxQueue
           /\ \/ queue' = queue
              \/ /\ engine.pc = "running" /\ queue' = Append(queue, msg)
                 /\ All(queue') = All(queue) \cup {msg}
<1>1. queue \in Seq(Messages) /\ Len(queue) <= MaxQueue
    BY InvFacts DEF EngineTypes
<1>2. CASE queue' = queue
    BY <1>1, <1>2
<1>3. CASE queue' # queue
    <2>1. engine.pc = "running" /\ queue' = Append(queue, msg) /\ Len(queue) < MaxQueue
        BY <1>3 DEF Posted
    <2>2. All(queue') = All(queue) \cup {msg}
        BY <1>1, <2>1, AllAppend
    <2>3. queue' \in Seq(Messages) /\ Len(queue') = Len(queue) + 1 /\ Len(queue) \in Nat
        BY <1>1, <2>1
    <2>4. QED
        BY <2>1, <2>2, <2>3
<1>4. QED
    BY <1>2, <1>3

LEMMA RootPosted ==
    ASSUME SettingsInv, NEW msg \in Messages, Posted(msg), past'.missed = past.missed,
           UNCHANGED <<disk, layout, engine, watcher>>
    PROVE  RunInv' /\ RootInv'
<1>1. RunInv /\ RootInv
    BY InvFacts
<1>2. queue' = queue \/ (engine.pc = "running" /\ All(queue) \subseteq All(queue'))
    BY PostedFacts
<1>3. Heard' => Heard
    BY <1>2 DEF Heard
<1>4. QED
    BY <1>1, <1>2, <1>3 DEF RunInv, RootInv

LEMMA SendsReload ==
    ASSUME SettingsInv, SendReload
    PROVE  SettingsInv'
<1>1. /\ ~WindowIdle /\ gui.pc = "reload" /\ Posted("reload") /\ gui' = AfterSave
      /\ UNCHANGED <<disk, layout, cards, editor, engine, watcher>>
    BY DEF SendReload, Saving
<1>2. past' = past
    BY <1>1 DEF Posted
<1>3. WindowTypes /\ FileTypes /\ EngineTypes /\ past \in Pasts /\ OnInv
    BY InvFacts
<1>4. /\ queue' \in Seq(Messages) /\ Len(queue') <= MaxQueue
      /\ \/ queue' = queue
         \/ queue' = Append(queue, "reload") /\ All(queue') = All(queue) \cup {"reload"}
    BY <1>1, PostedFacts DEF Messages
<1>5. gui' \in Guis /\ (CommandsLeft => CommandsLeft')
    BY <1>1, AfterFacts
<1>6. Typed'
    BY <1>1, <1>2, <1>3, <1>4, <1>5 DEF Typed, WindowTypes, FileTypes, EngineTypes
<1>7. SaveInv'
    BY <1>1, <1>2, JobEnds
<1>8. RunInv' /\ RootInv'
    BY <1>1, <1>2, RootPosted DEF Messages
<1>9. OnInv'
    <2>1. CASE queue' = queue
        BY <1>1, <1>2, <1>5, <2>1, OnKept
    <2>2. CASE queue' = Append(queue, "reload") /\ All(queue') = All(queue) \cup {"reload"}
        <3>1. SUFFICES ASSUME ~past.astray, ~CommandsLeft
                       PROVE  /\ LastCommand(queue', Command(cards[Enabled].value))
                              /\ All(queue') \subseteq {"reload"} =>
                                    engine.on \in {IsOn(engine.root), cards[Enabled].value = 1}
            BY <1>1, <1>2, <1>5 DEF OnInv
        <3>2. LastCommand(queue, Command(cards[Enabled].value))
            BY <1>3, <3>1 DEF OnInv
        <3>3. LastCommand(queue', Command(cards[Enabled].value))
            BY <1>3, <2>2, <3>2, LastPosted DEF EngineTypes
        <3>4. QED
            BY <1>3, <2>2, <3>1, <3>3 DEF OnInv
    <2>3. QED
        BY <1>4, <2>1, <2>2
<1>10. QED
    BY <1>6, <1>7, <1>8, <1>9 DEF SettingsInv

LEMMA SendsCommand ==
    ASSUME SettingsInv, SendCommand
    PROVE  SettingsInv'
<1> DEFINE c == Command(cards[Enabled].value)
<1>1. /\ ~WindowIdle /\ gui.pc = "command" /\ Posted(Job.command) /\ gui' = NextJob
      /\ UNCHANGED <<disk, layout, cards, editor, engine, watcher>>
    BY DEF SendCommand, Saving
<1>2. WindowTypes /\ FileTypes /\ EngineTypes /\ past \in Pasts /\ past.astray \in BOOLEAN
    BY InvFacts
<1>3. Job.command = c /\ c \in Messages \ {"reload"}
    BY <1>1, <1>2, InvFacts, JobFacts, CommandFacts DEF PcInv, WindowTypes
<1>4. \/ past' = [past EXCEPT !.astray = FALSE] /\ queue' = Append(queue, c)
      \/ past' = [past EXCEPT !.astray = TRUE]
    BY <1>1, <1>3 DEF Posted
<1>5. /\ queue' \in Seq(Messages) /\ Len(queue') <= MaxQueue
      /\ queue' = queue \/ All(queue') = All(queue) \cup {c}
    BY <1>1, <1>3, PostedFacts
<1>6. past' \in Pasts
    BY <1>2, <1>4, PastChanges
<1>7. /\ past'.apart = past.apart /\ past'.missed = past.missed
      /\ past'.astray \/ (queue' = Append(queue, c) /\ ~past'.astray)
    BY <1>2, <1>4 DEF Pasts
<1>8. gui' \in Guis
    BY <1>1, AfterFacts
<1>9. Typed'
    BY <1>1, <1>2, <1>5, <1>6, <1>8 DEF Typed, WindowTypes, FileTypes, EngineTypes
<1>10. SaveInv'
    BY <1>1, <1>7, JobEnds
<1>11. RunInv' /\ RootInv'
    BY <1>1, <1>3, <1>7, RootPosted
<1> HIDE DEF c
<1>12. OnInv'
    <2>1. CASE past'.astray
        BY <2>1 DEF OnInv
    <2>2. CASE queue' = Append(queue, c)
        <3>1. LastCommand(queue', c)
            BY <1>2, <1>3, <2>2, LastOwn DEF EngineTypes
        <3>2. c \in All(queue') /\ c # "reload"
            BY <1>2, <1>3, <2>2, AllAppend DEF EngineTypes
        <3>3. QED
            BY <1>1, <3>1, <3>2 DEF OnInv, c
    <2>3. QED
        BY <1>7, <2>1, <2>2
<1>13. QED
    BY <1>9, <1>10, <1>11, <1>12 DEF SettingsInv

----------------------------------------------------------------------------
(* The editor. *)

\* While an editor opens or writes a file the window, its saves and the engine go on.
LEMMA EditorStep ==
    ASSUME SettingsInv, UNCHANGED <<layout, cards, gui, engine, queue>>,
           editor' \in Edits \cup {NoTree}, disk' \in Disks, past' \in Pasts,
           past.apart \subseteq past'.apart, past'.astray = past.astray,
           watcher' \in Watchers, RunInv', RootInv', HeldInv',
           \A k \in Keys \ past'.apart : DefaultTree'[k] = DefaultTree[k]
    PROVE  SettingsInv'
<1>1. WindowTypes /\ FileTypes /\ EngineTypes /\ PcInv /\ JobsInv /\ FileInv /\ MoveInv
    BY InvFacts
<1>2. Typed'
    BY <1>1 DEF Typed, WindowTypes, FileTypes, EngineTypes
<1>3. PcInv' /\ JobsInv'
    BY <1>1 DEF PcInv, JobsInv, WindowIdle, Job
<1>4. Waiting' = Waiting
    BY DEF Waiting
<1>5. FileInv'
    <2>1. SUFFICES ASSUME NEW k \in Keys, ~Unsaved(Waiting, k)' PROVE DefaultTree'[k] = cards[k].value
        BY DEF FileInv
    <2>2. ~Unsaved(Waiting, k) /\ k \notin past'.apart
        BY <1>4, <2>1 DEF Unsaved
    <2>3. QED
        BY <1>1, <2>2 DEF FileInv
<1>6. MoveInv'
    BY <1>1 DEF MoveInv, Unsaved, Job
<1>7. OnInv'
    BY OnKept DEF CommandsLeft
<1>8. QED
    BY <1>2, <1>3, <1>5, <1>6, <1>7 DEF SettingsInv, SaveInv

LEMMA EditorOpens ==
    ASSUME SettingsInv, NEW f \in Files, EditorWrites(f)
    PROVE  SettingsInv'
<1> DEFINE m == past.missed \/ Unwatched(f)
           e == past.edits + 1
<1>1. /\ editor = NoTree /\ past.edits < MaxEdits /\ disk[f] # Torn /\ ~HeldByEngine(f)
      /\ editor' = [file |-> f, tree |-> disk[f]] /\ disk' = [disk EXCEPT ![f] = Torn]
      /\ Noticed(f) /\ past' = [past EXCEPT !.edits = e, !.missed = m]
      /\ UNCHANGED <<layout, cards, gui, engine, queue>>
    BY DEF EditorWrites, Written
<1>2. FileTypes /\ past \in Pasts /\ HeldInv /\ disk[f] \in Trees
    BY <1>1, InvFacts DEF FileTypes, Disks
<1>3. m \in BOOLEAN /\ e \in Values
    BY <1>1, InvFacts DEF Unwatched, Values
<1>4. /\ past' \in Pasts /\ past'.apart = past.apart /\ past'.missed = m
      /\ past'.astray = past.astray
    <2> HIDE DEF m, e
    <2>1. past' \in Pasts
        BY <1>1, <1>2, <1>3, PastChanges
    <2>2. QED
        BY <1>1, <1>2, <2>1 DEF Pasts
<1>5. /\ disk' \in Disks /\ disk'[f] = Torn /\ \A g \in Files \ {f} : disk'[g] = disk[g]
    BY <1>1, <1>2 DEF FileTypes, Disks
<1>6. /\ editor' \in Edits /\ editor' # NoTree /\ editor'.file = f /\ editor'.tree = disk[f]
    <2> DEFINE t == disk[f]
    <2>1. editor' = [file |-> f, tree |-> t] /\ t \in Trees
        BY <1>1, <1>2
    <2> HIDE DEF t
    <2>2. editor' \in Edits /\ editor'.file = f /\ editor'.tree = t
        BY <2>1 DEF Edits
    <2>3. QED
        BY <2>2, Trees2 DEF t
<1>7. watcher' \in Watchers /\ RunInv' /\ RootInv'
    BY <1>1, <1>4, <1>5, Writes
<1>8. HeldInv'
    <2>1. layout \in Files /\ (engine.opened => layout # f)
        BY <1>1, <1>2 DEF FileTypes, HeldByEngine, EngineFile
    <2>2. QED
        BY <1>1, <1>2, <1>5, <1>6, <2>1, Trees2 DEF HeldInv, HeldByEditor
<1>9. DefaultTree' = DefaultTree
    BY <1>1, <1>5, <1>6, Trees2 DEF DefaultTree, HeldByEditor
<1>10. QED
    BY <1>1, <1>4, <1>5, <1>6, <1>7, <1>8, <1>9, EditorStep

\* It writes a slider's setting.
LEMMA EditorEnds ==
    ASSUME SettingsInv, NEW k \in Sliders, EditorSaves(k)
    PROVE  SettingsInv'
<1> DEFINE f == editor.file
           t == [editor.tree EXCEPT ![k] = past.edits]
           a == IF f = "default" THEN past.apart \cup {k} ELSE past.apart
           m == past.missed \/ Unwatched(f)
<1>1. /\ editor # NoTree /\ disk' = [disk EXCEPT ![f] = t] /\ Noticed(f)
      /\ past' = [past EXCEPT !.apart = a, !.missed = m] /\ editor' = NoTree
      /\ UNCHANGED <<layout, cards, gui, engine, queue>>
    BY DEF EditorSaves, Written
<1>2. FileTypes /\ past \in Pasts /\ HeldInv
    BY InvFacts
<1>3. f \in Files /\ editor.tree \in Trees
    BY <1>1, <1>2 DEF FileTypes, Edits
<1>4. t \in Trees /\ \A x \in Keys \ {k} : t[x] = editor.tree[x]
    <2> HIDE DEF f
    <2>1. k \in Keys /\ past.edits \in Values
        BY InvFacts, Trees2
    <2>2. QED
        BY <1>3, <2>1 DEF Trees
<1>5. a \in SUBSET Keys /\ m \in BOOLEAN /\ past.apart \subseteq a
    BY InvFacts, Trees2 DEF Unwatched
<1>6. past' \in Pasts /\ past'.apart = a /\ past'.missed = m /\ past'.astray = past.astray
    <2> HIDE DEF a, m
    <2>1. past' \in Pasts
        BY <1>1, <1>2, <1>5, PastChanges
    <2>2. QED
        BY <1>1, <1>2, <2>1 DEF Pasts
<1> HIDE DEF t
<1>7. /\ disk' \in Disks /\ disk'[f] = t /\ t # Torn
      /\ \A g \in Files \ {f} : disk'[g] = disk[g]
    <2> HIDE DEF f
    <2>1. QED
        BY <1>1, <1>2, <1>3, <1>4, Trees2 DEF FileTypes, Disks
<1>8. watcher' \in Watchers /\ RunInv' /\ RootInv'
    BY <1>1, <1>3, <1>6, <1>7, Writes
<1>9. disk[f] = Torn
    BY <1>1, <1>2 DEF HeldInv
<1>10. HeldInv'
    <2>1. disk'["default"] # Torn
        <3>1. CASE f = "default"
            BY <1>7, <3>1
        <3>2. CASE f # "default"
            <4>1. disk'["default"] = disk["default"] /\ ~HeldByEditor("default")
                BY <1>7, <3>2, Trees2 DEF HeldByEditor
            <4>2. QED
                BY <1>2, <4>1 DEF HeldInv
        <3>3. QED
            BY <3>1, <3>2
    <2>2. gui.pc = "copying" => disk'["user"] = Torn
        BY <1>1, <1>2, <1>7, Trees2 DEF HeldInv, HeldByEditor
    <2>3. engine.opened => disk'[layout] # Torn
        BY <1>2, <1>7 DEF HeldInv, FileTypes
    <2>4. QED
        BY <1>1, <2>1, <2>2, <2>3 DEF HeldInv, HeldByEditor
<1>11. ASSUME NEW x \in Keys \ past'.apart PROVE DefaultTree'[x] = DefaultTree[x]
    <2>1. DefaultTree' = disk'["default"]
        BY <1>1 DEF DefaultTree, HeldByEditor
    <2>2. CASE f = "default"
        <3>1. DefaultTree = editor.tree /\ x # k
            BY <1>1, <1>6, <1>11, <2>2 DEF DefaultTree, HeldByEditor
        <3>2. QED
            BY <1>4, <1>7, <2>1, <2>2, <3>1
    <2>3. CASE f # "default"
        <3>1. DefaultTree = disk["default"] /\ disk'["default"] = disk["default"]
            BY <1>7, <2>3, Trees2 DEF DefaultTree, HeldByEditor
        <3>2. QED
            BY <2>1, <3>1
    <2>4. QED
        BY <2>2, <2>3
<1>12. QED
    BY <1>1, <1>5, <1>6, <1>7, <1>8, <1>10, <1>11, EditorStep

----------------------------------------------------------------------------
(* The watcher and the engine. *)

\* Their steps touch neither the window nor the files.
LEMMA EngineSide ==
    ASSUME SettingsInv, UNCHANGED <<disk, layout, cards, gui, editor>>, past' \in Pasts,
           past'.apart = past.apart, EngineTypes', engine'.opened => disk[layout] # Torn,
           RunInv', RootInv', OnInv'
    PROVE  SettingsInv'
<1>1. WindowTypes /\ FileTypes
    BY InvFacts
<1>2. Typed'
    BY <1>1 DEF Typed, WindowTypes, FileTypes
<1>3. SaveInv'
    BY SaveKept
<1>4. QED
    BY <1>2, <1>3 DEF SettingsInv

LEMMA WatcherFacts ==
    \A p \in {"off", "waiting", "debounce"}, b \in BOOLEAN, w \in Watchers :
        [pc |-> p, changed |-> b] \in Watchers /\ [w EXCEPT !.pc = p] \in Watchers
BY Zenon DEF Watchers

LEMMA Hears ==
    ASSUME SettingsInv, ChangeHeard
    PROVE  SettingsInv'
<1>1. /\ watcher.pc = "waiting" /\ watcher' = [pc |-> "debounce", changed |-> FALSE]
      /\ UNCHANGED <<disk, layout, cards, gui, editor, engine, queue, past>>
    BY DEF ChangeHeard
<1>2. EngineTypes /\ past \in Pasts /\ HeldInv /\ RunInv /\ RootInv /\ OnInv
    BY InvFacts
<1>3. EngineTypes'
    BY <1>1, <1>2, WatcherFacts DEF EngineTypes
<1>4. RunInv' /\ RootInv'
    <2>1. watcher'.pc = "debounce" /\ ~Heard'
        BY <1>1 DEF Heard
    <2>2. QED
        BY <1>1, <1>2, <2>1 DEF RunInv, RootInv
<1>5. OnInv'
    BY <1>1, OnKept DEF CommandsLeft
<1>6. QED
    BY <1>1, <1>2, <1>3, <1>4, <1>5, EngineSide DEF HeldInv

LEMMA Debounced ==
    ASSUME SettingsInv, DebounceEnds
    PROVE  SettingsInv'
<1>1. /\ watcher.pc = "debounce" /\ Len(queue) < MaxQueue /\ queue' = Append(queue, "reload")
      /\ watcher' = [watcher EXCEPT !.pc = "waiting"]
      /\ UNCHANGED <<disk, layout, cards, gui, editor, engine, past>>
    BY DEF DebounceEnds
<1>2. /\ EngineTypes /\ past \in Pasts /\ HeldInv /\ RunInv /\ RootInv /\ OnInv
      /\ watcher \in Watchers /\ queue \in Seq(Messages) /\ "reload" \in Messages
    BY InvFacts DEF EngineTypes, Messages
<1>3. watcher' \in Watchers /\ watcher'.pc = "waiting"
    <2>1. watcher' \in Watchers
        BY <1>1, <1>2, WatcherFacts
    <2>2. QED
        BY <1>1, <1>2, <2>1 DEF Watchers
<1>4. All(queue') = All(queue) \cup {"reload"}
    BY <1>1, <1>2, AllAppend
<1>5. queue' \in Seq(Messages) /\ Len(queue') <= MaxQueue
    BY <1>1, <1>2
<1>6. EngineTypes'
    BY <1>1, <1>2, <1>3, <1>5 DEF EngineTypes
<1>7. RunInv' /\ RootInv'
    <2>1. ~Heard'
        BY <1>4 DEF Heard
    <2>2. engine.pc = "running"
        BY <1>1, <1>2 DEF RunInv
    <2>3. QED
        BY <1>1, <1>2, <1>3, <2>1, <2>2 DEF RunInv, RootInv
<1>8. OnInv'
    <2>1. SUFFICES ASSUME ~past.astray, ~CommandsLeft
                   PROVE  /\ LastCommand(queue', Command(cards[Enabled].value))
                          /\ All(queue') \subseteq {"reload"} =>
                                engine.on \in {IsOn(engine.root), cards[Enabled].value = 1}
        BY <1>1 DEF OnInv, CommandsLeft
    <2>2. LastCommand(queue, Command(cards[Enabled].value))
        BY <1>2, <2>1 DEF OnInv
    <2>3. LastCommand(queue', Command(cards[Enabled].value))
        BY <1>1, <1>2, <2>2, LastPosted
    <2>4. QED
        BY <1>2, <1>4, <2>1, <2>3 DEF OnInv
<1>9. QED
    BY <1>1, <1>2, <1>6, <1>7, <1>8, EngineSide DEF HeldInv

LEMMA Boots ==
    ASSUME SettingsInv, Boot
    PROVE  SettingsInv'
<1>1. /\ engine.pc = "down" /\ engine' = [engine EXCEPT !.pc = "load", !.opened = Readable]
      /\ past' = [past EXCEPT !.missed = FALSE]
      /\ UNCHANGED <<disk, layout, cards, gui, editor, watcher, queue>>
    BY DEF Boot
<1>2. EngineTypes /\ engine \in Engines /\ past \in Pasts /\ RunInv /\ OnInv
    BY InvFacts DEF EngineTypes
<1>3. Readable \in BOOLEAN /\ "load" \in Pcs /\ (Readable <=> disk[layout] # Torn)
    BY DEF Readable, Pcs, EngineFile
<1>4. /\ engine' \in Engines /\ engine'.pc = "load" /\ engine'.opened = Readable
      /\ engine'.root = engine.root /\ engine'.on = engine.on
    <2> DEFINE o == Readable
    <2>1. o \in BOOLEAN
        BY <1>3
    <2> HIDE DEF o
    <2>2. engine' = [engine EXCEPT !.pc = "load", !.opened = o]
        BY <1>1 DEF o
    <2>3. engine' \in Engines
        BY <1>2, <1>3, <2>1, <2>2, EngineChanges
    <2>4. QED
        BY <1>2, <2>2, <2>3 DEF Engines, o
<1>5. past' \in Pasts
    BY <1>1, <1>2, PastChanges
<1>6. past'.apart = past.apart /\ past'.astray = past.astray /\ ~past'.missed
    BY <1>1, <1>2 DEF Pasts
<1>7. EngineTypes'
    BY <1>1, <1>2, <1>4 DEF EngineTypes
<1>8. RunInv' /\ RootInv'
    BY <1>1, <1>2, <1>3, <1>4 DEF RunInv, RootInv
<1>9. OnInv'
    BY <1>1, <1>2, <1>4, <1>6 DEF OnInv, CommandsLeft
<1>10. QED
    BY <1>1, <1>3, <1>4, <1>5, <1>6, <1>7, <1>8, <1>9, EngineSide

LEMMA Configured ==
    ASSUME SettingsInv, ConfigLoaded
    PROVE  SettingsInv'
<1> DEFINE r == IF engine.opened THEN disk[EngineFile] ELSE NoTree
           b == engine.opened /\ IsOn(disk[EngineFile])
<1>1. /\ engine.pc = "load" /\ engine' = [pc |-> "plugins", opened |-> FALSE, root |-> r, on |-> b]
      /\ past' = [past EXCEPT !.astray = FALSE]
      /\ UNCHANGED <<disk, layout, cards, gui, editor, watcher, queue>>
    BY DEF ConfigLoaded
<1>2. /\ EngineTypes /\ FileTypes /\ engine \in Engines /\ past \in Pasts /\ HeldInv /\ RunInv
      /\ RootInv /\ OnInv /\ engine.opened \in BOOLEAN
    BY InvFacts DEF EngineTypes
<1>3. r \in Trees \cup {NoTree} /\ b = IsOn(r) /\ b \in BOOLEAN
    <2>1. CASE engine.opened
        <3>1. disk[layout] \in Trees
            BY <1>2, <2>1 DEF HeldInv, FileTypes, Disks
        <3>2. QED
            BY <2>1, <3>1 DEF EngineFile, IsOn
    <2>2. CASE ~engine.opened
        BY <2>2, Trees2 DEF IsOn
    <2>3. QED
        BY <2>1, <2>2
<1>4. ~past.missed => disk[layout] \in {r, Torn}
    BY <1>1, <1>2 DEF RootInv, EngineFile
<1> HIDE DEF r, b
<1>5. /\ engine' \in Engines /\ engine'.pc = "plugins" /\ ~engine'.opened /\ engine'.root = r
      /\ engine'.on = b
    <2>1. engine' \in Engines
        BY <1>1, <1>2, <1>3, EngineChanges DEF Pcs
    <2>2. QED
        BY <1>1, <2>1
<1>6. EngineTypes'
    BY <1>1, <1>2, <1>5 DEF EngineTypes
<1>7. past' \in Pasts /\ past'.apart = past.apart /\ past'.missed = past.missed
    <2>1. past' \in Pasts
        BY <1>1, <1>2, PastChanges
    <2>2. QED
        BY <1>1, <1>2, <2>1 DEF Pasts
<1>8. RunInv' /\ RootInv'
    BY <1>1, <1>2, <1>4, <1>5, <1>7 DEF RunInv, RootInv
<1>9. OnInv'
    <2>1. queue' = <<>>
        BY <1>1, <1>2 DEF RunInv
    <2>2. LastCommand(queue', Command(cards'[Enabled].value))
        BY <2>1 DEF LastCommand
    <2>3. QED
        BY <1>3, <1>5, <2>2 DEF OnInv
<1>10. QED
    BY <1>1, <1>2, <1>5, <1>6, <1>7, <1>8, <1>9, EngineSide

LEMMA Watches ==
    ASSUME SettingsInv, WatcherStarts
    PROVE  SettingsInv'
<1>1. /\ engine.pc = "plugins" /\ engine' = [engine EXCEPT !.pc = "running"]
      /\ watcher' = [pc |-> "waiting", changed |-> FALSE]
      /\ UNCHANGED <<disk, layout, cards, gui, editor, queue, past>>
    BY DEF WatcherStarts
<1>2. /\ EngineTypes /\ engine \in Engines /\ past \in Pasts /\ HeldInv /\ RunInv /\ RootInv
      /\ OnInv
    BY InvFacts DEF EngineTypes
<1>3. /\ engine' \in Engines /\ engine'.pc = "running" /\ engine'.opened = engine.opened
      /\ engine'.root = engine.root /\ engine'.on = engine.on
    <2>1. engine' \in Engines
        BY <1>1, <1>2, EngineChanges DEF Pcs
    <2>2. QED
        BY <1>1, <1>2, <2>1 DEF Engines
<1>4. watcher' \in Watchers /\ watcher'.pc = "waiting"
    BY <1>1, WatcherFacts, <1>2 DEF EngineTypes
<1>5. EngineTypes'
    BY <1>1, <1>2, <1>3, <1>4 DEF EngineTypes
<1>6. RunInv' /\ RootInv'
    BY <1>1, <1>2, <1>3, <1>4 DEF RunInv, RootInv
<1>7. OnInv'
    BY <1>1, <1>2, <1>3 DEF OnInv, CommandsLeft
<1>8. QED
    BY <1>1, <1>2, <1>3, <1>5, <1>6, <1>7, EngineSide DEF HeldInv

\* A message leaves the queue.
LEMMA Taken ==
    ASSUME SettingsInv, NEW msg, CanHandle(msg)
    PROVE  /\ engine.pc = "running" /\ ~engine.opened /\ msg = Head(queue)
           /\ queue' \in Seq(Messages) /\ Len(queue') <= MaxQueue
           /\ All(queue) = {msg} \cup All(queue')
           /\ \A c : LastCommand(queue, c) =>
                 /\ LastCommand(queue', c)
                 /\ All(queue') \subseteq {"reload"} /\ msg # "reload" => msg = c
<1>1. /\ engine.pc = "running" /\ ~engine.opened /\ msg = Head(queue) /\ queue # <<>>
      /\ queue' = Tail(queue)
    BY DEF CanHandle
<1>2. queue \in Seq(Messages) /\ Len(queue) <= MaxQueue
    BY InvFacts DEF EngineTypes
<1>3. /\ Len(queue) \in Nat \ {0} /\ Len(queue') = Len(queue) - 1
      /\ queue' \in Seq(Messages)
    BY <1>1, <1>2
<1>4. Len(queue') <= MaxQueue
    BY <1>2, <1>3
<1>5. All(queue) = {msg} \cup All(queue')
    BY <1>1, <1>2, AllFacts
<1>6. ASSUME NEW c, LastCommand(queue, c)
      PROVE  /\ LastCommand(queue', c)
             /\ All(queue') \subseteq {"reload"} /\ msg # "reload" => msg = c
    BY <1>1, <1>2, <1>6, LastRetrieved
<1>7. QED
    BY <1>1, <1>3, <1>4, <1>5, <1>6

LEMMA ReloadBeginning ==
    ASSUME SettingsInv, ReloadBegins
    PROVE  SettingsInv'
<1> DEFINE o == Readable
<1>1. /\ CanHandle("reload") /\ engine' = [engine EXCEPT !.opened = o]
      /\ UNCHANGED <<disk, layout, cards, gui, editor, watcher, past>>
    BY DEF ReloadBegins
<1>2. /\ EngineTypes /\ engine \in Engines /\ past \in Pasts /\ RunInv /\ OnInv
    BY InvFacts DEF EngineTypes
<1>3. o \in BOOLEAN /\ (o <=> disk[layout] # Torn)
    BY DEF Readable, EngineFile
<1> HIDE DEF o
<1>4. /\ engine' \in Engines /\ engine'.pc = engine.pc /\ engine'.opened = o
      /\ engine'.root = engine.root /\ engine'.on = engine.on
    <2>1. engine' \in Engines
        BY <1>1, <1>2, <1>3, EngineChanges
    <2>2. QED
        BY <1>1, <1>2, <2>1 DEF Engines
<1>5. /\ engine.pc = "running" /\ queue' \in Seq(Messages) /\ Len(queue') <= MaxQueue
      /\ All(queue) = {"reload"} \cup All(queue')
      /\ \A c : LastCommand(queue, c) => LastCommand(queue', c)
    BY <1>1, Taken
<1>6. EngineTypes'
    BY <1>1, <1>2, <1>4, <1>5 DEF EngineTypes
<1>7. RunInv' /\ RootInv'
    <2>1. Heard' => ~o
        BY <1>4 DEF Heard
    <2>2. QED
        BY <1>1, <1>2, <1>3, <1>4, <1>5, <2>1 DEF RunInv, RootInv
<1>8. OnInv'
    <2>1. All(queue') \subseteq {"reload"} => All(queue) \subseteq {"reload"}
        BY <1>5
    <2>2. QED
        BY <1>1, <1>2, <1>4, <1>5, <2>1 DEF OnInv, CommandsLeft
<1>9. QED
    BY <1>1, <1>2, <1>3, <1>4, <1>6, <1>7, <1>8, EngineSide

LEMMA ReloadEnding ==
    ASSUME SettingsInv, ReloadEnds
    PROVE  SettingsInv'
<1> DEFINE r == disk[EngineFile]
           b == IF r = engine.root THEN engine.on ELSE IsOn(r)
           a == past.astray /\ (r = engine.root \/ CommandsPosted)
<1>1. /\ engine.pc = "running" /\ engine.opened
      /\ engine' = [engine EXCEPT !.opened = FALSE, !.root = r, !.on = b]
      /\ past' = [past EXCEPT !.missed = FALSE, !.astray = a]
      /\ UNCHANGED <<disk, layout, cards, gui, editor, watcher, queue>>
    BY DEF ReloadEnds
<1>2. /\ EngineTypes /\ FileTypes /\ engine \in Engines /\ past \in Pasts /\ HeldInv /\ RunInv
      /\ OnInv /\ engine.on \in BOOLEAN
    BY InvFacts DEF EngineTypes
<1>3. r \in Trees /\ r = disk[layout] /\ b \in BOOLEAN
      /\ (b = IsOn(r) \/ (r = engine.root /\ b = engine.on)) /\ (r # engine.root => b = IsOn(r))
    <2>1. disk[layout] \in Trees
        BY <1>1, <1>2 DEF HeldInv, FileTypes, Disks
    <2>2. QED
        BY <1>2, <2>1 DEF EngineFile, IsOn
<1>a. a \in BOOLEAN /\ (~a => ~past.astray \/ (r # engine.root /\ ~CommandsPosted))
    BY <1>2 DEF Pasts
<1> HIDE DEF r, b, a
<1>4. /\ engine' \in Engines /\ engine'.pc = engine.pc /\ ~engine'.opened /\ engine'.root = r
      /\ engine'.on = b
    <2>1. engine' \in Engines
        BY <1>1, <1>2, <1>3, EngineChanges
    <2>2. QED
        BY <1>1, <1>2, <2>1 DEF Engines
<1>5. past' \in Pasts
    BY <1>1, <1>2, <1>a, PastChanges
<1>6. past'.apart = past.apart /\ past'.astray = a
    BY <1>1, <1>2, <1>5 DEF Pasts
<1>7. EngineTypes'
    BY <1>1, <1>2, <1>4 DEF EngineTypes
<1>8. RunInv' /\ RootInv'
    BY <1>1, <1>2, <1>3, <1>4 DEF RunInv, RootInv
<1>9. OnInv'
    <2>1. CASE ~past.astray
        BY <1>1, <1>2, <1>3, <1>4, <2>1 DEF OnInv, CommandsLeft
    <2>2. CASE a
        BY <1>6, <2>2 DEF OnInv
    <2>3. CASE r # engine.root /\ ~CommandsPosted
        <3>1. LastCommand(queue', Command(cards'[Enabled].value))
            BY <1>1, <2>3 DEF LastCommand, CommandsPosted
        <3>2. engine'.on = IsOn(engine'.root)
            BY <1>3, <1>4, <2>3
        <3>3. QED
            BY <3>1, <3>2 DEF OnInv
    <2>4. QED
        BY <1>a, <2>1, <2>2, <2>3
<1>10. QED
    BY <1>1, <1>4, <1>5, <1>6, <1>7, <1>8, <1>9, EngineSide

LEMMA Commanded ==
    ASSUME SettingsInv, HandleCommand
    PROVE  SettingsInv'
<1>1. PICK msg \in {"enable", "disable"} :
          CanHandle(msg) /\ engine' = [engine EXCEPT !.on = (msg = "enable")]
    BY DEF HandleCommand
<1> DEFINE b == msg = "enable"
<1>2. b \in BOOLEAN /\ engine' = [engine EXCEPT !.on = b]
      /\ UNCHANGED <<disk, layout, cards, gui, editor, watcher, past>>
    BY <1>1 DEF HandleCommand
<1>3. /\ EngineTypes /\ WindowTypes /\ engine \in Engines /\ past \in Pasts /\ RunInv /\ RootInv
      /\ OnInv
    BY InvFacts DEF EngineTypes
<1> HIDE DEF b
<1>4. /\ engine' \in Engines /\ engine'.pc = engine.pc /\ engine'.opened = engine.opened
      /\ engine'.root = engine.root /\ engine'.on = b
    <2>1. engine' \in Engines
        BY <1>2, <1>3, EngineChanges
    <2>2. QED
        BY <1>2, <1>3, <2>1 DEF Engines
<1>5. /\ engine.pc = "running" /\ ~engine.opened
      /\ queue' \in Seq(Messages) /\ Len(queue') <= MaxQueue
      /\ All(queue) = {msg} \cup All(queue')
      /\ \A c : LastCommand(queue, c) =>
            LastCommand(queue', c) /\ (All(queue') \subseteq {"reload"} => msg = c)
    BY <1>1, Taken
<1>6. EngineTypes'
    BY <1>2, <1>3, <1>4, <1>5 DEF EngineTypes
<1>7. RunInv' /\ RootInv'
    <2>1. Heard' => Heard
        BY <1>1, <1>2, <1>4, <1>5 DEF Heard
    <2>2. QED
        BY <1>2, <1>3, <1>4, <1>5, <2>1 DEF RunInv, RootInv
<1>8. OnInv'
    <2>1. SUFFICES ASSUME ~past.astray, ~CommandsLeft
                   PROVE  /\ LastCommand(queue', Command(cards[Enabled].value))
                          /\ All(queue') \subseteq {"reload"} => b = (cards[Enabled].value = 1)
        BY <1>2, <1>4 DEF OnInv, CommandsLeft
    <2>2. LastCommand(queue, Command(cards[Enabled].value))
        BY <1>3, <2>1 DEF OnInv
    <2>3. cards[Enabled].value \in {0, 1}
        BY <1>3 DEF WindowTypes
    <2>4. QED
        BY <1>5, <2>2, <2>3 DEF Command, b
<1>9. QED
    BY <1>2, <1>3, <1>4, <1>5, <1>6, <1>7, <1>8, EngineSide

LEMMA Ends ==
    ASSUME SettingsInv, Crash
    PROVE  SettingsInv'
<1>1. /\ past.crashes < MaxCrashes
      /\ engine' = [pc |-> "down", opened |-> FALSE, root |-> NoTree, on |-> FALSE]
      /\ watcher' = [pc |-> "off", changed |-> FALSE] /\ queue' = <<>>
      /\ past' = [past EXCEPT !.crashes = @ + 1]
      /\ UNCHANGED <<disk, layout, cards, gui, editor>>
    BY DEF Crash
<1>2. engine \in Engines /\ watcher \in Watchers /\ past \in Pasts
    BY InvFacts DEF EngineTypes
<1>3. past.crashes + 1 \in 0 .. MaxCrashes
    BY <1>1, <1>2 DEF Pasts
<1>4. past' \in Pasts
    BY <1>1, <1>2, <1>3, PastChanges
<1>5. past'.apart = past.apart
    BY <1>1, <1>2 DEF Pasts
<1>6. EngineTypes'
    <2>1. engine' \in Engines
        BY <1>1, <1>2, EngineChanges DEF Pcs
    <2>2. watcher' \in Watchers
        BY <1>1, <1>2, WatcherFacts
    <2>3. queue' \in Seq(Messages) /\ Len(queue') <= MaxQueue
        BY <1>1
    <2>4. QED
        BY <2>1, <2>2, <2>3 DEF EngineTypes
<1>7. RunInv' /\ RootInv'
    BY <1>1 DEF RunInv, RootInv
<1>8. OnInv'
    <2>1. LastCommand(queue', Command(cards'[Enabled].value))
        BY <1>1 DEF LastCommand
    <2>2. engine'.on = FALSE /\ IsOn(engine'.root) = FALSE
        BY <1>1, Trees2 DEF IsOn
    <2>3. QED
        BY <2>1, <2>2 DEF OnInv
<1>9. QED
    BY <1>1, <1>4, <1>5, <1>6, <1>7, <1>8, EngineSide

----------------------------------------------------------------------------
(* The menu of the tray icon. *)

LEMMA Trays ==
    ASSUME SettingsInv, NEW msg \in Messages, TrayMenu(msg)
    PROVE  SettingsInv'
<1>1. /\ past.edits < MaxEdits
      /\ UNCHANGED <<disk, layout, cards, gui, editor, engine, watcher>>
    BY DEF TrayMenu
<1>2. /\ EngineTypes /\ past \in Pasts /\ HeldInv /\ RunInv /\ RootInv /\ OnInv
      /\ queue \in Seq(Messages) /\ past.astray \in BOOLEAN
    BY InvFacts DEF EngineTypes
<1>3. past.edits + 1 \in Values
    BY <1>1, <1>2, InvFacts DEF Values
<1>4. CASE /\ engine.pc = "running" /\ Len(queue) < MaxQueue /\ queue' = Append(queue, msg)
           /\ past' = [past EXCEPT !.edits = @ + 1, !.astray = @ \/ msg # "reload"]
    <2> DEFINE e == past.edits + 1
               a == past.astray \/ msg # "reload"
    <2>1. past' = [past EXCEPT !.edits = e, !.astray = a] /\ a \in BOOLEAN /\ e \in Values
        BY <1>2, <1>3, <1>4
    <2>2. ~a => ~past.astray /\ msg = "reload"
        OBVIOUS
    <2> HIDE DEF e, a
    <2>3. past' \in Pasts
        BY <1>2, <2>1, PastChanges
    <2>4. past'.apart = past.apart /\ past'.missed = past.missed /\ past'.astray = a
        BY <1>2, <2>1 DEF Pasts
    <2>5. All(queue') = All(queue) \cup {msg}
        BY <1>2, <1>4, AllAppend
    <2>6. queue' \in Seq(Messages) /\ Len(queue') <= MaxQueue
        BY <1>2, <1>4
    <2>7. EngineTypes'
        BY <1>1, <1>2, <2>6 DEF EngineTypes
    <2>8. Heard' => Heard
        BY <1>1, <2>5 DEF Heard
    <2>9. RunInv' /\ RootInv'
        BY <1>1, <1>2, <1>4, <2>4, <2>8 DEF RunInv, RootInv
    <2>10. OnInv'
        <3>1. SUFFICES ASSUME ~past.astray, msg = "reload", ~CommandsLeft
                       PROVE  /\ LastCommand(queue', Command(cards[Enabled].value))
                              /\ All(queue') \subseteq {"reload"} =>
                                    engine.on \in {IsOn(engine.root), cards[Enabled].value = 1}
            BY <1>1, <2>2, <2>4 DEF OnInv, CommandsLeft
        <3>2. LastCommand(queue, Command(cards[Enabled].value))
            BY <1>2, <3>1 DEF OnInv
        <3>3. LastCommand(queue', Command(cards[Enabled].value))
            BY <1>2, <1>4, <3>1, <3>2, LastPosted
        <3>4. QED
            BY <1>2, <2>5, <3>1, <3>3 DEF OnInv
    <2>11. QED
        BY <1>1, <1>2, <2>3, <2>4, <2>7, <2>9, <2>10, EngineSide DEF HeldInv
<1>5. CASE past' = [past EXCEPT !.edits = @ + 1] /\ queue' = queue
    <2>1. past' \in Pasts
        BY <1>2, <1>3, <1>5, PastChanges
    <2>2. /\ past'.apart = past.apart /\ past'.missed = past.missed
          /\ past'.astray = past.astray
        BY <1>2, <1>5 DEF Pasts
    <2>3. EngineTypes'
        BY <1>1, <1>2, <1>5 DEF EngineTypes
    <2>4. RunInv' /\ RootInv' /\ OnInv'
        BY <1>1, <1>5, <2>2, RootKept, OnKept DEF CommandsLeft
    <2>5. QED
        BY <1>1, <1>2, <2>1, <2>2, <2>3, <2>4, EngineSide DEF HeldInv
<1>6. QED
    BY <1>4, <1>5 DEF TrayMenu

----------------------------------------------------------------------------
(* The theorems. *)

LEMMA SettingsInit == Init => SettingsInv
<1> SUFFICES ASSUME Init PROVE SettingsInv
    OBVIOUS
<1>1. PICK v \in {0, 1} : LET tree == [k \in Keys |-> IF k = Enabled THEN v ELSE 0] IN
           /\ disk = [f \in Files |-> tree]
           /\ cards = [k \in Keys |-> [value |-> tree[k], armed |-> FALSE]]
           /\ engine = [pc |-> "running", opened |-> FALSE, root |-> tree, on |-> v = 1]
    BY DEF Init
<1> DEFINE tree == [k \in Keys |-> IF k = Enabled THEN v ELSE 0]
           b == v = 1
<1>2. /\ disk = [f \in Files |-> tree]
      /\ cards = [k \in Keys |-> [value |-> tree[k], armed |-> FALSE]]
      /\ engine = [pc |-> "running", opened |-> FALSE, root |-> tree, on |-> b]
    BY <1>1
<1>3. /\ layout \in Files /\ gui = [todo |-> <<>>, pc |-> "load", tree |-> NoTree]
      /\ editor = NoTree /\ watcher = [pc |-> "waiting", changed |-> FALSE] /\ queue = <<>>
      /\ past = [apart |-> {}, missed |-> FALSE, astray |-> FALSE, edits |-> 0, crashes |-> 0]
    BY DEF Init
<1>4. tree \in Trees /\ tree[Enabled] = v /\ IsOn(tree) = b /\ b \in BOOLEAN
    BY Trees2 DEF Trees, IsOn
<1> HIDE DEF tree, b
<1>5. WindowTypes
    <2>1. cards \in CardMaps /\ cards[Enabled].value = v
        BY <1>2, <1>4, Trees2 DEF CardMaps, Card, Trees
    <2>2. gui \in Guis
        BY <1>3 DEF Guis, GuiPcs
    <2>3. QED
        BY <2>1, <2>2 DEF WindowTypes
<1>6. FileTypes
    BY <1>2, <1>3, <1>4 DEF FileTypes, Disks
<1>7. EngineTypes
    <2>1. engine \in Engines
        BY <1>2, <1>4 DEF Engines, Pcs
    <2>2. watcher \in Watchers
        BY <1>3 DEF Watchers
    <2>3. queue \in Seq(Messages) /\ Len(queue) <= MaxQueue
        BY <1>3
    <2>4. QED
        BY <2>1, <2>2, <2>3 DEF EngineTypes
<1>8. past \in Pasts
    BY <1>3, Trees2 DEF Pasts
<1>9. Typed
    BY <1>5, <1>6, <1>7, <1>8 DEF Typed
<1>10. PcInv /\ JobsInv /\ MoveInv
    BY <1>3, AllEmpty DEF PcInv, JobsInv, MoveInv
<1>11. FileInv
    <2>1. DefaultTree = tree
        BY <1>2, <1>3, Trees2 DEF DefaultTree, HeldByEditor
    <2>2. \A k \in Keys : cards[k].value = tree[k]
        BY <1>2
    <2>3. QED
        BY <2>1, <2>2 DEF FileInv
<1>12. HeldInv
    <2>1. \A f \in Files : disk[f] # Torn
        BY <1>2, <1>4, Trees2
    <2>2. QED
        BY <1>2, <1>3, <2>1, Trees2 DEF HeldInv, HeldByEditor
<1>13. RunInv /\ RootInv
    BY <1>2, <1>3 DEF RunInv, RootInv
<1>14. OnInv
    <2>1. LastCommand(queue, Command(cards[Enabled].value))
        BY <1>3 DEF LastCommand
    <2>2. engine.on = IsOn(engine.root)
        BY <1>2, <1>4
    <2>3. QED
        BY <2>1, <2>2 DEF OnInv
<1>15. QED
    BY <1>9, <1>10, <1>11, <1>12, <1>13, <1>14 DEF SettingsInv, SaveInv

LEMMA SettingsNext == SettingsInv /\ [Next]_vars => SettingsInv'
<1> SUFFICES ASSUME SettingsInv, [Next]_vars PROVE SettingsInv'
    OBVIOUS
<1>1. CASE User
    BY <1>1, Slides, SavesOne, EditorEnds, Presets, Toggles, Applies, EditorOpens, Trays
       DEF User, Messages
<1>2. CASE WindowStep
    BY <1>2, Loads, Moves, CopyStarting, CopyEnding, SendsReload, SendsCommand DEF WindowStep
<1>3. CASE WatcherStep
    BY <1>3, Hears, Debounced DEF WatcherStep
<1>4. CASE EngineStep
    BY <1>4, Boots, Configured, Watches, ReloadBeginning, ReloadEnding, Commanded DEF EngineStep
<1>5. CASE Crash
    BY <1>5, Ends
<1>6. CASE \E k \in Sliders : Tick(k)
    BY <1>6, SavesOne
<1>7. CASE UNCHANGED vars
    <2>1. UNCHANGED <<disk, layout, cards, gui, editor, engine, watcher, queue, past>>
        BY <1>7 DEF vars
    <2>2. /\ EngineTypes /\ past \in Pasts /\ HeldInv
        BY InvFacts
    <2>3. EngineTypes'
        BY <2>1, <2>2 DEF EngineTypes
    <2>4. RunInv' /\ RootInv' /\ OnInv'
        BY <2>1, RootKept, OnKept DEF CommandsLeft
    <2>5. QED
        BY <2>1, <2>2, <2>3, <2>4, EngineSide DEF HeldInv
<1>8. QED
    BY <1>1, <1>2, <1>3, <1>4, <1>5, <1>6, <1>7 DEF Next

\* The saves of the window, the watcher and the engine keep the invariant, whatever the user,
\* an editor and the ends of Explorer do in between.
THEOREM SettingsConsistent == Spec => []SettingsInv
BY SettingsInit, SettingsNext, PTL DEF Spec

\* Every variable keeps its type, and Explorer's queue its bound.
THEOREM TypeCorrect == Spec => []TypeOK
<1>1. SettingsInv => TypeOK
    BY TypedIsTypeOK DEF SettingsInv
<1>2. QED
    BY <1>1, SettingsConsistent, PTL

\* No value is lost between a card and the file: with no timer running and no save under way
\* the file beside the program holds what the cards show, for every number of sliders and
\* every order of ticks, presets, failed saves and changes by hand (SaveAndReload,
\* SaveMultipleAndReload).
THEOREM CardsReach == Spec => []CardsReachFile
<1>1. SettingsInv => CardsReachFile
    <2> SUFFICES ASSUME SettingsInv, WindowIdle, disk["default"] # Torn,
                        NEW k \in Keys, ~cards[k].armed, k \notin past.apart
                 PROVE  disk["default"][k] = cards[k].value
        BY DEF CardsReachFile
    <2>1. FileInv /\ HeldInv /\ PcInv
        BY InvFacts
    <2>2. Waiting = {}
        BY <2>1, AllEmpty DEF Waiting, WindowIdle, PcInv
    <2>3. DefaultTree = disk["default"]
        BY <2>1 DEF DefaultTree, HeldInv
    <2>4. QED
        BY <2>1, <2>2, <2>3 DEF FileInv, Unsaved
<1>2. QED
    BY <1>1, SettingsConsistent, PTL

\* Once reloads and commands have all arrived the plugin runs exactly when the engine's file
\* says so, in whichever order the pipe, the watcher and the tray posted them (CoreManager's
\* reload and enable messages), unless the last command was lost or the tray's and no reload
\* has looked into the section since.
THEOREM OnFollows == Spec => []OnAsSaved
<1>1. SettingsInv => OnAsSaved
    <2> SUFFICES ASSUME SettingsInv, AtRest, ~past.astray, ~past.missed, engine.root # NoTree,
                        disk[EngineFile] # Torn,
                        disk[EngineFile][Enabled] = cards[Enabled].value
                 PROVE  engine.on = (disk[EngineFile][Enabled] = 1)
        BY DEF OnAsSaved
    <2>1. RootInv /\ OnInv /\ FileTypes /\ engine.on \in BOOLEAN
        BY InvFacts
    <2>2. All(queue) = {} /\ ~CommandsLeft
        BY AllEmpty DEF AtRest, WindowIdle, CommandsLeft
    <2>3. engine.root = disk[layout]
        BY <2>1, <2>2 DEF RootInv, Heard, AtRest, EngineFile
    <2>4. disk[layout] \in Trees
        BY <2>1 DEF FileTypes, Disks, EngineFile
    <2>5. engine.on \in {IsOn(engine.root), cards[Enabled].value = 1}
        BY <2>1, <2>2 DEF OnInv
    <2>6. QED
        BY <2>3, <2>4, <2>5 DEF IsOn, EngineFile
<1>2. QED
    BY <1>1, SettingsConsistent, PTL

=============================================================================
