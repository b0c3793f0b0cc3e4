---------------------------- MODULE SettingsFlow ----------------------------
(***************************************************************************)
(* How a setting gets from the settings window into the engine.            *)
(*                                                                         *)
(* The window (settings_page.cpp) keeps a card per setting. A card that    *)
(* moved starts a 100 ms timer; its tick, or the loss of the focus, saves. *)
(* A save reads the whole file, changes one value, writes a temporary file *)
(* and renames it over the old one (config_io.cpp), copies the result into *)
(* the user's directory when there is one, and tells the engine over the   *)
(* pipe. In Explorer a watcher thread (config_watcher.c) notices that the  *)
(* directory changed and posts a reload too; the UI thread handles reloads *)
(* and commands in the order of its queue (core_manager.c). The menu of    *)
(* the tray icon (tray_menu.c) sends the same messages from the host, and  *)
(* tells neither the window nor the file.                                  *)
(*                                                                         *)
(* The whole window runs on one thread, so g_settings_mutex is never       *)
(* contended and has no place here; the files are what is shared.          *)
(***************************************************************************)
EXTENDS Naturals, Sequences

CONSTANTS Sliders,      \* settings with a slider card
          MaxEdits,     \* bound on changes by the user, in the window, by hand or the tray
          MaxQueue,     \* bound on the messages posted to Explorer
          MaxCrashes,   \* bound on the ends of Explorer
          Torn,         \* a file somebody is writing in place
          NoTree        \* no tree, no editor

Enabled == "enabled"    \* the on/off setting of the plugin

ASSUME BoundsAssumption ==
    /\ MaxEdits \in Nat \ {0} /\ MaxCrashes \in Nat
    /\ MaxQueue \in Nat \ {0}
    /\ Enabled \notin Sliders
    /\ {Torn, NoTree} \cap [Sliders \cup {Enabled} -> 0..MaxEdits] = {}
    /\ NoTree \notin [file: {"default", "user"}, tree: [Sliders \cup {Enabled} -> 0..MaxEdits]]

Keys    == Sliders \cup {Enabled}
Values  == 0..MaxEdits
Trees   == [Keys -> Values]      \* one plugin section; on/off is 0 or 1
Files   == {"default", "user"}   \* beside the program, in %LOCALAPPDATA%

VARIABLES disk,      \* contents of the files
          layout,    \* which file the engine chose when it started
          cards,     \* the cards of the window, value and timer
          gui,       \* the saves the window has begun, and how far the first is
          editor,    \* a text editor the user has open on a file
          engine,    \* Explorer's UI thread
          watcher,   \* the watcher thread; changed: its handle has a change
          queue,     \* messages posted to Explorer's UI thread
          past       \* what the properties need of the past

vars == <<disk, layout, cards, gui, editor, engine, watcher, queue, past>>

\* What the engine reads; the window always writes "default".
EngineFile == layout

TypeOK ==
    /\ disk \in [Files -> Trees \cup {Torn}]
    /\ layout \in Files
    /\ cards \in [Keys -> [value: Values, armed: BOOLEAN]]
    /\ gui.pc \in {"load", "move", "copy", "copying", "reload", "command"}
    /\ gui.tree \in Trees \cup {NoTree}
    /\ editor \in [file: Files, tree: Trees] \cup {NoTree}
    /\ engine \in [pc: {"down", "load", "plugins", "running"}, opened: BOOLEAN,
                   root: Trees \cup {NoTree}, on: BOOLEAN]
    /\ watcher \in [pc: {"off", "waiting", "debounce"}, changed: BOOLEAN]
    /\ queue \in Seq({"reload", "enable", "disable"}) /\ Len(queue) <= MaxQueue
    \* astray: the engine's last command is not the last one the window meant it to have.
    /\ past \in [apart: SUBSET Keys, missed: BOOLEAN, astray: BOOLEAN,
                 edits: Values, crashes: 0..MaxCrashes]

(***************************************************************************)
(* What the change of a file does: a directory handle of the watcher keeps *)
(* the change until it is asked for, and before there is a handle nobody   *)
(* hears of it.                                                            *)
(***************************************************************************)
Written(f, tree) == disk' = [disk EXCEPT ![f] = tree]

Noticed(f) == watcher' = [watcher EXCEPT !.changed =
                             @ \/ (f = EngineFile /\ watcher.pc # "off")]

\* The engine has read the file, or is about to, and does not watch it yet.
Unwatched(f) == f = EngineFile /\ engine.pc \in {"load", "plugins"}

\* The engine opens files for reading and lets nobody else write or delete them.
HeldByEngine(f) == engine.opened /\ f = EngineFile
HeldByEditor(f) == editor # NoTree /\ editor.file = f

Fresh == past.edits + 1   \* a value no setting has had

(***************************************************************************)
(* The window. gui.todo is the sequence of saves its thread has to make;   *)
(* each holds the new values and the command that follows it.              *)
(***************************************************************************)
WindowIdle == gui.todo = <<>>

Command(v) == IF v = 0 THEN "disable" ELSE "enable"

Save(updates, command) == [updates |-> updates, command |-> command]
One(k, v)              == [x \in {k} |-> v]
CardValues             == [k \in Keys |-> cards[k].value]

Slide(k) ==
    /\ WindowIdle /\ past.edits < MaxEdits
    /\ cards' = [cards EXCEPT ![k] = [value |-> Fresh, armed |-> TRUE]]
    /\ past' = [past EXCEPT !.edits = @ + 1]
    /\ UNCHANGED <<disk, layout, gui, editor, engine, watcher, queue>>

\* The timer's tick: it stops itself and saves what the slider shows now.
Tick(k) ==
    /\ WindowIdle /\ cards[k].armed
    /\ cards' = [cards EXCEPT ![k].armed = FALSE]
    /\ gui' = [gui EXCEPT !.todo = <<Save(One(k, cards[k].value), "none")>>]
    /\ UNCHANGED <<disk, layout, editor, engine, watcher, queue, past>>

\* The slider saves when it loses the focus, whether it moved or not.
LostFocus(k) ==
    /\ WindowIdle /\ past.edits < MaxEdits
    /\ cards' = [cards EXCEPT ![k].armed = FALSE]
    /\ gui' = [gui EXCEPT !.todo = <<Save(One(k, cards[k].value), "none")>>]
    /\ past' = [past EXCEPT !.edits = @ + 1]
    /\ UNCHANGED <<disk, layout, editor, engine, watcher, queue>>

\* Toggled: save the one value, then send the command, saved or not.
Flip(v) == Save(One(Enabled, v), Command(v))

Toggle ==
    /\ WindowIdle /\ past.edits < MaxEdits
    /\ LET v == 1 - cards[Enabled].value
       IN  /\ cards' = [cards EXCEPT ![Enabled].value = v]
           /\ gui' = [gui EXCEPT !.todo = <<Flip(v)>>]
    /\ past' = [past EXCEPT !.edits = @ + 1]
    /\ UNCHANGED <<disk, layout, editor, engine, watcher, queue>>

\* The preset buttons: every card gets its value and its timer is stopped, the
\* toggle fires if it moves, then all values are saved together.
Preset(v) ==
    /\ WindowIdle /\ past.edits < MaxEdits
    /\ LET all == [k \in Keys |-> IF k = Enabled THEN v ELSE Fresh]
       IN  /\ cards' = [k \in Keys |-> [value |-> all[k], armed |-> FALSE]]
           /\ gui' = [gui EXCEPT !.todo =
                  (IF v # cards[Enabled].value THEN <<Flip(v)>> ELSE <<>>)
                  \o <<Save(all, Command(v))>>]
    /\ past' = [past EXCEPT !.edits = @ + 1]
    /\ UNCHANGED <<disk, layout, editor, engine, watcher, queue>>

\* The apply button saves what the sliders show and leaves their timers alone.
Apply ==
    /\ WindowIdle /\ past.edits < MaxEdits
    /\ cards' = [cards EXCEPT ![Enabled].value = 1]
    /\ gui' = [gui EXCEPT !.todo =
           (IF cards[Enabled].value = 0 THEN <<Flip(1)>> ELSE <<>>)
           \o <<Save([CardValues EXCEPT ![Enabled] = 1], "enable")>>]
    /\ past' = [past EXCEPT !.edits = @ + 1]
    /\ UNCHANGED <<disk, layout, editor, engine, watcher, queue>>

(***************************************************************************)
(* A save, step by step. It can fail on the way; the window says nothing   *)
(* of it, and a command that belongs to it is sent all the same.           *)
(***************************************************************************)
Job == Head(gui.todo)

Saving(pc) == ~WindowIdle /\ gui.pc = pc
NextJob    == [todo |-> Tail(gui.todo), pc |-> "load", tree |-> NoTree]
AfterSave  == IF Job.command = "none" THEN NextJob ELSE [gui EXCEPT !.pc = "command", !.tree = NoTree]

SaveFails ==
    /\ gui' = AfterSave
    /\ past' = [past EXCEPT !.apart = @ \cup DOMAIN Job.updates]
    /\ UNCHANGED <<disk, watcher>>

\* Mutant: a file that cannot be read counts as empty.
LoadFileAfresh ==
    /\ Saving("load")
    /\ LET read == IF disk["default"] = Torn THEN [k \in Keys |-> 0] ELSE disk["default"]
       IN  gui' = [gui EXCEPT !.pc = "move",
                      !.tree = [k \in Keys |-> IF k \in DOMAIN Job.updates
                                               THEN Job.updates[k] ELSE read[k]]]
    /\ Noticed("default")
    /\ UNCHANGED <<disk, past, layout, cards, editor, engine, queue>>

\* ConfigIO_Load shares the file with everybody, so it may meet one half
\* written; then it does not overwrite it. The temporary file it writes beside
\* the file is a change of the directory.
LoadFile ==
    /\ Saving("load")
    /\ \/ /\ disk["default"] = Torn
          /\ SaveFails
       \/ /\ disk["default"] # Torn
          /\ gui' = [gui EXCEPT !.pc = "move",
                        !.tree = [k \in Keys |-> IF k \in DOMAIN Job.updates
                                                 THEN Job.updates[k]
                                                 ELSE disk["default"][k]]]
          /\ Noticed("default")
          /\ UNCHANGED <<disk, past>>
    /\ UNCHANGED <<layout, cards, editor, engine, queue>>

\* The rename replaces the file, unless somebody has it open.
MoveFile ==
    /\ Saving("move")
    /\ IF HeldByEngine("default") \/ HeldByEditor("default")
       THEN SaveFails
       ELSE /\ Written("default", gui.tree)
            /\ gui' = [gui EXCEPT !.tree = NoTree,
                          !.pc = IF layout = "user" THEN "copy" ELSE "reload"]
            /\ Noticed("default")
            /\ past' = [past EXCEPT
                  !.apart = @ \ DOMAIN Job.updates,
                  !.missed = @ \/ Unwatched("default")]
    /\ UNCHANGED <<layout, cards, editor, engine, queue>>

\* CopyFile into the user's directory; that it failed is not looked at.
CopyStarts ==
    /\ Saving("copy")
    /\ IF HeldByEngine("user") \/ HeldByEditor("user") \/ disk["default"] = Torn
       THEN /\ gui' = [gui EXCEPT !.pc = "reload"]
            /\ UNCHANGED <<disk, watcher, past>>
       ELSE /\ gui' = [gui EXCEPT !.pc = "copying", !.tree = disk["default"]]
            /\ Written("user", Torn) /\ Noticed("user")
            /\ past' = [past EXCEPT !.missed = @ \/ Unwatched("user")]
    /\ UNCHANGED <<layout, cards, editor, engine, queue>>

\* Mutant: the watcher asks for new names and not for written contents.
CopyEndsUnseen ==
    /\ Saving("copying")
    /\ Written("user", gui.tree)
    /\ gui' = [gui EXCEPT !.pc = "reload", !.tree = NoTree]
    /\ UNCHANGED <<layout, cards, editor, engine, queue, watcher, past>>

CopyEnds ==
    /\ Saving("copying")
    /\ Written("user", gui.tree) /\ Noticed("user")
    /\ past' = [past EXCEPT !.missed = @ \/ Unwatched("user")]
    /\ gui' = [gui EXCEPT !.pc = "reload", !.tree = NoTree]
    /\ UNCHANGED <<layout, cards, editor, engine, queue>>

\* The pipe client gives up after 500 ms: without a server, or with a server
\* that another client keeps busy, the message is never posted.
Posted(msg) ==
    \/ /\ engine.pc = "running" /\ Len(queue) < MaxQueue
       /\ queue' = Append(queue, msg)
       /\ past' = IF msg = "reload" THEN past ELSE [past EXCEPT !.astray = FALSE]
    \/ /\ past' = IF msg = "reload" THEN past ELSE [past EXCEPT !.astray = TRUE]
       /\ UNCHANGED queue

SendReload ==
    /\ Saving("reload") /\ Posted("reload")
    /\ gui' = AfterSave
    /\ UNCHANGED <<disk, layout, cards, editor, engine, watcher>>

SendCommand ==
    /\ Saving("command") /\ Posted(Job.command)
    /\ gui' = NextJob
    /\ UNCHANGED <<disk, layout, cards, editor, engine, watcher>>

(***************************************************************************)
(* The user's text editor, on either file. It reads the file when it       *)
(* begins to write it, and writes in place. It changes a slider's setting. *)
(***************************************************************************)
EditorWrites(f) ==
    /\ editor = NoTree /\ past.edits < MaxEdits
    /\ disk[f] # Torn /\ ~HeldByEngine(f)
    /\ editor' = [file |-> f, tree |-> disk[f]]
    /\ Written(f, Torn)
    /\ Noticed(f)
    /\ past' = [past EXCEPT !.edits = @ + 1, !.missed = @ \/ Unwatched(f)]
    /\ UNCHANGED <<layout, cards, gui, engine, queue>>

EditorSaves(k) ==
    /\ editor # NoTree
    /\ Written(editor.file, [editor.tree EXCEPT ![k] = past.edits])
    /\ Noticed(editor.file)
    /\ past' = [past EXCEPT
          !.apart  = IF editor.file = "default" THEN @ \cup {k} ELSE @,
          !.missed = @ \/ Unwatched(editor.file)]
    /\ editor' = NoTree
    /\ UNCHANGED <<layout, cards, gui, engine, queue>>

(***************************************************************************)
(* The watcher thread. A change is answered after 150 ms with a reload;    *)
(* changes in the meantime wait in the handle.                             *)
(***************************************************************************)
ChangeHeard ==
    /\ watcher.pc = "waiting" /\ watcher.changed
    /\ watcher' = [pc |-> "debounce", changed |-> FALSE]
    /\ UNCHANGED <<disk, layout, cards, gui, editor, engine, queue, past>>

DebounceEnds ==
    /\ watcher.pc = "debounce" /\ Len(queue) < MaxQueue
    /\ queue' = Append(queue, "reload")
    /\ watcher' = [watcher EXCEPT !.pc = "waiting"]
    /\ UNCHANGED <<disk, layout, cards, gui, editor, engine, past>>

(***************************************************************************)
(* The engine. It opens the file in one step and has read it in the next;  *)
(* in between nobody can replace it, and it cannot open a file somebody    *)
(* writes. The default of a missing on/off setting is off, as for          *)
(* taskbar_resize at start.                                                *)
(***************************************************************************)
IsOn(root) == root \in Trees /\ root[Enabled] = 1

\* Mutant: the file is opened whoever writes it.
ReadableAlways == TRUE

Readable == disk[EngineFile] # Torn

Boot ==
    /\ engine.pc = "down"
    /\ engine' = [engine EXCEPT !.pc = "load", !.opened = Readable]
    /\ past' = [past EXCEPT !.missed = FALSE]
    /\ UNCHANGED <<disk, layout, cards, gui, editor, watcher, queue>>

ConfigLoaded ==
    /\ engine.pc = "load"
    /\ engine' = [pc |-> "plugins", opened |-> FALSE,
                  root |-> IF engine.opened THEN disk[EngineFile] ELSE NoTree,
                  on |-> engine.opened /\ IsOn(disk[EngineFile])]
    /\ past' = [past EXCEPT !.astray = FALSE]
    /\ UNCHANGED <<disk, layout, cards, gui, editor, watcher, queue>>

\* The plugins are initialised; only then does the watcher start.
WatcherStarts ==
    /\ engine.pc = "plugins"
    /\ engine' = [engine EXCEPT !.pc = "running"]
    /\ watcher' = [pc |-> "waiting", changed |-> FALSE]
    /\ UNCHANGED <<disk, layout, cards, gui, editor, queue, past>>

CanHandle(msg) ==
    /\ engine.pc = "running" /\ ~engine.opened
    /\ queue # <<>> /\ Head(queue) = msg
    /\ queue' = Tail(queue)

ReloadBegins ==
    /\ CanHandle("reload")
    /\ engine' = [engine EXCEPT !.opened = Readable]
    /\ UNCHANGED <<disk, layout, cards, gui, editor, watcher, past>>

CommandsPosted == \E i \in 1 .. Len(queue) : queue[i] # "reload"

\* Mutant: the new tree is taken and the on/off setting in it left to commands.
ReloadEndsTreeOnly ==
    /\ engine.pc = "running" /\ engine.opened
    /\ engine' = [engine EXCEPT !.opened = FALSE, !.root = disk[EngineFile]]
    /\ past' = [past EXCEPT !.missed = FALSE,
                   !.astray = @ /\ (disk[EngineFile] = engine.root \/ CommandsPosted)]
    /\ UNCHANGED <<disk, layout, cards, gui, editor, watcher, queue>>

\* TE_ConfigDiffPlugins: an unchanged section is not looked at.
ReloadEnds ==
    /\ engine.pc = "running" /\ engine.opened
    /\ engine' = [engine EXCEPT !.opened = FALSE, !.root = disk[EngineFile],
                     !.on = IF disk[EngineFile] = engine.root THEN @
                            ELSE IsOn(disk[EngineFile])]
    /\ past' = [past EXCEPT !.missed = FALSE,
                   !.astray = @ /\ (disk[EngineFile] = engine.root \/ CommandsPosted)]
    /\ UNCHANGED <<disk, layout, cards, gui, editor, watcher, queue>>

HandleCommand ==
    /\ \/ CanHandle("enable")  /\ engine' = [engine EXCEPT !.on = TRUE]
       \/ CanHandle("disable") /\ engine' = [engine EXCEPT !.on = FALSE]
    /\ UNCHANGED <<disk, layout, cards, gui, editor, watcher, past>>

\* Explorer ends, and the engine and its watcher with it.
Crash ==
    /\ engine.pc # "down" /\ past.crashes < MaxCrashes
    /\ engine' = [pc |-> "down", opened |-> FALSE, root |-> NoTree, on |-> FALSE]
    /\ watcher' = [pc |-> "off", changed |-> FALSE]
    /\ queue' = <<>>
    /\ past' = [past EXCEPT !.crashes = @ + 1]
    /\ UNCHANGED <<disk, layout, cards, gui, editor>>

(***************************************************************************)
(* The menu of the tray icon: Enable, Disable and, in the C++ host, Reload *)
(* go over the same pipe and are dropped like any other message of it.     *)
(***************************************************************************)
TrayMenu(msg) ==
    /\ past.edits < MaxEdits
    /\ \/ /\ engine.pc = "running" /\ Len(queue) < MaxQueue
          /\ queue' = Append(queue, msg)
          /\ past' = [past EXCEPT !.edits = @ + 1, !.astray = @ \/ msg # "reload"]
       \/ /\ past' = [past EXCEPT !.edits = @ + 1]
          /\ UNCHANGED queue
    /\ UNCHANGED <<disk, layout, cards, gui, editor, engine, watcher>>

-----------------------------------------------------------------------------
\* The window has just opened on a running engine that has read the file.
Init ==
    /\ \E v \in {0, 1} : LET tree == [k \in Keys |-> IF k = Enabled THEN v ELSE 0] IN
           /\ disk = [f \in Files |-> tree]
           /\ cards = [k \in Keys |-> [value |-> tree[k], armed |-> FALSE]]
           /\ engine = [pc |-> "running", opened |-> FALSE, root |-> tree,
                        on |-> v = 1]
    /\ layout \in Files
    /\ gui = [todo |-> <<>>, pc |-> "load", tree |-> NoTree]
    /\ editor = NoTree
    /\ watcher = [pc |-> "waiting", changed |-> FALSE]
    /\ queue = <<>>
    /\ past = [apart |-> {}, missed |-> FALSE, astray |-> FALSE,
               edits |-> 0, crashes |-> 0]

User ==
    \/ \E k \in Sliders : Slide(k) \/ LostFocus(k) \/ EditorSaves(k)
    \/ \E v \in {0, 1} : Preset(v)
    \/ Toggle \/ Apply
    \/ \E f \in Files : EditorWrites(f)
    \/ \E msg \in {"reload", "enable", "disable"} : TrayMenu(msg)

WindowStep  == LoadFile \/ MoveFile \/ CopyStarts \/ CopyEnds \/ SendReload \/ SendCommand
WatcherStep == ChangeHeard \/ DebounceEnds
EngineStep  == Boot \/ ConfigLoaded \/ WatcherStarts
               \/ ReloadBegins \/ ReloadEnds \/ HandleCommand

Next ==
    \/ User \/ WindowStep \/ WatcherStep \/ EngineStep \/ Crash
    \/ \E k \in Sliders : Tick(k)

Spec == Init /\ [][Next]_vars

\* The threads run and timers fire; the user and a crash owe nothing.
FairSpec ==
    /\ Spec
    /\ WF_vars(WindowStep) /\ WF_vars(WatcherStep) /\ WF_vars(EngineStep)
    /\ \A k \in Sliders : WF_vars(Tick(k))

-----------------------------------------------------------------------------
\* No value is lost between a card and the file. When no timer runs and no save
\* is under way, the file beside the program holds what the cards show, except
\* for settings whose last save failed and settings changed by hand since. A
\* slider restarts its timer, a preset stops the timers it makes obsolete, and
\* a save never starts from an empty file because it could not read this one.
CardsReachFile ==
    WindowIdle /\ disk["default"] # Torn =>
        \A k \in Keys : ~cards[k].armed /\ k \notin past.apart =>
            disk["default"][k] = cards[k].value

\* Nothing is under way between the window and the engine.
AtRest ==
    /\ WindowIdle /\ editor = NoTree /\ queue = <<>>
    /\ engine.pc = "running" /\ ~engine.opened
    /\ watcher = [pc |-> "waiting", changed |-> FALSE]

\* The plugin runs exactly when the file the engine reads says so. The on/off
\* setting travels twice, in the file and as a command, and reloads come from
\* the pipe and from the watcher; when all of it has arrived, the two agree,
\* unless the last command was lost or came from the menu of the tray icon,
\* which saves nothing (tray_menu.c:70-75), and no reload has looked into the
\* section since; the engine's copy of the file is not what the toggle shows;
\* or a change fell into the start of the engine.
OnAsSaved ==
    /\ AtRest /\ ~past.astray /\ ~past.missed
    /\ engine.root # NoTree /\ disk[EngineFile] # Torn
    /\ disk[EngineFile][Enabled] = cards[Enabled].value
    => engine.on = (disk[EngineFile][Enabled] = 1)

\* Once the last change is made, the engine ends with what its file holds,
\* although reloads meet half-written files, messages of the pipe are lost and
\* the watcher is asleep when changes come; unless somebody never finishes
\* writing it, or the change fell into the start of the engine.
EngineCatchesUp ==
    <>[](\/ engine.root = disk[EngineFile]
         \/ disk[EngineFile] = Torn
         \/ past.missed)

=============================================================================
