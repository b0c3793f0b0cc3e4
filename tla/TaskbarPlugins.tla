-------------------------- MODULE TaskbarPlugins --------------------------
(***************************************************************************)
(* The two plugins that change how the taskbars look: taskbar_resize.c     *)
(* (height, children, work area) and taskbar_transparency.c with           *)
(* tray_discovery.c (accent policy), under everything that reaches them:   *)
(* start and stop of the engine, reloads (core_manager.c, config.c),       *)
(* ENABLE and DISABLE commands, changes of the displays and a crash of     *)
(* Explorer.  Everything runs on the thread that owns the taskbars, so a   *)
(* handler is one step; a reload is one step for each changed section.     *)
(***************************************************************************)
EXTENDS Naturals, Sequences, FiniteSets

CONSTANTS Primary,      \* Shell_TrayWnd
          Secondaries,  \* the windows of Shell_SecondaryTrayWnd
          MaxEdits,     \* bound: edits of the file and commands
          MaxEvents     \* bound: changes of the displays, stops and crashes

ASSUME TaskbarPluginsAssumption ==
  /\ Primary \notin Secondaries
  /\ MaxEdits \in Nat
  /\ MaxEvents \in Nat

VARIABLES desk,       \* external: displays, windows, work area, accents
          resize,     \* the statics of taskbar_resize.c
          trans,      \* s_plugin_state of taskbar_transparency.c
          published,  \* taskbar_resize.height in the state store
          config,     \* the file, config_root, the sections a reload still has to do
          past,       \* history
          count       \* what the bounds count

vars == <<desk, resize, trans, published, config, past, count>>

Windows == {Primary} \cup Secondaries
Plugins == {"resize", "trans", "hover"}
Heights == {"native", "compact"}
Modes == {"clear", "blur"}
Areas == (1 .. 2) \X (1 .. 2) \X Heights   \* resolution, DPI, height of the bar left out
NoArea == <<>>

Missing == [missing |-> TRUE]
Sections == [resize |-> [enabled: BOOLEAN, height: Heights],
             trans |-> [enabled: BOOLEAN, secondary: BOOLEAN, mode: Modes],
             hover |-> [enabled: BOOLEAN]]
Files == {f \in [Plugins -> {Missing} \cup UNION {Sections[p] : p \in Plugins}] :
            \A p \in Plugins : f[p] \in {Missing} \cup Sections[p]}

TypeOK ==
  /\ desk \in [up: BOOLEAN, res: 1 .. 2, dpi: 1 .. 2, attached: SUBSET Secondaries,
               alive: SUBSET Secondaries, bar: [Windows -> Heights],
               content: [Windows -> Heights], area: Areas,
               accent: [Windows -> {"native"} \cup Modes]]
  /\ resize \in [subclassed: BOOLEAN, height: Heights, saved: {NoArea} \cup Areas]
  /\ trans \in [on: BOOLEAN, set: Sections["trans"], tracked: SUBSET Windows,
                policy: {"native"} \cup Modes, timer: BOOLEAN, active: BOOLEAN]
  /\ published \in {"none"} \cup Heights
  /\ config.file \in Files /\ config.root \in Files /\ config.todo \subseteq Plugins
  /\ past \in [narrowed: BOOLEAN, late: SUBSET Secondaries, misread: BOOLEAN,
               moved: BOOLEAN, stale: BOOLEAN, unheard: SUBSET Plugins]
  /\ count \in [edits: 0 .. MaxEdits, events: 0 .. MaxEvents]

FreshResize == [subclassed |-> FALSE, height |-> "native", saved |-> NoArea]
Defaults == [enabled |-> TRUE, secondary |-> TRUE, mode |-> "clear"]
FreshTrans == [on |-> FALSE, set |-> Defaults, tracked |-> {}, policy |-> "native",
               timer |-> FALSE, active |-> FALSE]
NativeBars == [w \in Windows |-> "native"]
Shipped == [p \in Plugins |->
              CASE p = "resize" -> [enabled |-> FALSE, height |-> "compact"]
                [] p = "trans" -> Defaults
                [] p = "hover" -> [enabled |-> TRUE]]

Init ==
  /\ desk = [up |-> FALSE, res |-> 1, dpi |-> 1, attached |-> Secondaries,
             alive |-> Secondaries, bar |-> NativeBars, content |-> NativeBars,
             area |-> <<1, 1, "native">>, accent |-> NativeBars]
  /\ resize = FreshResize
  /\ trans = FreshTrans
  /\ published = "none"
  /\ config = [file |-> Shipped, root |-> Shipped, todo |-> {}]
  /\ past = [narrowed |-> FALSE, late |-> {}, misread |-> FALSE, moved |-> FALSE,
             stale |-> FALSE, unheard |-> {}]
  /\ count = [edits |-> 0, events |-> 0]

----------------------------------------------------------------------------
(* What the handlers work on, and how a step ends. *)

Now == [desk |-> desk, resize |-> resize, trans |-> trans, published |-> published,
        past |-> past]

Become(s) ==
  /\ desk' = s.desk /\ resize' = s.resize /\ trans' = s.trans
  /\ published' = s.published /\ past' = s.past

Shown(s) == {Primary} \cup s.desk.alive
Over(ws, f, v) == [w \in Windows |-> IF w \in ws THEN v ELSE f[w]]
AreaFor(s, h) == <<s.desk.res, s.desk.dpi, h>>

----------------------------------------------------------------------------
(* taskbar_resize.c *)

\* Mutant: every call saves the work area, the second one that of the first.
ApplyTaskbarSizeSavingAgain(s) ==
  LET h == s.resize.height IN
  [s EXCEPT !.desk.bar = Over(Shown(s), @, h),
            !.desk.content = Over(Shown(s), @, h),
            !.resize.saved = s.desk.area,
            !.desk.area = AreaFor(s, h),
            !.past.moved = FALSE]

\* ApplyTaskbarSize with ApplyWorkArea, ResizeChildWindows and ApplySecondaryTaskbars.
ApplyTaskbarSize(s) ==
  LET h == s.resize.height IN
  [s EXCEPT !.desk.bar = Over(Shown(s), @, h),
            !.desk.content = Over(Shown(s), @, h),
            !.resize.saved = IF @ = NoArea THEN s.desk.area ELSE @,
            !.desk.area = AreaFor(s, h),
            !.past.moved = FALSE]

\* Mutant: the saved area is taken without asking whether there is one.
RestoredUnasked(s) == s.resize.saved

\* RestoreWorkArea: the area saved at the first Apply, else the native one.
RestoredArea(s) == IF s.resize.saved # NoArea THEN s.resize.saved ELSE AreaFor(s, "native")

\* While the window is still subclassed, WM_WINDOWPOSCHANGING forces it back to the
\* configured height; its children and the other taskbars are not.
RestoreTaskbarSize(s) ==
  LET bars == Over(Shown(s), s.desk.bar, "native") IN
  [s EXCEPT !.desk.bar = IF s.resize.subclassed THEN [bars EXCEPT ![Primary] = s.resize.height]
                         ELSE bars,
            !.desk.content = Over(Shown(s), @, "native"),
            !.desk.area = RestoredArea(s),
            !.resize.saved = NoArea]

\* What a section of another plugin did is over with the next height of its own.
Publish(s, h) == [s EXCEPT !.published = h, !.past.misread = FALSE]

ResizeEnable(s) ==
  IF s.resize.subclassed THEN s
  ELSE LET on == ApplyTaskbarSize([s EXCEPT !.resize.subclassed = TRUE])
       IN Publish(on, s.resize.height)

ResizeDisable(s) ==
  IF ~s.resize.subclassed THEN s
  ELSE Publish(RestoreTaskbarSize([s EXCEPT !.resize.subclassed = FALSE]), "native")

\* The handler does not ask whose section it was given.
ResizeOnConfigChanged(s, p, sec) ==
  IF ~s.resize.subclassed \/ sec = Missing THEN s
  ELSE IF ~sec.enabled
       THEN [Publish(RestoreTaskbarSize(s), "native") EXCEPT !.past.misread = TRUE]
       ELSE LET h == IF p = "resize" THEN sec.height ELSE s.resize.height
            IN Publish(ApplyTaskbarSize([s EXCEPT !.resize.height = h]), h)

----------------------------------------------------------------------------
(* taskbar_transparency.c, tray_discovery.c, composition_api.c *)

ComputeAccentPolicy(set) == IF set.enabled THEN set.mode ELSE "native"

DiscoverAll(s) ==
  [s EXCEPT !.trans.tracked = {Primary} \cup (IF s.trans.set.secondary THEN s.desk.alive ELSE {}),
            !.past.late = {}]

ApplyPolicyToAll(s, policy) ==
  [s EXCEPT !.trans.policy = policy,
            !.desk.accent = Over(s.trans.tracked \cap Shown(s), @, policy)]

\* Mutant: a pending timer applies the policy again.
RestoreAllUnderTimer(s) ==
  [s EXCEPT !.desk.accent = Over(s.trans.tracked \cap Shown(s), @, "native")]

RestoreAll(s) ==
  [s EXCEPT !.trans.timer = FALSE, !.trans.active = FALSE,
            !.desk.accent = Over(s.trans.tracked \cap Shown(s), @, "native")]

HandleDisplayChange(s) ==
  LET on == ApplyPolicyToAll(DiscoverAll(s), ComputeAccentPolicy(s.trans.set))
  IN IF s.trans.on THEN [on EXCEPT !.trans.active = TRUE, !.trans.timer = TRUE] ELSE s

TransEnable(s) ==
  IF s.trans.on THEN s
  ELSE ApplyPolicyToAll([DiscoverAll(s) EXCEPT !.trans.on = TRUE],
                        ComputeAccentPolicy(s.trans.set))

TransDisable(s) ==
  IF s.trans.on THEN [RestoreAll(s) EXCEPT !.trans.on = FALSE] ELSE s

\* Only a section that disables is restored; windows that lose the policy because the
\* secondary ones are left out keep it.
TransOnConfigChanged(s, p, sec) ==
  IF ~s.trans.on \/ p # "trans" \/ sec = Missing THEN s
  ELSE LET t == [s EXCEPT !.trans.set = sec,
                   !.past.narrowed = @ \/ (s.trans.set.secondary /\ ~sec.secondary)]
       IN IF sec.enabled THEN ApplyPolicyToAll(DiscoverAll(t), ComputeAccentPolicy(sec))
          ELSE RestoreAll(t)

----------------------------------------------------------------------------
(* core_manager.c and config.c *)

Enable(s, p) == CASE p = "resize" -> ResizeEnable(s) [] p = "trans" -> TransEnable(s)
                  [] OTHER -> s
Disable(s, p) == CASE p = "resize" -> ResizeDisable(s) [] p = "trans" -> TransDisable(s)
                   [] OTHER -> s

IsOn(s, p) == CASE p = "resize" -> s.resize.subclassed [] p = "trans" -> s.trans.on
                [] OTHER -> TRUE

\* TE_ConfigGetBool(sec, "enabled", default)
GetEnabled(sec, default) == IF sec = Missing THEN default ELSE sec.enabled

\* The thread is free.
Free == config.todo = {}

\* TE_CoreManagerInit: the plugins are loaded anew, Initialize parses the section, the
\* sections without "enabled" count as TRUE except that of taskbar_resize.
StartEngine ==
  /\ ~desk.up
  /\ LET sec == config.file
         rz == IF sec["resize"] = Missing THEN "native" ELSE sec["resize"].height
         set == IF sec["trans"] = Missing THEN Defaults ELSE sec["trans"]
         s == [Now EXCEPT !.desk.up = TRUE, !.resize = [FreshResize EXCEPT !.height = rz],
                          !.trans = [FreshTrans EXCEPT !.set = set],
                          !.past.unheard = {}]
         t == IF GetEnabled(sec["resize"], FALSE) THEN Enable(s, "resize") ELSE s
     IN Become(IF GetEnabled(sec["trans"], TRUE) THEN Enable(t, "trans") ELSE t)
  /\ config' = [config EXCEPT !.root = config.file]
  /\ UNCHANGED count

Event == Free /\ count.events < MaxEvents
             /\ count' = [count EXCEPT !.events = @ + 1] /\ UNCHANGED config

\* TE_CoreManagerShutdown: disables by falling priority, clears the store.
StopEngine ==
  /\ desk.up /\ Event
  /\ Become([Disable(Disable(Now, "trans"), "resize")
             EXCEPT !.desk.up = FALSE, !.published = "none"])

\* TE_CoreManagerReloadConfig up to the swap of the trees (TE_ConfigDiffPlugins).
ReloadConfig ==
  /\ desk.up /\ Free /\ config.file # config.root
  /\ config' = [config EXCEPT !.root = config.file,
                              !.todo = {p \in Plugins : config.file[p] # config.root[p]}]
  /\ UNCHANGED <<desk, resize, trans, published, past, count>>

Heard(s, p) == [s EXCEPT !.past.unheard = IF IsOn(s, p) THEN @ \ {p} ELSE @ \cup {p}]

\* One section, in the order of the file: enable or disable, then the event to everyone
\* who is subscribed by now.
ReloadSection == \E p \in config.todo :
  /\ LET sec == config.root[p]
         s == IF GetEnabled(sec, TRUE) THEN Enable(Now, p) ELSE Disable(Now, p)
     IN Become(Heard(TransOnConfigChanged(ResizeOnConfigChanged(s, p, sec), p, sec), p))
  /\ config' = [config EXCEPT !.todo = @ \ {p}]
  /\ UNCHANGED count

Edit == count.edits < MaxEdits /\ count' = [count EXCEPT !.edits = @ + 1]

\* ENABLE_PLUGIN and DISABLE_PLUGIN
Command == \E p \in {"resize", "trans"} :
  /\ desk.up /\ Free /\ Edit
  /\ Become(IF IsOn(Now, p) THEN Disable(Now, p) ELSE Enable(Now, p))
  /\ UNCHANGED config

EditFile == \E p \in Plugins, sec \in {Missing} \cup UNION {Sections[q] : q \in Plugins} :
  /\ sec \in {Missing} \cup Sections[p] /\ sec # config.file[p]
  /\ Edit
  /\ config' = [config EXCEPT !.file[p] = sec]
  /\ UNCHANGED <<desk, resize, trans, published, past>>

----------------------------------------------------------------------------
(* The displays and Explorer. *)

\* Explorer lays out a set of taskbars again, and the work area or not, after the handlers
\* of a message; the subclass of taskbar_resize keeps the height of the primary taskbar.
LaidOut(s, again, area) ==
  LET on == s.resize.subclassed
      bars == Over(again, s.desk.bar, "native")
  IN [s EXCEPT !.desk.bar = IF on THEN [bars EXCEPT ![Primary] = s.resize.height] ELSE bars,
               !.desk.content = Over(again, @, "native"),
               !.desk.area = IF on /\ ~area THEN @ ELSE AreaFor(s, "native"),
               !.past.stale = on, !.past.moved = on]

\* WM_DPICHANGED: taskbar_resize applies its size, transparency its policy, and both pass
\* the message on: what Explorer makes of it comes last, and nobody applies anything again.
DpiChanges == \E again \in SUBSET Windows, area \in BOOLEAN :
  /\ Event
  /\ LET s == [Now EXCEPT !.desk.dpi = 3 - @]
         t == HandleDisplayChange(IF resize.subclassed THEN ApplyTaskbarSize(s) ELSE s)
     IN Become(LaidOut(t, again, area))

\* WM_DISPLAYCHANGE: taskbar_resize is not told; its subclass keeps the height of the
\* primary taskbar, and its WM_SIZE handler that taskbar's children.
DisplayChanges == \E r \in 1 .. 2, att \in SUBSET Secondaries :
  /\ <<r, att>> # <<desk.res, desk.attached>>
  /\ Event
  /\ LET h == IF resize.subclassed THEN resize.height ELSE "native"
         s == [Now EXCEPT !.desk.res = r, !.desk.attached = att, !.desk.alive = @ \cap att,
                          !.desk.bar = [NativeBars EXCEPT ![Primary] = h],
                          !.desk.content = [NativeBars EXCEPT ![Primary] = h],
                          !.desk.area = <<r, desk.dpi, "native">>,
                          !.past.stale = resize.subclassed,
                          !.past.moved = resize.subclassed]
     IN Become(HandleDisplayChange(s))

\* Explorer creates the taskbar of an attached display, before the debounce timer fires
\* or after.
SecondaryCreated == \E w \in desk.attached \ desk.alive :
  /\ Free
  /\ Become([Now EXCEPT !.desk.alive = @ \cup {w}, !.desk.bar[w] = "native",
                        !.desk.content[w] = "native", !.desk.accent[w] = "native",
                        !.past.moved = @ \/ resize.subclassed,
                        !.past.late = IF trans.timer THEN @ ELSE @ \cup {w}])
  /\ UNCHANGED <<config, count>>

\* DebounceTimerProc
DebounceFires ==
  /\ Free /\ trans.timer
  /\ LET s == [Now EXCEPT !.trans.timer = FALSE]
     IN Become(IF trans.active THEN ApplyPolicyToAll(DiscoverAll(s), trans.policy) ELSE s)
  /\ UNCHANGED <<config, count>>

\* Explorer dies with the plugins and comes back with new windows; the work area was set
\* with SPIF_UPDATEINIFILE and may still be there.
ExplorerCrashes == \E area \in {desk.area, AreaFor(Now, "native")} :
  /\ desk.up /\ Event
  /\ Become([Now EXCEPT !.desk = [@ EXCEPT !.up = FALSE, !.alive = desk.attached,
                                    !.bar = NativeBars, !.content = NativeBars,
                                    !.accent = NativeBars, !.area = area],
                        !.resize = FreshResize, !.trans = FreshTrans, !.published = "none",
                        !.past = [narrowed |-> FALSE, late |-> {}, misread |-> FALSE,
                                  moved |-> FALSE, unheard |-> {},
                                  stale |-> area # AreaFor(Now, "native")]])

Next ==
  \/ StartEngine \/ StopEngine \/ ReloadConfig \/ ReloadSection \/ Command \/ EditFile
  \/ DpiChanges \/ DisplayChanges \/ SecondaryCreated \/ DebounceFires \/ ExplorerCrashes

Spec == Init /\ [][Next]_vars

----------------------------------------------------------------------------
(* Properties. *)

\* While transparency is on and no timer is pending, every taskbar it is meant for shows the
\* policy of its settings, which are those of the section it last heard; once it is off
\* every taskbar is native, whatever displays came and went in between.  Two ways out:
\* a taskbar created after the debounce timer (tray_discovery.c:152), and a section that
\* leaves the secondary taskbars out (tray_discovery.c:82): they keep what they have.
AccentsFollow ==
  Free =>
    IF trans.on
    THEN /\ trans.timer \/ \A w \in Shown(Now) \ past.late :
              w = Primary \/ trans.set.secondary =>
                desk.accent[w] = ComputeAccentPolicy(trans.set)
         /\ "trans" \in past.unheard \/ config.root["trans"] \in {Missing, trans.set}
    ELSE past.narrowed \/ \A w \in Shown(Now) : desk.accent[w] = "native"

\* While taskbar_resize is on, the primary taskbar and the published height agree with its
\* settings, and so do the children, the work area and the other taskbars; once it is off
\* all are native again.  The ways out: a section of another plugin that says it is disabled
\* (taskbar_resize.c:441), a change of the displays it is not told of, a change of the DPI,
\* which Explorer answers after it (taskbar_resize.c:406-412), a work area that was saved for
\* another resolution or DPI, or by an engine that died (taskbar_resize.c:85-88).
SizesFollow ==
  Free =>
    IF resize.subclassed
    THEN past.misread \/
         /\ desk.bar[Primary] = resize.height /\ published = resize.height
         /\ past.moved \/
            /\ desk.area = AreaFor(Now, resize.height)
            /\ \A w \in Shown(Now) : desk.bar[w] = resize.height /\ desk.content[w] = resize.height
    ELSE /\ \A w \in Shown(Now) : desk.bar[w] = "native" /\ desk.content[w] = "native"
         /\ published # "compact"
         /\ past.stale \/ desk.area = AreaFor(Now, "native")

\* "Must completely revert all taskbar modifications, restore native geometry": a disabled
\* plugin has left nothing behind.
DisableReverts ==
  desk.up /\ Free /\ ~trans.on => \A w \in Shown(Now) : desk.accent[w] = "native"

\* "For enabled plugins whose parameters changed, TE_EVENT_CONFIG_CHANGED is dispatched": the
\* section of another plugin changes nothing of what taskbar_resize does.
OthersLeaveSize ==
  [][\A p \in Plugins \ {"resize"} :
       config'.todo = config.todo \ {p} /\ p \in config.todo /\ resize.subclassed =>
         desk'.content = desk.content /\ desk'.area = desk.area /\ published' = published]_vars
==========================================================================
