--------------------------- MODULE MediaIsland ---------------------------
(***************************************************************************)
(* The dynamic island of icon_hover: a worker thread that follows the      *)
(* media session of the system (gsmtc_source.cpp), the bridge that carries *)
(* its snapshots to the frame worker (media_state_bridge.h), and the pill  *)
(* that shows them (dynamic_island.cpp).  Four threads start the animation *)
(* loop: the UI thread, the media worker, the thread an asynchronous query *)
(* completes on, and the timer that ends an announcement.                  *)
(* Whoever starts the loop shows the overlay, which is sent to the UI      *)
(* thread.  The loop is the one of FrameLoop, seen from the island: a tick *)
(* polls, draws, reports and settles.  The monitors are at rest.           *)
(***************************************************************************)
EXTENDS Naturals, Sequences, FiniteSets

CONSTANTS MaxChanges,  \* bound: changes of the players, moves of the cursor, clicks
          MaxTurns,    \* bound: times the island is disabled
          MaxEvents    \* bound: the two together

ASSUME MediaIslandAssumption ==
  /\ MaxChanges \in Nat
  /\ MaxTurns \in Nat
  /\ MaxEvents \in Nat

VARIABLES player,    \* external: the sessions of the system
          source,    \* GsmtcMediaSource::Impl, and the life of the object
          bridge,    \* MediaStateBridge
          island,    \* the statics of dynamic_island.cpp
          loop,      \* the animation loop and where its tick is
          starting,  \* per thread: is it in TE_FrameLoopStart
          ui,        \* where the UI thread is, and whether the plugin is enabled
          past       \* history: wakes and titles that came too late

vars == <<player, source, bridge, island, loop, starting, ui, past>>

Sessions == 1 .. 2
Threads == {"media", "query", "timer"}
Titles == {<<0, 0>>} \cup (Sessions \X (0 .. MaxChanges))
Snapshots == [status: {"inactive", "playing", "paused"}, title: Titles,
              id: Nat]
Nothing == [status |-> "inactive", title |-> <<0, 0>>, id |-> 0]
Commands == {"session", "playback", "properties", "toggle"}
Requests == [session: Sessions, overtaken: BOOLEAN, orphan: BOOLEAN]
WorkerAt == {"none", "init", "get", "status", "request", "wait",
             "playback", "properties", "exit"}

TypeOK ==
  /\ player \in [session: {0} \cup Sessions, track: [Sessions -> 0 .. MaxChanges],
                 playing: [Sessions -> BOOLEAN], changes: 0 .. MaxChanges]
  /\ source \in [live: BOOLEAN, stop: BOOLEAN, at: WorkerAt,
                 queue: Seq(Commands), manager: BOOLEAN, session: {0} \cup Sessions,
                 heard: {0} \cup Sessions, cached: Snapshots, id: Nat,
                 queries: Seq(Requests)]
  /\ bridge \in [dirty: BOOLEAN, snap: Snapshots, hooked: BOOLEAN]
  /\ island \in [enabled: BOOLEAN, state: Snapshots, announcing: BOOLEAN,
                 timer: BOOLEAN, hover: BOOLEAN, dirty: BOOLEAN, wide: BOOLEAN, aimWide: BOOLEAN,
                 seen: BOOLEAN, aimSeen: BOOLEAN, uncommitted: BOOLEAN]
  /\ loop \in [active: BOOLEAN, moved: BOOLEAN, settled: BOOLEAN,
               tick: {"no", "draw", "settle"}]
  /\ starting \in [Threads -> {"no", "claim", "show"}]
  /\ ui \in [at: {"idle", "hook", "join"},
             for: {"config", "plugin"}, plugin: BOOLEAN,
             turns: 0 .. MaxTurns]
  /\ past \in [unseen: BOOLEAN, missed: BOOLEAN, late: BOOLEAN]

NoSource == [live |-> FALSE, stop |-> FALSE, at |-> "none", queue |-> <<>>, manager |-> FALSE,
             session |-> 0, heard |-> 0, cached |-> Nothing, id |-> 0, queries |-> <<>>]
NoBridge == [dirty |-> FALSE, snap |-> Nothing, hooked |-> FALSE]

Init ==
  /\ player \in [session: {1}, track: {[s \in Sessions |-> 0]},
                 playing: {[s \in Sessions |-> TRUE]}, changes: {0}]
  /\ source = NoSource
  /\ bridge = NoBridge
  /\ island = [enabled |-> FALSE, state |-> Nothing, announcing |-> FALSE,
               timer |-> FALSE, hover |-> FALSE, dirty |-> FALSE, wide |-> FALSE,
               aimWide |-> FALSE, seen |-> FALSE, aimSeen |-> FALSE, uncommitted |-> FALSE]
  /\ loop = [active |-> FALSE, moved |-> FALSE, settled |-> FALSE, tick |-> "no"]
  /\ starting = [t \in Threads |-> "no"]
  /\ ui = [at |-> "idle", for |-> "plugin", plugin |-> FALSE, turns |-> 0]
  /\ past = [unseen |-> FALSE, missed |-> FALSE, late |-> FALSE]

----------------------------------------------------------------------------
(* The players and the user. *)

\* PostCommand: dropped unless the source runs.
Posted(cmd) == IF source.live THEN [source EXCEPT !.queue = Append(@, cmd)] ELSE source

MoreEvents == player.changes + ui.turns < MaxEvents

Change(p, heard, cmd) ==
  /\ player.changes < MaxChanges /\ MoreEvents
  /\ player' = [p EXCEPT !.changes = @ + 1]
  /\ source' = IF heard THEN Posted(cmd) ELSE source
  /\ UNCHANGED <<bridge, island, loop, starting, ui, past>>

SessionChanges == \E s \in {0} \cup Sessions :
  /\ s # player.session
  /\ Change([player EXCEPT !.session = s], source.manager, "session")

\* Changes of a session nobody looks at are left out.
Watched == {player.session, source.session} \ {0}

PlaybackChanges == \E s \in Watched :
  Change([player EXCEPT !.playing[s] = ~@], source.heard = s, "playback")

TrackChanges == \E s \in Watched :
  Change([player EXCEPT !.track[s] = @ + 1], source.heard = s, "properties")

\* A click on the visible pill, seen by a tick.
Click ==
  /\ island.enabled /\ island.seen /\ source.live /\ loop.active /\ loop.tick = "no"
  /\ player.changes < MaxChanges /\ MoreEvents
  /\ player' = [player EXCEPT !.changes = @ + 1]
  /\ source' = Posted("toggle")
  /\ UNCHANGED <<bridge, island, loop, starting, ui, past>>

----------------------------------------------------------------------------
(* TE_FrameLoopStart, by any thread. *)

Waking(t) == starting' = [starting EXCEPT ![t] = "claim"]
Free(t) == starting[t] = "no"
UiPumps == ui.at = "idle"

\* An active loop is left alone.  A start shows the overlays, which their owner does,
\* commits what was drawn and wakes the worker.
Claim(t) ==
  /\ starting[t] = "claim"
  /\ starting' = [starting EXCEPT ![t] = IF loop.active \/ UiPumps THEN "no" ELSE "show"]
  /\ loop' = [loop EXCEPT !.active = TRUE]
  /\ past' = [past EXCEPT !.missed = @ /\ loop.active, !.unseen = loop.active \/ loop.tick # "no"]
  /\ island' = IF ~loop.active /\ UiPumps THEN [island EXCEPT !.uncommitted = FALSE] ELSE island
  /\ UNCHANGED <<player, source, bridge, ui>>

Show(t) ==
  /\ starting[t] = "show"
  /\ UiPumps
  /\ starting' = [starting EXCEPT ![t] = "no"]
  /\ island' = [island EXCEPT !.uncommitted = FALSE]
  /\ UNCHANGED <<player, source, bridge, loop, ui, past>>

\* The same by the owner itself.
UiStarts(next) ==
  /\ loop' = [next EXCEPT !.active = TRUE]
  /\ past' = [past EXCEPT !.missed = @ /\ loop.active, !.unseen = loop.active \/ loop.tick # "no"]

----------------------------------------------------------------------------
(* The media worker. *)

WorkerIs(at) == source.at = at /\ Free("media")

\* PublishSnapshot: the callback is made after the lock is released.
Publish(c, wake) ==
  /\ bridge' = [bridge EXCEPT !.dirty = TRUE, !.snap = c]
  /\ IF wake /\ bridge.hooked THEN Waking("media") ELSE UNCHANGED starting

PublishInactive(next) ==
  /\ source' = [next EXCEPT !.cached = Nothing]
  /\ Publish(Nothing, TRUE)

\* The session manager is there and announces changes of the session from now on.
WorkerInit ==
  /\ WorkerIs("init")
  /\ source' = [source EXCEPT !.manager = TRUE, !.at = "get"]
  /\ UNCHANGED <<player, bridge, island, loop, starting, ui, past>>

\* Mutant: the handlers stay with the session of before.
GetSessionUnheard ==
  /\ WorkerIs("get")
  /\ LET s == player.session IN
     IF s = 0
     THEN PublishInactive([source EXCEPT !.session = 0, !.at = "wait"])
     ELSE /\ source' = [source EXCEPT !.session = s, !.at = "status"]
          /\ UNCHANGED <<bridge, starting>>
  /\ UNCHANGED <<player, island, loop, ui, past>>

\* HandleRefreshSession: the handlers go to the session that is current now.
GetSession ==
  /\ WorkerIs("get")
  /\ LET s == player.session IN
     IF s = 0
     THEN PublishInactive([source EXCEPT !.session = 0, !.heard = 0, !.at = "wait"])
     ELSE /\ source' = [source EXCEPT !.session = s, !.heard = s, !.at = "status"]
          /\ UNCHANGED <<bridge, starting>>
  /\ UNCHANGED <<player, island, loop, ui, past>>

RefreshPlayback ==
  /\ WorkerIs("status") \/ WorkerIs("playback")
  /\ LET to == IF source.at = "status" THEN "request" ELSE "wait"
         status == IF player.playing[source.session] THEN "playing" ELSE "paused"
     IN IF source.session = 0
        THEN PublishInactive([source EXCEPT !.at = to])
        ELSE /\ source' = [source EXCEPT !.cached.status = status, !.at = to]
             /\ Publish(source'.cached, TRUE)
  /\ UNCHANGED <<player, island, loop, ui, past>>

\* Mutant: a query without a session.
AskedOfNone == Append(source.queries, [session |-> source.session, overtaken |-> FALSE,
                                       orphan |-> FALSE])

\* The query is asynchronous: its completion holds a pointer to the source.
Asked == IF source.session = 0 THEN source.queries
         ELSE Append(source.queries, [session |-> source.session, overtaken |-> FALSE,
                                      orphan |-> FALSE])

RefreshProperties ==
  /\ WorkerIs("properties")
  /\ source' = [source EXCEPT !.at = "wait", !.queries = Asked]
  /\ UNCHANGED <<player, bridge, island, loop, starting, ui, past>>

\* The end of HandleRefreshSession: the timeline is published without a wake.
RefreshPropertiesAndTimeline ==
  /\ WorkerIs("request")
  /\ source' = [source EXCEPT !.at = "wait", !.queries = Asked]
  /\ Publish(source.cached, FALSE)
  /\ UNCHANGED <<player, island, loop, ui, past>>

TakeCommand ==
  /\ WorkerIs("wait") /\ ~source.stop /\ source.queue # <<>>
  /\ LET cmd == Head(source.queue)
         to == CASE cmd = "session" -> "get" [] cmd = "toggle" -> "wait" [] OTHER -> cmd
         toggles == cmd = "toggle" /\ source.session # 0
         told == toggles /\ source.heard = source.session
     IN /\ source' = [source EXCEPT !.at = to, !.queue =
                        IF told THEN Append(Tail(@), "playback") ELSE Tail(@)]
        /\ player' = IF toggles THEN [player EXCEPT !.playing[source.session] = ~@] ELSE player
  /\ UNCHANGED <<bridge, island, loop, starting, ui, past>>

WorkerExits ==
  /\ WorkerIs("wait") /\ source.stop
  /\ source' = [source EXCEPT !.at = "exit", !.manager = FALSE, !.heard = 0, !.session = 0]
  /\ UNCHANGED <<player, bridge, island, loop, starting, ui, past>>

\* Query i is over; those asked before it are overtaken.
Without(i) == [k \in 1 .. Len(source.queries) - 1 |->
                 IF k >= i THEN source.queries[k + 1]
                 ELSE [source.queries[k] EXCEPT !.overtaken = ~source.queries[k].orphan]]

\* A query completes, in any order, with the title its session has now.  A new title or
\* artist makes a new track id.
QueryCompletes == \E i \in DOMAIN source.queries :
  /\ Free("query") /\ ~source.queries[i].orphan
  /\ LET session == source.queries[i].session
         title == <<session, player.track[session]>>
         new == title # source.cached.title
         id == IF new THEN source.id + 1 ELSE source.id
     IN /\ source' = [source EXCEPT !.queries = Without(i), !.id = id, !.cached.title = title,
                                    !.cached.id = IF new THEN id ELSE @]
        /\ bridge' = [bridge EXCEPT !.dirty = TRUE, !.snap = source'.cached]
  /\ IF bridge.hooked THEN Waking("query") ELSE UNCHANGED starting
  /\ past' = [past EXCEPT !.late = source.queries[i].overtaken]
  /\ UNCHANGED <<player, island, loop, ui>>

\* The completion of a query of a source that was destroyed uses freed memory; it may
\* still find the callback there.
QueryOutlives == \E i \in DOMAIN source.queries :
  /\ Free("query") /\ source.queries[i].orphan
  /\ source' = [source EXCEPT !.queries = Without(i)]
  /\ Waking("query")
  /\ UNCHANGED <<player, bridge, island, loop, ui, past>>

----------------------------------------------------------------------------
(* The UI thread. *)

UiIs(at) == ui.at = at

\* TE_DynamicIslandEnable, from Enable of the plugin or from a changed configuration.
BeginEnable(for) ==
  /\ UiIs("idle") /\ ~island.enabled
  /\ (for = "config") = ui.plugin
  /\ source' = [NoSource EXCEPT !.live = TRUE, !.at = "init", !.queries = source.queries]
  /\ bridge' = NoBridge
  /\ past' = [past EXCEPT !.late = FALSE]
  /\ island' = [island EXCEPT !.enabled = TRUE, !.wide = FALSE, !.aimWide = FALSE, !.dirty = TRUE]
  /\ ui' = [ui EXCEPT !.at = "hook"]
  /\ UNCHANGED <<player, loop, starting>>

\* The callback is set after the worker was started: what it published by then is taken here.
HookAndConsume ==
  /\ UiIs("hook")
  /\ island' = [island EXCEPT !.state = IF bridge.dirty THEN bridge.snap ELSE @,
                              !.uncommitted = @ /\ loop.active]
  /\ bridge' = [bridge EXCEPT !.hooked = TRUE, !.dirty = FALSE]
  /\ UiStarts(loop)
  /\ ui' = [ui EXCEPT !.at = "idle", !.plugin = TRUE]
  /\ UNCHANGED <<player, source, starting>>

\* Mutant: Shutdown joins the worker without telling it to stop.
BeginDisableWithoutStop(for) ==
  /\ UiIs("idle") /\ island.enabled /\ ui.plugin
  /\ ui.turns < MaxTurns /\ MoreEvents
  /\ island' = [island EXCEPT !.enabled = FALSE, !.hover = FALSE, !.announcing = FALSE,
                              !.timer = FALSE, !.wide = FALSE, !.aimWide = FALSE,
                              !.seen = FALSE, !.aimSeen = FALSE]
  /\ ui' = [ui EXCEPT !.at = "join", !.for = for, !.turns = @ + 1]
  /\ UNCHANGED <<player, source, bridge, loop, starting, past>>

\* TE_DynamicIslandDisable up to the join of the worker, which has no time limit.
BeginDisable(for) ==
  /\ UiIs("idle") /\ island.enabled /\ ui.plugin
  /\ ui.turns < MaxTurns /\ MoreEvents
  /\ island' = [island EXCEPT !.enabled = FALSE, !.hover = FALSE, !.announcing = FALSE,
                              !.timer = FALSE, !.wide = FALSE, !.aimWide = FALSE,
                              !.seen = FALSE, !.aimSeen = FALSE]
  /\ source' = [source EXCEPT !.stop = TRUE]
  /\ ui' = [ui EXCEPT !.at = "join", !.for = for, !.turns = @ + 1]
  /\ UNCHANGED <<player, bridge, loop, starting, past>>

Orphan == [session |-> 1, overtaken |-> FALSE, orphan |-> TRUE]

\* The source is destroyed; Disable of the plugin goes on to stop the loop.
JoinMedia ==
  /\ UiIs("join") /\ source.at = "exit"
  /\ source' = [NoSource EXCEPT !.queries = [i \in DOMAIN source.queries |-> Orphan]]
  /\ bridge' = NoBridge
  /\ ui' = [ui EXCEPT !.at = "idle", !.plugin = ui.for = "config", !.for = "plugin"]
  /\ loop' = [loop EXCEPT !.active = @ /\ ui.for = "config"]
  /\ UNCHANGED <<player, island, starting, past>>

\* The cursor enters or leaves the pill: the monitors move too, and start the loop.
Hover ==
  /\ UiIs("idle") /\ ui.plugin /\ island.enabled
  /\ player.changes < MaxChanges /\ MoreEvents
  /\ player' = [player EXCEPT !.changes = @ + 1]
  /\ island' = [island EXCEPT !.hover = ~@, !.dirty = TRUE,
                              !.uncommitted = @ /\ loop.active]
  /\ UiStarts([loop EXCEPT !.moved = TRUE])
  /\ UNCHANGED <<source, bridge, starting, ui>>

----------------------------------------------------------------------------
(* The timer of an announcement. *)

TimerFires ==
  /\ island.timer /\ Free("timer")
  /\ island' = [island EXCEPT !.timer = FALSE, !.announcing = FALSE, !.dirty = TRUE]
  /\ Waking("timer")
  /\ UNCHANGED <<player, source, bridge, loop, ui, past>>

----------------------------------------------------------------------------
(* A tick of the frame worker. *)

TickIs(at) == loop.tick = at

\* While the plugin is disabled a tick does nothing, and the next one follows.  A new
\* track is announced when it plays.
Poll ==
  /\ TickIs("no") /\ loop.active /\ ui.plugin /\ \A t \in Threads : starting[t] # "show"
  /\ loop' = [loop EXCEPT !.tick = "draw"]
  /\ past' = [past EXCEPT !.unseen = FALSE]
  /\ IF island.enabled /\ source.live /\ bridge.dirty
     THEN LET announce == bridge.snap.id # island.state.id /\ bridge.snap.status = "playing"
          IN /\ bridge' = [bridge EXCEPT !.dirty = FALSE]
             /\ island' = [island EXCEPT !.state = bridge.snap,
                             !.dirty = @ \/ bridge.snap # island.state,
                             !.announcing = @ \/ announce, !.timer = @ \/ announce]
     ELSE UNCHANGED <<bridge, island>>
  /\ UNCHANGED <<player, source, starting, ui>>

MediaActive == island.state.status # "inactive"
WantsWide == MediaActive /\ (island.hover \/ island.announcing)
WantsSeen == MediaActive \/ island.hover

\* Mutant: a pill that is not visible stays dirty until it is drawn.
DrawVisibleOnly ==
  /\ TickIs("draw")
  /\ LET dirty == island.dirty \/ island.wide # WantsWide
         draws == dirty /\ (island.seen \/ WantsSeen)
     IN /\ island' = [island EXCEPT !.aimWide = WantsWide, !.aimSeen = WantsSeen,
                         !.wide = WantsWide, !.seen = WantsSeen, !.dirty = dirty /\ ~draws]
        /\ loop' = [loop EXCEPT !.tick = "settle", !.moved = FALSE,
                                !.settled = (~dirty \/ draws) /\ ~loop.moved]
  /\ UNCHANGED <<player, source, bridge, starting, ui, past>>

\* RenderIslandSurface draws the pill and leaves the commit to the loop.
Rendered(i) == [i EXCEPT !.uncommitted = TRUE]

\* Width and opacity reach what they aim at with the tick after the one that aimed.  A dirty
\* pill that is visible is drawn, and is not dirty any more when the loop asks.
Draw ==
  /\ TickIs("draw")
  /\ LET wide == IF island.aimWide = WantsWide THEN WantsWide ELSE island.wide
         seen == IF island.aimSeen = WantsSeen THEN WantsSeen ELSE island.seen
         dirty == island.dirty \/ wide # island.wide \/ wide # WantsWide
         draws == dirty /\ (seen \/ WantsSeen)
         commits == (dirty /\ ~draws) \/ loop.moved
         settled == wide = WantsWide /\ seen = WantsSeen /\ (~dirty \/ draws)
         drawn == IF draws THEN Rendered(island) ELSE island
     IN IF island.enabled
        THEN /\ island' = [drawn EXCEPT !.aimWide = WantsWide, !.aimSeen = WantsSeen,
                             !.wide = wide, !.seen = seen, !.dirty = FALSE,
                             !.uncommitted = ~commits /\ (@ \/ seen # island.seen)]
             /\ loop' = [loop EXCEPT !.tick = "settle", !.moved = FALSE,
                                     !.settled = settled /\ ~loop.moved]
        ELSE /\ loop' = [loop EXCEPT !.tick = "settle", !.moved = FALSE, !.settled = ~loop.moved]
             /\ UNCHANGED island
  /\ UNCHANGED <<player, source, bridge, starting, ui, past>>

Settle ==
  /\ TickIs("settle")
  /\ loop' = IF loop.settled THEN [loop EXCEPT !.tick = "no", !.active = FALSE]
             ELSE [loop EXCEPT !.tick = "no"]
  /\ past' = IF loop.settled /\ loop.active THEN [past EXCEPT !.missed = past.unseen] ELSE past
  /\ UNCHANGED <<player, source, bridge, island, starting, ui>>

----------------------------------------------------------------------------

World == SessionChanges \/ PlaybackChanges \/ TrackChanges \/ Click \/ Hover

Start == \E t \in Threads : Claim(t) \/ Show(t)

MediaStep ==
  \/ WorkerInit \/ GetSession \/ RefreshPlayback \/ RefreshProperties
  \/ RefreshPropertiesAndTimeline \/ TakeCommand \/ WorkerExits

QueryStep == QueryCompletes \/ QueryOutlives

UiStep == HookAndConsume \/ JoinMedia

TickStep == Poll \/ Draw \/ Settle

Next ==
  \/ World \/ Start \/ MediaStep \/ QueryStep \/ UiStep \/ TimerFires \/ TickStep
  \/ \E for \in {"config", "plugin"} : BeginEnable(for) \/ BeginDisable(for)

\* Every thread runs on, a query ends, an armed timer fires.  The players, the user and
\* the configuration owe nothing.
FairSpec ==
  /\ Init /\ [][Next]_vars
  /\ \A t \in Threads : WF_vars(Claim(t) \/ Show(t))
  /\ WF_vars(MediaStep) /\ WF_vars(QueryStep) /\ WF_vars(UiStep)
  /\ WF_vars(TimerFires) /\ WF_vars(TickStep)

----------------------------------------------------------------------------
(* Properties. *)

\* The island is enabled, nothing is under way, the loop rests.
Quiet ==
  /\ ui.plugin /\ island.enabled /\ UiPumps
  /\ source.at = "wait" /\ source.queue = <<>> /\ source.queries = <<>>
  /\ \A t \in Threads : Free(t)
  /\ ~loop.active /\ loop.tick = "no"

\* When everything is quiet the pill shows the session that is current, its status and its
\* title, whatever was changed while the source was starting or refreshing; unless a wake
\* came in the very tick that put the loop to sleep (frame_loop.cpp:672, 816), or the
\* answers to two queries came in the wrong order or not at all (gsmtc_source.cpp:286).
ShowsCurrent ==
  Quiet /\ source.manager /\ ~past.missed /\ ~past.late =>
    LET s == player.session IN
    IF s = 0 THEN island.state.status = "inactive"
    ELSE /\ island.state.status = (IF player.playing[s] THEN "playing" ELSE "paused")
         /\ island.state.title = <<s, player.track[s]>>

\* Disable joins the media worker without a time limit: it comes back, unless the worker is
\* showing the overlay, for which it needs the thread that joins it (gsmtc_source.cpp:110,
\* frame_loop.cpp:834-838, dcomp_overlay.cpp:898-904).
JoinEnds == ui.at = "join" ~> ui.at # "join" \/ starting["media"] = "show"

\* "Disable() must cleanly revert all taskbar geometry modifications and unhook message
\* callbacks within < 1 ms" (architect.md:174): the plugin's Disable comes back.
DisableReturns == ui.at = "join" /\ ui.for = "plugin" ~> ui.at # "join"

\* In the end the loop rests, unless a query or timer of before started it again after the
\* plugin was disabled: then its ticks do nothing and it never stops (frame_loop.cpp:563).
LoopRests == <>[](loop.active => ~ui.plugin \/ ui.at = "join")

\* "Frame loop executes single consolidated commit" (dynamic_island.cpp:536): at rest,
\* everything that was drawn has been committed.
DrawnIsPresented == Quiet => ~island.uncommitted
==========================================================================
