----------------------- MODULE TaskbarTracking_proofs -----------------------
(***************************************************************************)
(* For any number of secondary taskbars and any size of the table: as long *)
(* as no sent message gets in while a teardown disables the plugins, the   *)
(* table names only windows that exist and are subclassed, and an engine   *)
(* that is down has let go of every taskbar.                               *)
(***************************************************************************)
EXTENDS TaskbarTracking, FiniteSetTheorems, TLAPS

USE TaskbarTrackingAssumption DEF TaskbarTrackingAssumption

----------------------------------------------------------------------------
(* The invariant. *)

\* A subclassed window exists, and a teardown finds it: it is in the table, it is the
\* primary taskbar, or it is being destroyed.
SubclassInv ==
  \A w \in subclassed :
    Exists(w) /\ (w \in Tracked \/ w = Primary \/ win[w] = "dying")

\* Once the windows in the table are let go of, at most the primary taskbar is left, and
\* it stays only if it is being destroyed or the session ends.
ClosingInv ==
  engine.phase = "closing" =>
    /\ ~debounce /\ subclassed \subseteq {Primary} /\ Tracked \subseteq {engine.keep}
    /\ \/ engine.keep = Nowhere
       \/ engine.keep = Primary /\ (engine.session \/ win[Primary] = "dying")

DownInv ==
  engine.phase = "down" /\ ~engine.session =>
    ~debounce /\ (engine.found \/ \A w \in subclassed : w = Primary /\ win[w] = "dying")

TrackingInv == TypeOK /\ SubclassInv /\ ClosingInv /\ DownInv

----------------------------------------------------------------------------
(* Types. *)

WindowStates == {"gone", "there", "dying"}
Phases == {"down", "init", "lost", "up", "stopping", "closing"}
Holders == Windows \cup {Nowhere}
Engines == [phase: Phases, plugins: BOOLEAN, keep: Holders, session: BOOLEAN,
            found: BOOLEAN]
Cursors == [on: Holders, place: Places, new: BOOLEAN]
PlaceMaps == [Windows -> Places]
Tellings == [hover: Holders, place: PlaceMaps]
Entries == [last: Places, was: BOOLEAN, active: BOOLEAN]

\* The conjuncts of TypeOK, apart.
WindowTypes == win \in [Windows -> WindowStates] /\ subclassed \subseteq Windows
TimerTypes == timer \subseteq Windows /\ debounce \in BOOLEAN
TableTypes ==
  /\ Tracked \subseteq subclassed /\ (\A w \in Tracked : Exists(w))
  /\ Cardinality(Tracked) <= MaxTracked
  /\ tracked \in [Tracked -> Entry]
MouseTypes == cursor \in Cursors /\ posted \in PlaceMaps /\ told \in Tellings

LEMMA Types ==
  TypeOK <=> /\ WindowTypes /\ TimerTypes /\ TableTypes /\ MouseTypes
             /\ engine \in Engines /\ changes \in 0 .. MaxChanges
BY DEF TypeOK, WindowTypes, TimerTypes, TableTypes, MouseTypes, WindowStates, Phases, Holders,
       Engines, Cursors, PlaceMaps, Tellings

LEMMA NextTypes ==
  ASSUME WindowTypes', TimerTypes', TableTypes', MouseTypes', engine' \in Engines,
         changes' \in 0 .. MaxChanges
  PROVE  TypeOK'
BY DEF TypeOK, WindowTypes, TimerTypes, TableTypes, MouseTypes, WindowStates, Phases, Holders,
       Engines, Cursors, PlaceMaps, Tellings

LEMMA WindowFacts ==
  /\ IsFiniteSet(Windows) /\ Primary \in Windows /\ Primary # Nowhere
  /\ 0 \in Places /\ Nowhere \in Holders /\ Windows \subseteq Holders
BY FS_AddElement DEF Windows, Places, Holders

\* What the actions change of a record leaves it of its type.
LEMMA EngineChanges ==
  ASSUME NEW e \in Engines, NEW p \in Phases
  PROVE  /\ [e EXCEPT !.phase = p] \in Engines
         /\ \A b \in BOOLEAN : /\ [e EXCEPT !.plugins = b] \in Engines
                               /\ [e EXCEPT !.session = b] \in Engines
                               /\ [e EXCEPT !.found = b] \in Engines
                               /\ [e EXCEPT !.phase = p, !.plugins = b] \in Engines
         /\ \A k \in Holders, b \in BOOLEAN :
               /\ [e EXCEPT !.phase = p, !.plugins = b, !.keep = k] \in Engines
               /\ [e EXCEPT !.phase = p, !.keep = k, !.session = b, !.found = FALSE] \in Engines
BY Zenon DEF Engines

LEMMA FreshType == Fresh \in Entry
BY WindowFacts DEF Fresh, Entry

LEMMA EntryChanges ==
  ASSUME NEW e \in Entry, NEW p \in Places, NEW b \in BOOLEAN
  PROVE  [e EXCEPT !.active = b] \in Entry /\ [e EXCEPT !.last = p, !.was = b] \in Entry
BY Zenon DEF Entry

LEMMA CursorChanges ==
  ASSUME NEW c \in Cursors, NEW w \in Holders, NEW b \in BOOLEAN
  PROVE  [c EXCEPT !.new = b] \in Cursors /\ [c EXCEPT !.on = w, !.new = b] \in Cursors
BY Zenon DEF Cursors

LEMMA NothingType == Nothing \in Tellings
BY WindowFacts DEF Nothing, Tellings, PlaceMaps

LEMMA FiresType ==
  ASSUME MouseTypes, NEW w \in Windows, NEW in \in BOOLEAN, NEW place \in Places,
         Fires(w, in, place)
  PROVE  told' \in Tellings
<1>1. told.hover \in Holders /\ told.place \in PlaceMaps
  BY DEF MouseTypes, Tellings
<1>2. [told.place EXCEPT ![w] = place] \in PlaceMaps
  BY <1>1 DEF PlaceMaps
<1> DEFINE h == IF in THEN w ELSE Nowhere
           p == IF in THEN [told.place EXCEPT ![w] = place] ELSE told.place
<1>3. h \in Holders /\ p \in PlaceMaps
  BY <1>1, <1>2, WindowFacts
<1>4. told' = told \/ told' = [hover |-> h, place |-> p]
  BY DEF Fires
<1> HIDE DEF h, p
<1>5. QED
  BY <1>3, <1>4 DEF MouseTypes, Tellings

LEMMA InitInv == Init => TrackingInv
<1> SUFFICES ASSUME Init PROVE TrackingInv
  OBVIOUS
<1> USE DEF Init
<1>1. Tracked = {} /\ tracked \in [Tracked -> Entry]
  BY DEF Tracked
<1>2. Cardinality(Tracked) = 0
  BY <1>1, FS_EmptySet
<1>3. TableTypes
  BY <1>1, <1>2 DEF TableTypes
<1>4. WindowTypes /\ TimerTypes
  BY DEF WindowTypes, TimerTypes, WindowStates
<1>5. MouseTypes
  BY WindowFacts, NothingType DEF MouseTypes, Cursors, PlaceMaps
<1>6. engine \in Engines
  BY WindowFacts DEF Engines, Phases
<1>7. TypeOK
  BY <1>3, <1>4, <1>5, <1>6, Types
<1>8. SubclassInv /\ ClosingInv /\ DownInv
  BY DEF SubclassInv, ClosingInv, DownInv
<1>9. QED
  BY <1>7, <1>8 DEF TrackingInv

----------------------------------------------------------------------------
(* The table. *)

\* Finding the taskbars keeps what is in the table and has room for what it adds.
LEMMA TrackAllShape ==
  ASSUME TypeOK, SubclassInv, TE_TaskbarTrackAll, win' = win
  PROVE  TableTypes' /\ WindowTypes' /\ SubclassInv'
<1> DEFINE alive == {w \in Tracked : Exists(w)}
           room == MaxTracked - Cardinality(alive)
           first == {w \in {Primary} : Exists(w) /\ w \notin alive}
           others == {w \in Secondaries : Exists(w) /\ w \notin alive}
<1>1. PICK new \in SUBSET (first \cup others) :
        /\ Cardinality(new) <= room
        /\ tracked' = [w \in alive \cup new |-> IF w \in alive THEN tracked[w] ELSE Fresh]
        /\ subclassed' = subclassed \cup first \cup new
  BY DEF TE_TaskbarTrackAll
<1>2. alive = Tracked /\ Tracked \subseteq Windows /\ \A w \in Tracked : Exists(w)
  BY Types DEF TableTypes, WindowTypes
<1>3. /\ first \subseteq {Primary} /\ new \subseteq Windows /\ first \subseteq Windows
      /\ \A w \in first \cup new : Exists(w)
  BY WindowFacts DEF Windows
<1>4. IsFiniteSet(alive) /\ IsFiniteSet(new)
  BY <1>2, <1>3, WindowFacts, FS_Subset
<1>5. Cardinality(alive \cup new) <= MaxTracked
  <2>1. /\ Cardinality(alive) \in Nat /\ Cardinality(new) \in Nat
        /\ Cardinality(alive \cap new) \in Nat
    BY <1>4, FS_CardinalityType, FS_Intersection
  <2>2. Cardinality(alive \cup new)
          = Cardinality(alive) + Cardinality(new) - Cardinality(alive \cap new)
    BY <1>4, FS_Union
  <2>3. Cardinality(new) <= MaxTracked - Cardinality(alive)
    BY <1>1
  <2> HIDE DEF alive
  <2>4. QED
    BY <2>1, <2>2, <2>3
<1>6. Tracked' = alive \cup new
  BY <1>1 DEF Tracked
<1>7. \A w \in Windows : Exists(w)' <=> Exists(w)
  BY DEF Exists
<1>8. TableTypes'
  <2>1. tracked' \in [Tracked' -> Entry]
    <3>1. \A w \in alive \cup new : (IF w \in alive THEN tracked[w] ELSE Fresh) \in Entry
      BY <1>2, Types, FreshType DEF TableTypes
    <3> HIDE DEF alive
    <3>2. QED
      BY <1>1, <1>6, <3>1
  <2>2. Tracked' \subseteq subclassed' /\ \A w \in Tracked' : Exists(w)'
    BY <1>1, <1>2, <1>3, <1>6, <1>7, Types DEF TableTypes
  <2>3. QED
    BY <1>5, <1>6, <2>1, <2>2 DEF TableTypes
<1>9. WindowTypes'
  BY <1>1, <1>3, Types DEF WindowTypes
<1>10. SubclassInv'
  <2> SUFFICES ASSUME NEW w \in subclassed'
               PROVE  Exists(w)' /\ (w \in Tracked' \/ w = Primary \/ win'[w] = "dying")
    BY DEF SubclassInv
  <2>1. w \in subclassed \/ w \in first \/ w \in new
    BY <1>1
  <2>2. CASE w \in subclassed
    BY <1>2, <1>6, <1>7, <2>2, Types DEF SubclassInv, WindowTypes
  <2>3. CASE w \in first \/ w \in new
    BY <1>3, <1>6, <1>7, <2>3
  <2>4. QED
    BY <2>1, <2>2, <2>3
<1>11. QED
  BY <1>8, <1>9, <1>10

\* Letting go leaves the primary taskbar at most, if no window is being destroyed.
LEMMA LetGoShape ==
  ASSUME TypeOK, SubclassInv, Free, NEW except \in {Primary, Nowhere}, LetGo(except)
  PROVE  /\ Tracked' \subseteq {except} \cap Tracked /\ tracked' \in [Tracked' -> Entry]
         /\ subclassed' \subseteq {Primary} \cap subclassed /\ Tracked' \subseteq subclassed'
         /\ Cardinality(Tracked') <= MaxTracked
         /\ timer' \subseteq timer
<1> DEFINE alive == {w \in Tracked : Exists(w)}
<1>1. /\ timer' = timer \ alive /\ subclassed' = subclassed \ (alive \ {except})
      /\ tracked' = [w \in alive \cap {except} |-> [tracked[w] EXCEPT !.active = FALSE]]
  BY DEF LetGo
<1>2. alive = Tracked /\ Tracked \subseteq subclassed /\ tracked \in [Tracked -> Entry]
  BY Types DEF TableTypes
<1>3. \A w \in subclassed : w \in Tracked \/ w = Primary
  BY Types DEF SubclassInv, Free, WindowTypes
<1>4. Tracked' = alive \cap {except}
  BY <1>1 DEF Tracked
<1>5. tracked' \in [Tracked' -> Entry]
  <2>1. \A w \in alive : [tracked[w] EXCEPT !.active = FALSE] \in Entry
    BY <1>2, EntryChanges, WindowFacts
  <2> DEFINE E(w) == [tracked[w] EXCEPT !.active = FALSE]
  <2>2. \A w \in alive \cap {except} : E(w) \in Entry
    BY <2>1
  <2>3. tracked' = [w \in alive \cap {except} |-> E(w)]
    BY <1>1
  <2> HIDE DEF E, alive
  <2>4. QED
    BY <1>4, <2>2, <2>3
<1>6. Cardinality(Tracked') <= MaxTracked
  <2>1. Cardinality({}) = 0 /\ Cardinality({except}) = 1
    BY FS_EmptySet, FS_Singleton
  <2>2. Tracked' = {} \/ Tracked' = {except}
    BY <1>4
  <2>3. QED
    BY <2>1, <2>2
<1>7. QED
  BY <1>1, <1>2, <1>3, <1>4, <1>5, <1>6

----------------------------------------------------------------------------
(* The steps. *)

LEMMA Finds ==
  ASSUME TrackingInv, ~Nested,
         WM_TE_INIT \/ WM_DISPLAYCHANGE \/ WM_DEVICECHANGE \/ DisplayChangeDebounceProc
  PROVE  TrackingInv'
<1>1. /\ TypeOK /\ SubclassInv /\ ClosingInv /\ DownInv
      /\ WindowTypes /\ TimerTypes /\ TableTypes /\ MouseTypes
      /\ engine \in Engines /\ changes \in 0 .. MaxChanges
  BY Types DEF TrackingInv
<1>2. UNCHANGED <<win, timer, cursor, posted, told>>
  BY DEF WM_TE_INIT, WM_DISPLAYCHANGE, WM_DEVICECHANGE, DisplayChangeDebounceProc, mouseVars
<1>3. MouseTypes' /\ TimerTypes'
  BY <1>1, <1>2
     DEF MouseTypes, TimerTypes, WM_TE_INIT, WM_DISPLAYCHANGE, WM_DEVICECHANGE,
         DisplayChangeDebounceProc
<1>4. engine' \in Engines
  <2>1. CASE WM_TE_INIT
    BY <1>1, <2>1, EngineChanges, WindowFacts DEF WM_TE_INIT, Phases
  <2>2. CASE WM_DEVICECHANGE
    <3> DEFINE b == engine.found \/ (engine.phase = "down" /\ win[Primary] = "dying")
    <3>1. engine' = [engine EXCEPT !.found = b] /\ b \in BOOLEAN
      BY <1>1, <2>2 DEF WM_DEVICECHANGE, Engines
    <3> HIDE DEF b
    <3>2. QED
      BY <1>1, <3>1, EngineChanges, WindowFacts DEF Engines
  <2>3. CASE WM_DISPLAYCHANGE \/ DisplayChangeDebounceProc
    BY <1>1, <2>3 DEF WM_DISPLAYCHANGE, DisplayChangeDebounceProc
  <2>4. QED
    BY <2>1, <2>2, <2>3
<1>5. changes' \in 0 .. MaxChanges
  BY <1>1 DEF WM_TE_INIT, WM_DISPLAYCHANGE, WM_DEVICECHANGE, DisplayChangeDebounceProc, Change
<1>6. CASE TE_TaskbarTrackAll
  <2>1. TableTypes' /\ WindowTypes' /\ SubclassInv'
    BY <1>1, <1>2, <1>6, TrackAllShape
  <2>2. engine'.phase # "closing"
    <3>1. CASE WM_TE_INIT
      BY <1>1, <3>1 DEF WM_TE_INIT, Engines
    <3>2. CASE WM_DISPLAYCHANGE \/ WM_DEVICECHANGE
      BY <1>1, <3>2 DEF WM_DISPLAYCHANGE, WM_DEVICECHANGE, LetsIn, Engines
    <3>3. CASE DisplayChangeDebounceProc
      BY <3>3 DEF DisplayChangeDebounceProc, Idle, Free
    <3>4. QED
      BY <3>1, <3>2, <3>3
  <2>3. engine'.phase = "down" /\ ~engine'.session => engine'.found /\ ~debounce'
    <3>1. CASE WM_TE_INIT
      BY <1>1, <3>1 DEF WM_TE_INIT, Engines
    <3>2. CASE WM_DISPLAYCHANGE
      BY <3>2 DEF WM_DISPLAYCHANGE, Initialized
    <3>3. CASE WM_DEVICECHANGE
      <4>1. /\ engine'.phase = engine.phase /\ engine'.session = engine.session
            /\ engine.found \/ (engine.phase = "down" /\ win[Primary] = "dying")
                 => engine'.found
            /\ debounce' = debounce /\ \E w \in subclassed : Exists(w)
        BY <1>1, <3>3 DEF WM_DEVICECHANGE, Engines
      <4>2. QED
        BY <1>1, <4>1 DEF DownInv
    <3>4. CASE DisplayChangeDebounceProc
      BY <1>1, <3>4 DEF DisplayChangeDebounceProc, DownInv
    <3>5. QED
      BY <3>1, <3>2, <3>3, <3>4
  <2>4. QED
    BY <1>3, <1>4, <1>5, <2>1, <2>2, <2>3, NextTypes DEF TrackingInv, ClosingInv, DownInv
<1>7. CASE ~TE_TaskbarTrackAll
  <2>1. UNCHANGED <<tracked, subclassed, engine>> /\ debounce' = FALSE
    BY <1>7 DEF WM_TE_INIT, WM_DISPLAYCHANGE, WM_DEVICECHANGE, DisplayChangeDebounceProc
  <2>2. TableTypes' /\ WindowTypes' /\ SubclassInv' /\ ClosingInv' /\ DownInv'
    BY <1>1, <1>2, <2>1
       DEF TableTypes, WindowTypes, SubclassInv, ClosingInv, DownInv, Tracked, Exists
  <2>3. QED
    BY <1>3, <1>4, <1>5, <2>2, NextTypes DEF TrackingInv
<1>8. QED
  BY <1>6, <1>7

\* The three ways into a teardown.
LEMMA BeginsShutdown ==
  ASSUME TrackingInv, Free, changes' \in 0 .. MaxChanges, UNCHANGED mouseVars,
         NEW except \in {Primary, Nowhere}, NEW ends \in BOOLEAN, BeginShutdown(except, ends),
         \/ win' = win /\ (except = Primary => ends)
         \/ except = Primary /\ win' = [win EXCEPT ![Primary] = "dying"]
  PROVE  TrackingInv'
<1>1. /\ TypeOK /\ SubclassInv /\ WindowTypes /\ TimerTypes /\ TableTypes /\ MouseTypes
      /\ engine \in Engines
  BY Types DEF TrackingInv
<1> DEFINE b == engine.session \/ ends
<1>2. LetGo(except) /\ debounce' = FALSE
  BY DEF BeginShutdown, TE_TaskbarUntrackAllExcept
<1>3. /\ Tracked' \subseteq {except} \cap Tracked /\ tracked' \in [Tracked' -> Entry]
      /\ subclassed' \subseteq {Primary} \cap subclassed /\ Tracked' \subseteq subclassed'
      /\ Cardinality(Tracked') <= MaxTracked /\ timer' \subseteq timer
  BY <1>1, <1>2, LetGoShape
<1>4. b \in BOOLEAN
  OBVIOUS
<1>5. engine' = [engine EXCEPT !.phase = "closing", !.keep = except, !.session = b,
                              !.found = FALSE]
  BY DEF BeginShutdown
<1> HIDE DEF b
<1>6. except \in Holders /\ "closing" \in Phases
  BY WindowFacts DEF Phases
<1>7. engine' \in Engines
  BY <1>1, <1>4, <1>5, <1>6, EngineChanges
<1>8. engine'.phase = "closing" /\ engine'.keep = except /\ engine'.session = b
  BY <1>1, <1>5 DEF Engines
<1>9. win' \in [Windows -> WindowStates] /\ \A w \in Windows : Exists(w) => Exists(w)'
  BY <1>1, WindowFacts DEF WindowTypes, WindowStates, Exists
<1>10. WindowTypes' /\ TimerTypes' /\ MouseTypes'
  BY <1>1, <1>2, <1>3, <1>9 DEF WindowTypes, TimerTypes, MouseTypes, mouseVars
<1>11. TableTypes'
  BY <1>1, <1>3, <1>9 DEF TableTypes, WindowTypes
<1>12. SubclassInv'
  BY <1>1, <1>3, <1>9 DEF SubclassInv, WindowTypes
<1>13. ClosingInv'
  <2>1. except = Primary => b \/ win'[Primary] = "dying"
    BY <1>1, WindowFacts DEF b, WindowTypes
  <2>2. QED
    BY <1>2, <1>3, <1>8, <2>1 DEF ClosingInv
<1>14. DownInv'
  BY <1>8 DEF DownInv
<1>15. QED
  BY <1>7, <1>10, <1>11, <1>12, <1>13, <1>14, NextTypes DEF TrackingInv

\* The table, the windows and the plugins stay, or move on as they do in a teardown.
LEMMA EngineGoesOn ==
  ASSUME TrackingInv, HookInstalls \/ TE_CMD_SHUTDOWN \/ EnableAgain \/ EndShutdown
  PROVE  TrackingInv'
<1>1. /\ TypeOK /\ SubclassInv /\ ClosingInv /\ DownInv
      /\ WindowTypes /\ TimerTypes /\ TableTypes /\ MouseTypes
      /\ engine \in Engines /\ changes \in 0 .. MaxChanges
  BY Types DEF TrackingInv
<1>2. UNCHANGED <<win, tracked, debounce, cursor, posted>> /\ Tracked' = Tracked
  BY DEF HookInstalls, TE_CMD_SHUTDOWN, EnableAgain, EndShutdown, mouseVars, Tracked
<1>3. TimerTypes' /\ MouseTypes'
  <2>1. timer' \subseteq timer /\ told' \in {told, Nothing}
    BY DEF HookInstalls, TE_CMD_SHUTDOWN, EnableAgain, EndShutdown, mouseVars
  <2>2. QED
    BY <1>1, <1>2, <2>1, NothingType DEF TimerTypes, MouseTypes
<1>4. changes' \in 0 .. MaxChanges
  BY <1>1 DEF HookInstalls, TE_CMD_SHUTDOWN, EnableAgain, EndShutdown, Change
<1>5. engine' \in Engines
  <2>1. "init" \in Phases /\ "stopping" \in Phases /\ "down" \in Phases
    BY DEF Phases
  <2>2. CASE HookInstalls
    BY <1>1, <2>1, <2>2, EngineChanges DEF HookInstalls
  <2>3. CASE EnableAgain
    <3>1. engine' = [engine EXCEPT !.plugins = TRUE]
      BY <2>3 DEF EnableAgain
    <3>2. QED
      BY <1>1, <2>1, <3>1, EngineChanges
  <2>4. CASE TE_CMD_SHUTDOWN
    BY <1>1, <2>1, <2>4, EngineChanges, WindowFacts DEF TE_CMD_SHUTDOWN
  <2>5. CASE EndShutdown
    BY <1>1, <2>1, <2>5, EngineChanges, WindowFacts DEF EndShutdown
  <2>6. QED
    BY <2>2, <2>3, <2>4, <2>5
<1>6. CASE HookInstalls
  <2>1. subclassed' = subclassed \cup {Primary} /\ win[Primary] = "there"
    BY <1>6 DEF HookInstalls
  <2>2. engine'.phase = "init"
    BY <1>1, <1>6 DEF HookInstalls, Engines
  <2>3. WindowTypes' /\ TableTypes' /\ SubclassInv'
    BY <1>1, <1>2, <2>1, WindowFacts DEF WindowTypes, TableTypes, SubclassInv, Exists
  <2>4. QED
    BY <1>3, <1>4, <1>5, <2>2, <2>3, NextTypes DEF TrackingInv, ClosingInv, DownInv
<1>7. CASE TE_CMD_SHUTDOWN \/ EnableAgain
  <2>1. subclassed' = subclassed
    BY <1>7 DEF TE_CMD_SHUTDOWN, EnableAgain
  <2>2. engine'.phase = "stopping"
    BY <1>1, <1>7 DEF TE_CMD_SHUTDOWN, EnableAgain, Engines
  <2>3. WindowTypes' /\ TableTypes' /\ SubclassInv'
    BY <1>1, <1>2, <2>1 DEF WindowTypes, TableTypes, SubclassInv, Exists
  <2>4. QED
    BY <1>3, <1>4, <1>5, <2>2, <2>3, NextTypes DEF TrackingInv, ClosingInv, DownInv
<1>8. CASE EndShutdown
  <2>1. /\ engine.phase = "closing" /\ subclassed' = subclassed \ ({Primary} \ {engine.keep})
        /\ engine' = [engine EXCEPT !.phase = "down", !.plugins = FALSE, !.keep = Nowhere]
    BY <1>8 DEF EndShutdown
  <2>2. engine'.phase = "down" /\ engine'.session = engine.session
    BY <1>1, <2>1 DEF Engines
  <2>3. /\ ~debounce /\ subclassed \subseteq {Primary} /\ Tracked \subseteq {engine.keep}
        /\ \/ engine.keep = Nowhere
           \/ engine.keep = Primary /\ (engine.session \/ win[Primary] = "dying")
    BY <1>1, <2>1 DEF ClosingInv
  <2>4. Tracked \subseteq subclassed' /\ subclassed' \subseteq subclassed
    BY <1>1, <2>1, <2>3, WindowFacts DEF TableTypes, WindowTypes, Windows
  <2>5. WindowTypes' /\ TableTypes' /\ SubclassInv'
    BY <1>1, <1>2, <2>4 DEF WindowTypes, TableTypes, SubclassInv, Exists
  <2>6. DownInv'
    <3>1. engine.keep = Nowhere => subclassed' = {}
      BY <2>1, <2>3, WindowFacts
    <3>2. QED
      BY <1>2, <2>2, <2>3, <2>4, <3>1 DEF DownInv
  <2>7. QED
    BY <1>3, <1>4, <1>5, <2>2, <2>5, <2>6, NextTypes DEF TrackingInv, ClosingInv
<1>9. QED
  BY <1>6, <1>7, <1>8

\* Where the engine, the windows and what is subclassed stay, and the table names the same
\* windows, only types are left to see to.
LEMMA Kept ==
  ASSUME TrackingInv, UNCHANGED <<win, subclassed, debounce, engine>>, Tracked' = Tracked,
         tracked' \in [Tracked -> Entry], timer' \subseteq Windows, MouseTypes',
         changes' \in 0 .. MaxChanges
  PROVE  TrackingInv'
<1>1. /\ TypeOK /\ SubclassInv /\ ClosingInv /\ DownInv
      /\ WindowTypes /\ TimerTypes /\ TableTypes /\ engine \in Engines
  BY Types DEF TrackingInv
<1>2. WindowTypes' /\ TimerTypes'
  BY <1>1 DEF WindowTypes, TimerTypes
<1>3. TableTypes' /\ SubclassInv'
  BY <1>1 DEF TableTypes, SubclassInv, Exists
<1>4. ClosingInv' /\ DownInv'
  BY <1>1 DEF ClosingInv, DownInv
<1>5. QED
  BY <1>1, <1>2, <1>3, <1>4, NextTypes DEF TrackingInv

LEMMA SessionEnds ==
  ASSUME TrackingInv, NEW w \in Windows, WM_ENDSESSION(w)
  PROVE  TrackingInv'
<1>1. /\ TypeOK /\ SubclassInv /\ ClosingInv /\ DownInv
      /\ WindowTypes /\ TimerTypes /\ TableTypes /\ MouseTypes
      /\ engine \in Engines /\ changes \in 0 .. MaxChanges
  BY Types DEF TrackingInv
<1>2. /\ Free /\ changes' \in 0 .. MaxChanges /\ UNCHANGED mouseVars /\ win' = win
  BY <1>1 DEF WM_ENDSESSION, Change
<1>3. CASE w = Primary /\ Initialized
  <2>1. BeginShutdown(Primary, TRUE)
    BY <1>3 DEF WM_ENDSESSION
  <2>2. QED
    BY <1>2, <2>1, BeginsShutdown
<1>4. CASE ~(w = Primary /\ Initialized)
  <2>1. /\ timer' = timer \ {w} /\ engine' = [engine EXCEPT !.session = TRUE]
        /\ UNCHANGED <<subclassed, tracked, debounce>>
    BY <1>4 DEF WM_ENDSESSION
  <2>2. engine' \in Engines
    BY <1>1, <2>1, EngineChanges DEF Engines
  <2>3. engine'.phase # "closing" /\ engine'.session
    BY <1>1, <1>2, <2>1 DEF Engines, Free
  <2>4. WindowTypes' /\ TimerTypes' /\ MouseTypes'
    BY <1>1, <1>2, <2>1 DEF WindowTypes, TimerTypes, MouseTypes, mouseVars
  <2>5. TableTypes' /\ SubclassInv'
    BY <1>1, <1>2, <2>1 DEF TableTypes, SubclassInv, Tracked, Exists
  <2>6. QED
    BY <1>2, <2>2, <2>3, <2>4, <2>5, NextTypes DEF TrackingInv, ClosingInv, DownInv
<1>5. QED
  BY <1>3, <1>4

\* A window that leaves the table leaves the rest of it as it is.
LEMMA WithoutShape ==
  ASSUME TypeOK, NEW w \in Windows, tracked' = Without({w})
  PROVE  /\ Tracked' = Tracked \ {w} /\ tracked' \in [Tracked' -> Entry]
         /\ Cardinality(Tracked') <= MaxTracked
<1>1. /\ Tracked \subseteq Windows /\ Cardinality(Tracked) <= MaxTracked
      /\ tracked \in [Tracked -> Entry]
  BY Types DEF TableTypes, WindowTypes
<1>2. Tracked' = Tracked \ {w}
  BY DEF Without, Tracked
<1>3. tracked' \in [Tracked \ {w} -> Entry]
  BY <1>1 DEF Without
<1>4. Cardinality(Tracked \ {w}) <= Cardinality(Tracked) /\ IsFiniteSet(Tracked)
  BY <1>1, WindowFacts, FS_Subset
<1>5. Cardinality(Tracked \ {w}) \in Nat /\ Cardinality(Tracked) \in Nat
  BY <1>4, FS_Subset, FS_CardinalityType
<1>6. QED
  BY <1>1, <1>2, <1>3, <1>4, <1>5

LEMMA Destroys ==
  ASSUME TrackingInv, NEW w \in Windows, WM_DESTROY(w)
  PROVE  TrackingInv'
<1>1. /\ TypeOK /\ SubclassInv /\ ClosingInv /\ DownInv
      /\ WindowTypes /\ TimerTypes /\ TableTypes /\ MouseTypes
      /\ engine \in Engines /\ changes \in 0 .. MaxChanges
  BY Types DEF TrackingInv
<1>2. /\ Free /\ changes' \in 0 .. MaxChanges /\ UNCHANGED mouseVars
      /\ win' = [win EXCEPT ![w] = "dying"] /\ win[w] = "there"
  BY <1>1 DEF WM_DESTROY, Change
<1>3. /\ win' \in [Windows -> WindowStates] /\ win'[w] = "dying"
      /\ \A v \in Windows : v # w => win'[v] = win[v]
      /\ \A v \in Windows : Exists(v)' <=> Exists(v)
  BY <1>1, <1>2 DEF WindowTypes, WindowStates, Exists
<1>4. CASE w \in subclassed /\ w = Primary /\ Initialized
  <2>1. BeginShutdown(Primary, FALSE)
    BY <1>4 DEF WM_DESTROY
  <2>2. QED
    BY <1>2, <1>4, <2>1, BeginsShutdown
<1>5. CASE ~(w \in subclassed /\ w = Primary /\ Initialized)
  <2>1. /\ UNCHANGED <<subclassed, debounce, engine>>
        /\ \/ w \notin subclassed /\ UNCHANGED <<tracked, timer>>
           \/ tracked' = Without({w}) /\ timer' = timer \ {w}
    BY <1>5 DEF WM_DESTROY
  <2>2. Tracked' = Tracked \ {w} /\ tracked' \in [Tracked' -> Entry]
        /\ Cardinality(Tracked') <= MaxTracked
    <3>1. CASE w \notin subclassed /\ UNCHANGED <<tracked, timer>>
      BY <1>1, <3>1 DEF TableTypes, Tracked
    <3>2. CASE tracked' = Without({w})
      BY <1>1, <3>2, WithoutShape
    <3>3. QED
      BY <2>1, <3>1, <3>2
  <2>3. WindowTypes' /\ TimerTypes' /\ MouseTypes'
    BY <1>1, <1>2, <1>3, <2>1 DEF WindowTypes, TimerTypes, MouseTypes, mouseVars
  <2>4. TableTypes'
    BY <1>1, <1>3, <2>1, <2>2 DEF TableTypes, WindowTypes
  <2>5. SubclassInv'
    BY <1>1, <1>3, <2>1, <2>2 DEF SubclassInv, WindowTypes
  <2>6. ClosingInv'
    BY <1>2, <2>1 DEF ClosingInv, Free
  <2>7. DownInv'
    BY <1>1, <1>2, <1>3, <2>1 DEF DownInv, WindowTypes, Free
  <2>8. QED
    BY <1>1, <1>2, <2>1, <2>3, <2>4, <2>5, <2>6, <2>7, NextTypes DEF TrackingInv
<1>6. QED
  BY <1>4, <1>5

LEMMA NcDestroys ==
  ASSUME TrackingInv, NEW w \in Windows, WM_NCDESTROY(w)
  PROVE  TrackingInv'
<1>1. /\ TypeOK /\ SubclassInv /\ ClosingInv /\ DownInv
      /\ WindowTypes /\ TimerTypes /\ TableTypes /\ MouseTypes
      /\ engine \in Engines /\ changes \in 0 .. MaxChanges
  BY Types DEF TrackingInv
<1>2. /\ win' = [win EXCEPT ![w] = "gone"] /\ engine.phase # "closing"
      /\ subclassed' = subclassed \ {w} /\ timer' = timer \ {w}
      /\ posted' = [posted EXCEPT ![w] = 0] /\ UNCHANGED <<debounce, told, changes>>
  BY DEF WM_NCDESTROY, Goes
<1>3. /\ win' \in [Windows -> WindowStates]
      /\ \A v \in Windows : v # w => win'[v] = win[v]
      /\ \A v \in Windows : v # w => (Exists(v)' <=> Exists(v))
  BY <1>1, <1>2 DEF WindowTypes, WindowStates, Exists
<1>4. /\ Tracked' = Tracked \ {w} /\ tracked' \in [Tracked' -> Entry]
      /\ Cardinality(Tracked') <= MaxTracked
  <2>1. CASE w \in subclassed
    BY <1>1, <2>1, WithoutShape DEF WM_NCDESTROY
  <2>2. CASE w \notin subclassed
    BY <1>1, <2>2 DEF WM_NCDESTROY, TableTypes, Tracked
  <2>3. QED
    BY <2>1, <2>2
<1>5. engine' \in Engines /\ engine'.session = engine.session
      /\ engine'.phase \in {engine.phase, "lost"} /\ engine'.found = engine.found
  <2>1. \/ engine' = engine
        \/ engine' = [engine EXCEPT !.phase = "lost"]
    BY DEF WM_NCDESTROY, Goes
  <2>2. "lost" \in Phases
    BY DEF Phases
  <2>3. [engine EXCEPT !.phase = "lost"] \in Engines
    BY <1>1, <2>2, EngineChanges
  <2>4. engine' \in Engines
    BY <1>1, <2>1, <2>3, Zenon
  <2>5. QED
    BY <1>1, <2>1, <2>4 DEF Engines
<1>6. cursor' \in Cursors
  <2>1. \/ cursor' = cursor
        \/ cursor' = [cursor EXCEPT !.on = Nowhere, !.new = FALSE]
    BY DEF WM_NCDESTROY, Goes
  <2>2. cursor \in Cursors
    BY <1>1 DEF MouseTypes
  <2>3. QED
    BY <2>1, <2>2, CursorChanges, WindowFacts
<1>7. posted' \in PlaceMaps
  BY <1>1, <1>2, WindowFacts DEF MouseTypes, PlaceMaps
<1>8. WindowTypes' /\ TimerTypes' /\ MouseTypes'
  BY <1>1, <1>2, <1>3, <1>6, <1>7 DEF WindowTypes, TimerTypes, MouseTypes
<1>9. TableTypes' /\ SubclassInv'
  BY <1>1, <1>2, <1>3, <1>4 DEF TableTypes, SubclassInv, WindowTypes
<1>10. ClosingInv' /\ DownInv'
  BY <1>1, <1>2, <1>3, <1>5 DEF ClosingInv, DownInv, WindowTypes
<1>11. QED
  BY <1>1, <1>2, <1>5, <1>8, <1>9, <1>10, NextTypes DEF TrackingInv

LEMMA Creates ==
  ASSUME TrackingInv, NEW w \in Windows, Create(w)
  PROVE  TrackingInv'
<1>1. /\ TypeOK /\ SubclassInv /\ ClosingInv /\ DownInv
      /\ WindowTypes /\ TimerTypes /\ TableTypes /\ MouseTypes
      /\ engine \in Engines /\ changes \in 0 .. MaxChanges
  BY Types DEF TrackingInv
<1>2. /\ win[w] = "gone" /\ win' = [win EXCEPT ![w] = "there"]
      /\ UNCHANGED <<subclassed, tracked, timer, debounce, engine, cursor, posted, told>>
      /\ changes' \in 0 .. MaxChanges /\ Tracked' = Tracked
  BY <1>1 DEF Create, Change, mouseVars, Tracked
<1>3. /\ win' \in [Windows -> WindowStates] /\ w \notin subclassed
      /\ \A v \in Windows : v # w => win'[v] = win[v]
  BY <1>1, <1>2 DEF WindowTypes, WindowStates, SubclassInv, Exists
<1>4. WindowTypes' /\ TimerTypes' /\ MouseTypes'
  BY <1>1, <1>2, <1>3 DEF WindowTypes, TimerTypes, MouseTypes
<1>5. TableTypes' /\ SubclassInv'
  BY <1>1, <1>2, <1>3 DEF TableTypes, SubclassInv, WindowTypes, Exists
<1>6. ClosingInv'
  BY <1>1, <1>2, <1>3, WindowFacts DEF ClosingInv, WindowTypes
<1>7. DownInv'
  BY <1>1, <1>2, <1>3 DEF DownInv, WindowTypes
<1>8. QED
  BY <1>1, <1>2, <1>4, <1>5, <1>6, <1>7, NextTypes DEF TrackingInv

----------------------------------------------------------------------------
(* The mouse. *)

LEMMA Moves ==
  ASSUME TrackingInv, NEW to \in Holders, CursorMoves(to)
  PROVE  TrackingInv'
<1>1. WindowTypes /\ TimerTypes /\ TableTypes /\ MouseTypes /\ changes \in 0 .. MaxChanges
  BY Types DEF TrackingInv
<1>2. /\ cursor' = [on |-> to, place |-> cursor.place + 1, new |-> to # Nowhere]
      /\ cursor.place < MaxMoves /\ UNCHANGED <<win, subclassed, debounce, engine>>
      /\ UNCHANGED <<tracked, timer, posted, told, changes>> /\ Tracked' = Tracked
  BY DEF CursorMoves, Tracked
<1>3. cursor.place + 1 \in Places
  BY <1>1, <1>2 DEF MouseTypes, Cursors, Places
<1>4. MouseTypes'
  BY <1>1, <1>2, <1>3 DEF MouseTypes, Cursors
<1>5. QED
  BY <1>1, <1>2, <1>4, Kept DEF TableTypes, TimerTypes

\* Starting a timer leaves the table one of the same windows.
LEMMA EnsureShape ==
  ASSUME TableTypes, NEW w, NEW guard, EnsureTimer(w, guard)
  PROVE  /\ Tracked' = Tracked /\ tracked' \in [Tracked -> Entry]
         /\ timer' \subseteq timer \cup Tracked
<1>1. tracked \in [Tracked -> Entry]
  BY DEF TableTypes
<1>2. CASE tracked' = tracked /\ timer' = timer
  BY <1>1, <1>2 DEF Tracked
<1>3. CASE w \in Tracked /\ tracked' = [tracked EXCEPT ![w].active = TRUE]
           /\ timer' = timer \cup {w}
  <2> DEFINE e == [tracked[w] EXCEPT !.active = TRUE]
  <2>1. e \in Entry
    BY <1>1, <1>3, WindowFacts, EntryChanges
  <2>2. tracked' = [tracked EXCEPT ![w] = e]
    BY <1>3
  <2> HIDE DEF e
  <2>3. tracked' \in [Tracked -> Entry]
    BY <1>1, <2>1, <2>2
  <2>4. QED
    BY <1>3, <2>2, <2>3 DEF Tracked
<1>4. QED
  BY <1>2, <1>3 DEF EnsureTimer

LEMMA MouseMoves ==
  ASSUME TrackingInv, WM_MOUSEMOVE
  PROVE  TrackingInv'
<1>1. WindowTypes /\ TimerTypes /\ TableTypes /\ MouseTypes /\ changes \in 0 .. MaxChanges
  BY Types DEF TrackingInv
<1>2. UNCHANGED <<win, subclassed, debounce, engine>> /\ UNCHANGED <<told, changes>>
  BY DEF WM_MOUSEMOVE
<1>3. /\ Tracked' = Tracked /\ tracked' \in [Tracked -> Entry]
      /\ timer' \subseteq timer \cup Tracked
  <2>1. PICK own \in BOOLEAN : EnsureTimer(cursor.on, own /\ cursor.on \in subclassed)
    BY DEF WM_MOUSEMOVE
  <2>2. QED
    BY <1>1, <2>1, EnsureShape
<1>4. timer' \subseteq Windows
  BY <1>1, <1>3 DEF TableTypes, WindowTypes, TimerTypes
<1>5. cursor \in Cursors /\ posted \in PlaceMaps /\ cursor.place \in Places
  BY <1>1 DEF MouseTypes, Cursors
<1>6. cursor' \in Cursors
  <2>1. cursor' = [cursor EXCEPT !.new = FALSE]
    BY DEF WM_MOUSEMOVE
  <2>2. QED
    BY <1>5, <2>1, CursorChanges, WindowFacts
<1>7. posted' \in PlaceMaps
  <2>1. posted' = posted \/ posted' = [posted EXCEPT ![cursor.on] = cursor.place]
    BY DEF WM_MOUSEMOVE
  <2>2. QED
    BY <1>5, <2>1 DEF PlaceMaps
<1>8. MouseTypes'
  BY <1>1, <1>2, <1>6, <1>7 DEF MouseTypes
<1>9. QED
  BY <1>1, <1>2, <1>3, <1>4, <1>8, Kept

LEMMA PostedMove ==
  ASSUME TrackingInv, NEW w \in Windows, WM_TE_TASKBAR_MOUSEMOVE(w)
  PROVE  TrackingInv'
<1>1. WindowTypes /\ TimerTypes /\ TableTypes /\ MouseTypes /\ changes \in 0 .. MaxChanges
  BY Types DEF TrackingInv
<1>2. /\ UNCHANGED <<win, subclassed, debounce, engine>> /\ UNCHANGED <<cursor, changes>>
      /\ posted' = [posted EXCEPT ![w] = 0]
  BY DEF WM_TE_TASKBAR_MOUSEMOVE
<1>3. posted' \in PlaceMaps /\ posted[w] \in Places
  BY <1>1, <1>2, WindowFacts DEF MouseTypes, PlaceMaps
<1>4. CASE EnsureTimer(w, TRUE) /\ Fires(w, TRUE, posted[w])
  <2>1. /\ Tracked' = Tracked /\ tracked' \in [Tracked -> Entry]
        /\ timer' \subseteq timer \cup Tracked
    BY <1>1, <1>4, EnsureShape
  <2>2. told' \in Tellings
    BY <1>1, <1>3, <1>4, FiresType
  <2>3. timer' \subseteq Windows /\ MouseTypes'
    BY <1>1, <1>2, <1>3, <2>1, <2>2 DEF TableTypes, WindowTypes, TimerTypes, MouseTypes
  <2>4. QED
    BY <1>1, <1>2, <2>1, <2>3, Kept
<1>5. CASE UNCHANGED <<tracked, timer, told>>
  <2>1. MouseTypes' /\ Tracked' = Tracked
    BY <1>1, <1>2, <1>3, <1>5 DEF MouseTypes, Tracked
  <2>2. QED
    BY <1>1, <1>2, <1>5, <2>1, Kept DEF TableTypes, TimerTypes
<1>6. QED
  BY <1>4, <1>5 DEF WM_TE_TASKBAR_MOUSEMOVE

LEMMA Ticks ==
  ASSUME TrackingInv, NEW w \in Windows, WM_TIMER(w)
  PROVE  TrackingInv'
<1>1. WindowTypes /\ TimerTypes /\ TableTypes /\ MouseTypes /\ changes \in 0 .. MaxChanges
  BY Types DEF TrackingInv
<1> DEFINE in == cursor.on = w
           seen == w \in Tracked
           stopped == [tracked[w] EXCEPT !.active = FALSE]
           noted == [tracked[w] EXCEPT !.last = cursor.place, !.was = in]
<1>2. UNCHANGED <<win, subclassed, debounce, engine>> /\ UNCHANGED <<cursor, posted, changes>>
  BY DEF WM_TIMER
<1>3. in \in BOOLEAN /\ cursor.place \in Places /\ tracked \in [Tracked -> Entry]
  BY <1>1 DEF MouseTypes, Cursors, TableTypes
<1>4. timer' \subseteq Windows
  <2>1. timer' = timer \/ timer' = timer \ {w}
    BY DEF WM_TIMER
  <2>2. QED
    BY <1>1, <2>1 DEF TimerTypes
<1>5. told' \in Tellings
  <2>1. told' = told \/ Fires(w, in, cursor.place) \/ Fires(w, FALSE, cursor.place)
    BY DEF WM_TIMER
  <2> HIDE DEF in
  <2>2. CASE told' = told
    BY <1>1, <2>2 DEF MouseTypes
  <2>3. CASE Fires(w, in, cursor.place)
    BY <1>1, <1>3, <2>3, FiresType
  <2>4. CASE Fires(w, FALSE, cursor.place)
    BY <1>1, <1>3, <2>4, FiresType
  <2>5. QED
    BY <2>1, <2>2, <2>3, <2>4
<1>6. Tracked' = Tracked /\ tracked' \in [Tracked -> Entry]
  <2>1. \/ tracked' = tracked
        \/ seen /\ tracked' = [tracked EXCEPT ![w] = stopped]
        \/ seen /\ tracked' = [tracked EXCEPT ![w] = noted]
    BY DEF WM_TIMER
  <2>2. seen => stopped \in Entry /\ noted \in Entry
    <3> HIDE DEF in
    <3>1. seen => tracked[w] \in Entry
      BY <1>3
    <3>2. QED
      BY <1>3, <3>1, EntryChanges
  <2> HIDE DEF stopped, noted
  <2>3. QED
    BY <1>3, <2>1, <2>2 DEF Tracked
<1>7. MouseTypes'
  BY <1>1, <1>2, <1>5 DEF MouseTypes
<1>8. QED
  BY <1>1, <1>2, <1>4, <1>6, <1>7, Kept

----------------------------------------------------------------------------
(* The specification. *)

LEMMA NextInv ==
  ASSUME ~Nested, TrackingInv, [Next]_vars
  PROVE  TrackingInv'
<1>1. CASE \/ WM_TE_INIT \/ WM_DISPLAYCHANGE \/ WM_DEVICECHANGE
           \/ DisplayChangeDebounceProc
  BY <1>1, Finds
<1>2. CASE HookInstalls \/ TE_CMD_SHUTDOWN \/ EnableAgain \/ EndShutdown
  BY <1>2, EngineGoesOn
<1>3. CASE WM_TE_SHUTDOWN_FINALIZE
  <2>1. Free /\ BeginShutdown(Nowhere, FALSE) /\ win' = win /\ UNCHANGED mouseVars
        /\ changes' = changes
    BY <1>3 DEF WM_TE_SHUTDOWN_FINALIZE
  <2>2. changes' \in 0 .. MaxChanges
    BY <2>1, Types DEF TrackingInv
  <2>3. QED
    BY <2>1, <2>2, BeginsShutdown, WindowFacts
<1>4. CASE WM_MOUSEMOVE
  BY <1>4, MouseMoves
<1>5. CASE CursorMoves(Nowhere)
  BY <1>5, Moves, WindowFacts
<1>6. ASSUME NEW w \in Windows,
             \/ WM_ENDSESSION(w) \/ Create(w) \/ WM_DESTROY(w) \/ CursorMoves(w) \/ UiThread(w)
      PROVE  TrackingInv'
  <2>1. w \in Holders
    BY WindowFacts
  <2>2. QED
    BY <1>6, <2>1, SessionEnds, Creates, Destroys, Moves, Ticks, PostedMove, NcDestroys
       DEF UiThread
<1>7. CASE UNCHANGED vars
  <2>1. WindowTypes /\ TimerTypes /\ TableTypes /\ MouseTypes /\ changes \in 0 .. MaxChanges
    BY Types DEF TrackingInv
  <2>2. /\ UNCHANGED <<win, subclassed, debounce, engine>> /\ Tracked' = Tracked
        /\ UNCHANGED <<tracked, timer, cursor, posted, told, changes>>
    BY <1>7 DEF vars, Tracked
  <2>3. QED
    BY <2>1, <2>2, Kept DEF TableTypes, TimerTypes, MouseTypes
<1>8. QED
  BY <1>1, <1>2, <1>3, <1>4, <1>5, <1>6, <1>7 DEF Next

\* What the table, the subclassed windows and the phases of a teardown have to do with each
\* other, as long as plugins are disabled without a sent message getting in.
THEOREM TrackingConsistent == ASSUME ~Nested PROVE Spec => []TrackingInv
<1>1. TrackingInv /\ [Next]_vars => TrackingInv'
  BY NextInv
<1>2. QED
  BY <1>1, InitInv, PTL DEF Spec

\* The table never names a window that is gone or is not the engine's (TE_TaskbarTrackAll
\* sweeps it, WM_DESTROY and WM_NCDESTROY take the window out), nor more than it holds.
THEOREM TypeCorrect == ASSUME ~Nested PROVE Spec => []TypeOK
<1>1. TrackingInv => TypeOK
  BY DEF TrackingInv
<1>2. QED
  BY <1>1, TrackingConsistent, PTL

\* However many taskbars there are, and whichever of them the table had room for: an engine
\* that is down left none of them subclassed, nor the debounce timer set.
THEOREM NothingLeft == ASSUME ~Nested PROVE Spec => []NothingLeftWhenDown
<1>1. TrackingInv => NothingLeftWhenDown
  BY DEF TrackingInv, DownInv, NothingLeftWhenDown
<1>2. QED
  BY <1>1, TrackingConsistent, PTL
=============================================================================
