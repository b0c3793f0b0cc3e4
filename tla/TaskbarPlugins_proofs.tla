----------------------- MODULE TaskbarPlugins_proofs -----------------------
(***************************************************************************)
(* Proofs about TaskbarPlugins: its type invariant, and that the accents   *)
(* and the sizes follow the settings, for every set of taskbars.  The      *)
(* operators of the two plugins are described one by one - what state a    *)
(* call returns - and the invariant is a predicate of such a state.        *)
(***************************************************************************)
EXTENDS TaskbarPlugins, TLAPS

-----------------------------------------------------------------------------
(* The states the handlers work on. *)

Bars == [Windows -> Heights]
Policies == {"native"} \cup Modes
Accents == [Windows -> Policies]
Settings == [enabled: BOOLEAN, secondary: BOOLEAN, mode: Modes]
Desks == [up: BOOLEAN, res: 1 .. 2, dpi: 1 .. 2, attached: SUBSET Secondaries,
          alive: SUBSET Secondaries, bar: Bars, content: Bars, area: Areas, accent: Accents]
Resizes == [subclassed: BOOLEAN, height: Heights, saved: {NoArea} \cup Areas]
Transes == [on: BOOLEAN, set: Settings, tracked: SUBSET Windows, policy: Policies,
            timer: BOOLEAN, active: BOOLEAN]
Pubs == {"none"} \cup Heights
Pasts == [narrowed: BOOLEAN, late: SUBSET Secondaries, misread: BOOLEAN,
          moved: BOOLEAN, stale: BOOLEAN, unheard: SUBSET Plugins]
States == [desk: Desks, resize: Resizes, trans: Transes, published: Pubs, past: Pasts]
Configs == [file: Files, root: Files, todo: SUBSET Plugins]
Counts == [edits: 0 .. MaxEdits, events: 0 .. MaxEvents]

-----------------------------------------------------------------------------
(* The inductive invariant. *)

\* What taskbar_resize keeps: the area it saved is the one a native bar of this resolution
\* and DPI leaves, and what it shows is its height, or native once it is off.
Restorable(s) ==
  \/ s.past.stale
  \/ s.resize.saved = NoArea /\ s.desk.area = AreaFor(s, "native")
  \/ s.resize.saved = AreaFor(s, "native")

SizesOn(s) ==
  /\ s.desk.bar[Primary] = s.resize.height /\ s.published = s.resize.height
  /\ s.past.moved \/
     /\ s.desk.area = AreaFor(s, s.resize.height)
     /\ \A w \in Shown(s) :
           s.desk.bar[w] = s.resize.height /\ s.desk.content[w] = s.resize.height

SizesOff(s) ==
  /\ \A w \in Shown(s) : s.desk.bar[w] = "native" /\ s.desk.content[w] = "native"
  /\ s.published # "compact"
  /\ s.resize.saved = NoArea

SizesInv(s) ==
  /\ Restorable(s)
  /\ s.resize.subclassed => s.past.misread \/ SizesOn(s)
  /\ ~s.resize.subclassed => SizesOff(s)

\* What taskbar_transparency keeps: the taskbars it tracks are those with a policy.
Covered(s) ==
  \A w \in Shown(s) \ s.past.late :
     w = Primary \/ s.trans.set.secondary => s.desk.accent[w] = ComputeAccentPolicy(s.trans.set)

NativeBut(s, tracked) == \A w \in Shown(s) \ tracked : s.desk.accent[w] = "native"

AccentsInv(s) ==
  /\ s.trans.timer => s.trans.on /\ s.trans.active
  /\ s.trans.on /\ s.trans.active => s.trans.policy = ComputeAccentPolicy(s.trans.set)
  /\ s.trans.on => /\ s.trans.timer \/ Covered(s)
                   /\ s.past.narrowed \/ NativeBut(s, s.trans.tracked)
                   /\ s.trans.set.secondary \/ s.trans.tracked \subseteq {Primary}
  /\ ~s.trans.on => s.past.narrowed \/ NativeBut(s, {})

\* A plugin that is on runs in a taskbar that is up, and its settings are those of its section.
HeardInv(s, c) ==
  /\ s.resize.subclassed \/ s.trans.on \/ c.todo # {} => s.desk.up
  /\ s.desk.up => \/ "trans" \in c.todo \/ "trans" \in s.past.unheard
                  \/ c.root["trans"] \in {Missing, s.trans.set}

IInv == /\ Now \in States /\ config \in Configs /\ count \in Counts
        /\ SizesInv(Now) /\ AccentsInv(Now) /\ HeardInv(Now, config)

\* What one plugin leaves alone of the other's.
SizesAlike(s, u) ==
  /\ u.desk.res = s.desk.res /\ u.desk.dpi = s.desk.dpi /\ u.desk.alive = s.desk.alive
  /\ u.desk.bar = s.desk.bar /\ u.desk.content = s.desk.content /\ u.desk.area = s.desk.area
  /\ u.resize = s.resize /\ u.published = s.published
  /\ u.past.misread = s.past.misread /\ u.past.moved = s.past.moved
  /\ u.past.stale = s.past.stale

AccentsAlike(s, u) ==
  /\ u.desk.alive = s.desk.alive /\ u.desk.accent = s.desk.accent /\ u.trans = s.trans
  /\ u.past.narrowed = s.past.narrowed /\ u.past.late = s.past.late

Kept(s, u) == u.desk.up = s.desk.up /\ u.past.unheard = s.past.unheard

LEMMA SizesKept ==
    ASSUME NEW s, NEW u, SizesInv(s), SizesAlike(s, u)
    PROVE  SizesInv(u)
<1>1. Shown(u) = Shown(s) /\ \A h : AreaFor(u, h) = AreaFor(s, h)
    BY DEF SizesAlike, Shown, AreaFor
<1>2. Restorable(u)
    BY <1>1 DEF SizesInv, Restorable, SizesAlike
<1>3. SizesOn(s) => SizesOn(u)
    BY <1>1 DEF SizesOn, SizesAlike
<1>4. SizesOff(s) => SizesOff(u)
    BY <1>1 DEF SizesOff, SizesAlike
<1>5. QED
    BY <1>2, <1>3, <1>4 DEF SizesInv, SizesAlike

LEMMA AccentsKept ==
    ASSUME NEW s, NEW u, AccentsInv(s), u.desk.alive \subseteq s.desk.alive,
           u.desk.accent = s.desk.accent, u.trans = s.trans,
           u.past.narrowed = s.past.narrowed, u.past.late = s.past.late
    PROVE  AccentsInv(u)
<1>1. Shown(u) \subseteq Shown(s)
    BY DEF Shown
<1>2. /\ Covered(s) => Covered(u)
      /\ \A tracked : NativeBut(s, tracked) => NativeBut(u, tracked)
    BY <1>1 DEF Covered, NativeBut
<1>3. QED
    BY <1>2 DEF AccentsInv

LEMMA Parts ==
    ASSUME NEW s \in States
    PROVE  /\ s.desk \in Desks /\ s.resize \in Resizes /\ s.trans \in Transes
           /\ s.published \in Pubs /\ s.past \in Pasts
BY DEF States

LEMMA DeskParts ==
    ASSUME NEW d \in Desks
    PROVE  /\ d.up \in BOOLEAN /\ d.res \in 1 .. 2 /\ d.dpi \in 1 .. 2
           /\ d.attached \in SUBSET Secondaries /\ d.alive \in SUBSET Secondaries
           /\ d.bar \in Bars /\ d.content \in Bars /\ d.area \in Areas /\ d.accent \in Accents
BY DEF Desks

LEMMA ResizeParts ==
    ASSUME NEW r \in Resizes
    PROVE  /\ r.subclassed \in BOOLEAN /\ r.height \in Heights
           /\ r.saved \in {NoArea} \cup Areas
BY DEF Resizes

LEMMA TransParts ==
    ASSUME NEW t \in Transes
    PROVE  /\ t.on \in BOOLEAN /\ t.set \in Settings /\ t.tracked \in SUBSET Windows
           /\ t.policy \in Policies /\ t.timer \in BOOLEAN /\ t.active \in BOOLEAN
BY DEF Transes

LEMMA OverBars ==
    ASSUME NEW ws, NEW f \in Bars, NEW v \in Heights
    PROVE  /\ Over(ws, f, v) \in Bars
           /\ \A w \in Windows : Over(ws, f, v)[w] = IF w \in ws THEN v ELSE f[w]
BY DEF Over, Bars

LEMMA OverAccents ==
    ASSUME NEW ws, NEW f \in Accents, NEW v \in Policies
    PROVE  /\ Over(ws, f, v) \in Accents
           /\ \A w \in Windows : Over(ws, f, v)[w] = IF w \in ws THEN v ELSE f[w]
BY DEF Over, Accents

LEMMA ShownAreWindows ==
    ASSUME NEW s \in States
    PROVE  Shown(s) \subseteq Windows /\ Primary \in Shown(s) /\ s.desk.alive \subseteq Shown(s)
BY Parts, DeskParts DEF Shown, Windows

LEMMA AreaForIsArea ==
    ASSUME NEW s \in States, NEW h \in Heights
    PROVE  AreaFor(s, h) \in Areas
<1>1. s.desk.res \in 1 .. 2 /\ s.desk.dpi \in 1 .. 2
    BY Parts, DeskParts
<1>2. QED
    BY <1>1 DEF AreaFor, Areas

-----------------------------------------------------------------------------
(* taskbar_resize.c *)

LEMMA ApplyType ==
    ASSUME NEW s \in States
    PROVE  ApplyTaskbarSize(s) \in States
<1> DEFINE h == s.resize.height
           bars == Over(Shown(s), s.desk.bar, h)
           contents == Over(Shown(s), s.desk.content, h)
           area == AreaFor(s, h)
           saved == IF s.resize.saved = NoArea THEN s.desk.area ELSE s.resize.saved
<1>1. h \in Heights /\ s.desk \in Desks /\ s.resize \in Resizes /\ s.past \in Pasts
    BY Parts, ResizeParts
<1>2. s.desk.bar \in Bars /\ s.desk.content \in Bars
    BY <1>1, DeskParts
<1>3. bars \in Bars /\ contents \in Bars /\ area \in Areas
  <2> HIDE DEF h
  <2>1. QED
    BY <1>1, <1>2, OverBars, AreaForIsArea
<1>4. saved \in {NoArea} \cup Areas
    BY <1>1, DeskParts, ResizeParts
<1> HIDE DEF h, bars, contents, area, saved
<1>5. [s.desk EXCEPT !.bar = bars, !.content = contents, !.area = area] \in Desks
    BY <1>1, <1>3 DEF Desks
<1>6. [s.resize EXCEPT !.saved = saved] \in Resizes
    BY <1>1, <1>4 DEF Resizes
<1>7. [s.past EXCEPT !.moved = FALSE] \in Pasts
    BY <1>1 DEF Pasts
<1>8. [s EXCEPT !.desk.bar = bars, !.desk.content = contents, !.resize.saved = saved,
                !.desk.area = area, !.past.moved = FALSE] \in States
    BY <1>1, <1>5, <1>6, <1>7 DEF States
<1>9. QED
    BY <1>8 DEF ApplyTaskbarSize, h, bars, contents, area, saved

\* Every bar shown has the height, and the area is the one it leaves.
LEMMA Applied ==
    ASSUME NEW s \in States
    PROVE  LET u == ApplyTaskbarSize(s)
               h == s.resize.height
           IN  /\ u \in States /\ AccentsAlike(s, u) /\ Kept(s, u)
               /\ u.desk.res = s.desk.res /\ u.desk.dpi = s.desk.dpi
               /\ \A w \in Shown(s) : u.desk.bar[w] = h /\ u.desk.content[w] = h
               /\ u.desk.area = AreaFor(s, h)
               /\ u.resize.subclassed = s.resize.subclassed /\ u.resize.height = h
               /\ u.resize.saved = IF s.resize.saved = NoArea THEN s.desk.area ELSE s.resize.saved
               /\ u.published = s.published
               /\ u.past.misread = s.past.misread /\ u.past.stale = s.past.stale
               /\ ~u.past.moved
<1> DEFINE h == s.resize.height
           u == ApplyTaskbarSize(s)
           d == [s.desk EXCEPT !.bar = Over(Shown(s), @, h), !.content = Over(Shown(s), @, h),
                               !.area = AreaFor(s, h)]
<1>1. /\ u.desk = d
      /\ u.resize = [s.resize EXCEPT !.saved = IF @ = NoArea THEN s.desk.area ELSE @]
      /\ u.past = [s.past EXCEPT !.moved = FALSE]
      /\ u.trans = s.trans /\ u.published = s.published
    BY DEF ApplyTaskbarSize, States
<1>2. s.desk \in Desks /\ s.resize \in Resizes /\ s.past \in Pasts /\ h \in Heights
      /\ s.desk.bar \in Bars /\ s.desk.content \in Bars
    BY Parts, ResizeParts, DeskParts
<1>3. /\ d.up = s.desk.up /\ d.res = s.desk.res /\ d.dpi = s.desk.dpi
      /\ d.alive = s.desk.alive /\ d.accent = s.desk.accent
      /\ d.bar = Over(Shown(s), s.desk.bar, h)
      /\ d.content = Over(Shown(s), s.desk.content, h) /\ d.area = AreaFor(s, h)
    BY <1>2 DEF Desks
<1>4. /\ u.resize.subclassed = s.resize.subclassed /\ u.resize.height = h
      /\ u.resize.saved = IF s.resize.saved = NoArea THEN s.desk.area ELSE s.resize.saved
    BY <1>1, <1>2 DEF Resizes
<1>5. /\ u.past.misread = s.past.misread /\ u.past.stale = s.past.stale /\ ~u.past.moved
      /\ u.past.narrowed = s.past.narrowed /\ u.past.late = s.past.late
      /\ u.past.unheard = s.past.unheard
    BY <1>1, <1>2 DEF Pasts
<1> HIDE DEF h, u, d
<1>6. \A w \in Shown(s) : d.bar[w] = h /\ d.content[w] = h
    BY <1>2, <1>3, OverBars, ShownAreWindows
<1>7. AccentsAlike(s, u) /\ Kept(s, u)
    BY <1>1, <1>3, <1>5 DEF AccentsAlike, Kept
<1>8. u \in States
    BY ApplyType DEF u
<1>9. QED
    BY <1>1, <1>3, <1>4, <1>5, <1>6, <1>7, <1>8 DEF h, u

LEMMA RestoreType ==
    ASSUME NEW s \in States
    PROVE  RestoreTaskbarSize(s) \in States
<1> DEFINE h == s.resize.height
           bars == Over(Shown(s), s.desk.bar, "native")
           bar == IF s.resize.subclassed THEN [bars EXCEPT ![Primary] = h] ELSE bars
           contents == Over(Shown(s), s.desk.content, "native")
           area == RestoredArea(s)
<1>1. h \in Heights /\ s.desk \in Desks /\ s.resize \in Resizes /\ "native" \in Heights
    BY Parts, ResizeParts DEF Heights
<1>2. s.desk.bar \in Bars /\ s.desk.content \in Bars /\ s.resize.saved \in {NoArea} \cup Areas
    BY <1>1, DeskParts, ResizeParts
<1>3. bars \in Bars /\ contents \in Bars
  <2>1. \A ws, f, v : f \in Bars /\ v \in Heights => Over(ws, f, v) \in Bars
    BY OverBars
  <2>2. QED
    BY <1>1, <1>2, <2>1
<1>4. bar \in Bars
    BY <1>1, <1>3 DEF Bars
<1>5. area \in Areas
    BY <1>1, <1>2, AreaForIsArea DEF RestoredArea
<1> HIDE DEF h, bars, bar, contents, area
<1>6. [s.desk EXCEPT !.bar = bar, !.content = contents, !.area = area] \in Desks
    BY <1>1, <1>3, <1>4, <1>5 DEF Desks
<1>7. [s.resize EXCEPT !.saved = NoArea] \in Resizes
    BY <1>1 DEF Resizes
<1>8. [s EXCEPT !.desk.bar = bar, !.desk.content = contents, !.desk.area = area,
                !.resize.saved = NoArea] \in States
    BY <1>6, <1>7 DEF States
<1>9. QED
    BY <1>8 DEF RestoreTaskbarSize, h, bars, bar, contents, area

\* Every bar shown is native and the area the restored one; the subclass only keeps the
\* height of the primary bar.
LEMMA Restored ==
    ASSUME NEW s \in States
    PROVE  LET u == RestoreTaskbarSize(s)
           IN  /\ u \in States /\ AccentsAlike(s, u) /\ Kept(s, u)
               /\ u.desk.res = s.desk.res /\ u.desk.dpi = s.desk.dpi
               /\ \A w \in Shown(s) : /\ u.desk.content[w] = "native"
                                      /\ ~s.resize.subclassed => u.desk.bar[w] = "native"
               /\ u.desk.area = RestoredArea(s)
               /\ u.resize.subclassed = s.resize.subclassed
               /\ u.resize.height = s.resize.height /\ u.resize.saved = NoArea
               /\ u.published = s.published /\ u.past = s.past
<1> DEFINE u == RestoreTaskbarSize(s)
           bars == Over(Shown(s), s.desk.bar, "native")
           bar == IF s.resize.subclassed THEN [bars EXCEPT ![Primary] = s.resize.height]
                  ELSE bars
           contents == Over(Shown(s), s.desk.content, "native")
           d == [s.desk EXCEPT !.bar = bar, !.content = contents, !.area = RestoredArea(s)]
<1>1. /\ u.desk = d /\ u.resize = [s.resize EXCEPT !.saved = NoArea]
      /\ u.past = s.past /\ u.trans = s.trans /\ u.published = s.published
    BY DEF RestoreTaskbarSize, States
<1>2. s.desk \in Desks /\ s.resize \in Resizes /\ "native" \in Heights
      /\ s.desk.bar \in Bars /\ s.desk.content \in Bars
    BY Parts, DeskParts DEF Heights
<1>3. /\ d.up = s.desk.up /\ d.res = s.desk.res /\ d.dpi = s.desk.dpi
      /\ d.alive = s.desk.alive /\ d.accent = s.desk.accent
      /\ d.bar = bar /\ d.content = contents /\ d.area = RestoredArea(s)
    BY <1>2 DEF Desks
<1>4. /\ u.resize.subclassed = s.resize.subclassed /\ u.resize.height = s.resize.height
      /\ u.resize.saved = NoArea
    BY <1>1, <1>2 DEF Resizes
<1>5. \A w \in Shown(s) : bars[w] = "native" /\ contents[w] = "native"
    BY <1>2, OverBars, ShownAreWindows
<1>6. \A w \in Shown(s) : /\ contents[w] = "native"
                          /\ ~s.resize.subclassed => bar[w] = "native"
    BY <1>5
<1> HIDE DEF u, d, bars, bar, contents
<1>7. AccentsAlike(s, u) /\ Kept(s, u)
    BY <1>1, <1>3 DEF AccentsAlike, Kept
<1>8. u \in States
    BY RestoreType DEF u
<1>9. QED
    BY <1>1, <1>3, <1>4, <1>6, <1>7, <1>8 DEF u

LEMMA Published ==
    ASSUME NEW s \in States, NEW h \in Heights
    PROVE  LET u == Publish(s, h)
           IN  /\ u \in States /\ AccentsAlike(s, u) /\ Kept(s, u)
               /\ u.desk = s.desk /\ u.resize = s.resize /\ u.published = h
               /\ ~u.past.misread /\ u.past.moved = s.past.moved /\ u.past.stale = s.past.stale
<1> DEFINE u == Publish(s, h)
           q == [s.past EXCEPT !.misread = FALSE]
<1>1. /\ u.desk = s.desk /\ u.resize = s.resize /\ u.trans = s.trans
      /\ u.published = h /\ u.past = q
    BY DEF Publish, States
<1>2. s.past \in Pasts /\ h \in Pubs
    BY Parts DEF Pubs
<1>3. q \in Pasts
    BY <1>2 DEF Pasts
<1>4. /\ ~q.misread /\ q.moved = s.past.moved /\ q.stale = s.past.stale
      /\ q.narrowed = s.past.narrowed /\ q.late = s.past.late /\ q.unheard = s.past.unheard
    BY <1>2 DEF Pasts
<1> HIDE DEF q
<1>5. [s EXCEPT !.published = h, !.past = q] \in States
    BY <1>2, <1>3 DEF States
<1>6. u = [s EXCEPT !.published = h, !.past = q]
    BY DEF Publish, q
<1> HIDE DEF u
<1>7. AccentsAlike(s, u) /\ Kept(s, u)
    BY <1>1, <1>4 DEF AccentsAlike, Kept
<1>8. QED
    BY <1>1, <1>4, <1>5, <1>6, <1>7 DEF u

\* The flag or the height is set before the size is applied or restored.
LEMMA ResizeSet ==
    ASSUME NEW s \in States, NEW x \in Resizes
    PROVE  LET u == [s EXCEPT !.resize = x]
           IN  /\ u \in States /\ AccentsAlike(s, u) /\ Kept(s, u) /\ u.resize = x
               /\ u.desk = s.desk /\ u.published = s.published /\ u.past = s.past
BY DEF States, AccentsAlike, Kept

LEMMA SubclassSet ==
    ASSUME NEW s \in States, NEW b \in BOOLEAN
    PROVE  LET u == [s EXCEPT !.resize.subclassed = b]
           IN  /\ u \in States /\ AccentsAlike(s, u) /\ Kept(s, u)
               /\ u.desk = s.desk /\ u.published = s.published /\ u.past = s.past
               /\ u.resize.subclassed = b /\ u.resize.height = s.resize.height
               /\ u.resize.saved = s.resize.saved
<1> DEFINE r == [s.resize EXCEPT !.subclassed = b]
<1>1. s.resize \in Resizes
    BY Parts
<1>2. /\ r \in Resizes /\ r.subclassed = b /\ r.height = s.resize.height
      /\ r.saved = s.resize.saved
    BY <1>1 DEF Resizes
<1> HIDE DEF r
<1>3. QED
    BY <1>2, ResizeSet DEF r

LEMMA HeightSet ==
    ASSUME NEW s \in States, NEW h \in Heights
    PROVE  LET u == [s EXCEPT !.resize.height = h]
           IN  /\ u \in States /\ AccentsAlike(s, u) /\ Kept(s, u)
               /\ u.desk = s.desk /\ u.published = s.published /\ u.past = s.past
               /\ u.resize.subclassed = s.resize.subclassed /\ u.resize.height = h
               /\ u.resize.saved = s.resize.saved
<1> DEFINE r == [s.resize EXCEPT !.height = h]
<1>1. s.resize \in Resizes
    BY Parts
<1>2. /\ r \in Resizes /\ r.subclassed = s.resize.subclassed /\ r.height = h
      /\ r.saved = s.resize.saved
    BY <1>1 DEF Resizes
<1> HIDE DEF r
<1>3. QED
    BY <1>2, ResizeSet DEF r

\* What every call into taskbar_resize keeps.
Resized(s, u) == /\ u \in States /\ AccentsAlike(s, u) /\ Kept(s, u)
                 /\ SizesInv(u)

LEMMA AlikeTwice ==
    ASSUME NEW s, NEW t, NEW u
    PROVE  /\ AccentsAlike(s, t) /\ AccentsAlike(t, u) => AccentsAlike(s, u)
           /\ SizesAlike(s, t) /\ SizesAlike(t, u) => SizesAlike(s, u)
           /\ Kept(s, t) /\ Kept(t, u) => Kept(s, u)
           /\ AccentsAlike(s, s) /\ SizesAlike(s, s) /\ Kept(s, s)
BY DEF AccentsAlike, SizesAlike, Kept

\* Applying saves the native area or keeps the one that is saved.
LEMMA AppliedRestorable ==
    ASSUME NEW s \in States, NEW u \in States, Restorable(s),
           u.desk.res = s.desk.res, u.desk.dpi = s.desk.dpi, u.past.stale = s.past.stale,
           u.resize.saved = IF s.resize.saved = NoArea THEN s.desk.area ELSE s.resize.saved
    PROVE  Restorable(u)
<1>1. AreaFor(u, "native") = AreaFor(s, "native")
    BY DEF AreaFor
<1>2. AreaFor(s, "native") # NoArea
    BY DEF AreaFor, NoArea
<1>3. QED
    BY <1>1, <1>2 DEF Restorable

LEMMA RestoredRestorable ==
    ASSUME NEW s \in States, NEW u \in States, Restorable(s),
           u.desk.res = s.desk.res, u.desk.dpi = s.desk.dpi, u.past.stale = s.past.stale,
           u.resize.saved = NoArea, u.desk.area = RestoredArea(s)
    PROVE  Restorable(u)
<1>1. AreaFor(u, "native") = AreaFor(s, "native")
    BY DEF AreaFor
<1>2. QED
    BY <1>1 DEF Restorable, RestoredArea

\* After Apply and Publish, taskbar_resize shows its height.
LEMMA AppliedIsOn ==
    ASSUME NEW s \in States, Restorable(s), s.resize.subclassed
    PROVE  LET u == Publish(ApplyTaskbarSize(s), s.resize.height)
           IN  /\ u \in States /\ AccentsAlike(s, u) /\ Kept(s, u)
               /\ SizesInv(u) /\ u.resize.subclassed
<1> DEFINE t == ApplyTaskbarSize(s)
           h == s.resize.height
           u == Publish(t, h)
<1>1. h \in Heights
    BY Parts, ResizeParts
<1>2. /\ t \in States /\ AccentsAlike(s, t) /\ Kept(s, t)
      /\ t.desk.res = s.desk.res /\ t.desk.dpi = s.desk.dpi
      /\ \A w \in Shown(s) : t.desk.bar[w] = h /\ t.desk.content[w] = h
      /\ t.desk.area = AreaFor(s, h)
      /\ t.resize.subclassed /\ t.resize.height = h
      /\ t.resize.saved = IF s.resize.saved = NoArea THEN s.desk.area ELSE s.resize.saved
      /\ t.past.stale = s.past.stale
    BY Applied
<1> HIDE DEF t, h
<1>3. /\ u \in States /\ AccentsAlike(t, u) /\ Kept(t, u)
      /\ u.desk = t.desk /\ u.resize = t.resize /\ u.published = h
      /\ u.past.stale = t.past.stale
    BY <1>1, <1>2, Published
<1> HIDE DEF u
<1>4. Restorable(u)
    BY <1>2, <1>3, AppliedRestorable
<1>5. AreaFor(u, h) = AreaFor(s, h)
    BY <1>2, <1>3 DEF AreaFor
<1>6. \A w \in Shown(s) : u.desk.bar[w] = h /\ u.desk.content[w] = h
    BY <1>2, <1>3
<1>7. Primary \in Shown(s) /\ Shown(u) = Shown(s)
    BY <1>2, <1>3, ShownAreWindows DEF AccentsAlike, Shown
<1>8. SizesOn(u)
    BY <1>2, <1>3, <1>5, <1>6, <1>7 DEF SizesOn
<1>9. SizesInv(u) /\ u.resize.subclassed
    BY <1>2, <1>3, <1>4, <1>8 DEF SizesInv
<1>10. QED
    BY <1>2, <1>3, <1>9, AlikeTwice DEF u, t, h

\* After Restore and Publish without the subclass everything is native; under the subclass
\* only the work area is sure.
LEMMA RestoredIsOff ==
    ASSUME NEW s \in States, Restorable(s)
    PROVE  LET u == Publish(RestoreTaskbarSize(s), "native")
           IN  /\ u \in States /\ AccentsAlike(s, u) /\ Kept(s, u)
               /\ u.resize.subclassed = s.resize.subclassed
               /\ ~s.resize.subclassed => SizesInv(u)
               /\ Restorable(u)
<1> DEFINE t == RestoreTaskbarSize(s)
           u == Publish(t, "native")
<1>1. "native" \in Heights
    BY DEF Heights
<1>2. /\ t \in States /\ AccentsAlike(s, t) /\ Kept(s, t)
      /\ t.desk.res = s.desk.res /\ t.desk.dpi = s.desk.dpi
      /\ \A w \in Shown(s) : /\ t.desk.content[w] = "native"
                             /\ ~s.resize.subclassed => t.desk.bar[w] = "native"
      /\ t.desk.area = RestoredArea(s)
      /\ t.resize.subclassed = s.resize.subclassed /\ t.resize.saved = NoArea
      /\ t.past = s.past
    BY Restored
<1> HIDE DEF t
<1>3. /\ u \in States /\ AccentsAlike(t, u) /\ Kept(t, u)
      /\ u.desk = t.desk /\ u.resize = t.resize /\ u.published = "native"
      /\ u.past.stale = t.past.stale
    BY <1>1, <1>2, Published
<1> HIDE DEF u
<1>4. Restorable(u)
    BY <1>2, <1>3, RestoredRestorable
<1>5. Shown(u) = Shown(s)
    BY <1>2, <1>3 DEF AccentsAlike, Shown
<1>6. ~s.resize.subclassed => SizesOff(u)
    BY <1>2, <1>3, <1>5 DEF SizesOff
<1>7. ~s.resize.subclassed => SizesInv(u)
    BY <1>2, <1>3, <1>4, <1>6 DEF SizesInv
<1>8. QED
    BY <1>2, <1>3, <1>4, <1>7, AlikeTwice DEF u, t

LEMMA ResizeEnabled ==
    ASSUME NEW s \in States, SizesInv(s)
    PROVE  Resized(s, ResizeEnable(s)) /\ ResizeEnable(s).resize.subclassed
<1>1. CASE s.resize.subclassed
    BY <1>1, AlikeTwice DEF ResizeEnable, Resized
<1>2. CASE ~s.resize.subclassed
  <2> DEFINE t == [s EXCEPT !.resize.subclassed = TRUE]
  <2>1. ResizeEnable(s) = Publish(ApplyTaskbarSize(t), s.resize.height)
      BY <1>2 DEF ResizeEnable
  <2>2. /\ t \in States /\ AccentsAlike(s, t) /\ Kept(s, t)
        /\ t.desk = s.desk /\ t.past = s.past /\ t.resize.subclassed
        /\ t.resize.height = s.resize.height /\ t.resize.saved = s.resize.saved
      BY SubclassSet
  <2> HIDE DEF t
  <2>3. Restorable(t)
      BY <2>2 DEF Restorable, AreaFor, SizesInv
  <2>4. LET u == Publish(ApplyTaskbarSize(t), t.resize.height)
        IN  /\ u \in States /\ AccentsAlike(t, u) /\ Kept(t, u)
            /\ SizesInv(u) /\ u.resize.subclassed
      BY <2>2, <2>3, AppliedIsOn
  <2>5. QED
      BY <2>1, <2>2, <2>4, AlikeTwice DEF Resized
<1>3. QED
    BY <1>1, <1>2

LEMMA ResizeDisabled ==
    ASSUME NEW s \in States, SizesInv(s)
    PROVE  Resized(s, ResizeDisable(s)) /\ ~ResizeDisable(s).resize.subclassed
<1>1. CASE ~s.resize.subclassed
    BY <1>1, AlikeTwice DEF ResizeDisable, Resized
<1>2. CASE s.resize.subclassed
  <2> DEFINE t == [s EXCEPT !.resize.subclassed = FALSE]
  <2>1. ResizeDisable(s) = Publish(RestoreTaskbarSize(t), "native")
      BY <1>2 DEF ResizeDisable
  <2>2. /\ t \in States /\ AccentsAlike(s, t) /\ Kept(s, t)
        /\ t.desk = s.desk /\ t.past = s.past /\ ~t.resize.subclassed
        /\ t.resize.saved = s.resize.saved
      BY SubclassSet
  <2> HIDE DEF t
  <2>3. Restorable(t)
      BY <2>2 DEF Restorable, AreaFor, SizesInv
  <2>4. LET u == Publish(RestoreTaskbarSize(t), "native")
        IN  /\ u \in States /\ AccentsAlike(t, u) /\ Kept(t, u)
            /\ SizesInv(u) /\ ~u.resize.subclassed
      BY <2>2, <2>3, RestoredIsOff
  <2>5. QED
      BY <2>1, <2>2, <2>4, AlikeTwice DEF Resized
<1>3. QED
    BY <1>1, <1>2

LEMMA SectionParts ==
    ASSUME NEW f \in Files, NEW p \in Plugins, f[p] # Missing
    PROVE  /\ f[p].enabled \in BOOLEAN
           /\ p = "resize" => f[p].height \in Heights
           /\ p = "trans" => f[p] \in Settings
<1>1. f[p] \in Sections[p]
    BY DEF Files
<1>2. CASE p = "resize"
    BY <1>1, <1>2 DEF Sections
<1>3. CASE p = "trans"
  <2>1. f[p] \in Settings
      BY <1>1, <1>3 DEF Sections, Settings
  <2>2. QED
      BY <1>3, <2>1 DEF Settings
<1>4. CASE p = "hover"
    BY <1>1, <1>4 DEF Sections
<1>5. QED
    BY <1>2, <1>3, <1>4 DEF Plugins

\* The handler of TE_EVENT_CONFIG_CHANGED, whoever's section it is given.
LEMMA ResizeTold ==
    ASSUME NEW s \in States, SizesInv(s), NEW f \in Files, NEW p \in Plugins
    PROVE  LET u == ResizeOnConfigChanged(s, p, f[p])
           IN  Resized(s, u) /\ u.resize.subclassed = s.resize.subclassed
<1> DEFINE sec == f[p]
           u == ResizeOnConfigChanged(s, p, sec)
<1>1. CASE ~s.resize.subclassed \/ sec = Missing
    BY <1>1, AlikeTwice DEF ResizeOnConfigChanged, Resized
<1>2. CASE s.resize.subclassed /\ sec # Missing /\ ~sec.enabled
  <2> DEFINE t == Publish(RestoreTaskbarSize(s), "native")
             q == [t.past EXCEPT !.misread = TRUE]
  <2>1. u = [t EXCEPT !.past.misread = TRUE]
      BY <1>2 DEF ResizeOnConfigChanged
  <2>2. /\ t \in States /\ AccentsAlike(s, t) /\ Kept(s, t)
        /\ t.resize.subclassed /\ Restorable(t)
      BY <1>2, RestoredIsOff DEF SizesInv
  <2>3. t.past \in Pasts
      BY <2>2, Parts
  <2> HIDE DEF t
  <2>4. /\ q \in Pasts /\ q.misread /\ q.stale = t.past.stale
        /\ q.narrowed = t.past.narrowed /\ q.late = t.past.late /\ q.unheard = t.past.unheard
      BY <2>3 DEF Pasts
  <2>5. /\ u.desk = t.desk /\ u.resize = t.resize /\ u.trans = t.trans /\ u.past = q
      BY <2>1, <2>2 DEF States
  <2>6. u \in States
      BY <2>1, <2>2, <2>4 DEF States
  <2> HIDE DEF u, q, sec
  <2>7. AccentsAlike(t, u) /\ Kept(t, u)
      BY <2>4, <2>5 DEF AccentsAlike, Kept
  <2>8. SizesInv(u) /\ u.resize.subclassed
      BY <2>2, <2>4, <2>5 DEF SizesInv, Restorable, AreaFor
  <2>9. QED
      BY <1>2, <2>2, <2>6, <2>7, <2>8, AlikeTwice DEF Resized, u, sec
<1>3. CASE s.resize.subclassed /\ sec # Missing /\ sec.enabled
  <2> DEFINE h == IF p = "resize" THEN sec.height ELSE s.resize.height
             t == [s EXCEPT !.resize.height = h]
  <2>1. h \in Heights
      BY <1>3, SectionParts, Parts, ResizeParts
  <2>2. u = Publish(ApplyTaskbarSize(t), h)
      BY <1>3 DEF ResizeOnConfigChanged
  <2> HIDE DEF h
  <2>3. /\ t \in States /\ AccentsAlike(s, t) /\ Kept(s, t)
        /\ t.desk = s.desk /\ t.past = s.past /\ t.resize.subclassed
        /\ t.resize.height = h /\ t.resize.saved = s.resize.saved
      BY <1>3, <2>1, HeightSet
  <2> HIDE DEF t
  <2>4. Restorable(t)
      BY <2>3 DEF Restorable, AreaFor, SizesInv
  <2>5. LET v == Publish(ApplyTaskbarSize(t), t.resize.height)
        IN  /\ v \in States /\ AccentsAlike(t, v) /\ Kept(t, v)
            /\ SizesInv(v) /\ v.resize.subclassed
      BY <2>3, <2>4, AppliedIsOn
  <2>6. QED
      BY <1>3, <2>2, <2>3, <2>5, AlikeTwice DEF Resized
<1>4. QED
    BY <1>1, <1>2, <1>3, SectionParts

-----------------------------------------------------------------------------
(* taskbar_transparency.c *)

LEMMA Discovered ==
    ASSUME NEW s \in States
    PROVE  LET u == DiscoverAll(s)
           IN  /\ u \in States /\ SizesAlike(s, u) /\ Kept(s, u) /\ u.desk = s.desk
               /\ u.trans.on = s.trans.on /\ u.trans.set = s.trans.set
               /\ u.trans.timer = s.trans.timer /\ u.trans.active = s.trans.active
               /\ u.trans.policy = s.trans.policy
               /\ u.trans.tracked = {Primary} \cup (IF s.trans.set.secondary THEN s.desk.alive
                                                   ELSE {})
               /\ u.past.narrowed = s.past.narrowed /\ u.past.late = {}
<1> DEFINE u == DiscoverAll(s)
           ws == {Primary} \cup (IF s.trans.set.secondary THEN s.desk.alive ELSE {})
           t == [s.trans EXCEPT !.tracked = ws]
           q == [s.past EXCEPT !.late = {}]
<1>1. s.trans \in Transes /\ s.past \in Pasts /\ s.desk.alive \in SUBSET Secondaries
    BY Parts, DeskParts
<1>2. ws \in SUBSET Windows
    BY <1>1 DEF Windows
<1> HIDE DEF ws
<1>3. /\ t \in Transes /\ t.on = s.trans.on /\ t.set = s.trans.set
      /\ t.timer = s.trans.timer /\ t.active = s.trans.active /\ t.policy = s.trans.policy
      /\ t.tracked = ws
    BY <1>1, <1>2 DEF Transes
<1>4. /\ q \in Pasts /\ q.late = {} /\ q.narrowed = s.past.narrowed
      /\ q.misread = s.past.misread /\ q.moved = s.past.moved /\ q.stale = s.past.stale
      /\ q.unheard = s.past.unheard
    BY <1>1 DEF Pasts
<1>5. u = [s EXCEPT !.trans = t, !.past = q]
    BY DEF DiscoverAll, ws
<1> HIDE DEF t, q, u
<1>6. /\ u \in States /\ u.desk = s.desk /\ u.resize = s.resize
      /\ u.published = s.published /\ u.trans = t /\ u.past = q
    BY <1>3, <1>4, <1>5 DEF States
<1>7. SizesAlike(s, u) /\ Kept(s, u)
    BY <1>4, <1>6 DEF SizesAlike, Kept
<1>8. QED
    BY <1>3, <1>4, <1>6, <1>7 DEF u, ws

\* New accents are nobody else's matter.
Coloured(s, t, a) == [s EXCEPT !.trans = t, !.desk.accent = a]

LEMMA AccentSet ==
    ASSUME NEW s \in States, NEW a \in Accents, NEW t \in Transes
    PROVE  LET u == Coloured(s, t, a)
           IN  /\ u \in States /\ SizesAlike(s, u) /\ Kept(s, u)
               /\ u.desk.accent = a /\ u.desk.alive = s.desk.alive
               /\ u.trans = t /\ u.past = s.past
<1> DEFINE d == [s.desk EXCEPT !.accent = a]
           u == [s EXCEPT !.trans = t, !.desk = d]
<1>1. s.desk \in Desks
    BY Parts
<1>2. /\ d \in Desks /\ d.accent = a
      /\ d.up = s.desk.up /\ d.res = s.desk.res /\ d.dpi = s.desk.dpi
      /\ d.alive = s.desk.alive
      /\ d.bar = s.desk.bar /\ d.content = s.desk.content /\ d.area = s.desk.area
    BY <1>1 DEF Desks
<1> HIDE DEF d
<1>3. /\ u \in States /\ u.desk = d /\ u.resize = s.resize /\ u.trans = t
      /\ u.published = s.published /\ u.past = s.past
    BY <1>2 DEF States
<1> HIDE DEF u
<1>4. SizesAlike(s, u) /\ Kept(s, u)
    BY <1>2, <1>3 DEF SizesAlike, Kept
<1>5. u = Coloured(s, t, a)
    BY DEF u, d, Coloured
<1>6. QED
    BY <1>2, <1>3, <1>4, <1>5

LEMMA Recolours ==
    ASSUME NEW s \in States, NEW v \in Policies
    PROVE  LET a == Over(s.trans.tracked \cap Shown(s), s.desk.accent, v)
           IN  /\ a \in Accents
               /\ \A w \in Shown(s) : a[w] = IF w \in s.trans.tracked THEN v
                                            ELSE s.desk.accent[w]
<1> DEFINE ws == s.trans.tracked \cap Shown(s)
           a == Over(ws, s.desk.accent, v)
<1>1. s.desk.accent \in Accents
    BY Parts, DeskParts
<1>2. \A w \in Shown(s) : w \in Windows /\ (w \in ws <=> w \in s.trans.tracked)
    BY ShownAreWindows
<1>3. ws = s.trans.tracked \cap Shown(s)
    OBVIOUS
<1> HIDE DEF ws
<1>4. /\ a \in Accents
      /\ \A w \in Windows : a[w] = IF w \in ws THEN v ELSE s.desk.accent[w]
    BY <1>1, OverAccents
<1> HIDE DEF a
<1>5. \A w \in Shown(s) : a[w] = IF w \in s.trans.tracked THEN v ELSE s.desk.accent[w]
    BY <1>2, <1>4
<1>6. QED
    BY <1>4, <1>5 DEF a, ws

LEMMA PolicyApplied ==
    ASSUME NEW s \in States, NEW policy \in Policies
    PROVE  LET u == ApplyPolicyToAll(s, policy)
           IN  /\ u \in States /\ SizesAlike(s, u) /\ Kept(s, u) /\ Shown(u) = Shown(s)
               /\ u.trans.on = s.trans.on /\ u.trans.set = s.trans.set
               /\ u.trans.timer = s.trans.timer /\ u.trans.active = s.trans.active
               /\ u.trans.policy = policy /\ u.trans.tracked = s.trans.tracked
               /\ u.past = s.past
               /\ \A w \in Shown(s) : u.desk.accent[w] = IF w \in s.trans.tracked THEN policy
                                                         ELSE s.desk.accent[w]
<1> DEFINE u == ApplyPolicyToAll(s, policy)
           t == [s.trans EXCEPT !.policy = policy]
           a == Over(s.trans.tracked \cap Shown(s), s.desk.accent, policy)
<1>1. s.trans \in Transes /\ s.desk.accent \in Accents
    BY Parts, DeskParts
<1>2. /\ t \in Transes /\ t.on = s.trans.on /\ t.set = s.trans.set
      /\ t.timer = s.trans.timer /\ t.active = s.trans.active /\ t.policy = policy
      /\ t.tracked = s.trans.tracked
    BY <1>1 DEF Transes
<1>3. /\ a \in Accents
      /\ \A w \in Shown(s) : a[w] = IF w \in s.trans.tracked THEN policy ELSE s.desk.accent[w]
    BY <1>1, Recolours
<1>4. u = Coloured(s, t, a)
    BY DEF ApplyPolicyToAll, Coloured
<1> HIDE DEF t, a, u
<1>5. /\ u \in States /\ SizesAlike(s, u) /\ Kept(s, u)
      /\ u.desk.accent = a /\ u.desk.alive = s.desk.alive /\ u.trans = t /\ u.past = s.past
    BY <1>2, <1>3, <1>4, AccentSet
<1>6. Shown(u) = Shown(s)
    BY <1>5 DEF Shown
<1>7. QED
    BY <1>2, <1>3, <1>5, <1>6 DEF u

LEMMA AllRestored ==
    ASSUME NEW s \in States
    PROVE  LET u == RestoreAll(s)
           IN  /\ u \in States /\ SizesAlike(s, u) /\ Kept(s, u) /\ Shown(u) = Shown(s)
               /\ u.trans.on = s.trans.on /\ u.trans.set = s.trans.set
               /\ ~u.trans.timer /\ ~u.trans.active /\ u.past = s.past
               /\ \A w \in Shown(s) : u.desk.accent[w] = IF w \in s.trans.tracked THEN "native"
                                                         ELSE s.desk.accent[w]
<1> DEFINE u == RestoreAll(s)
           t == [s.trans EXCEPT !.timer = FALSE, !.active = FALSE]
           a == Over(s.trans.tracked \cap Shown(s), s.desk.accent, "native")
<1>1. s.trans \in Transes /\ s.desk.accent \in Accents /\ "native" \in Policies
    BY Parts, DeskParts DEF Policies
<1>2. /\ t \in Transes /\ t.on = s.trans.on /\ t.set = s.trans.set
      /\ ~t.timer /\ ~t.active
    BY <1>1 DEF Transes
<1>3. /\ a \in Accents
      /\ \A w \in Shown(s) : a[w] = IF w \in s.trans.tracked THEN "native" ELSE s.desk.accent[w]
    BY <1>1, Recolours
<1>4. u = Coloured(s, t, a)
    BY DEF RestoreAll, Coloured
<1> HIDE DEF t, a, u
<1>5. /\ u \in States /\ SizesAlike(s, u) /\ Kept(s, u)
      /\ u.desk.accent = a /\ u.desk.alive = s.desk.alive /\ u.trans = t /\ u.past = s.past
    BY <1>2, <1>3, <1>4, AccentSet
<1>6. Shown(u) = Shown(s)
    BY <1>5 DEF Shown
<1>7. QED
    BY <1>2, <1>3, <1>5, <1>6 DEF u

LEMMA PolicyOfSettings ==
    ASSUME NEW set \in Settings
    PROVE  ComputeAccentPolicy(set) \in Policies /\ set.secondary \in BOOLEAN
BY DEF ComputeAccentPolicy, Policies, Settings

\* The policy is applied to the taskbars found anew: all that the settings are for.
Refreshed(s) == ApplyPolicyToAll(DiscoverAll(s), ComputeAccentPolicy(s.trans.set))

NarrowNative(s) ==
  s.past.narrowed \/ s.trans.set.secondary \/ NativeBut(s, {Primary})

LEMMA RefreshedCovers ==
    ASSUME NEW s \in States, NarrowNative(s)
    PROVE  LET u == Refreshed(s)
           IN  /\ u \in States /\ SizesAlike(s, u) /\ Kept(s, u)
               /\ u.trans.on = s.trans.on /\ u.trans.set = s.trans.set
               /\ u.trans.timer = s.trans.timer /\ u.trans.active = s.trans.active
               /\ u.trans.policy = ComputeAccentPolicy(s.trans.set)
               /\ Covered(u)
               /\ u.past.narrowed \/ NativeBut(u, u.trans.tracked)
               /\ u.trans.set.secondary \/ u.trans.tracked \subseteq {Primary}
<1> DEFINE t == DiscoverAll(s)
           policy == ComputeAccentPolicy(s.trans.set)
           u == ApplyPolicyToAll(t, policy)
<1>1. s.trans.set \in Settings /\ policy \in Policies /\ s.trans.set.secondary \in BOOLEAN
    BY Parts, TransParts, PolicyOfSettings
<1>2. /\ t \in States /\ SizesAlike(s, t) /\ Kept(s, t) /\ t.desk = s.desk
      /\ t.trans.on = s.trans.on /\ t.trans.set = s.trans.set
      /\ t.trans.timer = s.trans.timer /\ t.trans.active = s.trans.active
      /\ t.trans.tracked = {Primary} \cup (IF s.trans.set.secondary THEN s.desk.alive ELSE {})
      /\ t.past.narrowed = s.past.narrowed
    BY Discovered
<1> HIDE DEF t
<1>3. policy = ComputeAccentPolicy(s.trans.set)
    OBVIOUS
<1> HIDE DEF policy
<1>4. /\ u \in States /\ SizesAlike(t, u) /\ Kept(t, u) /\ Shown(u) = Shown(t)
      /\ u.trans.on = t.trans.on /\ u.trans.set = t.trans.set
      /\ u.trans.timer = t.trans.timer /\ u.trans.active = t.trans.active
      /\ u.trans.policy = policy /\ u.trans.tracked = t.trans.tracked
      /\ u.past = t.past
      /\ \A w \in Shown(t) : u.desk.accent[w] = IF w \in t.trans.tracked THEN policy
                                                ELSE t.desk.accent[w]
    BY <1>1, <1>2, PolicyApplied
<1> HIDE DEF u
<1>5. Shown(t) = Shown(s) /\ Shown(s) = {Primary} \cup s.desk.alive
    BY <1>2 DEF Shown
<1>6. Covered(u)
  <2>1. ASSUME NEW w \in Shown(u), w = Primary \/ u.trans.set.secondary
        PROVE  u.desk.accent[w] = ComputeAccentPolicy(u.trans.set)
    <3>1. w \in t.trans.tracked
        BY <1>2, <1>4, <1>5, <2>1
    <3>2. QED
        BY <1>2, <1>3, <1>4, <3>1
  <2>2. QED
      BY <2>1 DEF Covered
<1>7. u.past.narrowed \/ NativeBut(u, u.trans.tracked)
  <2>1. CASE s.past.narrowed
      BY <1>2, <1>4, <2>1
  <2>2. CASE s.trans.set.secondary
    <3>1. Shown(u) \ u.trans.tracked = {}
        BY <1>2, <1>4, <1>5, <2>2
    <3>2. QED
        BY <3>1 DEF NativeBut
  <2>3. CASE NativeBut(s, {Primary})
    <3>1. ASSUME NEW w \in Shown(u), w \notin u.trans.tracked
          PROVE  u.desk.accent[w] = "native"
        BY <1>2, <1>4, <1>5, <2>3, <3>1 DEF NativeBut
    <3>2. QED
        BY <3>1 DEF NativeBut
  <2>4. QED
      BY <2>1, <2>2, <2>3 DEF NarrowNative
<1>8. u.trans.set.secondary \/ u.trans.tracked \subseteq {Primary}
    BY <1>2, <1>4
<1>9. QED
    BY <1>2, <1>3, <1>4, <1>6, <1>7, <1>8, AlikeTwice DEF Refreshed, u, t, policy

LEMMA AccentsNarrow ==
    ASSUME NEW s \in States, AccentsInv(s)
    PROVE  NarrowNative(s)
BY Parts, TransParts DEF AccentsInv, NarrowNative, NativeBut

\* What every call into taskbar_transparency keeps.
Recoloured(s, u) == /\ u \in States /\ SizesAlike(s, u) /\ Kept(s, u)
                    /\ AccentsInv(u)

LEMMA DisplayHandled ==
    ASSUME NEW s \in States, AccentsInv(s)
    PROVE  LET u == HandleDisplayChange(s)
           IN  Recoloured(s, u) /\ u.trans.on = s.trans.on /\ u.trans.set = s.trans.set
<1> DEFINE u == HandleDisplayChange(s)
<1>1. CASE ~s.trans.on
    BY <1>1, AlikeTwice DEF HandleDisplayChange, Recoloured
<1>2. CASE s.trans.on
  <2> DEFINE t == Refreshed(s)
             q == [t.trans EXCEPT !.active = TRUE, !.timer = TRUE]
  <2>1. /\ t \in States /\ SizesAlike(s, t) /\ Kept(s, t)
        /\ t.trans.on = s.trans.on /\ t.trans.set = s.trans.set
        /\ t.trans.policy = ComputeAccentPolicy(s.trans.set)
        /\ t.past.narrowed \/ NativeBut(t, t.trans.tracked)
        /\ t.trans.set.secondary \/ t.trans.tracked \subseteq {Primary}
      BY RefreshedCovers, AccentsNarrow
  <2>2. u = [t EXCEPT !.trans = q]
      BY <1>2 DEF HandleDisplayChange, Refreshed
  <2> HIDE DEF t
  <2>3. t.trans \in Transes
      BY <2>1, Parts
  <2>4. /\ q \in Transes /\ q.on = t.trans.on /\ q.set = t.trans.set
        /\ q.policy = t.trans.policy /\ q.tracked = t.trans.tracked /\ q.timer /\ q.active
      BY <2>3 DEF Transes
  <2> HIDE DEF q, u
  <2>5. /\ u \in States /\ u.desk = t.desk /\ u.resize = t.resize /\ u.trans = q
        /\ u.published = t.published /\ u.past = t.past
      BY <2>1, <2>2, <2>4 DEF States
  <2>6. SizesAlike(t, u) /\ Kept(t, u)
      BY <2>5 DEF SizesAlike, Kept
  <2>7. \A tracked : NativeBut(t, tracked) => NativeBut(u, tracked)
      BY <2>5 DEF NativeBut, Shown
  <2>8. AccentsInv(u)
      BY <1>2, <2>1, <2>4, <2>5, <2>7 DEF AccentsInv
  <2>9. QED
      BY <2>1, <2>4, <2>5, <2>6, <2>8, AlikeTwice DEF Recoloured, u
<1>3. QED
    BY <1>1, <1>2

\* The flag is set on the state before or after the policy is applied.
LEMMA OnSet ==
    ASSUME NEW s \in States, NEW b \in BOOLEAN
    PROVE  LET u == [s EXCEPT !.trans.on = b]
           IN  /\ u \in States /\ SizesAlike(s, u) /\ Kept(s, u)
               /\ u.desk = s.desk /\ u.past = s.past
               /\ u.trans.on = b /\ u.trans.set = s.trans.set
               /\ u.trans.timer = s.trans.timer /\ u.trans.active = s.trans.active
               /\ u.trans.policy = s.trans.policy /\ u.trans.tracked = s.trans.tracked
<1> DEFINE t == [s.trans EXCEPT !.on = b]
           u == [s EXCEPT !.trans = t]
<1>1. s.trans \in Transes
    BY Parts
<1>2. /\ t \in Transes /\ t.on = b /\ t.set = s.trans.set /\ t.timer = s.trans.timer
      /\ t.active = s.trans.active /\ t.policy = s.trans.policy /\ t.tracked = s.trans.tracked
    BY <1>1 DEF Transes
<1> HIDE DEF t
<1>3. /\ u \in States /\ u.desk = s.desk /\ u.resize = s.resize /\ u.trans = t
      /\ u.published = s.published /\ u.past = s.past
    BY <1>2 DEF States
<1>4. SizesAlike(s, u) /\ Kept(s, u)
    BY <1>3 DEF SizesAlike, Kept
<1>5. QED
    BY <1>2, <1>3, <1>4 DEF t

LEMMA TransDisabled ==
    ASSUME NEW s \in States, AccentsInv(s)
    PROVE  LET u == TransDisable(s)
           IN  Recoloured(s, u) /\ ~u.trans.on /\ u.trans.set = s.trans.set
<1> DEFINE u == TransDisable(s)
<1>1. CASE ~s.trans.on
    BY <1>1, AlikeTwice DEF TransDisable, Recoloured
<1>2. CASE s.trans.on
  <2> DEFINE t == RestoreAll(s)
  <2>1. /\ t \in States /\ SizesAlike(s, t) /\ Kept(s, t) /\ Shown(t) = Shown(s)
        /\ t.trans.set = s.trans.set /\ ~t.trans.timer /\ ~t.trans.active
        /\ t.past = s.past
        /\ \A w \in Shown(s) : t.desk.accent[w] = IF w \in s.trans.tracked THEN "native"
                                                  ELSE s.desk.accent[w]
      BY AllRestored
  <2>2. u = [t EXCEPT !.trans.on = FALSE]
      BY <1>2 DEF TransDisable
  <2> HIDE DEF t, u
  <2>3. /\ u \in States /\ SizesAlike(t, u) /\ Kept(t, u)
        /\ u.desk = t.desk /\ u.past = t.past
        /\ u.trans.on = FALSE /\ u.trans.set = t.trans.set /\ u.trans.timer = t.trans.timer
      BY <2>1, <2>2, OnSet
  <2>4. u.past.narrowed \/ NativeBut(u, {})
    <3>1. Shown(u) = Shown(s)
        BY <2>1, <2>3 DEF Shown
    <3>2. s.past.narrowed \/ NativeBut(s, s.trans.tracked)
        BY <1>2 DEF AccentsInv
    <3>3. QED
        BY <2>1, <2>3, <3>1, <3>2 DEF NativeBut
  <2>5. AccentsInv(u)
      BY <2>1, <2>3, <2>4 DEF AccentsInv
  <2>6. QED
      BY <2>1, <2>3, <2>5, AlikeTwice DEF Recoloured, u
<1>3. QED
    BY <1>1, <1>2

LEMMA TransEnabled ==
    ASSUME NEW s \in States, AccentsInv(s)
    PROVE  LET u == TransEnable(s)
           IN  Recoloured(s, u) /\ u.trans.on /\ u.trans.set = s.trans.set
<1> DEFINE u == TransEnable(s)
<1>1. CASE s.trans.on
    BY <1>1, AlikeTwice DEF TransEnable, Recoloured
<1>2. CASE ~s.trans.on
  <2> DEFINE t == [s EXCEPT !.trans.on = TRUE]
  <2>1. s.trans \in Transes /\ s.past \in Pasts
      BY Parts
  <2>2. u = Refreshed(t)
    <3>1. [DiscoverAll(s) EXCEPT !.trans.on = TRUE] = DiscoverAll(t)
      <4> DEFINE ws == {Primary} \cup (IF s.trans.set.secondary THEN s.desk.alive ELSE {})
                 x == [s.trans EXCEPT !.tracked = ws, !.on = TRUE]
                 y == [s.trans EXCEPT !.on = TRUE, !.tracked = ws]
                 q == [s.past EXCEPT !.late = {}]
      <4>1. x = y
        <5> HIDE DEF ws
        <5>1. QED
            BY <2>1 DEF Transes
      <4>2. t.trans.set = s.trans.set /\ t.desk = s.desk /\ t.past = s.past
            /\ t.trans = [s.trans EXCEPT !.on = TRUE]
          BY <2>1 DEF States, Transes
      <4>3. [DiscoverAll(s) EXCEPT !.trans.on = TRUE] = [s EXCEPT !.trans = x, !.past = q]
        <5> HIDE DEF ws, q
        <5>1. DiscoverAll(s) = [s EXCEPT !.trans = [s.trans EXCEPT !.tracked = ws], !.past = q]
            BY DEF DiscoverAll, ws, q
        <5>2. QED
            BY <5>1 DEF States
      <4>4. DiscoverAll(t) = [t EXCEPT !.trans = y, !.past = q]
        <5> HIDE DEF t
        <5>1. [t.trans EXCEPT !.tracked = ws] = y /\ [t.past EXCEPT !.late = {}] = q
            BY <4>2
        <5>2. DiscoverAll(t) = [t EXCEPT !.trans = [t.trans EXCEPT !.tracked = ws],
                                         !.past = [t.past EXCEPT !.late = {}]]
            BY <4>2 DEF DiscoverAll
        <5> HIDE DEF y, q
        <5>3. QED
            BY <5>1, <5>2
      <4> HIDE DEF x, y, q
      <4>5. [t EXCEPT !.trans = y, !.past = q] = [s EXCEPT !.trans = y, !.past = q]
          BY DEF States
      <4>6. QED
          BY <4>1, <4>3, <4>4, <4>5
    <3>2. t.trans.set = s.trans.set
        BY OnSet
    <3> HIDE DEF t
    <3>3. QED
        BY <1>2, <3>1, <3>2 DEF TransEnable, Refreshed
  <2>3. /\ t \in States /\ SizesAlike(s, t) /\ Kept(s, t)
        /\ t.desk = s.desk /\ t.past = s.past
        /\ t.trans.on = TRUE /\ t.trans.set = s.trans.set
        /\ t.trans.timer = s.trans.timer
      BY OnSet
  <2> HIDE DEF t, u
  <2>4. NarrowNative(t)
    <3>1. Shown(t) = Shown(s)
        BY <2>3 DEF Shown
    <3>2. NarrowNative(s)
        BY AccentsNarrow
    <3>3. QED
        BY <2>3, <3>1, <3>2 DEF NarrowNative, NativeBut
  <2>5. /\ u \in States /\ SizesAlike(t, u) /\ Kept(t, u)
        /\ u.trans.on = TRUE /\ u.trans.set = s.trans.set
        /\ u.trans.policy = ComputeAccentPolicy(s.trans.set)
        /\ u.trans.timer = s.trans.timer
        /\ Covered(u)
        /\ u.past.narrowed \/ NativeBut(u, u.trans.tracked)
        /\ u.trans.set.secondary \/ u.trans.tracked \subseteq {Primary}
      BY <2>2, <2>3, <2>4, RefreshedCovers
  <2>6. AccentsInv(u)
      BY <1>2, <2>5 DEF AccentsInv
  <2>7. QED
      BY <2>3, <2>5, <2>6, AlikeTwice DEF Recoloured, u
<1>3. QED
    BY <1>1, <1>2

LEMMA SettingsSet ==
    ASSUME NEW s \in States, NEW set \in Settings
    PROVE  LET u == [s EXCEPT !.trans.set = set,
                              !.past.narrowed = @ \/ (s.trans.set.secondary /\ ~set.secondary)]
           IN  /\ u \in States /\ SizesAlike(s, u) /\ Kept(s, u)
               /\ u.desk = s.desk
               /\ u.trans.on = s.trans.on /\ u.trans.set = set
               /\ u.trans.timer = s.trans.timer /\ u.trans.active = s.trans.active
               /\ u.past.narrowed
                    = (s.past.narrowed \/ (s.trans.set.secondary /\ ~set.secondary))
<1> DEFINE t == [s.trans EXCEPT !.set = set]
           b == s.past.narrowed \/ (s.trans.set.secondary /\ ~set.secondary)
           q == [s.past EXCEPT !.narrowed = b]
           u == [s EXCEPT !.trans = t, !.past = q]
<1>1. s.trans \in Transes /\ s.past \in Pasts
    BY Parts
<1>2. /\ t \in Transes /\ t.on = s.trans.on /\ t.set = set /\ t.timer = s.trans.timer
      /\ t.active = s.trans.active
    BY <1>1 DEF Transes
<1>3. b \in BOOLEAN
    OBVIOUS
<1> HIDE DEF b
<1>4. /\ q \in Pasts /\ q.narrowed = b
      /\ q.misread = s.past.misread /\ q.moved = s.past.moved /\ q.stale = s.past.stale
      /\ q.unheard = s.past.unheard
    BY <1>1, <1>3 DEF Pasts
<1> HIDE DEF t, q
<1>5. /\ u \in States /\ u.desk = s.desk /\ u.resize = s.resize /\ u.trans = t
      /\ u.published = s.published /\ u.past = q
    BY <1>2, <1>4 DEF States
<1>6. SizesAlike(s, u) /\ Kept(s, u)
    BY <1>4, <1>5 DEF SizesAlike, Kept
<1>7. [s EXCEPT !.trans.set = set,
                !.past.narrowed = @ \/ (s.trans.set.secondary /\ ~set.secondary)] = u
    BY Zenon DEF t, q, b
<1>8. u.past.narrowed = (s.past.narrowed \/ (s.trans.set.secondary /\ ~set.secondary))
    BY <1>4, <1>5 DEF b
<1> HIDE DEF u
<1>9. QED
    BY <1>2, <1>5, <1>6, <1>7, <1>8

\* The handler of TE_EVENT_CONFIG_CHANGED.  A section that disables has disabled the plugin
\* before the handler is told of it.
LEMMA TransTold ==
    ASSUME NEW s \in States, AccentsInv(s), NEW f \in Files, NEW p \in Plugins,
           p = "trans" /\ s.trans.on /\ f[p] # Missing => f[p].enabled
    PROVE  LET u == TransOnConfigChanged(s, p, f[p])
           IN  /\ Recoloured(s, u) /\ u.trans.on = s.trans.on
               /\ p = "trans" /\ s.trans.on => f[p] = Missing \/ u.trans.set = f[p]
               /\ p # "trans" => u.trans.set = s.trans.set
<1> DEFINE sec == f[p]
           u == TransOnConfigChanged(s, p, sec)
<1>1. CASE ~s.trans.on \/ p # "trans" \/ sec = Missing
    BY <1>1, AlikeTwice DEF TransOnConfigChanged, Recoloured
<1>2. CASE s.trans.on /\ p = "trans" /\ sec # Missing
  <2> DEFINE t == [s EXCEPT !.trans.set = sec,
                            !.past.narrowed = @ \/ (s.trans.set.secondary /\ ~sec.secondary)]
  <2>1. sec \in Settings /\ sec.enabled
      BY <1>2, SectionParts
  <2> HIDE DEF sec
  <2>2. /\ t \in States /\ SizesAlike(s, t) /\ Kept(s, t) /\ t.desk = s.desk
        /\ t.trans.on = s.trans.on /\ t.trans.set = sec
        /\ t.trans.timer = s.trans.timer /\ t.trans.active = s.trans.active
        /\ t.past.narrowed = (s.past.narrowed \/ (s.trans.set.secondary /\ ~sec.secondary))
      BY <2>1, SettingsSet
  <2>3. u = Refreshed(t)
    <3>1. u = ApplyPolicyToAll(DiscoverAll(t), ComputeAccentPolicy(sec))
        BY <1>2, <2>1 DEF TransOnConfigChanged
    <3> HIDE DEF t, u
    <3>2. QED
        BY <2>2, <3>1 DEF Refreshed
  <2> HIDE DEF t, u
  <2>4. NarrowNative(t)
    <3>1. Shown(t) = Shown(s) /\ s.trans.set.secondary \in BOOLEAN
        BY <2>2, Parts, TransParts, PolicyOfSettings DEF Shown
    <3>2. NarrowNative(s)
        BY AccentsNarrow
    <3>3. QED
        BY <2>2, <3>1, <3>2 DEF NarrowNative, NativeBut
  <2>5. /\ u \in States /\ SizesAlike(t, u) /\ Kept(t, u)
        /\ u.trans.on = t.trans.on /\ u.trans.set = sec
        /\ u.trans.policy = ComputeAccentPolicy(sec)
        /\ u.trans.timer = t.trans.timer /\ u.trans.active = t.trans.active
        /\ Covered(u)
        /\ u.past.narrowed \/ NativeBut(u, u.trans.tracked)
        /\ u.trans.set.secondary \/ u.trans.tracked \subseteq {Primary}
      BY <2>2, <2>3, <2>4, RefreshedCovers
  <2>6. AccentsInv(u)
      BY <1>2, <2>2, <2>5 DEF AccentsInv
  <2>7. QED
      BY <1>2, <2>2, <2>5, <2>6, AlikeTwice DEF Recoloured, u, sec
<1>3. QED
    BY <1>1, <1>2

-----------------------------------------------------------------------------
(* core_manager.c *)

LEMMA NowIs ==
    /\ Now.desk = desk /\ Now.resize = resize /\ Now.trans = trans
    /\ Now.published = published /\ Now.past = past
BY DEF Now

LEMMA Becoming ==
    ASSUME NEW u \in States, Become(u)
    PROVE  Now' = u
<1>1. u = [desk |-> u.desk, resize |-> u.resize, trans |-> u.trans,
           published |-> u.published, past |-> u.past]
    BY DEF States
<1>2. QED
    BY <1>1 DEF Become, Now

\* What enabling or disabling either plugin keeps.
Handled(s, u) == u \in States /\ SizesInv(u) /\ AccentsInv(u) /\ Kept(s, u)

LEMMA ResizedIsHandled ==
    ASSUME NEW s \in States, NEW u, AccentsInv(s), Resized(s, u)
    PROVE  Handled(s, u) /\ u.trans = s.trans
<1>1. AccentsInv(u)
    BY AccentsKept DEF Resized, AccentsAlike
<1>2. QED
    BY <1>1 DEF Resized, Handled, AccentsAlike

LEMMA RecolouredIsHandled ==
    ASSUME NEW s \in States, NEW u, SizesInv(s), Recoloured(s, u)
    PROVE  Handled(s, u) /\ u.resize = s.resize
<1>1. SizesInv(u)
    BY SizesKept DEF Recoloured
<1>2. QED
    BY <1>1 DEF Recoloured, Handled, SizesAlike

LEMMA Enabling ==
    ASSUME NEW s \in States, SizesInv(s), AccentsInv(s), NEW p \in Plugins
    PROVE  LET u == Enable(s, p)
           IN  /\ Handled(s, u) /\ u.trans.set = s.trans.set
               /\ p = "trans" => u.trans.on
<1>1. CASE p = "resize"
  <2>1. Enable(s, p) = ResizeEnable(s)
      BY <1>1 DEF Enable
  <2>2. Resized(s, ResizeEnable(s))
      BY ResizeEnabled
  <2>3. QED
      BY <1>1, <2>1, <2>2, ResizedIsHandled
<1>2. CASE p = "trans"
  <2>1. Enable(s, p) = TransEnable(s)
      BY <1>2 DEF Enable
  <2>2. QED
      BY <2>1, TransEnabled, RecolouredIsHandled
<1>3. CASE p = "hover"
  <2>1. Enable(s, p) = s
      BY <1>3 DEF Enable
  <2>2. QED
      BY <1>3, <2>1, AlikeTwice DEF Handled
<1>4. QED
    BY <1>1, <1>2, <1>3 DEF Plugins

LEMMA Disabling ==
    ASSUME NEW s \in States, SizesInv(s), AccentsInv(s), NEW p \in Plugins
    PROVE  LET u == Disable(s, p)
           IN  /\ Handled(s, u) /\ u.trans.set = s.trans.set
               /\ p = "trans" => ~u.trans.on /\ u.resize = s.resize
               /\ p = "resize" => ~u.resize.subclassed /\ u.trans = s.trans
<1>1. CASE p = "resize"
  <2>1. Disable(s, p) = ResizeDisable(s)
      BY <1>1 DEF Disable
  <2>2. Resized(s, ResizeDisable(s)) /\ ~ResizeDisable(s).resize.subclassed
      BY ResizeDisabled
  <2>3. QED
      BY <1>1, <2>1, <2>2, ResizedIsHandled
<1>2. CASE p = "trans"
  <2>1. Disable(s, p) = TransDisable(s)
      BY <1>2 DEF Disable
  <2>2. QED
      BY <1>2, <2>1, TransDisabled, RecolouredIsHandled
<1>3. CASE p = "hover"
  <2>1. Disable(s, p) = s
      BY <1>3 DEF Disable
  <2>2. QED
      BY <1>3, <2>1, AlikeTwice DEF Handled
<1>4. QED
    BY <1>1, <1>2, <1>3 DEF Plugins

LEMMA InitInvariant == Init => IInv
<1> SUFFICES ASSUME Init PROVE IInv
    OBVIOUS
<1>1. desk \in Desks
  <2>1. NativeBars \in Bars /\ NativeBars \in Accents
      BY DEF NativeBars, Bars, Accents, Heights, Policies
  <2>2. <<1, 1, "native">> \in Areas
      BY DEF Areas, Heights
  <2>3. QED
      BY <2>1, <2>2 DEF Init, Desks
<1>2. resize \in Resizes
    BY DEF Init, FreshResize, Resizes, Heights
<1>3. trans \in Transes
    BY DEF Init, FreshTrans, Transes, Defaults, Settings, Policies, Modes
<1>4. published \in Pubs /\ past \in Pasts
    BY DEF Init, Pubs, Pasts
<1>5. Now \in States
    BY <1>1, <1>2, <1>3, <1>4 DEF Now, States
<1>6. Shipped \in Files
  <2>1. \A p \in Plugins : Shipped[p] \in Sections[p]
    <3>1. /\ Shipped["resize"] = [enabled |-> FALSE, height |-> "compact"]
          /\ Shipped["trans"] = Defaults /\ Shipped["hover"] = [enabled |-> TRUE]
        BY DEF Shipped, Plugins
    <3>2. Shipped["resize"] \in Sections["resize"]
        BY <3>1 DEF Sections, Heights
    <3>3. Shipped["trans"] \in Sections["trans"]
        BY <3>1 DEF Sections, Defaults, Modes
    <3>4. Shipped["hover"] \in Sections["hover"]
        BY <3>1 DEF Sections
    <3>5. QED
        BY <3>2, <3>3, <3>4 DEF Plugins
  <2>2. \A p \in Plugins : Sections[p] \subseteq UNION {Sections[q] : q \in Plugins}
      OBVIOUS
  <2>3. Shipped \in [Plugins -> {Missing} \cup UNION {Sections[p] : p \in Plugins}]
      BY <2>1, <2>2 DEF Shipped
  <2>4. QED
      BY <2>1, <2>3 DEF Files
<1>7. config \in Configs /\ count \in Counts
    BY <1>6, TaskbarPluginsAssumption DEF Init, Configs, Counts
<1>8. SizesInv(Now)
    BY NowIs, <1>1 DEF Init, SizesInv, Restorable, SizesOff, AreaFor, FreshResize, NativeBars,
                 Shown, Windows
<1>9. AccentsInv(Now)
    BY NowIs DEF Init, AccentsInv, NativeBut, FreshTrans, NativeBars, Shown, Windows
<1>10. HeardInv(Now, config)
    BY NowIs DEF Init, HeardInv, FreshResize, FreshTrans
<1>11. QED
    BY <1>5, <1>7, <1>8, <1>9, <1>10 DEF IInv

-----------------------------------------------------------------------------
(* Every step keeps the invariant. *)

LEMMA Concluded ==
    ASSUME NEW u \in States, Become(u), SizesInv(u), AccentsInv(u),
           config' \in Configs, count' \in Counts, HeardInv(u, config')
    PROVE  IInv'
<1>1. Now' = u
    BY Becoming
<1>2. QED
    BY <1>1 DEF IInv

LEMMA InvariantParts ==
    IInv => /\ Now \in States /\ SizesInv(Now) /\ AccentsInv(Now) /\ HeardInv(Now, config)
            /\ config \in Configs /\ config.file \in Files /\ config.root \in Files
            /\ config.todo \in SUBSET Plugins
            /\ count \in Counts /\ count.edits \in 0 .. MaxEdits /\ count.events \in 0 .. MaxEvents
            /\ desk \in Desks /\ resize \in Resizes /\ trans \in Transes
            /\ published \in Pubs /\ past \in Pasts
<1> SUFFICES ASSUME IInv
             PROVE  /\ config.file \in Files /\ config.root \in Files
                    /\ config.todo \in SUBSET Plugins
                    /\ count.edits \in 0 .. MaxEdits /\ count.events \in 0 .. MaxEvents
                    /\ desk \in Desks /\ resize \in Resizes /\ trans \in Transes
                    /\ published \in Pubs /\ past \in Pasts
    BY DEF IInv
<1>1. Now \in States /\ config \in Configs /\ count \in Counts
    BY DEF IInv
<1>2. config.file \in Files /\ config.root \in Files /\ config.todo \in SUBSET Plugins
    BY <1>1 DEF Configs
<1>3. count.edits \in 0 .. MaxEdits /\ count.events \in 0 .. MaxEvents
    BY <1>1 DEF Counts
<1>4. QED
    BY <1>1, <1>2, <1>3, Parts, NowIs

LEMMA Counted ==
    IInv => /\ Edit => count' \in Counts
            /\ Event => count' \in Counts /\ config' = config /\ config.todo = {}
<1>1. ASSUME IInv, Edit PROVE count' \in Counts
    BY <1>1, InvariantParts, TaskbarPluginsAssumption DEF Edit, Counts
<1>2. ASSUME IInv, Event PROVE count' \in Counts
    BY <1>2, InvariantParts, TaskbarPluginsAssumption DEF Event, Counts
<1>3. QED
    BY <1>1, <1>2 DEF Event, Free

LEMMA EnabledIsBoolean ==
    ASSUME NEW f \in Files, NEW p \in Plugins, NEW b \in BOOLEAN
    PROVE  /\ GetEnabled(f[p], b) \in BOOLEAN
           /\ f[p] # Missing => GetEnabled(f[p], b) = f[p].enabled
BY SectionParts DEF GetEnabled

\* The engine starts on what the file says, with both plugins off.
Started(s, rz, set) ==
  [s EXCEPT !.desk.up = TRUE, !.resize = [FreshResize EXCEPT !.height = rz],
            !.trans = [FreshTrans EXCEPT !.set = set], !.past.unheard = {}]

LEMMA StartedOff ==
    ASSUME NEW s \in States, SizesInv(s), AccentsInv(s), ~s.resize.subclassed, ~s.trans.on,
           NEW rz \in Heights, NEW set \in Settings
    PROVE  LET u == Started(s, rz, set)
           IN  /\ u \in States /\ SizesInv(u) /\ AccentsInv(u)
               /\ u.desk.up = TRUE /\ u.trans.set = set
<1> DEFINE d == [s.desk EXCEPT !.up = TRUE]
           r == [FreshResize EXCEPT !.height = rz]
           t == [FreshTrans EXCEPT !.set = set]
           q == [s.past EXCEPT !.unheard = {}]
           u == [s EXCEPT !.desk = d, !.resize = r, !.trans = t, !.past = q]
<1>1. s.desk \in Desks /\ s.past \in Pasts
    BY Parts
<1>2. /\ d \in Desks /\ d.up = TRUE /\ d.res = s.desk.res /\ d.dpi = s.desk.dpi
      /\ d.alive = s.desk.alive /\ d.bar = s.desk.bar /\ d.content = s.desk.content
      /\ d.area = s.desk.area /\ d.accent = s.desk.accent
    BY <1>1 DEF Desks
<1>3. r \in Resizes /\ ~r.subclassed /\ r.saved = NoArea
    BY DEF Resizes, FreshResize
<1>4. t \in Transes /\ ~t.on /\ t.set = set /\ ~t.timer
    BY DEF Transes, FreshTrans, Policies
<1>5. /\ q \in Pasts /\ q.narrowed = s.past.narrowed
      /\ q.misread = s.past.misread /\ q.moved = s.past.moved /\ q.stale = s.past.stale
    BY <1>1 DEF Pasts
<1>6. u = Started(s, rz, set)
    BY DEF Started
<1> HIDE DEF d, r, t, q
<1>7. /\ u \in States /\ u.desk = d /\ u.resize = r /\ u.trans = t
      /\ u.published = s.published /\ u.past = q
    BY <1>2, <1>3, <1>4, <1>5 DEF States
<1> HIDE DEF u
<1>8. Shown(u) = Shown(s) /\ AreaFor(u, "native") = AreaFor(s, "native")
    BY <1>2, <1>7 DEF Shown, AreaFor
<1>9. SizesInv(u)
  <2>1. Restorable(u)
      BY <1>2, <1>3, <1>5, <1>7, <1>8 DEF SizesInv, Restorable, SizesOff, AreaFor, NoArea
  <2>2. SizesOff(u)
      BY <1>2, <1>3, <1>7, <1>8 DEF SizesInv, SizesOff
  <2>3. QED
      BY <1>3, <1>7, <2>1, <2>2 DEF SizesInv
<1>10. AccentsInv(u)
  <2>1. s.past.narrowed \/ NativeBut(s, {})
      BY DEF AccentsInv
  <2>2. u.past.narrowed \/ NativeBut(u, {})
      BY <1>2, <1>5, <1>7, <1>8, <2>1 DEF NativeBut
  <2>3. QED
      BY <1>4, <1>7, <2>2 DEF AccentsInv
<1>11. QED
    BY <1>2, <1>4, <1>6, <1>7, <1>9, <1>10

LEMMA StartEngineKeeps == IInv /\ StartEngine => IInv'
<1> SUFFICES ASSUME IInv, StartEngine PROVE IInv'
    OBVIOUS
<1> DEFINE sec == config.file
           rz == IF sec["resize"] = Missing THEN "native" ELSE sec["resize"].height
           set == IF sec["trans"] = Missing THEN Defaults ELSE sec["trans"]
           s == Started(Now, rz, set)
           t == IF GetEnabled(sec["resize"], FALSE) THEN Enable(s, "resize") ELSE s
           u == IF GetEnabled(sec["trans"], TRUE) THEN Enable(t, "trans") ELSE t
<1>1. /\ Now \in States /\ SizesInv(Now) /\ AccentsInv(Now) /\ HeardInv(Now, config)
      /\ config \in Configs /\ sec \in Files /\ count \in Counts
    BY InvariantParts
<1>2. "resize" \in Plugins /\ "trans" \in Plugins
    BY DEF Plugins
<1>3. rz \in Heights
    BY <1>1, <1>2, SectionParts DEF Heights
<1>4. set \in Settings /\ sec["trans"] \in {Missing, set}
  <2>1. Defaults \in Settings
      BY DEF Defaults, Settings, Modes
  <2>2. QED
      BY <1>1, <1>2, <2>1, SectionParts
<1>5. Become(u)
    BY DEF StartEngine, Started
<1>6. /\ ~desk.up /\ config' = [config EXCEPT !.root = config.file] /\ count' = count
    BY DEF StartEngine
<1>7. ~Now.resize.subclassed /\ ~Now.trans.on /\ config.todo = {}
    BY <1>1, <1>6, NowIs DEF HeardInv
<1> HIDE DEF rz, set
<1>8. /\ s \in States /\ SizesInv(s) /\ AccentsInv(s)
      /\ s.desk.up = TRUE /\ s.trans.set = set
    BY <1>1, <1>3, <1>4, <1>7, StartedOff
<1> HIDE DEF s
<1>9. /\ t \in States /\ SizesInv(t) /\ AccentsInv(t)
      /\ t.desk.up = TRUE /\ t.trans.set = set
    BY <1>2, <1>8, Enabling DEF Handled, Kept
<1> HIDE DEF t
<1>10. /\ u \in States /\ SizesInv(u) /\ AccentsInv(u)
       /\ u.desk.up = TRUE /\ u.trans.set = set
    BY <1>2, <1>9, Enabling DEF Handled, Kept
<1> HIDE DEF u
<1>11. config' \in Configs /\ config'.root = sec /\ config'.todo = config.todo
    BY <1>1, <1>6 DEF Configs
<1>12. HeardInv(u, config')
    BY <1>4, <1>10, <1>11 DEF HeardInv
<1>13. QED
    BY <1>1, <1>5, <1>6, <1>10, <1>11, <1>12, Concluded

LEMMA StopEngineKeeps == IInv /\ StopEngine => IInv'
<1> SUFFICES ASSUME IInv, StopEngine PROVE IInv'
    OBVIOUS
<1> DEFINE s == Disable(Now, "trans")
           t == Disable(s, "resize")
           d == [t.desk EXCEPT !.up = FALSE]
           u == [t EXCEPT !.desk = d, !.published = "none"]
<1>1. /\ Now \in States /\ SizesInv(Now) /\ AccentsInv(Now) /\ config \in Configs
    BY InvariantParts
<1>2. "resize" \in Plugins /\ "trans" \in Plugins
    BY DEF Plugins
<1>3. Become(u) /\ count' \in Counts /\ config' = config /\ config.todo = {}
    BY Counted DEF StopEngine
<1>4. s \in States /\ SizesInv(s) /\ AccentsInv(s) /\ ~s.trans.on
    BY <1>1, <1>2, Disabling DEF Handled
<1> HIDE DEF s
<1>5. t \in States /\ SizesInv(t) /\ AccentsInv(t) /\ ~t.resize.subclassed /\ ~t.trans.on
    BY <1>2, <1>4, Disabling DEF Handled
<1> HIDE DEF t
<1>6. t.desk \in Desks /\ "none" \in Pubs
    BY <1>5, Parts DEF Pubs
<1>7. /\ d \in Desks /\ d.up = FALSE /\ d.res = t.desk.res /\ d.dpi = t.desk.dpi
      /\ d.alive = t.desk.alive /\ d.bar = t.desk.bar /\ d.content = t.desk.content
      /\ d.area = t.desk.area /\ d.accent = t.desk.accent
    BY <1>6 DEF Desks
<1> HIDE DEF d
<1>8. /\ u \in States /\ u.desk = d /\ u.resize = t.resize /\ u.trans = t.trans
      /\ u.published = "none" /\ u.past = t.past
    BY <1>5, <1>6, <1>7 DEF States
<1> HIDE DEF u
<1>9. Shown(u) = Shown(t) /\ AreaFor(u, "native") = AreaFor(t, "native")
    BY <1>7, <1>8 DEF Shown, AreaFor
<1>10. SizesInv(u)
  <2>1. Restorable(u)
      BY <1>5, <1>7, <1>8, <1>9 DEF SizesInv, Restorable
  <2>2. SizesOff(u)
      BY <1>5, <1>7, <1>8, <1>9 DEF SizesInv, SizesOff
  <2>3. QED
      BY <1>5, <1>8, <2>1, <2>2 DEF SizesInv
<1>11. AccentsInv(u)
    BY <1>5, <1>7, <1>8, AccentsKept
<1>12. HeardInv(u, config')
    BY <1>3, <1>5, <1>7, <1>8 DEF HeardInv
<1>13. QED
    BY <1>1, <1>3, <1>8, <1>10, <1>11, <1>12, Concluded

\* The state of the plugins stays, and with it what is said of it.
LEMMA NowStays ==
    ASSUME IInv, UNCHANGED <<desk, resize, trans, published, past>>,
           config' \in Configs, count' \in Counts, HeardInv(Now, config')
    PROVE  IInv'
<1>1. Become(Now)
    BY NowIs DEF Become
<1>2. QED
    BY <1>1, InvariantParts, Concluded

LEMMA ReloadConfigKeeps == IInv /\ ReloadConfig => IInv'
<1> SUFFICES ASSUME IInv, ReloadConfig PROVE IInv'
    OBVIOUS
<1> DEFINE todo == {p \in Plugins : config.file[p] # config.root[p]}
<1>1. /\ config \in Configs /\ config.file \in Files /\ count \in Counts
      /\ HeardInv(Now, config)
    BY InvariantParts
<1>2. /\ desk.up /\ config.todo = {} /\ UNCHANGED <<desk, resize, trans, published, past>>
      /\ count' = count
      /\ config' = [config EXCEPT !.root = config.file, !.todo = todo]
    BY DEF ReloadConfig, Free
<1>3. todo \in SUBSET Plugins
      /\ ("trans" \in todo \/ config.file["trans"] = config.root["trans"])
    BY DEF Plugins
<1> HIDE DEF todo
<1>4. config' \in Configs /\ config'.root = config.file /\ config'.todo = todo
    BY <1>1, <1>2, <1>3 DEF Configs
<1>5. HeardInv(Now, config')
    BY <1>1, <1>2, <1>3, <1>4, NowIs DEF HeardInv
<1>6. QED
    BY <1>1, <1>2, <1>4, <1>5, NowStays

LEMMA HeardIs ==
    ASSUME NEW s \in States, SizesInv(s), AccentsInv(s), NEW p \in Plugins
    PROVE  LET u == Heard(s, p)
           IN  /\ u \in States /\ SizesInv(u) /\ AccentsInv(u)
               /\ u.desk = s.desk /\ u.trans = s.trans /\ u.resize = s.resize
               /\ p = "trans" /\ ~s.trans.on => "trans" \in u.past.unheard
               /\ p # "trans" => ("trans" \in u.past.unheard <=> "trans" \in s.past.unheard)
<1> DEFINE unheard == IF IsOn(s, p) THEN s.past.unheard \ {p} ELSE s.past.unheard \cup {p}
           q == [s.past EXCEPT !.unheard = unheard]
           u == Heard(s, p)
<1>1. s.past \in Pasts /\ s.past.unheard \in SUBSET Plugins
  <2>1. s.past \in Pasts
      BY Parts
  <2>2. QED
      BY <2>1 DEF Pasts
<1>2. unheard \in SUBSET Plugins
    BY <1>1
<1>3. /\ p = "trans" /\ ~s.trans.on => "trans" \in unheard
      /\ p # "trans" => ("trans" \in unheard <=> "trans" \in s.past.unheard)
    BY DEF IsOn
<1> HIDE DEF unheard
<1>4. /\ q \in Pasts /\ q.unheard = unheard /\ q.late = s.past.late
      /\ q.narrowed = s.past.narrowed
      /\ q.misread = s.past.misread /\ q.moved = s.past.moved /\ q.stale = s.past.stale
    BY <1>1, <1>2 DEF Pasts
<1>5. u = [s EXCEPT !.past = q]
    BY DEF Heard, unheard
<1> HIDE DEF q, u
<1>6. /\ u \in States /\ u.desk = s.desk /\ u.resize = s.resize /\ u.trans = s.trans
      /\ u.published = s.published /\ u.past = q
    BY <1>4, <1>5 DEF States
<1>7. SizesInv(u)
  <2>1. SizesAlike(s, u)
      BY <1>4, <1>6 DEF SizesAlike
  <2>2. QED
      BY <2>1, SizesKept
<1>8. AccentsInv(u)
    BY <1>4, <1>6, AccentsKept
<1>9. QED
    BY <1>3, <1>4, <1>6, <1>7, <1>8 DEF u

LEMMA ReloadSectionKeeps == IInv /\ ReloadSection => IInv'
<1> SUFFICES ASSUME IInv, ReloadSection PROVE IInv'
    OBVIOUS
<1>1. /\ Now \in States /\ SizesInv(Now) /\ AccentsInv(Now) /\ HeardInv(Now, config)
      /\ config \in Configs /\ config.root \in Files /\ config.todo \in SUBSET Plugins
      /\ count \in Counts
    BY InvariantParts
<1>2. PICK p \in config.todo :
        /\ LET sec == config.root[p]
               s == IF GetEnabled(sec, TRUE) THEN Enable(Now, p) ELSE Disable(Now, p)
           IN Become(Heard(TransOnConfigChanged(ResizeOnConfigChanged(s, p, sec), p, sec), p))
        /\ config' = [config EXCEPT !.todo = @ \ {p}]
        /\ count' = count
    BY DEF ReloadSection
<1> DEFINE sec == config.root[p]
           s == IF GetEnabled(sec, TRUE) THEN Enable(Now, p) ELSE Disable(Now, p)
           t == ResizeOnConfigChanged(s, p, sec)
           v == TransOnConfigChanged(t, p, sec)
           u == Heard(v, p)
<1>3. p \in Plugins
    BY <1>1, <1>2
<1>4. Now.desk.up
    BY <1>1, <1>2 DEF HeardInv
<1>5. /\ Handled(Now, s) /\ s.trans.set = Now.trans.set
      /\ p = "trans" /\ ~GetEnabled(sec, TRUE) => ~s.trans.on
    BY <1>1, <1>3, Enabling, Disabling
<1>6. Become(u)
    BY <1>2
<1> HIDE DEF s
<1>7. /\ Handled(s, t) /\ t.trans = s.trans
  <2>1. s \in States /\ SizesInv(s) /\ AccentsInv(s)
      BY <1>5 DEF Handled
  <2>2. Resized(s, t)
      BY <1>1, <1>3, <2>1, ResizeTold
  <2> HIDE DEF t
  <2>3. QED
      BY <2>1, <2>2, ResizedIsHandled
<1> HIDE DEF t
<1>8. p = "trans" /\ t.trans.on /\ sec # Missing => sec.enabled
    BY <1>1, <1>3, <1>5, <1>7, EnabledIsBoolean
<1>9. /\ Handled(t, v) /\ v.trans.on = t.trans.on
      /\ p = "trans" /\ t.trans.on => sec = Missing \/ v.trans.set = sec
      /\ p # "trans" => v.trans.set = t.trans.set
  <2>1. t \in States /\ SizesInv(t) /\ AccentsInv(t)
      BY <1>7 DEF Handled
  <2>2. /\ Recoloured(t, v) /\ v.trans.on = t.trans.on
        /\ p = "trans" /\ t.trans.on => sec = Missing \/ v.trans.set = sec
        /\ p # "trans" => v.trans.set = t.trans.set
      BY <1>1, <1>3, <1>8, <2>1, TransTold
  <2> HIDE DEF v
  <2>3. QED
      BY <2>1, <2>2, RecolouredIsHandled
<1> HIDE DEF v
<1>10. /\ u \in States /\ SizesInv(u) /\ AccentsInv(u)
       /\ u.desk = v.desk /\ u.trans = v.trans
       /\ p = "trans" /\ ~v.trans.on => "trans" \in u.past.unheard
       /\ p # "trans" => ("trans" \in u.past.unheard <=> "trans" \in v.past.unheard)
    BY <1>3, <1>9, HeardIs DEF Handled
<1> HIDE DEF u
<1>11. u.desk.up
    BY <1>4, <1>5, <1>7, <1>9, <1>10 DEF Handled, Kept
<1>12. config' \in Configs /\ config'.root = config.root /\ config'.todo = config.todo \ {p}
    BY <1>1, <1>2 DEF Configs
<1>13. \/ "trans" \in config'.todo \/ "trans" \in u.past.unheard
       \/ config'.root["trans"] \in {Missing, u.trans.set}
  <2>1. CASE p = "trans"
      BY <1>9, <1>10, <1>12, <2>1
  <2>2. CASE p # "trans"
    <3>1. /\ u.trans.set = Now.trans.set
          /\ "trans" \in u.past.unheard <=> "trans" \in Now.past.unheard
        BY <1>5, <1>7, <1>9, <1>10, <2>2 DEF Handled, Kept
    <3>2. QED
        BY <1>1, <1>4, <1>12, <2>2, <3>1 DEF HeardInv
  <2>3. QED
      BY <2>1, <2>2
<1>14. HeardInv(u, config')
    BY <1>11, <1>13 DEF HeardInv
<1>15. QED
    BY <1>1, <1>2, <1>6, <1>10, <1>12, <1>14, Concluded

\* A step that leaves the configuration, the settings and what was heard alone.
LEMMA HeardStays ==
    ASSUME NEW s, NEW u, NEW c, HeardInv(s, c), s.desk.up, u.desk.up = s.desk.up,
           u.trans.set = s.trans.set, u.past.unheard = s.past.unheard
    PROVE  HeardInv(u, c)
BY DEF HeardInv

LEMMA CommandKeeps == IInv /\ Command => IInv'
<1> SUFFICES ASSUME IInv, Command PROVE IInv'
    OBVIOUS
<1>1. /\ Now \in States /\ SizesInv(Now) /\ AccentsInv(Now) /\ HeardInv(Now, config)
      /\ config \in Configs
    BY InvariantParts
<1>2. PICK p \in {"resize", "trans"} :
        /\ desk.up /\ Edit /\ config' = config
        /\ Become(IF IsOn(Now, p) THEN Disable(Now, p) ELSE Enable(Now, p))
    BY DEF Command
<1> DEFINE u == IF IsOn(Now, p) THEN Disable(Now, p) ELSE Enable(Now, p)
<1>3. p \in Plugins
    BY DEF Plugins
<1>4. Become(u) /\ count' \in Counts /\ Now.desk.up
    BY <1>2, Counted, NowIs
<1>5. Handled(Now, u) /\ u.trans.set = Now.trans.set
    BY <1>1, <1>3, Enabling, Disabling
<1> HIDE DEF u
<1>6. HeardInv(u, config)
    BY <1>1, <1>4, <1>5, HeardStays DEF Handled, Kept
<1>7. QED
    BY <1>1, <1>2, <1>4, <1>5, <1>6, Concluded DEF Handled

LEMMA EditFileKeeps == IInv /\ EditFile => IInv'
<1> SUFFICES ASSUME IInv, EditFile PROVE IInv'
    OBVIOUS
<1>1. /\ HeardInv(Now, config) /\ config \in Configs /\ config.file \in Files
    BY InvariantParts
<1>2. PICK p \in Plugins, sec \in {Missing} \cup UNION {Sections[q] : q \in Plugins} :
        /\ sec \in {Missing} \cup Sections[p] /\ Edit
        /\ config' = [config EXCEPT !.file[p] = sec]
        /\ UNCHANGED <<desk, resize, trans, published, past>>
    BY DEF EditFile
<1> DEFINE f == [config.file EXCEPT ![p] = sec]
<1>3. f \in Files
    BY <1>1, <1>2 DEF Files
<1>4. config' = [config EXCEPT !.file = f]
    BY <1>2
<1> HIDE DEF f
<1>5. config' \in Configs /\ config'.root = config.root /\ config'.todo = config.todo
    BY <1>1, <1>3, <1>4 DEF Configs
<1>6. HeardInv(Now, config')
    BY <1>1, <1>5 DEF HeardInv
<1>7. QED
    BY <1>2, <1>5, <1>6, Counted, NowStays

-----------------------------------------------------------------------------
(* The displays and Explorer. *)

With(s, d, q) == [s EXCEPT !.desk = d, !.past = q]

LEMMA WithIs ==
    ASSUME NEW s \in States, NEW d \in Desks, NEW q \in Pasts
    PROVE  /\ With(s, d, q) \in States /\ With(s, d, q).desk = d /\ With(s, d, q).past = q
           /\ With(s, d, q).resize = s.resize /\ With(s, d, q).trans = s.trans
           /\ With(s, d, q).published = s.published
BY DEF With, States

\* A step that leaves alone what is on, the settings and what was heard.
LEMMA HeardCarried ==
    ASSUME NEW s, NEW u, NEW c, HeardInv(s, c), Kept(s, u), u.trans.set = s.trans.set,
           u.trans.on = s.trans.on, u.resize.subclassed = s.resize.subclassed
    PROVE  HeardInv(u, c)
BY DEF HeardInv, Kept

LEMMA NativeBarsAre ==
    /\ NativeBars \in Bars /\ NativeBars \in Accents
    /\ \A w \in Windows : NativeBars[w] = "native"
BY DEF NativeBars, Bars, Accents, Heights, Policies

\* Explorer's own layout after a change of the DPI.
LEMMA LaidOutIs ==
    ASSUME NEW s \in States, NEW again, NEW area \in BOOLEAN
    PROVE  LET u == LaidOut(s, again, area)
           IN  /\ u \in States /\ AccentsAlike(s, u) /\ Kept(s, u)
               /\ u.resize = s.resize /\ u.published = s.published
               /\ u.past.misread = s.past.misread
               /\ u.past.stale = s.resize.subclassed /\ u.past.moved = s.resize.subclassed
               /\ s.resize.subclassed => u.desk.bar[Primary] = s.resize.height
               /\ ~s.resize.subclassed =>
                    /\ u.desk.area = AreaFor(u, "native")
                    /\ \A w \in Shown(s) :
                         /\ s.desk.bar[w] = "native" => u.desk.bar[w] = "native"
                         /\ s.desk.content[w] = "native" => u.desk.content[w] = "native"
<1> DEFINE on == s.resize.subclassed
           bars == Over(again, s.desk.bar, "native")
           bar == IF on THEN [bars EXCEPT ![Primary] = s.resize.height] ELSE bars
           content == Over(again, s.desk.content, "native")
           ar == IF on /\ ~area THEN s.desk.area ELSE AreaFor(s, "native")
           d == [s.desk EXCEPT !.bar = bar, !.content = content, !.area = ar]
           q == [s.past EXCEPT !.stale = on, !.moved = on]
           u == LaidOut(s, again, area)
<1>1. /\ s.desk \in Desks /\ s.resize \in Resizes /\ s.past \in Pasts /\ "native" \in Heights
      /\ s.desk.bar \in Bars /\ s.desk.content \in Bars /\ s.desk.area \in Areas
      /\ on \in BOOLEAN /\ s.resize.height \in Heights
    BY Parts, DeskParts, ResizeParts DEF Heights
<1>2. u = [s EXCEPT !.desk = d, !.past = q]
  <2> DEFINE x == [s EXCEPT !.desk.bar = bar, !.desk.content = content, !.desk.area = ar]
  <2>1. u = [x EXCEPT !.past.stale = on, !.past.moved = on]
      BY DEF LaidOut
  <2> HIDE DEF bar, content, ar, on
  <2>2. x = [s EXCEPT !.desk = d]
      BY <1>1 DEF States, Desks
  <2> HIDE DEF x, d
  <2>3. [x EXCEPT !.past.stale = on, !.past.moved = on] = [s EXCEPT !.desk = d, !.past = q]
      BY <1>1, <2>2 DEF States, Pasts
  <2>4. QED
      BY <2>1, <2>3
<1>3. /\ bars \in Bars /\ content \in Bars
      /\ \A w \in Windows : /\ bars[w] = IF w \in again THEN "native" ELSE s.desk.bar[w]
                            /\ content[w] = IF w \in again THEN "native" ELSE s.desk.content[w]
  <2>1. \A f \in Bars : /\ Over(again, f, "native") \in Bars
                        /\ \A w \in Windows :
                             Over(again, f, "native")[w] = IF w \in again THEN "native" ELSE f[w]
      BY <1>1, OverBars
  <2>2. QED
      BY <1>1, <2>1
<1> HIDE DEF bars, content
<1>4. /\ bar \in Bars /\ (on => bar[Primary] = s.resize.height) /\ (~on => bar = bars)
    BY <1>1, <1>3 DEF Bars, Windows
<1>5. AreaFor(s, "native") \in Areas
    BY <1>1, AreaForIsArea
<1>6. ar \in Areas /\ (~on => ar = AreaFor(s, "native"))
    BY <1>1, <1>5
<1> HIDE DEF bar, ar
<1>7. /\ d \in Desks /\ d.up = s.desk.up /\ d.res = s.desk.res /\ d.dpi = s.desk.dpi
      /\ d.alive = s.desk.alive /\ d.accent = s.desk.accent
      /\ d.bar = bar /\ d.content = content /\ d.area = ar
    BY <1>1, <1>3, <1>4, <1>6 DEF Desks
<1>8. /\ q \in Pasts /\ q.stale = on /\ q.moved = on /\ q.misread = s.past.misread
      /\ q.narrowed = s.past.narrowed /\ q.late = s.past.late /\ q.unheard = s.past.unheard
    BY <1>1 DEF Pasts
<1> HIDE DEF d, q, u
<1>9. /\ u \in States /\ u.desk = d /\ u.past = q
      /\ u.resize = s.resize /\ u.trans = s.trans /\ u.published = s.published
  <2>1. d \in Desks /\ q \in Pasts
      BY <1>7, <1>8
  <2>2. u = With(s, d, q)
      BY <1>2 DEF With
  <2>3. QED
      BY <2>1, <2>2, WithIs
<1>10. AccentsAlike(s, u) /\ Kept(s, u) /\ AreaFor(u, "native") = AreaFor(s, "native")
    BY <1>7, <1>8, <1>9 DEF AccentsAlike, Kept, AreaFor
<1>11. Shown(s) \subseteq Windows
    BY ShownAreWindows
<1>12. QED
    BY <1>3, <1>4, <1>6, <1>7, <1>8, <1>9, <1>10, <1>11 DEF u

LEMMA DpiSet ==
    ASSUME NEW s \in States
    PROVE  LET u == [s EXCEPT !.desk.dpi = 3 - @]
           IN  /\ u \in States /\ AccentsAlike(s, u) /\ Kept(s, u)
               /\ u.resize = s.resize /\ u.published = s.published /\ u.past = s.past
               /\ u.desk.bar = s.desk.bar /\ u.desk.content = s.desk.content
<1> DEFINE d == [s.desk EXCEPT !.dpi = 3 - @]
           u == [s EXCEPT !.desk = d]
<1>1. s.desk \in Desks /\ 3 - s.desk.dpi \in 1 .. 2
    BY Parts, DeskParts
<1>2. /\ d \in Desks /\ d.up = s.desk.up /\ d.alive = s.desk.alive
      /\ d.accent = s.desk.accent /\ d.bar = s.desk.bar /\ d.content = s.desk.content
    BY <1>1 DEF Desks
<1> HIDE DEF d
<1>3. /\ u \in States /\ u.desk = d /\ u.past = s.past
      /\ u.resize = s.resize /\ u.trans = s.trans /\ u.published = s.published
    BY <1>2 DEF States
<1>4. QED
    BY <1>2, <1>3 DEF AccentsAlike, Kept, d

LEMMA DpiChangesKeeps == IInv /\ DpiChanges => IInv'
<1> SUFFICES ASSUME IInv, DpiChanges PROVE IInv'
    OBVIOUS
<1> DEFINE s == [Now EXCEPT !.desk.dpi = 3 - @]
           t == IF resize.subclassed THEN ApplyTaskbarSize(s) ELSE s
           v == HandleDisplayChange(t)
<1>1. /\ Now \in States /\ SizesInv(Now) /\ AccentsInv(Now) /\ HeardInv(Now, config)
      /\ config \in Configs
    BY InvariantParts
<1>2. PICK again \in SUBSET Windows, area \in BOOLEAN :
        Event /\ Become(LaidOut(v, again, area))
    BY Zenon DEF DpiChanges
<1> DEFINE u == LaidOut(v, again, area)
<1>3. Become(u) /\ count' \in Counts /\ config' = config
    BY <1>2, Counted
<1>4. /\ s \in States /\ AccentsAlike(Now, s) /\ Kept(Now, s)
      /\ s.resize = resize /\ s.published = published /\ s.past = past
      /\ s.desk.bar = desk.bar /\ s.desk.content = desk.content
    BY <1>1, DpiSet, NowIs
<1> HIDE DEF s
<1>5. /\ t \in States /\ AccentsAlike(s, t) /\ Kept(s, t)
      /\ t.resize.subclassed = resize.subclassed /\ t.resize.height = resize.height
      /\ t.published = published /\ t.past.misread = past.misread
      /\ ~resize.subclassed => t = s
    BY <1>4, Applied, AlikeTwice
<1> HIDE DEF t
<1>6. AccentsAlike(Now, t) /\ Kept(Now, t)
    BY <1>4, <1>5, AlikeTwice
<1>7. AccentsInv(t)
    BY <1>1, <1>6, AccentsKept DEF AccentsAlike
<1>8. /\ v \in States /\ SizesAlike(t, v) /\ Kept(t, v) /\ AccentsInv(v)
      /\ v.trans.on = t.trans.on /\ v.trans.set = t.trans.set
    BY <1>5, <1>7, DisplayHandled DEF Recoloured
<1> HIDE DEF v
<1>9. /\ u \in States /\ AccentsAlike(v, u) /\ Kept(v, u)
      /\ u.resize = v.resize /\ u.published = v.published /\ u.past.misread = v.past.misread
      /\ u.past.stale = v.resize.subclassed /\ u.past.moved = v.resize.subclassed
      /\ v.resize.subclassed => u.desk.bar[Primary] = v.resize.height
      /\ ~v.resize.subclassed =>
           /\ u.desk.area = AreaFor(u, "native")
           /\ \A w \in Shown(v) :
                /\ v.desk.bar[w] = "native" => u.desk.bar[w] = "native"
                /\ v.desk.content[w] = "native" => u.desk.content[w] = "native"
    BY <1>2, <1>8, LaidOutIs
<1> HIDE DEF u
<1>10. AccentsInv(u)
    BY <1>8, <1>9, AccentsKept DEF AccentsAlike
<1>11. /\ u.resize.subclassed = resize.subclassed /\ u.resize.height = resize.height
       /\ u.published = published /\ u.past.misread = past.misread
       /\ v.resize = t.resize
    BY <1>5, <1>8, <1>9 DEF SizesAlike
<1>12. SizesInv(u)
  <2>1. CASE resize.subclassed
    <3>1. past.misread \/ published = resize.height
        BY <1>1, <2>1, NowIs DEF SizesInv, SizesOn
    <3>2. u.past.stale /\ u.past.moved /\ u.desk.bar[Primary] = u.resize.height
        BY <1>5, <1>9, <1>11, <2>1
    <3>3. QED
        BY <1>11, <2>1, <3>1, <3>2 DEF SizesInv, SizesOn, Restorable
  <2>2. CASE ~resize.subclassed
    <3>1. SizesOff(Now)
        BY <1>1, <2>2, NowIs DEF SizesInv
    <3>2. t = s /\ v.resize = resize /\ v.desk.bar = desk.bar /\ v.desk.content = desk.content
        BY <1>4, <1>5, <1>8, <2>2 DEF SizesAlike
    <3>3. Shown(u) = Shown(Now) /\ Shown(v) = Shown(Now)
        BY <1>4, <1>8, <1>9, <3>2, NowIs DEF AccentsAlike, SizesAlike, Shown
    <3>4. SizesOff(u)
        BY <1>9, <1>11, <2>2, <3>1, <3>2, <3>3, NowIs DEF SizesOff
    <3>5. Restorable(u)
        BY <1>9, <2>2, <3>2, <3>4 DEF Restorable, SizesOff
    <3>6. QED
        BY <1>11, <2>2, <3>4, <3>5 DEF SizesInv
  <2>3. QED
      BY <2>1, <2>2
<1>13. Kept(Now, u)
    BY <1>6, <1>8, <1>9, AlikeTwice
<1>14. HeardInv(u, config)
  <2>1. u.trans.set = trans.set /\ u.trans.on = trans.on
      BY <1>6, <1>8, <1>9, NowIs DEF AccentsAlike
  <2>2. QED
      BY <1>1, <1>11, <1>13, <2>1, HeardCarried, NowIs
<1>15. QED
    BY <1>1, <1>3, <1>9, <1>10, <1>12, <1>14, Concluded

\* The displays lay the bars out anew.
Relaid(s, r, att, bars, area, b) ==
  [s EXCEPT !.desk.res = r, !.desk.attached = att, !.desk.alive = @ \cap att,
            !.desk.bar = bars, !.desk.content = bars, !.desk.area = area,
            !.past.stale = b, !.past.moved = b]

RelaidDesk(d, r, att, bars, area) ==
  [d EXCEPT !.res = r, !.attached = att, !.alive = d.alive \cap att,
            !.bar = bars, !.content = bars, !.area = area]

RelaidPast(q, b) == [q EXCEPT !.stale = b, !.moved = b]

LEMMA RelaidIs ==
    ASSUME NEW s \in States, NEW r, NEW att, NEW bars, NEW area, NEW b
    PROVE  Relaid(s, r, att, bars, area, b)
           = With(s, RelaidDesk(s.desk, r, att, bars, area), RelaidPast(s.past, b))
<1> DEFINE d == RelaidDesk(s.desk, r, att, bars, area)
           q == RelaidPast(s.past, b)
           x == [s EXCEPT !.desk.res = r, !.desk.attached = att, !.desk.alive = @ \cap att,
                          !.desk.bar = bars, !.desk.content = bars, !.desk.area = area]
<1>1. s.desk \in Desks /\ s.past \in Pasts
    BY Parts
<1>2. x = [s EXCEPT !.desk = d]
    BY <1>1 DEF States, Desks, RelaidDesk
<1>3. Relaid(s, r, att, bars, area, b) = [x EXCEPT !.past.stale = b, !.past.moved = b]
    BY DEF Relaid
<1> HIDE DEF d, x
<1>4. [x EXCEPT !.past.stale = b, !.past.moved = b] = [s EXCEPT !.desk = d, !.past = q]
    BY <1>1, <1>2 DEF States, Pasts, RelaidPast
<1>5. QED
    BY <1>3, <1>4 DEF With, d

LEMMA DisplayChangesKeeps == IInv /\ DisplayChanges => IInv'
<1> SUFFICES ASSUME IInv, DisplayChanges PROVE IInv'
    OBVIOUS
<1>1. /\ Now \in States /\ SizesInv(Now) /\ AccentsInv(Now) /\ HeardInv(Now, config)
      /\ config \in Configs /\ desk \in Desks /\ resize \in Resizes /\ past \in Pasts
    BY InvariantParts
<1> DEFINE h == IF resize.subclassed THEN resize.height ELSE "native"
           bars == [NativeBars EXCEPT ![Primary] = h]
<1>2. PICK r \in 1 .. 2, att \in SUBSET Secondaries :
        /\ <<r, att>> # <<desk.res, desk.attached>>
        /\ Event
        /\ LET g == IF resize.subclassed THEN resize.height ELSE "native"
               v == [Now EXCEPT !.desk.res = r, !.desk.attached = att,
                                !.desk.alive = @ \cap att,
                                !.desk.bar = [NativeBars EXCEPT ![Primary] = g],
                                !.desk.content = [NativeBars EXCEPT ![Primary] = g],
                                !.desk.area = <<r, desk.dpi, "native">>,
                                !.past.stale = resize.subclassed,
                                !.past.moved = resize.subclassed]
           IN Become(HandleDisplayChange(v))
    BY Zenon DEF DisplayChanges
<1> DEFINE area == <<r, desk.dpi, "native">>
           alive == Now.desk.alive \cap att
           d == RelaidDesk(Now.desk, r, att, bars, area)
           q == RelaidPast(Now.past, resize.subclassed)
           s == With(Now, d, q)
           u == HandleDisplayChange(s)
<1>3. Become(u) /\ count' \in Counts /\ config' = config
  <2>1. Become(HandleDisplayChange(Relaid(Now, r, att, bars, area, resize.subclassed)))
      BY <1>2, Zenon DEF Relaid
  <2>2. Relaid(Now, r, att, bars, area, resize.subclassed) = s
      BY <1>1, RelaidIs
  <2> HIDE DEF s
  <2>3. Become(u)
      BY <2>1, <2>2, Zenon
  <2>4. QED
      BY <1>2, <2>3, Counted
<1>4. /\ desk.dpi \in 1 .. 2 /\ desk.alive \in SUBSET Secondaries
      /\ resize.subclassed \in BOOLEAN /\ resize.height \in Heights
    BY <1>1, DeskParts, ResizeParts
<1>5. h \in Heights /\ (resize.subclassed => h = resize.height)
      /\ (~resize.subclassed => h = "native")
    BY <1>4 DEF Heights
<1> HIDE DEF h
<1>6. bars \in Bars /\ bars[Primary] = h /\ \A w \in Windows \ {Primary} : bars[w] = "native"
    BY <1>5, NativeBarsAre DEF Bars, Windows
<1> HIDE DEF bars
<1>7. area \in Areas /\ alive \in SUBSET Secondaries /\ alive \subseteq desk.alive
    BY <1>4, NowIs DEF Areas, Heights
<1>8. area = <<r, desk.dpi, "native">>
    OBVIOUS
<1>dq. /\ d = [Now.desk EXCEPT !.res = r, !.attached = att, !.alive = alive, !.bar = bars,
                              !.content = bars, !.area = area]
       /\ q = [Now.past EXCEPT !.stale = resize.subclassed, !.moved = resize.subclassed]
    BY Zenon DEF RelaidDesk, RelaidPast
<1> HIDE DEF area, alive, d, q
<1>9. /\ d \in Desks /\ d.up = desk.up /\ d.res = r /\ d.dpi = desk.dpi
      /\ d.alive = alive /\ d.bar = bars /\ d.content = bars
      /\ d.area = area /\ d.accent = desk.accent
    BY <1>dq, <1>1, <1>6, <1>7, NowIs DEF Desks
<1>10. /\ q \in Pasts /\ q.stale = resize.subclassed /\ q.moved = resize.subclassed
       /\ q.narrowed = past.narrowed
       /\ q.late = past.late /\ q.misread = past.misread /\ q.unheard = past.unheard
    BY <1>dq, <1>1, <1>4, NowIs DEF Pasts
<1>11. /\ s \in States /\ s.desk = d /\ s.past = q
       /\ s.resize = resize /\ s.trans = trans /\ s.published = published
    BY <1>1, <1>9, <1>10, WithIs, NowIs
<1> HIDE DEF s
<1>12. AccentsInv(s)
    BY <1>1, <1>7, <1>9, <1>10, <1>11, AccentsKept, NowIs
<1>13. Kept(Now, s)
    BY <1>9, <1>10, <1>11, NowIs DEF Kept
<1>14. AreaFor(s, "native") = area
    BY <1>8, <1>9, <1>11 DEF AreaFor
<1>15. SizesInv(s)
  <2>1. CASE resize.subclassed
    <3>1. Restorable(s)
        BY <1>10, <1>11, <2>1 DEF Restorable
    <3>2. past.misread \/ published = resize.height
        BY <1>1, <2>1, NowIs DEF SizesInv, SizesOn
    <3>3. s.past.misread \/ SizesOn(s)
        BY <1>5, <1>6, <1>9, <1>10, <1>11, <2>1, <3>2 DEF SizesOn
    <3>4. QED
        BY <1>11, <2>1, <3>1, <3>3 DEF SizesInv
  <2>2. CASE ~resize.subclassed
    <3>1. SizesOff(Now)
        BY <1>1, <2>2, NowIs DEF SizesInv
    <3>2. \A w \in Shown(s) : s.desk.bar[w] = "native" /\ s.desk.content[w] = "native"
        BY <1>5, <1>6, <1>9, <1>11, <2>2, ShownAreWindows
    <3>3. SizesOff(s)
        BY <1>11, <3>1, <3>2, NowIs DEF SizesOff
    <3>4. Restorable(s)
        BY <1>9, <1>11, <1>14, <3>3 DEF Restorable, SizesOff
    <3>5. QED
        BY <1>11, <2>2, <3>3, <3>4 DEF SizesInv
  <2>3. QED
      BY <2>1, <2>2
<1>16. Recoloured(s, u) /\ u.trans.set = s.trans.set /\ u.trans.on = s.trans.on
    BY <1>11, <1>12, DisplayHandled
<1> HIDE DEF u
<1>17. Handled(s, u) /\ u.resize = s.resize
    BY <1>11, <1>15, <1>16, RecolouredIsHandled
<1>18. Kept(Now, u)
    BY <1>13, <1>17, AlikeTwice DEF Handled
<1>19. HeardInv(u, config)
    BY <1>1, <1>11, <1>16, <1>17, <1>18, HeardCarried, NowIs
<1>20. QED
    BY <1>1, <1>3, <1>17, <1>19, Concluded DEF Handled

\* A new taskbar is native.
Created(s, w, moved, late) ==
  [s EXCEPT !.desk.alive = @ \cup {w}, !.desk.bar[w] = "native",
            !.desk.content[w] = "native", !.desk.accent[w] = "native",
            !.past.moved = moved, !.past.late = late]

CreatedDesk(d, w) == [d EXCEPT !.alive = d.alive \cup {w},
                              !.bar = [d.bar EXCEPT ![w] = "native"],
                              !.content = [d.content EXCEPT ![w] = "native"],
                              !.accent = [d.accent EXCEPT ![w] = "native"]]

CreatedPast(q, moved, late) == [q EXCEPT !.moved = moved, !.late = late]

LEMMA CreatedIs ==
    ASSUME NEW s \in States, NEW w, NEW moved, NEW late
    PROVE  Created(s, w, moved, late)
           = With(s, CreatedDesk(s.desk, w), CreatedPast(s.past, moved, late))
<1> DEFINE d == CreatedDesk(s.desk, w)
           q == CreatedPast(s.past, moved, late)
           x == [s EXCEPT !.desk.alive = @ \cup {w}, !.desk.bar[w] = "native",
                          !.desk.content[w] = "native", !.desk.accent[w] = "native"]
<1>1. s.desk \in Desks /\ s.past \in Pasts
    BY Parts
<1>2. x = [s EXCEPT !.desk = d]
    BY <1>1 DEF States, Desks, CreatedDesk
<1>3. Created(s, w, moved, late) = [x EXCEPT !.past.moved = moved, !.past.late = late]
    BY DEF Created
<1> HIDE DEF d, x
<1>4. [x EXCEPT !.past.moved = moved, !.past.late = late] = [s EXCEPT !.desk = d, !.past = q]
    BY <1>1, <1>2 DEF States, Pasts, CreatedPast
<1>5. QED
    BY <1>3, <1>4 DEF With, d

LEMMA SecondaryCreatedKeeps == IInv /\ SecondaryCreated => IInv'
<1> SUFFICES ASSUME IInv, SecondaryCreated PROVE IInv'
    OBVIOUS
<1>1. /\ Now \in States /\ SizesInv(Now) /\ AccentsInv(Now) /\ HeardInv(Now, config)
      /\ config \in Configs /\ count \in Counts
      /\ desk \in Desks /\ resize \in Resizes /\ trans \in Transes /\ past \in Pasts
    BY InvariantParts
<1>2. PICK w \in desk.attached \ desk.alive :
        /\ Free
        /\ Become([Now EXCEPT !.desk.alive = @ \cup {w}, !.desk.bar[w] = "native",
                        !.desk.content[w] = "native", !.desk.accent[w] = "native",
                        !.past.moved = @ \/ resize.subclassed,
                        !.past.late = IF trans.timer THEN @ ELSE @ \cup {w}])
        /\ UNCHANGED <<config, count>>
    BY Zenon DEF SecondaryCreated
<1> DEFINE alive == Now.desk.alive \cup {w}
           bar == [Now.desk.bar EXCEPT ![w] = "native"]
           content == [Now.desk.content EXCEPT ![w] = "native"]
           accent == [Now.desk.accent EXCEPT ![w] = "native"]
           moved == Now.past.moved \/ resize.subclassed
           late == IF trans.timer THEN Now.past.late ELSE Now.past.late \cup {w}
           d == CreatedDesk(Now.desk, w)
           q == CreatedPast(Now.past, moved, late)
           u == With(Now, d, q)
<1>3. Become(u)
  <2>1. Become(Created(Now, w, moved, late))
      BY <1>2, Zenon DEF Created, moved, late
  <2>2. Created(Now, w, moved, late) = u
      BY <1>1, CreatedIs
  <2>3. QED
      BY <2>1, <2>2, Zenon
<1>4. /\ desk.attached \in SUBSET Secondaries /\ desk.alive \in SUBSET Secondaries
      /\ desk.bar \in Bars /\ desk.content \in Bars /\ desk.accent \in Accents
      /\ past.late \in SUBSET Secondaries
  <2>1. past.late \in SUBSET Secondaries
      BY <1>1 DEF Pasts
  <2>2. QED
      BY <1>1, <2>1, DeskParts
<1>5. w \in Secondaries /\ w \in Windows /\ w # Primary /\ Primary \in Windows
    BY <1>2, <1>4, TaskbarPluginsAssumption DEF Windows
<1>6. alive \in SUBSET Secondaries /\ late \in SUBSET Secondaries /\ moved \in BOOLEAN
    BY <1>4, <1>5, NowIs
<1>7. /\ bar \in Bars /\ content \in Bars
      /\ bar[w] = "native" /\ content[w] = "native"
      /\ \A x \in Windows \ {w} : bar[x] = desk.bar[x] /\ content[x] = desk.content[x]
    BY <1>4, <1>5, NowIs DEF Bars, Heights
<1>8. /\ accent \in Accents /\ accent[w] = "native"
      /\ \A x \in Windows \ {w} : accent[x] = desk.accent[x]
    BY <1>4, <1>5, NowIs DEF Accents, Policies
<1>9. /\ moved = (past.moved \/ resize.subclassed) /\ alive = desk.alive \cup {w}
      /\ ~trans.timer => late = past.late \cup {w}
    BY NowIs
<1>dq. d = [Now.desk EXCEPT !.alive = alive, !.bar = bar, !.content = content,
                           !.accent = accent]
      /\ q = [Now.past EXCEPT !.moved = moved, !.late = late]
    BY Zenon DEF CreatedDesk, CreatedPast
<1> HIDE DEF alive, bar, content, accent, moved, late, d, q
<1>10. /\ d \in Desks /\ d.up = desk.up /\ d.res = desk.res /\ d.dpi = desk.dpi
       /\ d.alive = alive /\ d.bar = bar /\ d.content = content /\ d.area = desk.area
       /\ d.accent = accent
    BY <1>dq, <1>1, <1>6, <1>7, <1>8, NowIs DEF Desks
<1>11. /\ q \in Pasts /\ q.stale = past.stale /\ q.moved = moved
       /\ q.narrowed = past.narrowed /\ q.late = late
       /\ q.misread = past.misread /\ q.unheard = past.unheard
    BY <1>dq, <1>1, <1>6, NowIs DEF Pasts
<1>12. /\ u \in States /\ u.desk = d /\ u.past = q
       /\ u.resize = resize /\ u.trans = trans /\ u.published = published
    BY <1>1, <1>10, <1>11, WithIs, NowIs
<1> HIDE DEF u
<1>13. Shown(u) = Shown(Now) \cup {w} /\ Shown(u) \subseteq Windows
       /\ \A h : AreaFor(u, h) = AreaFor(Now, h)
    BY <1>9, <1>10, <1>12, ShownAreWindows, NowIs DEF Shown, AreaFor
<1>14. SizesInv(u)
  <2>1. Restorable(u)
      BY <1>1, <1>10, <1>11, <1>12, <1>13, NowIs DEF SizesInv, Restorable
  <2>2. ASSUME resize.subclassed PROVE u.past.misread \/ SizesOn(u)
    <3>1. past.misread \/ SizesOn(Now)
        BY <1>1, <2>2, NowIs DEF SizesInv
    <3>2. u.past.moved
        BY <1>9, <1>11, <1>12, <2>2
    <3>3. QED
        BY <1>5, <1>7, <1>10, <1>11, <1>12, <3>1, <3>2, NowIs DEF SizesOn
  <2>3. ASSUME ~resize.subclassed PROVE SizesOff(u)
    <3>1. SizesOff(Now)
        BY <1>1, <2>3, NowIs DEF SizesInv
    <3>2. \A x \in Shown(u) : u.desk.bar[x] = "native" /\ u.desk.content[x] = "native"
        BY <1>7, <1>10, <1>12, <1>13, <3>1, NowIs DEF SizesOff
    <3>3. QED
        BY <1>12, <3>1, <3>2, NowIs DEF SizesOff
  <2>4. QED
      BY <1>12, <2>1, <2>2, <2>3 DEF SizesInv
<1>15. AccentsInv(u)
  <2>1. \A tracked : NativeBut(Now, tracked) => NativeBut(u, tracked)
    <3>1. ASSUME NEW tracked, NativeBut(Now, tracked), NEW x \in Shown(u), x \notin tracked
          PROVE  u.desk.accent[x] = "native"
        BY <1>8, <1>10, <1>12, <1>13, <3>1, NowIs DEF NativeBut
    <3>2. QED
        BY <3>1 DEF NativeBut
  <2>2. ~trans.timer /\ Covered(Now) => Covered(u)
    <3>1. ASSUME ~trans.timer, Covered(Now), NEW x \in Shown(u), x \notin u.past.late,
                 x = Primary \/ u.trans.set.secondary
          PROVE  u.desk.accent[x] = ComputeAccentPolicy(u.trans.set)
      <4>1. x # w /\ x \in Shown(Now) /\ x \notin past.late /\ x \in Windows
          BY <1>9, <1>11, <1>12, <1>13, <3>1
      <4>2. QED
          BY <1>8, <1>10, <1>12, <3>1, <4>1, NowIs DEF Covered
    <3>2. QED
        BY <3>1 DEF Covered
  <2>3. QED
      BY <1>1, <1>11, <1>12, <2>1, <2>2, NowIs DEF AccentsInv
<1>16. HeardInv(u, config)
  <2>1. Kept(Now, u)
      BY <1>10, <1>11, <1>12, NowIs DEF Kept
  <2>2. QED
      BY <1>1, <1>12, <2>1, HeardCarried, NowIs
<1>17. QED
    BY <1>1, <1>2, <1>3, <1>12, <1>14, <1>15, <1>16, Concluded

LEMMA TimerSet ==
    ASSUME NEW s \in States, SizesInv(s)
    PROVE  LET u == [s EXCEPT !.trans.timer = FALSE]
           IN  /\ u \in States /\ SizesInv(u) /\ Kept(s, u) /\ u.desk = s.desk /\ u.past = s.past
               /\ u.resize = s.resize
               /\ u.trans.on = s.trans.on /\ u.trans.set = s.trans.set
               /\ ~u.trans.timer /\ u.trans.active = s.trans.active
               /\ u.trans.policy = s.trans.policy
<1> DEFINE t == [s.trans EXCEPT !.timer = FALSE]
           u == [s EXCEPT !.trans = t]
<1>1. s.trans \in Transes
    BY Parts
<1>2. /\ t \in Transes /\ t.on = s.trans.on /\ t.set = s.trans.set /\ ~t.timer
      /\ t.active = s.trans.active /\ t.policy = s.trans.policy
    BY <1>1 DEF Transes
<1> HIDE DEF t
<1>3. /\ u \in States /\ u.desk = s.desk /\ u.resize = s.resize /\ u.trans = t
      /\ u.published = s.published /\ u.past = s.past
    BY <1>2 DEF States
<1> HIDE DEF u
<1>4. SizesAlike(s, u) /\ Kept(s, u)
    BY <1>3 DEF SizesAlike, Kept
<1>5. SizesInv(u)
    BY <1>4, SizesKept
<1>6. QED
    BY <1>2, <1>3, <1>4, <1>5 DEF u, t

LEMMA DebounceFiresKeeps == IInv /\ DebounceFires => IInv'
<1> SUFFICES ASSUME IInv, DebounceFires PROVE IInv'
    OBVIOUS
<1> DEFINE s == [Now EXCEPT !.trans.timer = FALSE]
           u == ApplyPolicyToAll(DiscoverAll(s), trans.policy)
<1>1. /\ Now \in States /\ SizesInv(Now) /\ AccentsInv(Now) /\ HeardInv(Now, config)
      /\ config \in Configs /\ count \in Counts
    BY InvariantParts
<1>2. /\ trans.timer /\ config' = config /\ count' = count
      /\ Become(IF trans.active THEN u ELSE s)
    BY DEF DebounceFires
<1>3. trans.on /\ trans.active /\ trans.policy = ComputeAccentPolicy(trans.set)
    BY <1>1, <1>2, NowIs DEF AccentsInv
<1>4. /\ s \in States /\ SizesInv(s) /\ Kept(Now, s) /\ s.desk = Now.desk /\ s.past = Now.past
      /\ s.resize = Now.resize
      /\ s.trans.on = Now.trans.on /\ s.trans.set = Now.trans.set
      /\ ~s.trans.timer /\ s.trans.active = Now.trans.active
    BY <1>1, TimerSet
<1> HIDE DEF s
<1>5. NarrowNative(s)
  <2>1. NarrowNative(Now)
      BY <1>1, AccentsNarrow
  <2>2. Shown(s) = Shown(Now)
      BY <1>4 DEF Shown
  <2>3. QED
      BY <1>4, <2>1, <2>2 DEF NarrowNative, NativeBut
<1>6. u = Refreshed(s)
    BY <1>3, <1>4, NowIs DEF Refreshed
<1> HIDE DEF u
<1>7. Become(u)
    BY <1>2, <1>3
<1>8. /\ u \in States /\ SizesAlike(s, u) /\ Kept(s, u)
      /\ u.trans.on = s.trans.on /\ u.trans.set = s.trans.set
      /\ u.trans.timer = s.trans.timer /\ u.trans.active = s.trans.active
      /\ u.trans.policy = ComputeAccentPolicy(s.trans.set)
      /\ Covered(u)
      /\ u.past.narrowed \/ NativeBut(u, u.trans.tracked)
      /\ u.trans.set.secondary \/ u.trans.tracked \subseteq {Primary}
    BY <1>4, <1>5, <1>6, RefreshedCovers
<1>9. AccentsInv(u)
    BY <1>3, <1>4, <1>8, NowIs DEF AccentsInv
<1>10. SizesInv(u) /\ u.resize = s.resize
    BY <1>4, <1>8, SizesKept DEF SizesAlike
<1>11. HeardInv(u, config)
  <2>1. Kept(Now, u)
      BY <1>4, <1>8, AlikeTwice
  <2>2. QED
      BY <1>1, <1>4, <1>8, <1>10, <2>1, HeardCarried
<1>12. QED
    BY <1>1, <1>2, <1>7, <1>8, <1>9, <1>10, <1>11, Concluded

LEMMA ExplorerCrashesKeeps == IInv /\ ExplorerCrashes => IInv'
<1> SUFFICES ASSUME IInv, ExplorerCrashes PROVE IInv'
    OBVIOUS
<1>1. /\ Now \in States /\ config \in Configs /\ desk \in Desks
    BY InvariantParts
<1>2. PICK area \in {desk.area, AreaFor(Now, "native")} :
        /\ Event
        /\ Become([Now EXCEPT !.desk = [@ EXCEPT !.up = FALSE, !.alive = desk.attached,
                                    !.bar = NativeBars, !.content = NativeBars,
                                    !.accent = NativeBars, !.area = area],
                        !.resize = FreshResize, !.trans = FreshTrans, !.published = "none",
                        !.past = [narrowed |-> FALSE, late |-> {}, misread |-> FALSE,
                                  moved |-> FALSE, unheard |-> {},
                                  stale |-> area # AreaFor(Now, "native")]])
    BY Zenon DEF ExplorerCrashes
<1> DEFINE d == [Now.desk EXCEPT !.up = FALSE, !.alive = desk.attached,
                             !.bar = NativeBars, !.content = NativeBars,
                             !.accent = NativeBars, !.area = area]
           stale == area # AreaFor(Now, "native")
           q == [narrowed |-> FALSE, late |-> {}, misread |-> FALSE,
                 moved |-> FALSE, unheard |-> {}, stale |-> stale]
           u == [Now EXCEPT !.desk = d, !.resize = FreshResize, !.trans = FreshTrans,
                            !.published = "none", !.past = q]
<1>3. Become(u) /\ config' = config /\ count' \in Counts /\ config.todo = {}
  <2>1. Become(u)
      BY <1>2, Zenon
  <2>2. QED
      BY <1>2, <2>1, Counted
<1>4. area \in Areas /\ desk.attached \in SUBSET Secondaries /\ stale \in BOOLEAN
  <2>1. "native" \in Heights
      BY DEF Heights
  <2>2. QED
      BY <1>1, <1>2, <2>1, DeskParts, AreaForIsArea
<1>5. stale \/ area = AreaFor(Now, "native")
    OBVIOUS
<1> HIDE DEF stale
<1>6. /\ d \in Desks /\ d.up = FALSE /\ d.res = desk.res /\ d.dpi = desk.dpi
      /\ d.alive = desk.attached /\ d.bar = NativeBars /\ d.content = NativeBars
      /\ d.area = area /\ d.accent = NativeBars
    BY <1>1, <1>4, NativeBarsAre, NowIs DEF Desks
<1>7. q \in Pasts /\ q.stale = stale
    BY <1>4 DEF Pasts
<1>8. /\ FreshResize \in Resizes /\ FreshTrans \in Transes /\ "none" \in Pubs
      /\ ~FreshResize.subclassed /\ FreshResize.saved = NoArea
      /\ ~FreshTrans.on /\ ~FreshTrans.timer
  <2>1. FreshResize \in Resizes /\ ~FreshResize.subclassed /\ FreshResize.saved = NoArea
      BY DEF FreshResize, Resizes, Heights
  <2>2. FreshTrans \in Transes /\ ~FreshTrans.on /\ ~FreshTrans.timer
      BY DEF FreshTrans, Transes, Defaults, Settings, Policies, Modes
  <2>3. QED
      BY <2>1, <2>2 DEF Pubs
<1> HIDE DEF d, q
<1>9. /\ u \in States /\ u.desk = d /\ u.past = q
      /\ u.resize = FreshResize /\ u.trans = FreshTrans /\ u.published = "none"
    BY <1>1, <1>6, <1>7, <1>8 DEF States
<1> HIDE DEF u
<1>10. \A w \in Shown(u) : NativeBars[w] = "native"
    BY <1>9, ShownAreWindows, NativeBarsAre
<1>11. AreaFor(u, "native") = AreaFor(Now, "native")
    BY <1>6, <1>9, NowIs DEF AreaFor
<1>12. SizesInv(u)
  <2>1. SizesOff(u)
      BY <1>6, <1>8, <1>9, <1>10 DEF SizesOff
  <2>2. Restorable(u)
      BY <1>5, <1>6, <1>7, <1>8, <1>9, <1>11 DEF Restorable
  <2>3. QED
      BY <1>8, <1>9, <2>1, <2>2 DEF SizesInv
<1>13. AccentsInv(u)
    BY <1>6, <1>8, <1>9, <1>10 DEF AccentsInv, NativeBut
<1>14. HeardInv(u, config)
    BY <1>3, <1>6, <1>8, <1>9 DEF HeardInv
<1>15. QED
    BY <1>1, <1>3, <1>9, <1>12, <1>13, <1>14, Concluded

-----------------------------------------------------------------------------
(* The theorems. *)

LEMMA InvariantKept == IInv /\ [Next]_vars => IInv'
<1>1. ASSUME IInv, UNCHANGED vars PROVE IInv'
  <2>1. /\ config \in Configs /\ count \in Counts /\ HeardInv(Now, config)
        /\ config' = config /\ count' = count
      BY <1>1, InvariantParts DEF vars
  <2>2. UNCHANGED <<desk, resize, trans, published, past>>
      BY <1>1 DEF vars
  <2>3. QED
      BY <1>1, <2>1, <2>2, NowStays
<1>2. QED
    BY <1>1, StartEngineKeeps, StopEngineKeeps, ReloadConfigKeeps, ReloadSectionKeeps,
       CommandKeeps, EditFileKeeps, DpiChangesKeeps, DisplayChangesKeeps,
       SecondaryCreatedKeeps, DebounceFiresKeeps, ExplorerCrashesKeeps DEF Next

\* Both plugins keep what IInv says of them in every reachable state.
LEMMA Invariant == Spec => []IInv
BY InitInvariant, InvariantKept, PTL DEF Spec

(***************************************************************************)
(* The displays, the statics of the two plugins, the store and the         *)
(* configuration keep their types.                                         *)
(***************************************************************************)
THEOREM TypeCorrect == Spec => []TypeOK
<1>1. ASSUME IInv PROVE TypeOK
  <2>1. /\ desk \in Desks /\ resize \in Resizes /\ trans \in Transes
        /\ published \in Pubs /\ past \in Pasts /\ count \in Counts
        /\ config.file \in Files /\ config.root \in Files /\ config.todo \subseteq Plugins
      BY <1>1, InvariantParts
  <2>2. Settings = Sections["trans"]
      BY DEF Settings, Sections
  <2>3. trans \in [on: BOOLEAN, set: Sections["trans"], tracked: SUBSET Windows,
                   policy: {"native"} \cup Modes, timer: BOOLEAN, active: BOOLEAN]
      BY <2>1, <2>2 DEF Transes, Policies
  <2>4. desk \in [up: BOOLEAN, res: 1 .. 2, dpi: 1 .. 2, attached: SUBSET Secondaries,
                  alive: SUBSET Secondaries, bar: [Windows -> Heights],
                  content: [Windows -> Heights], area: Areas,
                  accent: [Windows -> {"native"} \cup Modes]]
      BY <2>1 DEF Desks, Bars, Accents, Policies
  <2>5. QED
      BY <2>1, <2>3, <2>4 DEF TypeOK, Resizes, Pubs, Pasts, Counts
<1>2. QED
    BY <1>1, Invariant, PTL

(***************************************************************************)
(* While transparency is on every taskbar it is meant for shows the policy *)
(* of its settings, which are those of the section it heard last; off, all *)
(* are native (taskbar_transparency.c, tray_discovery.c).                  *)
(***************************************************************************)
THEOREM AccentsAlwaysFollow == Spec => []AccentsFollow
<1>1. ASSUME IInv PROVE AccentsFollow
  <2>1. AccentsInv(Now) /\ HeardInv(Now, config)
      BY <1>1, InvariantParts
  <2>2. ASSUME trans.on
        PROVE  /\ trans.timer \/ \A w \in Shown(Now) \ past.late :
                    w = Primary \/ trans.set.secondary =>
                      desk.accent[w] = ComputeAccentPolicy(trans.set)
               /\ config.todo = {} =>
                    "trans" \in past.unheard \/ config.root["trans"] \in {Missing, trans.set}
    <3>1. trans.timer \/ Covered(Now)
        BY <2>1, <2>2, NowIs DEF AccentsInv
    <3>2. desk.up
        BY <2>1, <2>2, NowIs DEF HeardInv
    <3>3. QED
        BY <2>1, <3>1, <3>2, NowIs DEF Covered, HeardInv
  <2>3. ASSUME ~trans.on
        PROVE  past.narrowed \/ \A w \in Shown(Now) : desk.accent[w] = "native"
      BY <2>1, <2>3, NowIs DEF AccentsInv, NativeBut
  <2>4. QED
      BY <2>2, <2>3 DEF AccentsFollow, Free
<1>2. QED
    BY <1>1, Invariant, PTL

(***************************************************************************)
(* While taskbar_resize is on, the primary taskbar, its children, the work *)
(* area, the other taskbars and the published height agree; off, all are   *)
(* native and the work area is the one a native bar leaves                 *)
(* (taskbar_resize.c).                                                     *)
(***************************************************************************)
THEOREM SizesAlwaysFollow == Spec => []SizesFollow
<1>1. ASSUME IInv PROVE SizesFollow
  <2>1. SizesInv(Now)
      BY <1>1, InvariantParts
  <2>2. ASSUME resize.subclassed PROVE past.misread \/ SizesOn(Now)
      BY <2>1, <2>2, NowIs DEF SizesInv
  <2>3. ASSUME ~resize.subclassed
        PROVE  SizesOff(Now) /\ (past.stale \/ desk.area = AreaFor(Now, "native"))
    <3>1. SizesOff(Now) /\ Restorable(Now)
        BY <2>1, <2>3, NowIs DEF SizesInv
    <3>2. AreaFor(Now, "native") # NoArea
        BY DEF AreaFor, NoArea
    <3>3. QED
        BY <3>1, <3>2, NowIs DEF SizesOff, Restorable
  <2>4. QED
      BY <2>2, <2>3, NowIs DEF SizesFollow, SizesOn, SizesOff
<1>2. QED
    BY <1>1, Invariant, PTL
============================================================================
