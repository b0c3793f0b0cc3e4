------------------------ MODULE IconDiscovery_proofs ------------------------
(* For any number of monitors, workers, bitmaps and changes: every payload   *)
(* has one owner until it is freed; and, unless Enable overtakes a worker    *)
(* that Disable gave up, Disable leaves no more than one worker in its query *)
(* and no monitor goes back to an older list of icons.                       *)
EXTENDS IconDiscovery, FiniteSetTheorems, SequenceTheorems, TLAPS

USE MonitorsAssumption, BoundsAssumption, HandlesAssumption, ThreadsAssumption,
    RunAssumption
    DEF MonitorsAssumption, BoundsAssumption, HandlesAssumption, ThreadsAssumption,
        RunAssumption

-----------------------------------------------------------------------------
(* The invariant.                                                            *)

Bitmaps == Handles \cup {NoHandle}
Versions == 0..MaxVersion
Counts == 0..MaxMonitors
Loads == [m : 0..(MaxMonitors + 1), ver : Versions, bmp : Bitmaps]
Places == Holding \cup {"gone", "wait", "woken", "next", "post"}
WorkerStates == [at : Places, n : Counts, load : Loads]

\* What a worker carries at each step of its loop over the monitors.
Carries(r) ==
    /\ r.at = "gone" => r = Gone
    /\ r.at = "next" => r.load.m # 0
    /\ r.at \in Holding \cup {"post"} => r.load.m \in Monitors

CarriedInv ==
    /\ worker \in [Threads -> WorkerStates]
    /\ \A w \in Threads : Carries(worker[w])

\* A payload lies in the slot of its monitor; the UI thread has taken one only
\* while the plugin is enabled.
SlotsInv ==
    /\ \A m \in Monitors : slot[m] # NoPayload => slot[m].m = m
    /\ phase # "on" => building = NoPayload

\* While the plugin holds a worker's handle no other worker lives.  Disable
\* gives the handle up when the worker has ended or is in its query; that
\* worker ends without doing more, and Enable starts when there is none.
Held == {"enabling", "on", "stopping", "joining"}

OneWorkerInv ==
    /\ phase \in Held => \A w \in Threads : worker[w] # Gone => w = thread
    /\ \A v, w \in Threads : Gone \in {worker[v], worker[w]} \/ v = w
    /\ phase \notin Held =>
          /\ stop = "null"
          /\ \A w \in Threads : worker[w] = Gone \/ worker[w].at \in {"query", "wait"}

CleanInv ==
    phase \in {"off", "unmapped"} =>
        cache = EmptyCache /\ \A m \in Monitors : slot[m] = NoPayload

\* From a tree to the payload being built from, the one in the slot and the
\* one the worker holds, each was queried no earlier than the one before.
HasList == {"capture", "captured", "publish"}

AgeInv ==
    /\ \A m \in Monitors : shown[m].ver <= version
    /\ building # NoPayload =>
          shown[building.m].ver <= building.ver /\ building.ver <= version
    /\ \A m \in Monitors : slot[m] # NoPayload =>
          /\ shown[m].ver <= slot[m].ver /\ slot[m].ver <= version
          /\ building.m = m => building.ver <= slot[m].ver
    /\ \A w \in Threads : worker[w].at \in HasList =>
          LET load == worker[w].load
          IN  /\ shown[load.m].ver <= load.ver /\ load.ver <= version
              /\ building.m = load.m => building.ver <= load.ver
              /\ slot[load.m].ver <= load.ver

DiscoveryInv ==
    /\ TypeOK /\ CarriedInv /\ SlotsInv /\ PayloadsAccounted
    /\ ~revived => OneWorkerInv /\ CleanInv /\ AgeInv
-----------------------------------------------------------------------------
(* Types and counts.                                                         *)

LEMMA LoadTypes ==
    /\ NoPayload \in Loads /\ Gone \in WorkerStates
    /\ \A m \in 0..(MaxMonitors + 1) : [NoPayload EXCEPT !.m = m] \in Loads
    /\ \A load \in Loads, v \in Versions : [load EXCEPT !.ver = v] \in Loads
    /\ \A load \in Loads, b \in Bitmaps : [load EXCEPT !.bmp = b] \in Loads
<1>1. NoPayload \in Loads
    BY DEF NoPayload, Loads, Versions, Bitmaps, NoHandle
<1>2. Gone \in WorkerStates
    BY <1>1 DEF Gone, WorkerStates, Places, Counts
<1>3. \A m \in 0..(MaxMonitors + 1) : [NoPayload EXCEPT !.m = m] \in Loads
    BY <1>1 DEF Loads
<1>4. \A load \in Loads, v \in Versions : [load EXCEPT !.ver = v] \in Loads
    BY Zenon DEF Loads
<1>5. \A load \in Loads, b \in Bitmaps : [load EXCEPT !.bmp = b] \in Loads
    BY Zenon DEF Loads
<1>6. QED
    BY <1>1, <1>2, <1>3, <1>4, <1>5

LEMMA PayloadTypes ==
    /\ Payload = {load \in Loads : load.m \in Monitors}
    /\ NoPayload \notin Payload
<1>1. \A load \in Payload : load \in Loads /\ load.m \in Monitors
    BY DEF Payload, Loads, Versions, Bitmaps, Monitors
<1>2. \A load \in Loads : load.m \in Monitors => load \in Payload
    BY DEF Payload, Loads, Versions, Bitmaps
<1>3. NoPayload.m \notin Monitors
    BY DEF NoPayload, Monitors
<1>4. QED
    BY <1>1, <1>2, <1>3

\* A set that gains or loses at most one member.
LEMMA CountChange ==
    ASSUME NEW S, IsFiniteSet(S), NEW A \in SUBSET S, NEW B \in SUBSET S, NEW x \in S,
           \A y \in S \ {x} : y \in A <=> y \in B
    PROVE  /\ Cardinality(A) \in Nat /\ Cardinality(B) \in Nat
           /\ (x \in A <=> x \in B) => Cardinality(B) = Cardinality(A)
           /\ x \notin A /\ x \in B => Cardinality(B) = Cardinality(A) + 1
           /\ x \in A /\ x \notin B => Cardinality(A) = Cardinality(B) + 1
<1>1. IsFiniteSet(A) /\ IsFiniteSet(B)
    BY FS_Subset
<1>2. Cardinality(A) \in Nat /\ Cardinality(B) \in Nat
    BY <1>1, FS_CardinalityType
<1>3. (x \in A <=> x \in B) => A = B
    OBVIOUS
<1>4. x \notin A /\ x \in B => B = A \cup {x}
    OBVIOUS
<1>5. x \in A /\ x \notin B => A = B \cup {x}
    OBVIOUS
<1>6. QED
    BY <1>1, <1>2, <1>3, <1>4, <1>5, FS_AddElement

LEMMA Finite == IsFiniteSet(Monitors) /\ IsFiniteSet(Threads)
BY FS_Interval DEF Monitors

InSlots == Cardinality({m \in Monitors : slot[m] # NoPayload})
InHands == Cardinality({w \in Threads : worker[w].at \in Holding})
InTree  == IF building = NoPayload THEN 0 ELSE 1

LEMMA CountTypes ==
    /\ InSlots \in Nat /\ InHands \in Nat /\ InTree \in {0, 1}
    /\ InSlots' \in Nat /\ InHands' \in Nat /\ InTree' \in {0, 1}
BY Finite, FS_Subset, FS_CardinalityType DEF InSlots, InHands, InTree

LEMMA SlotCount ==
    ASSUME NEW m \in Monitors, \A k \in Monitors \ {m} : slot'[k] = slot[k]
    PROVE  /\ (slot[m] = NoPayload <=> slot'[m] = NoPayload) => InSlots' = InSlots
           /\ slot[m] = NoPayload /\ slot'[m] # NoPayload => InSlots' = InSlots + 1
           /\ slot[m] # NoPayload /\ slot'[m] = NoPayload => InSlots = InSlots' + 1
<1> DEFINE A == {k \in Monitors : slot[k] # NoPayload}
           B == {k \in Monitors : slot'[k] # NoPayload}
<1>1. IsFiniteSet(Monitors)
    BY Finite
<1>2. /\ A \in SUBSET Monitors /\ B \in SUBSET Monitors
      /\ \A k \in Monitors \ {m} : k \in A <=> k \in B
      /\ m \in A <=> slot[m] # NoPayload
      /\ m \in B <=> slot'[m] # NoPayload
    OBVIOUS
<1>3. InSlots = Cardinality(A) /\ InSlots' = Cardinality(B)
    BY DEF InSlots
<1> HIDE DEF A, B
<1>4. QED
    BY <1>1, <1>2, <1>3, CountChange

LEMMA HandCount ==
    ASSUME NEW w \in Threads, \A v \in Threads \ {w} : worker'[v] = worker[v]
    PROVE  /\ (worker[w].at \in Holding <=> worker'[w].at \in Holding) => InHands' = InHands
           /\ worker[w].at \notin Holding /\ worker'[w].at \in Holding => InHands' = InHands + 1
           /\ worker[w].at \in Holding /\ worker'[w].at \notin Holding => InHands = InHands' + 1
<1> DEFINE A == {v \in Threads : worker[v].at \in Holding}
           B == {v \in Threads : worker'[v].at \in Holding}
<1>1. /\ A \in SUBSET Threads /\ B \in SUBSET Threads
      /\ \A v \in Threads \ {w} : v \in A <=> v \in B
      /\ w \in A <=> worker[w].at \in Holding
      /\ w \in B <=> worker'[w].at \in Holding
    OBVIOUS
<1>2. InHands = Cardinality(A) /\ InHands' = Cardinality(B)
    BY DEF InHands
<1>3. IsFiniteSet(Threads)
    BY Finite
<1> HIDE ThreadsAssumption DEF A, B, ThreadsAssumption
<1>4. /\ (w \in A <=> w \in B) => Cardinality(B) = Cardinality(A)
      /\ w \notin A /\ w \in B => Cardinality(B) = Cardinality(A) + 1
      /\ w \in A /\ w \notin B => Cardinality(A) = Cardinality(B) + 1
    BY <1>1, <1>3, CountChange
<1>5. QED
    BY <1>1, <1>2, <1>4

LEMMA Accounted == PayloadsAccounted <=> heap = InSlots + InHands + InTree
BY DEF PayloadsAccounted, InSlots, InHands, InTree

LEMMA InitInv == Init => DiscoveryInv
<1> SUFFICES ASSUME Init PROVE DiscoveryInv
    OBVIOUS
<1> USE DEF Init
<1>1. CarriedInv
    BY LoadTypes DEF CarriedInv, Carries, Gone, Holding
<1>2. SlotsInv /\ OneWorkerInv /\ CleanInv
    BY DEF SlotsInv, OneWorkerInv, CleanInv, Held
<1>3. AgeInv
    BY DEF AgeInv, NoTree, HasList, Gone
<1>4. TypeOK
    <2>1. /\ \A w \in Threads : worker[w] = Gone
          /\ Gone.at = "gone" /\ Gone.n = 0 /\ Gone.load.m = 0
        BY DEF Gone, NoPayload
    <2>2. NoTree \in Tree
        BY DEF NoTree, Tree
    <2>3. EmptyCache \in [Key -> Handles \cup {NoHandle}]
        BY DEF EmptyCache
    <2>4. active \subseteq 1..monitors /\ posted \in Seq(Monitors) /\ version \in 1..MaxVersion
        OBVIOUS
    <2>5. \A w \in Threads :
             /\ worker[w].at \in Holding \cup {"gone", "wait", "woken", "next", "post"}
             /\ worker[w].n \in 0..MaxMonitors
             /\ worker[w].load.m \in 0..(MaxMonitors + 1)
        BY <2>1
    <2>6. shown \in [Monitors -> Tree]
        BY <2>2
    <2>7. slot \in [Monitors -> Payload \cup {NoPayload}] /\ stirs \in 0..MaxStirs
          /\ cache \in [Key -> Handles \cup {NoHandle}]
        BY <2>3
    <2>8. \A v, w \in Threads : Gone \in {worker[v], worker[w]}
        BY <2>1
    <2>9. /\ phase = "off" /\ monitors \in 0..MaxMonitors /\ timer = FALSE
          /\ building = NoPayload /\ thread = 0 /\ stop = "null" /\ trigger = "null"
          /\ heap \in Nat /\ hook = FALSE /\ revived = FALSE /\ reused = FALSE
        OBVIOUS
    <2> HIDE DEF Init
    <2>10. QED
        BY <2>4, <2>5, <2>6, <2>7, <2>8, <2>9 DEF TypeOK, SharedTypes
<1>5. PayloadsAccounted
    <2>1. {m \in Monitors : slot[m] # NoPayload} = {}
        OBVIOUS
    <2>2. {w \in Threads : worker[w].at \in Holding} = {}
        BY DEF Gone, Holding
    <2>3. InSlots = 0 /\ InHands = 0
        BY <2>1, <2>2, FS_EmptySet DEF InSlots, InHands
    <2>4. QED
        BY <2>3, Accounted DEF InTree
<1>6. QED
    BY <1>1, <1>2, <1>3, <1>4, <1>5 DEF DiscoveryInv

-----------------------------------------------------------------------------
(* What the steps do to the workers.                                         *)

LEMMA TriggerShape ==
    ASSUME TypeOK, CarriedInv, TriggerAsyncUiaDiscovery
    PROVE  /\ CarriedInv'
           /\ thread' \in Threads \cup {0} /\ stop' \in {"clear", "set"} /\ trigger' = "set"
           /\ \A w \in Threads : \/ worker'[w] = worker[w]
                                 \/ worker[w] = Gone /\ worker'[w].at = "wait" /\ w = thread'
           /\ (\A w \in Threads : worker[w] # Gone => w = thread) =>
                 \A w \in Threads : worker'[w] # Gone => w = thread'
<1>1. stop' \in {"clear", "set"} /\ trigger' = "set"
    BY DEF TriggerAsyncUiaDiscovery, TypeOK, SharedTypes
<1>2. CASE thread # 0
    BY <1>1, <1>2 DEF TriggerAsyncUiaDiscovery, StartWorker, TypeOK, SharedTypes, CarriedInv, Carries
<1>3. CASE thread = 0
    <2>1. PICK w \in Threads : /\ worker[w] = Gone /\ thread' = w
                               /\ worker' = [worker EXCEPT ![w].at = "wait"]
        BY <1>3 DEF TriggerAsyncUiaDiscovery, StartWorker, CreateThread
    <2> DEFINE r == [Gone EXCEPT !.at = "wait"]
    <2>2. r \in WorkerStates /\ Carries(r) /\ r.at = "wait"
        BY LoadTypes DEF WorkerStates, Places, Carries, Holding
    <2>3. worker' = [worker EXCEPT ![w] = r]
        BY <2>1
    <2> HIDE DEF r
    <2>4. worker' \in [Threads -> WorkerStates] /\ worker'[w] = r
          /\ \A v \in Threads \ {w} : worker'[v] = worker[v]
        BY <2>2, <2>3 DEF CarriedInv
    <2>5. CarriedInv'
        BY <2>2, <2>4 DEF CarriedInv
    <2>6. 0 \notin Threads
        OBVIOUS
    <2>7. QED
        BY <1>1, <1>3, <2>1, <2>2, <2>4, <2>5, <2>6
<1>4. QED
    BY <1>2, <1>3

LEMMA GoesShape ==
    ASSUME CarriedInv, NEW w \in Threads, NEW at \in Places, NEW load \in Loads,
           Goes(w, at, load)
    PROVE  /\ worker' \in [Threads -> WorkerStates]
           /\ \A v \in Threads \ {w} : worker'[v] = worker[v]
           /\ worker'[w].at = at /\ worker'[w].n = worker[w].n /\ worker'[w].load = load
<1> DEFINE r == [worker[w] EXCEPT !.at = at, !.load = load]
<1>1. worker[w] \in WorkerStates
    BY DEF CarriedInv
<1>2. r \in WorkerStates
    BY <1>1, Zenon DEF WorkerStates
<1>3. r.at = at /\ r.n = worker[w].n /\ r.load = load
    BY <1>1 DEF WorkerStates
<1>4. worker' = [worker EXCEPT ![w] = r]
    BY DEF Goes
<1> HIDE DEF r
<1>5. QED
    BY <1>2, <1>3, <1>4 DEF CarriedInv

\* What Goes does to the worker, whatever its types.
LEMMA GoesTo ==
    ASSUME CarriedInv, NEW w \in Threads, NEW at, NEW load, Goes(w, at, load)
    PROVE  /\ worker'[w].at = at /\ worker'[w].load = load
           /\ \A v \in Threads \ {w} : worker'[v] = worker[v]
BY DEF CarriedInv, WorkerStates, Goes

\* Only the worker itself moves, and it carries what its next step needs.
LEMMA WorkerShape ==
    ASSUME TypeOK, CarriedInv, NEW w \in Threads, WorkerStep(w)
    PROVE  CarriedInv' /\ \A v \in Threads \ {w} : worker'[v] = worker[v]
<1> SUFFICES /\ worker' \in [Threads -> WorkerStates]
             /\ \A v \in Threads \ {w} : worker'[v] = worker[v]
             /\ Carries(worker'[w])
    BY DEF CarriedInv
<1> DEFINE load == worker[w].load
<1>1. /\ worker[w] \in WorkerStates /\ Carries(worker[w])
      /\ load \in Loads /\ worker[w].n \in Counts
    BY DEF CarriedInv, WorkerStates
<1>2. CASE \E at \in {"wait", "woken"} : Goes(w, at, NoPayload)
    BY <1>2, GoesShape, LoadTypes DEF Carries, Places, Holding
<1>3. CASE Wake(w)
    <2>1. CASE worker' = [worker EXCEPT ![w] = Gone]
        BY <2>1, LoadTypes DEF Carries, CarriedInv, Gone, Holding
    <2>2. QED
        BY <1>2, <1>3, <2>1 DEF Wake
<1>4. CASE StartPass(w)
    <2> DEFINE first == [NoPayload EXCEPT !.m = 1]
               r == [at |-> "next", n |-> monitors, load |-> first]
    <2>1. CASE worker' = [worker EXCEPT ![w] = r]
        <3>1. first \in Loads /\ first.m = 1
            BY LoadTypes DEF NoPayload
        <3> HIDE DEF first
        <3>2. monitors \in Counts /\ "next" \in Places
            BY DEF TypeOK, SharedTypes, Counts, Places
        <3>3. r \in WorkerStates /\ Carries(r)
            BY <3>1, <3>2 DEF WorkerStates, Carries, Holding
        <3> HIDE DEF r
        <3>4. QED
            BY <2>1, <3>3 DEF CarriedInv
    <2>2. QED
        BY <1>2, <1>4, <2>1 DEF StartPass
<1>5. CASE NextMonitor(w)
    <2>1. worker[w].at = "next" /\ load.m \in Nat \ {0}
        BY <1>1, <1>5 DEF NextMonitor, Carries, Loads
    <2>2. CASE load.m <= worker[w].n
        <3>1. /\ load.m \in Monitors /\ load.m + 1 \in 0..(MaxMonitors + 1)
              /\ load.m \in 0..(MaxMonitors + 1)
            BY <1>1, <2>1, <2>2 DEF Counts, Monitors
        <3> DEFINE n == [NoPayload EXCEPT !.m = load.m + 1]
                   q == [NoPayload EXCEPT !.m = load.m]
        <3>2. n \in Loads /\ q \in Loads /\ n.m = load.m + 1 /\ q.m = load.m
            BY <3>1, LoadTypes DEF NoPayload
        <3>3. Goes(w, "wait", NoPayload) \/ Goes(w, "next", n) \/ Goes(w, "query", q)
            BY <1>5 DEF NextMonitor
        <3> HIDE DEF n, q
        <3>4. ASSUME Goes(w, "next", n)
              PROVE  /\ worker' \in [Threads -> WorkerStates]
                     /\ \A v \in Threads \ {w} : worker'[v] = worker[v]
                     /\ Carries(worker'[w])
            BY <2>1, <3>2, <3>4, GoesShape DEF Carries, Places, Holding
        <3>5. ASSUME Goes(w, "query", q)
              PROVE  /\ worker' \in [Threads -> WorkerStates]
                     /\ \A v \in Threads \ {w} : worker'[v] = worker[v]
                     /\ Carries(worker'[w])
            BY <3>1, <3>2, <3>5, GoesShape DEF Carries, Places, Holding
        <3>6. QED
            BY <1>2, <3>3, <3>4, <3>5
    <2>3. CASE ~(load.m <= worker[w].n)
        BY <1>2, <1>5, <2>3 DEF NextMonitor
    <2>4. QED
        BY <2>2, <2>3
<1>6. CASE QueryReturns(w) \/ GetBitmap(w) \/ Recheck(w)
    <2>1. load.m \in Monitors
        BY <1>1, <1>6 DEF QueryReturns, GetBitmap, Recheck, Carries, Holding
    <2>2. \/ Goes(w, "wait", NoPayload)
          \/ \E at \in Holding, l \in Loads : Goes(w, at, l) /\ l.m = load.m
        <3>1. version \in Versions
            BY DEF TypeOK, SharedTypes, Versions
        <3>2. /\ \A v \in Versions : /\ [load EXCEPT !.ver = v] \in Loads
                                     /\ [load EXCEPT !.ver = v].m = load.m
              /\ \A b \in Bitmaps : /\ [load EXCEPT !.bmp = b] \in Loads
                                    /\ [load EXCEPT !.bmp = b].m = load.m
            BY <1>1, LoadTypes DEF Loads
        <3>3. CASE QueryReturns(w)
            <4> DEFINE l == [load EXCEPT !.ver = version]
            <4>1. {"capture", "captured"} \subseteq Holding
                BY DEF Holding
            <4>2. \/ Goes(w, "wait", NoPayload)
                  \/ \E at \in {"capture", "captured"} : Goes(w, at, l)
                BY <3>3 DEF QueryReturns, GiveUp
            <4>3. l \in Loads /\ l.m = load.m
                BY <3>1, <3>2
            <4> HIDE DEF l
            <4>4. QED
                BY <4>1, <4>2, <4>3
        <3>4. CASE GetBitmap(w)
            <4> DEFINE l(h) == [load EXCEPT !.bmp = h]
            <4>1. \A h \in Handles : l(h) \in Loads /\ l(h).m = load.m
                BY <3>2 DEF Bitmaps
            <4>2. cache[load.m] # NoHandle => cache[load.m] \in Handles
                BY <2>1 DEF TypeOK, SharedTypes, Key
            <4>3. Goes(w, "wait", NoPayload) \/ \E h \in Handles : Goes(w, "captured", l(h))
                BY <3>4, <4>2 DEF GetBitmap, GiveUp
            <4>4. "captured" \in Holding
                BY DEF Holding
            <4> HIDE DEF l
            <4>5. QED
                BY <4>1, <4>3, <4>4
        <3>5. CASE Recheck(w)
            BY <1>1, <3>5 DEF Recheck, GiveUp, Holding
        <3>6. QED
            BY <1>6, <3>3, <3>4, <3>5
    <2>3. ASSUME NEW at \in Holding, NEW l \in Loads, Goes(w, at, l), l.m = load.m
          PROVE  /\ worker' \in [Threads -> WorkerStates]
                 /\ \A v \in Threads \ {w} : worker'[v] = worker[v]
                 /\ Carries(worker'[w])
        BY <2>1, <2>3, GoesShape DEF Carries, Places, Holding
    <2>4. QED
        BY <1>2, <2>2, <2>3
<1>7. CASE Publish(w) \/ Post(w)
    <2>1. load.m \in Monitors
        BY <1>1, <1>7 DEF Publish, Post, Carries, Holding
    <2>2. load.m + 1 \in 0..(MaxMonitors + 1) /\ load.m \in 0..(MaxMonitors + 1)
        BY <2>1 DEF Monitors
    <2> DEFINE n == [NoPayload EXCEPT !.m = load.m + 1]
               q == [NoPayload EXCEPT !.m = load.m]
    <2>3. n \in Loads /\ q \in Loads /\ n.m = load.m + 1 /\ q.m = load.m /\ n.m # 0
        BY <2>1, <2>2, LoadTypes DEF NoPayload, Monitors
    <2>4. Goes(w, "next", n) \/ Goes(w, "post", q)
        BY <1>7 DEF Publish, Post
    <2> HIDE DEF n, q
    <2>5. CASE Goes(w, "next", n)
        BY <2>3, <2>5, GoesShape DEF Carries, Places, Holding
    <2>6. CASE Goes(w, "post", q)
        BY <2>1, <2>3, <2>6, GoesShape DEF Carries, Places, Holding
    <2>7. QED
        BY <2>4, <2>5, <2>6
<1>8. QED
    BY <1>3, <1>4, <1>5, <1>6, <1>7 DEF WorkerStep

\* The steps in which somebody wakes the worker, and those that leave it alone.
Triggers ==
    /\ TriggerAsyncUiaDiscovery
    /\ \/ ShellHookDebounceProc /\ Enabled
       \/ UpdateMonitors \/ OnConfigChanged \/ BeginEnable

Others ==
    \/ OnShellHook \/ TakePayload \/ FinishRebuildIconData
    \/ ShellHookDebounceProc /\ ~Enabled
    \/ EndEnable \/ BeginDisable \/ SignalStop \/ Join \/ Flush \/ Unload \/ Load
    \/ IconsChange \/ UNCHANGED vars

LEMMA Steps == [Next]_vars => Triggers \/ Others \/ \E w \in Threads : WorkerStep(w)
BY DEF Next, UiStep, Triggers, Others, ShellHookDebounceProc, UpdateMonitors, OnConfigChanged,
       BeginEnable

LEMMA OthersKeepWorker == Others => worker' = worker
BY DEF Others, OnShellHook, TakePayload, FinishRebuildIconData, ShellHookDebounceProc, eventVars,
       EndEnable, BeginDisable, SignalStop, Join, Flush, Unload, Load, IconsChange, vars

LEMMA NextCarried ==
    ASSUME DiscoveryInv, [Next]_vars
    PROVE  CarriedInv'
<1>1. CASE Triggers
    BY <1>1, TriggerShape DEF Triggers, DiscoveryInv
<1>2. CASE Others
    BY <1>2, OthersKeepWorker DEF DiscoveryInv, CarriedInv
<1>3. CASE \E w \in Threads : WorkerStep(w)
    BY <1>3, WorkerShape DEF DiscoveryInv
<1>4. QED
    BY <1>1, <1>2, <1>3, Steps

\* A step of a worker is a step of one that lives.
LEMMA WorkerLives ==
    ASSUME NEW w \in Threads, WorkerStep(w)
    PROVE  /\ worker[w] # Gone
           /\ UNCHANGED << phase, monitors, active, revived, timer, building, shown >>
           /\ UNCHANGED << thread, stop >>
           /\ UNCHANGED << version, hook, stirs >>
BY DEF WorkerStep, Wake, StartPass, NextMonitor, QueryReturns, GetBitmap, Recheck, Publish,
       Post, Gone, pluginVars, treeVars, eventVars, worldVars

\* What the plugin has to do to come by a second worker has been done.
LEMMA StaysRevived == [Next]_vars /\ ~revived' => ~revived
<1> SUFFICES ASSUME [Next]_vars, ~revived' PROVE ~revived
    OBVIOUS
<1>1. CASE Triggers
    BY <1>1 DEF Triggers, ShellHookDebounceProc, UpdateMonitors, OnConfigChanged, BeginEnable,
                pluginVars
<1>2. CASE Others
    BY <1>2 DEF Others, OnShellHook, TakePayload, FinishRebuildIconData, ShellHookDebounceProc,
                EndEnable, BeginDisable, SignalStop, Join, Flush, Unload, Load, IconsChange, vars,
                pluginVars
<1>3. CASE \E w \in Threads : WorkerStep(w)
    BY <1>3, WorkerLives
<1>4. QED
    BY <1>1, <1>2, <1>3, Steps

LEMMA NextOneWorker ==
    ASSUME DiscoveryInv, [Next]_vars, ~revived'
    PROVE  OneWorkerInv'
<1>1. OneWorkerInv /\ TypeOK /\ CarriedInv
    BY StaysRevived DEF DiscoveryInv
<1>2. CASE Triggers
    <2>1. phase' \in Held
        BY <1>2 DEF Triggers, ShellHookDebounceProc, UpdateMonitors, OnConfigChanged, BeginEnable,
                    Enabled, pluginVars, Held
    <2>2. \A w \in Threads : worker[w] # Gone => w = thread
        <3>1. CASE BeginEnable
            BY <3>1 DEF BeginEnable, Quiet
        <3>2. CASE ~BeginEnable
            BY <1>1, <1>2, <3>2 DEF Triggers, ShellHookDebounceProc, UpdateMonitors,
                                    OnConfigChanged, Enabled, OneWorkerInv, Held
        <3>3. QED
            BY <3>1, <3>2
    <2>3. \A w \in Threads : worker'[w] # Gone => w = thread'
        BY <1>1, <1>2, <2>2, TriggerShape DEF Triggers
    <2>4. QED
        BY <2>1, <2>3 DEF OneWorkerInv
<1>3. CASE Join
    <2>1. phase = "joining" /\ phase' = "flushing" /\ worker' = worker /\ stop' = "null"
        BY <1>3 DEF Join
    <2>2. \A w \in Threads : worker[w] = Gone \/ worker[w].at = "query"
        <3>1. 0 \notin Threads
            OBVIOUS
        <3>2. QED
            BY <1>1, <1>3, <3>1 DEF Join, OneWorkerInv, Held
    <2>3. QED
        BY <1>1, <2>1, <2>2 DEF OneWorkerInv, Held
<1>4. CASE Others /\ ~Join
    <2>1. worker' = worker /\ thread' = thread /\ (stop' = stop \/ phase \in Held)
        BY <1>4, OthersKeepWorker
           DEF Others, OnShellHook, TakePayload, FinishRebuildIconData, ShellHookDebounceProc,
               eventVars, EndEnable, BeginDisable, SignalStop, Flush, Unload, Load, IconsChange,
               vars, Held
    <2>2. phase' \in Held <=> phase \in Held
        BY <1>4
           DEF Others, OnShellHook, TakePayload, FinishRebuildIconData, ShellHookDebounceProc,
               pluginVars, EndEnable, BeginDisable, SignalStop, Flush, Unload, Load, IconsChange,
               vars, Held
    <2>3. QED
        BY <1>1, <2>1, <2>2 DEF OneWorkerInv
<1>5. CASE \E w \in Threads : WorkerStep(w)
    <2>1. PICK w \in Threads : WorkerStep(w)
        BY <1>5
    <2>2. \A v \in Threads \ {w} : worker'[v] = worker[v]
        BY <1>1, <2>1, WorkerShape
    <2>3. worker[w] # Gone /\ phase' = phase /\ thread' = thread /\ stop' = stop
        BY <2>1, WorkerLives
    <2>4. phase \notin Held => worker'[w] = Gone \/ worker'[w].at \in {"query", "wait"}
        <3> SUFFICES ASSUME phase \notin Held
                     PROVE  worker'[w] = Gone \/ worker'[w].at \in {"query", "wait"}
            OBVIOUS
        <3>1. ~Enabled /\ worker[w].at \in {"query", "wait"}
            BY <1>1, <2>3 DEF Enabled, Held, OneWorkerInv
        <3>2. CASE Wake(w)
            <4>1. worker' = [worker EXCEPT ![w] = Gone]
                BY <1>1, <2>3, <3>2 DEF Wake, OneWorkerInv
            <4>2. QED
                BY <1>1, <4>1 DEF CarriedInv
        <3>3. CASE QueryReturns(w)
            <4>1. Goes(w, "wait", NoPayload)
                BY <3>1, <3>3 DEF QueryReturns, GiveUp, Abort
            <4>2. QED
                BY <1>1, <4>1, GoesTo
        <3>4. QED
            BY <2>1, <3>1, <3>2, <3>3
               DEF WorkerStep, StartPass, NextMonitor, GetBitmap, Recheck, Publish, Post
    <2>5. QED
        BY <1>1, <2>2, <2>3, <2>4 DEF OneWorkerInv
<1>6. QED
    BY <1>2, <1>3, <1>4, <1>5, Steps

-----------------------------------------------------------------------------
(* Types.                                                                    *)

LEMMA NextShared ==
    ASSUME DiscoveryInv, [Next]_vars
    PROVE  SharedTypes'
<1> USE DEF SharedTypes
<1>1. SharedTypes /\ TypeOK /\ CarriedInv /\ SlotsInv
    BY DEF DiscoveryInv, TypeOK
<1>2. /\ NoTree \in Tree
      /\ \A t \in Tree : [t EXCEPT !.intact = FALSE] \in Tree
    <2>1. NoTree \in Tree
        BY DEF NoTree, Tree
    <2>2. \A t \in Tree, i \in BOOLEAN : [t EXCEPT !.intact = i] \in Tree
        BY Zenon DEF Tree
    <2>3. FALSE \in BOOLEAN
        OBVIOUS
    <2>4. QED
        BY <2>1, <2>2, <2>3
<1>3. EmptyCache \in [Key -> Handles \cup {NoHandle}]
    BY DEF EmptyCache
<1>4. CASE Triggers
    <2>1. thread' \in Threads \cup {0} /\ stop' \in {"clear", "set"} /\ trigger' = "set"
        BY <1>1, <1>4, TriggerShape DEF Triggers
    <2>2. CASE ShellHookDebounceProc
        BY <1>1, <2>1, <2>2 DEF ShellHookDebounceProc, pluginVars, treeVars, worldVars
    <2>3. CASE UpdateMonitors
        <3>1. PICK gone \in SUBSET (active \ {Primary}), found \in BOOLEAN :
                 /\ monitors' = IF found /\ monitors < MaxMonitors THEN monitors + 1 ELSE monitors
                 /\ active' = (active \ gone) \cup (monitors + 1 .. monitors')
                 /\ DropAll(gone)
            BY <2>3 DEF UpdateMonitors
        <3>2. monitors' \in 0..MaxMonitors /\ active' \subseteq 1..monitors'
            BY <1>1, <3>1
        <3>3. shown' \in [Monitors -> Tree] /\ cache' \in [Key -> Handles \cup {NoHandle}]
            BY <1>1, <1>2, <1>3, <3>1 DEF DropAll
        <3>4. stirs' \in 0..MaxStirs
            BY <1>1, <2>3 DEF UpdateMonitors
        <3>5. QED
            BY <1>1, <2>1, <2>3, <3>2, <3>3, <3>4 DEF UpdateMonitors
    <2>4. CASE OnConfigChanged
        <3>1. stirs' \in 0..MaxStirs
            BY <1>1, <2>4 DEF OnConfigChanged
        <3>2. QED
            BY <1>1, <2>1, <2>4, <3>1 DEF OnConfigChanged, pluginVars, treeVars
    <2>5. CASE BeginEnable
        <3>1. monitors' \in 0..MaxMonitors /\ active' \subseteq 1..monitors'
            BY <2>5 DEF BeginEnable, Monitors
        <3>2. revived' \in BOOLEAN
            BY <2>5 DEF BeginEnable
        <3>3. QED
            BY <1>1, <2>1, <2>5, <3>1, <3>2 DEF BeginEnable, treeVars, worldVars
    <2>6. QED
        BY <1>4, <2>2, <2>3, <2>4, <2>5 DEF Triggers
<1>5. CASE Others
    <2>1. CASE OnShellHook
        <3>1. /\ cache' \in [Key -> Handles \cup {NoHandle}] /\ timer' \in BOOLEAN
              /\ shown' \in [Monitors -> Tree]
            <4>1. timer' \in BOOLEAN
                BY <1>1, <2>1 DEF OnShellHook
            <4>2. CASE UNCHANGED << cache, shown >>
                BY <1>1, <4>1, <4>2
            <4>3. CASE \E S \in SUBSET Key : Drop(S)
                <5>1. cache \in [Key -> Handles \cup {NoHandle}] /\ shown \in [Monitors -> Tree]
                    BY <1>1
                <5> HIDE DEF SharedTypes
                <5>2. cache' \in [Key -> Handles \cup {NoHandle}]
                    BY <4>3, <5>1 DEF Drop
                <5>3. shown' \in [Monitors -> Tree]
                    BY <1>2, <4>3, <5>1 DEF Drop
                <5>4. QED
                    BY <4>1, <5>2, <5>3
            <4>4. QED
                BY <2>1, <4>2, <4>3 DEF OnShellHook
        <3>2. QED
            BY <1>1, <2>1, <3>1 DEF OnShellHook, pluginVars, eventVars
    <2>2. CASE TakePayload
        <3>1. Head(posted) \in Monitors /\ posted' \in Seq(Monitors)
            BY <1>1, <2>2 DEF TakePayload
        <3>2. building' \in Payload \cup {NoPayload}
              /\ slot' \in [Monitors -> Payload \cup {NoPayload}]
            BY <1>1, <2>2, <3>1 DEF TakePayload
        <3>3. QED
            BY <1>1, <2>2, <3>1, <3>2 DEF TakePayload, pluginVars, eventVars, worldVars
    <2>3. CASE FinishRebuildIconData
        <3>1. building.ver \in 0..MaxVersion /\ building.m \in Monitors
              /\ building.bmp \in Handles \cup {NoHandle}
            BY <1>1, <2>3 DEF FinishRebuildIconData, Payload
        <3>2. shown[building.m] \in Tree
            BY <1>1, <3>1
        <3> DEFINE blank == [shown[building.m] EXCEPT !.ver = building.ver, !.empty = TRUE]
                   tree(resized) == Built(building.m, resized)
        <3>3. blank \in Tree
            BY <3>1, <3>2 DEF Tree
        <3>4. \A resized \in BOOLEAN : tree(resized) \in Tree
            BY <3>1, <3>2 DEF Tree, Built
        <3>5. \/ shown' = shown
              \/ shown' = [shown EXCEPT ![building.m] = blank]
              \/ \E resized \in BOOLEAN : shown' = [shown EXCEPT ![building.m] = tree(resized)]
            BY <2>3 DEF FinishRebuildIconData
        <3>6. shown \in [Monitors -> Tree]
            BY <1>1
        <3> HIDE DEF blank, tree, SharedTypes
        <3>7. shown' \in [Monitors -> Tree]
            BY <3>3, <3>4, <3>5, <3>6
        <3> USE DEF SharedTypes
        <3>8. QED
            BY <1>1, <2>3, <3>7 DEF FinishRebuildIconData, pluginVars, eventVars, worldVars
    <2>4. CASE ShellHookDebounceProc /\ ~Enabled
        <3>1. /\ timer' = FALSE /\ UNCHANGED << phase, monitors, active, revived >>
              /\ UNCHANGED << building, shown, reused, thread, stop, trigger >>
              /\ UNCHANGED << slot, cache, posted, version, hook, stirs >>
            BY <2>4 DEF ShellHookDebounceProc, pluginVars, treeVars, eventVars, worldVars
        <3>2. /\ phase' \in {"unmapped", "off", "enabling", "on", "stopping", "joining", "flushing"}
              /\ monitors' \in 0..MaxMonitors /\ active' \subseteq 1..monitors'
              /\ revived' \in BOOLEAN /\ timer' \in BOOLEAN
              /\ thread' \in Threads \cup {0}
              /\ stop' \in {"null", "clear", "set"} /\ trigger' \in {"null", "clear", "set"}
            BY <1>1, <3>1
        <3>3. /\ building' \in Payload \cup {NoPayload}
              /\ shown' \in [Monitors -> Tree] /\ reused' \in BOOLEAN
              /\ slot' \in [Monitors -> Payload \cup {NoPayload}]
              /\ cache' \in [Key -> Handles \cup {NoHandle}]
            BY <1>1, <3>1
        <3>4. /\ posted' \in Seq(Monitors) /\ version' \in 1..MaxVersion
              /\ hook' \in BOOLEAN /\ stirs' \in 0..MaxStirs
            BY <1>1, <3>1
        <3>5. QED
            BY <3>2, <3>3, <3>4
    <2>5. CASE EndEnable \/ SignalStop \/ Unload \/ Load
        <3>1. phase' \in {"on", "joining", "unmapped", "off"} /\ stop' \in {stop, "null", "set"}
            BY <2>5 DEF EndEnable, SignalStop, Unload, Load, eventVars
        <3>2. /\ UNCHANGED << monitors, active, revived, timer, building, shown, reused >>
              /\ UNCHANGED << thread, trigger, slot, cache, posted, version, hook, stirs >>
            BY <2>5 DEF EndEnable, SignalStop, Unload, Load, treeVars, eventVars, worldVars
        <3>3. phase' \in {"unmapped", "off", "enabling", "on", "stopping", "joining", "flushing"}
              /\ stop' \in {"null", "clear", "set"}
            BY <1>1, <3>1
        <3>4. QED
            BY <1>1, <3>2, <3>3, SMTT(20)
    <2>6. CASE BeginDisable
        <3>1. shown' \in [Monitors -> Tree] /\ reused' \in BOOLEAN
            BY <1>2, <2>6 DEF BeginDisable
        <3>2. monitors' \in 0..MaxMonitors /\ active' \subseteq 1..monitors'
            BY <2>6 DEF BeginDisable
        <3>3. phase' = "stopping" /\ timer' = FALSE
            BY <2>6 DEF BeginDisable
        <3>4. /\ UNCHANGED << building, thread, stop, trigger, slot, cache, posted >>
              /\ UNCHANGED << revived, version, hook, stirs >>
            BY <2>6 DEF BeginDisable, eventVars, worldVars
        <3>5. QED
            BY <1>1, <3>1, <3>2, <3>3, <3>4
    <2>7. CASE Join \/ Flush
        BY <1>1, <1>3, <2>7 DEF Join, Flush, treeVars, eventVars, worldVars
    <2>8. CASE IconsChange
        <3>1. version' \in 1..MaxVersion
            BY <1>1, <2>8 DEF IconsChange
        <3>2. QED
            BY <1>1, <2>8, <3>1 DEF IconsChange, pluginVars, treeVars, eventVars
    <2>9. CASE UNCHANGED vars
        BY <1>1, <2>9 DEF vars
    <2>10. QED
        BY <1>5, <2>1, <2>2, <2>3, <2>4, <2>5, <2>6, <2>7, <2>8, <2>9 DEF Others
<1>6. CASE \E w \in Threads : WorkerStep(w)
    <2>1. PICK w \in Threads : WorkerStep(w)
        BY <1>6
    <2> DEFINE load == worker[w].load
    <2>2. /\ UNCHANGED << phase, monitors, active, timer, building, shown, thread, stop >>
          /\ UNCHANGED << version, hook, stirs, revived >>
        BY <2>1, WorkerLives
    <2>3. load \in Loads /\ Carries(worker[w])
        BY <1>1 DEF CarriedInv, WorkerStates
    <2>4. trigger' \in {"null", "clear", "set"}
        BY <1>1, <2>1
           DEF WorkerStep, Wake, StartPass, NextMonitor, QueryReturns, GetBitmap, Recheck,
               Publish, Post, eventVars
    <2>5. slot' \in [Monitors -> Payload \cup {NoPayload}]
        <3>1. CASE Publish(w)
            <4>1. load \in Payload
                BY <2>3, <3>1, PayloadTypes DEF Publish, Carries, Holding
            <4>2. QED
                BY <1>1, <3>1, <4>1 DEF Publish
        <3>2. CASE ~Publish(w)
            BY <1>1, <2>1, <3>2
               DEF WorkerStep, Wake, StartPass, NextMonitor, QueryReturns, GetBitmap, Recheck, Post
        <3>3. QED
            BY <3>1, <3>2
    <2>6. cache' \in [Key -> Handles \cup {NoHandle}] /\ reused' \in BOOLEAN
        <3>1. CASE GetBitmap(w)
            BY <1>1, <3>1 DEF GetBitmap
        <3>2. CASE ~GetBitmap(w)
            BY <1>1, <2>1, <3>2
               DEF WorkerStep, Wake, StartPass, NextMonitor, QueryReturns, Publish, Recheck, Post,
                   treeVars
        <3>3. QED
            BY <3>1, <3>2
    <2>7. posted' \in Seq(Monitors)
        <3>1. CASE Post(w)
            <4>1. load.m \in Monitors
                BY <2>3, <3>1 DEF Post, Carries
            <4>2. QED
                BY <1>1, <3>1, <4>1 DEF Post
        <3>2. CASE ~Post(w)
            BY <1>1, <2>1, <3>2
               DEF WorkerStep, Wake, StartPass, NextMonitor, QueryReturns, GetBitmap, Recheck, Publish
        <3>3. QED
            BY <3>1, <3>2
    <2>8. QED
        BY <1>1, <2>2, <2>4, <2>5, <2>6, <2>7
<1>7. QED
    BY <1>4, <1>5, <1>6, Steps

LEMMA NextSlots ==
    ASSUME DiscoveryInv, [Next]_vars
    PROVE  SlotsInv'
<1> USE DEF SlotsInv
<1>1. SharedTypes /\ TypeOK /\ CarriedInv /\ SlotsInv
    BY DEF DiscoveryInv, TypeOK
<1>2. CASE Triggers
    <2>1. slot' = slot /\ building' = building
        BY <1>2 DEF Triggers, ShellHookDebounceProc, UpdateMonitors, OnConfigChanged, BeginEnable,
                    treeVars
    <2>2. phase' = phase \/ phase # "on"
        BY <1>2 DEF Triggers, ShellHookDebounceProc, UpdateMonitors, OnConfigChanged, BeginEnable,
                    pluginVars
    <2>3. QED
        BY <1>1, <2>1, <2>2
<1>3. CASE Others
    <2>1. CASE TakePayload
        BY <1>1, <2>1 DEF TakePayload, Enabled, pluginVars, SharedTypes
    <2>2. CASE FinishRebuildIconData
        BY <1>1, <2>2 DEF FinishRebuildIconData, pluginVars
    <2>3. CASE BeginDisable
        BY <1>1, <2>3 DEF BeginDisable, Pumping
    <2>4. CASE Flush
        BY <1>1, <2>4 DEF Flush, treeVars
    <2>5. CASE OnShellHook \/ ShellHookDebounceProc \/ EndEnable \/ SignalStop \/ Join
        BY <1>1, <2>5 DEF OnShellHook, ShellHookDebounceProc, EndEnable, SignalStop, Join,
                          pluginVars, treeVars
    <2>6. CASE Unload \/ Load \/ IconsChange \/ UNCHANGED vars
        BY <1>1, <2>6 DEF Unload, Load, IconsChange, vars, pluginVars, treeVars
    <2>7. QED
        BY <1>3, <2>1, <2>2, <2>3, <2>4, <2>5, <2>6 DEF Others
<1>4. CASE \E w \in Threads : WorkerStep(w)
    <2>1. PICK w \in Threads : WorkerStep(w)
        BY <1>4
    <2>2. phase' = phase /\ building' = building
        BY <2>1, WorkerLives
    <2>3. CASE Publish(w)
        BY <1>1, <2>2, <2>3 DEF Publish, SharedTypes
    <2>4. CASE ~Publish(w)
        <3>1. slot' = slot
            BY <2>1, <2>4
               DEF WorkerStep, Wake, StartPass, NextMonitor, QueryReturns, GetBitmap, Recheck, Post
        <3>2. QED
            BY <1>1, <2>2, <3>1
    <2>5. QED
        BY <2>3, <2>4
<1>5. QED
    BY <1>2, <1>3, <1>4, Steps

-----------------------------------------------------------------------------
(* Payloads.                                                                 *)

LEMMA NextAccounted ==
    ASSUME DiscoveryInv, [Next]_vars
    PROVE  PayloadsAccounted'
<1>1. TypeOK /\ SharedTypes /\ CarriedInv /\ SlotsInv /\ heap \in Nat
    BY DEF DiscoveryInv, TypeOK
<1>2. heap = InSlots + InHands + InTree
    BY Accounted DEF DiscoveryInv
<1>3. SUFFICES heap' = InSlots' + InHands' + InTree'
    BY DEF PayloadsAccounted, InSlots, InHands, InTree
<1>4. CASE Triggers
    <2>1. slot' = slot /\ building' = building /\ heap' = heap
        BY <1>4 DEF Triggers, ShellHookDebounceProc, UpdateMonitors, OnConfigChanged, BeginEnable,
                    treeVars
    <2>2. \A w \in Threads : worker[w].at \in Holding <=> worker'[w].at \in Holding
        BY <1>1, <1>4, TriggerShape DEF Triggers, Gone, Holding
    <2>3. InHands' = InHands
        BY <2>2 DEF InHands
    <2>4. QED
        BY <1>2, <2>1, <2>3 DEF InSlots, InTree
<1>5. CASE Others
    <2>1. InHands' = InHands
        BY <1>5, OthersKeepWorker DEF InHands
    <2>2. CASE TakePayload /\ Enabled
        <3>1. Head(posted) \in Monitors
            BY <1>1, <2>2 DEF TakePayload, SharedTypes
        <3>2. /\ building = NoPayload /\ building' = slot[Head(posted)] /\ heap' = heap
              /\ slot' = [slot EXCEPT ![Head(posted)] = NoPayload]
            BY <2>2 DEF TakePayload, Pumping
        <3>3. PICK m \in Monitors : m = Head(posted)
            BY <3>1
        <3>4. slot'[m] = NoPayload /\ \A k \in Monitors \ {m} : slot'[k] = slot[k]
            BY <1>1, <3>2, <3>3 DEF SharedTypes
        <3>5. /\ slot[m] = NoPayload => InTree' = 0
              /\ slot[m] # NoPayload => InTree' = 1
            BY <3>2, <3>3 DEF InTree
        <3>6. /\ slot[m] = NoPayload => InSlots' = InSlots
              /\ slot[m] # NoPayload => InSlots = InSlots' + 1
            BY <3>4, SlotCount
        <3>7. InTree = 0
            BY <3>2 DEF InTree
        <3>8. heap' = InSlots + InHands
            BY <1>2, <3>2, <3>7, CountTypes
        <3>9. InSlots + InHands = InSlots' + InHands + InTree'
            <4>1. CASE slot[m] = NoPayload
                BY <3>5, <3>6, <4>1, CountTypes
            <4>2. CASE slot[m] # NoPayload
                <5>1. InTree' = 1 /\ InSlots = InSlots' + 1
                    BY <3>5, <3>6, <4>2
                <5>2. InSlots' \in Nat /\ InHands \in Nat
                    BY CountTypes
                <5> HIDE ThreadsAssumption, HandlesAssumption
                         DEF InSlots, InHands, InTree, ThreadsAssumption, HandlesAssumption
                <5>3. QED
                    BY <5>1, <5>2
            <4>3. QED
                BY <4>1, <4>2
        <3>10. QED
            BY <2>1, <3>8, <3>9
    <2>3. CASE FinishRebuildIconData
        <3>1. InTree = 1 /\ InTree' = 0 /\ slot' = slot /\ heap' = heap - 1
            BY <2>3 DEF FinishRebuildIconData, InTree
        <3>2. QED
            BY <1>2, <2>1, <3>1, CountTypes DEF InSlots
    <2>4. CASE Flush
        <3>1. building = NoPayload /\ building' = building
            BY <1>1, <2>4 DEF Flush, SlotsInv, treeVars
        <3>2. {m \in Monitors : slot'[m] # NoPayload} = {}
            BY <2>4 DEF Flush
        <3>3. InSlots' = 0
            BY <3>2, FS_EmptySet DEF InSlots
        <3>4. heap' = heap - InSlots
            BY <2>4 DEF Flush, InSlots
        <3>5. QED
            BY <1>2, <2>1, <3>1, <3>3, <3>4, CountTypes DEF InTree
    <2>5. CASE \/ OnShellHook \/ ShellHookDebounceProc \/ (TakePayload /\ ~Enabled)
               \/ EndEnable \/ BeginDisable \/ SignalStop \/ Join \/ Unload \/ Load
               \/ IconsChange \/ UNCHANGED vars
        <3>1. slot' = slot /\ building' = building /\ heap' = heap
            BY <2>5 DEF OnShellHook, TakePayload, ShellHookDebounceProc, EndEnable, BeginDisable,
                        SignalStop, Join, Unload, Load, IconsChange, vars, treeVars
        <3>2. QED
            BY <1>2, <2>1, <3>1 DEF InSlots, InTree
    <2>6. QED
        BY <1>5, <2>2, <2>3, <2>4, <2>5 DEF Others
<1>6. CASE \E w \in Threads : WorkerStep(w)
    <2>1. PICK w \in Threads : WorkerStep(w)
        BY <1>6
    <2>2. building' = building
        BY <2>1, WorkerLives
    <2>3. /\ (worker[w].at \in Holding <=> worker'[w].at \in Holding) => InHands' = InHands
          /\ worker[w].at \notin Holding /\ worker'[w].at \in Holding => InHands' = InHands + 1
          /\ worker[w].at \in Holding /\ worker'[w].at \notin Holding => InHands = InHands' + 1
        BY <1>1, <2>1, WorkerShape, HandCount
    <2>4. CASE Wake(w) \/ StartPass(w) \/ Post(w)
        <3>1. slot' = slot /\ heap' = heap
            BY <2>4 DEF Wake, StartPass, Post
        <3>2. worker[w].at \notin Holding /\ worker'[w].at \notin Holding
            BY <1>1, <2>4 DEF Wake, StartPass, Post, Goes, Gone, Holding, CarriedInv, WorkerStates
        <3>3. QED
            BY <1>2, <2>2, <2>3, <3>1, <3>2 DEF InSlots, InTree
    <2>5. CASE NextMonitor(w)
        <3>1. slot' = slot /\ worker[w].at \notin Holding
            BY <2>5 DEF NextMonitor, Holding
        <3>2. \/ heap' = heap /\ worker'[w].at \notin Holding
              \/ heap' = heap + 1 /\ worker'[w].at \in Holding
            BY <1>1, <2>5, GoesTo DEF NextMonitor, Holding
        <3>3. QED
            BY <1>2, <2>2, <2>3, <3>1, <3>2, CountTypes DEF InSlots, InTree
    <2>6. CASE QueryReturns(w) \/ GetBitmap(w) \/ Recheck(w)
        <3>1. slot' = slot /\ worker[w].at \in Holding
            BY <2>6 DEF QueryReturns, GetBitmap, Recheck, Holding
        <3>2. \/ heap' = heap /\ worker'[w].at \in Holding
              \/ heap' = heap - 1 /\ worker'[w].at \notin Holding
            <4>1. \/ heap' = heap - 1 /\ \E l : Goes(w, "wait", l)
                  \/ heap' = heap /\ \E at \in {"capture", "captured", "publish"} : \E l : Goes(w, at, l)
                <5>1. CASE QueryReturns(w)
                    BY <5>1 DEF QueryReturns, GiveUp
                <5>2. CASE GetBitmap(w)
                    BY <5>2 DEF GetBitmap, GiveUp
                <5>3. CASE Recheck(w)
                    BY <5>3 DEF Recheck, GiveUp
                <5>4. QED
                    BY <2>6, <5>1, <5>2, <5>3
            <4>2. QED
                BY <1>1, <4>1, GoesTo DEF Holding
        <3>3. InSlots' = InSlots /\ InTree' = InTree
            BY <2>2, <3>1 DEF InSlots, InTree
        <3>4. \/ heap' = heap /\ InHands' = InHands
              \/ heap' = heap - 1 /\ InHands = InHands' + 1
            BY <2>3, <3>1, <3>2
        <3>5. InSlots \in Nat /\ InTree \in Nat /\ InHands' \in Nat
            BY CountTypes
        <3>6. QED
            BY <1>2, <3>3, <3>4, <3>5
    <2>7. CASE Publish(w)
        <3>1. PICK m \in Monitors : m = worker[w].load.m
            BY <1>1, <2>7 DEF Publish, CarriedInv, Carries, Holding
        <3>2. /\ slot' = [slot EXCEPT ![m] = worker[w].load]
              /\ heap' = IF slot[m] = NoPayload THEN heap ELSE heap - 1
            BY <2>7, <3>1 DEF Publish
        <3>3. worker[w].load # NoPayload
            BY <3>1 DEF NoPayload, Monitors
        <3>4. slot'[m] # NoPayload /\ \A k \in Monitors \ {m} : slot'[k] = slot[k]
            BY <1>1, <3>2, <3>3 DEF SharedTypes
        <3>5. InSlots' = IF slot[m] = NoPayload THEN InSlots + 1 ELSE InSlots
            BY <3>4, SlotCount
        <3>6. worker[w].at \in Holding /\ worker'[w].at \notin Holding
            BY <1>1, <2>7, GoesTo DEF Publish, Holding
        <3>7. InHands = InHands' + 1 /\ InTree' = InTree
            BY <2>2, <2>3, <3>6 DEF InTree
        <3>8. QED
            BY <1>1, <1>2, <3>2, <3>5, <3>7, CountTypes
    <2>8. QED
        BY <2>1, <2>4, <2>5, <2>6, <2>7 DEF WorkerStep
<1>7. QED
    BY <1>4, <1>5, <1>6, Steps

LEMMA NextClean ==
    ASSUME DiscoveryInv, [Next]_vars, ~revived'
    PROVE  CleanInv'
<1> USE DEF CleanInv
<1>1. CleanInv /\ OneWorkerInv /\ SharedTypes
    BY StaysRevived DEF DiscoveryInv, TypeOK
<1>2. CASE Triggers
    BY <1>2 DEF Triggers, ShellHookDebounceProc, UpdateMonitors, OnConfigChanged, BeginEnable,
                Enabled, pluginVars
<1>3. CASE Flush
    BY <1>3 DEF Flush
<1>4. CASE OnShellHook \/ TakePayload
    BY <1>1, <1>4 DEF OnShellHook, TakePayload, Enabled, pluginVars
<1>5. CASE Others /\ ~Flush /\ ~OnShellHook /\ ~TakePayload
    <2>1. cache' = cache /\ slot' = slot
        BY <1>5 DEF Others, FinishRebuildIconData, ShellHookDebounceProc, EndEnable, BeginDisable,
                    SignalStop, Join, Unload, Load, IconsChange, vars
    <2>2. phase' \in {"off", "unmapped"} => phase \in {"off", "unmapped"}
        BY <1>5 DEF Others, FinishRebuildIconData, ShellHookDebounceProc, EndEnable, BeginDisable,
                    SignalStop, Join, Unload, Load, IconsChange, vars, pluginVars
    <2>3. QED
        BY <1>1, <2>1, <2>2
<1>6. CASE \E w \in Threads : WorkerStep(w)
    <2>1. PICK w \in Threads : WorkerStep(w)
        BY <1>6
    <2>2. worker[w] # Gone /\ phase' = phase
        BY <2>1, WorkerLives
    <2>3. CASE phase \in {"off", "unmapped"}
        <3>1. worker[w].at \in {"query", "wait"}
            BY <1>1, <2>2, <2>3 DEF OneWorkerInv, Held
        <3>2. Wake(w) \/ QueryReturns(w)
            BY <2>1, <3>1
               DEF WorkerStep, StartPass, NextMonitor, GetBitmap, Recheck, Publish, Post
        <3>3. cache' = cache /\ slot' = slot
            BY <3>2 DEF Wake, QueryReturns
        <3>4. QED
            BY <1>1, <2>2, <3>3
    <2>4. QED
        BY <2>2, <2>3
<1>7. QED
    BY <1>2, <1>3, <1>4, <1>5, <1>6, Steps

-----------------------------------------------------------------------------
(* Ages.                                                                     *)

\* What a step may do to the trees, to the payload being built from, to the
\* slots, the workers' lists and the version without an older list overtaking
\* a newer one: nothing at all, except that trees and payloads go.
LEMMA AgeKept ==
    ASSUME SharedTypes, AgeInv,
           version' \in Nat, version' >= version,
           \A m \in Monitors : shown'[m].ver \in {0, shown[m].ver},
           building' = building \/ building' = NoPayload,
           \A m \in Monitors : slot'[m] = slot[m] \/ slot'[m] = NoPayload,
           \A w \in Threads : worker'[w].at \in HasList =>
               /\ worker[w].at \in HasList /\ worker[w].load.m \in Monitors
               /\ worker[w].load.ver \in Versions
               /\ worker'[w].load.m = worker[w].load.m
               /\ worker'[w].load.ver = worker[w].load.ver
    PROVE  AgeInv'
<1>1. /\ \A m \in Monitors : shown[m].ver \in Nat /\ shown[m].ver <= version
      /\ version \in Nat /\ NoPayload.m = 0 /\ NoPayload.ver = 0
    BY DEF SharedTypes, AgeInv, NoPayload, Tree
<1>2. \A m \in Monitors : shown'[m].ver \in Nat /\ shown'[m].ver <= shown[m].ver
    BY <1>1
<1>3. building # NoPayload => building.m \in Monitors /\ building.ver \in Nat
    BY DEF SharedTypes, Payload
<1>4. \A m \in Monitors : slot[m].ver \in Nat
    BY <1>1 DEF SharedTypes, Payload
<1>5. \A m \in Monitors : slot'[m].ver \in Nat /\ slot'[m].ver <= slot[m].ver
    BY <1>1, <1>4
<1>6. \A m \in Monitors : shown'[m].ver <= version'
    BY <1>1, <1>2
<1>7. building' # NoPayload =>
          shown'[building'.m].ver <= building'.ver /\ building'.ver <= version'
    BY <1>1, <1>2, <1>3 DEF AgeInv
<1>8. \A m \in Monitors : slot'[m] # NoPayload =>
          /\ shown'[m].ver <= slot'[m].ver /\ slot'[m].ver <= version'
          /\ building'.m = m => building'.ver <= slot'[m].ver
    <2> SUFFICES ASSUME NEW m \in Monitors, slot'[m] # NoPayload
                 PROVE  /\ shown'[m].ver <= slot'[m].ver /\ slot'[m].ver <= version'
                        /\ building'.m = m => building'.ver <= slot'[m].ver
        OBVIOUS
    <2>1. /\ slot'[m] = slot[m]
          /\ shown[m].ver <= slot[m].ver /\ slot[m].ver <= version
          /\ building.m = m => building.ver <= slot[m].ver
        BY DEF AgeInv
    <2>2. building'.m = m => building' = building
        BY <1>1 DEF Monitors
    <2>3. QED
        BY <1>1, <1>2, <1>4, <2>1, <2>2
<1>9. \A w \in Threads : worker'[w].at \in HasList =>
          LET load == worker'[w].load
          IN  /\ shown'[load.m].ver <= load.ver /\ load.ver <= version'
              /\ building'.m = load.m => building'.ver <= load.ver
              /\ slot'[load.m].ver <= load.ver
    <2> SUFFICES ASSUME NEW w \in Threads, worker'[w].at \in HasList,
                        NEW m \in Monitors, m = worker[w].load.m,
                        NEW v \in Nat, v = worker[w].load.ver
                 PROVE  /\ shown'[m].ver <= v /\ v <= version'
                        /\ building'.m = m => building'.ver <= v
                        /\ slot'[m].ver <= v
        BY DEF Versions
    <2>1. /\ shown[m].ver <= v /\ v <= version
          /\ building.m = m => building.ver <= v
          /\ slot[m].ver <= v
        BY DEF AgeInv
    <2>2. building'.m = m => building' = building
        BY <1>1 DEF Monitors
    <2>3. QED
        BY <1>1, <1>2, <1>4, <1>5, <2>1, <2>2
<1>10. QED
    BY <1>6, <1>7, <1>8, <1>9 DEF AgeInv

\* What the workers hold when nobody has touched them, or only woken one.
LEMMA ListsKept ==
    ASSUME CarriedInv,
           \A w \in Threads : worker'[w] = worker[w] \/ worker'[w].at = "wait"
    PROVE  \A w \in Threads : worker'[w].at \in HasList =>
               /\ worker[w].at \in HasList /\ worker[w].load.m \in Monitors
               /\ worker[w].load.ver \in Versions
               /\ worker'[w].load.m = worker[w].load.m
               /\ worker'[w].load.ver = worker[w].load.ver
<1> SUFFICES ASSUME NEW w \in Threads, worker'[w].at \in HasList
             PROVE  /\ worker'[w] = worker[w] /\ worker[w].load.m \in Monitors
                    /\ worker[w].load.ver \in Versions
    OBVIOUS
<1>1. worker'[w] = worker[w] /\ worker[w].at \in Holding
    BY DEF HasList, Holding
<1>2. worker[w] \in WorkerStates /\ Carries(worker[w])
    BY DEF CarriedInv
<1>3. QED
    BY <1>1, <1>2 DEF WorkerStates, Loads, Carries

LEMMA TriggersAge ==
    ASSUME DiscoveryInv, AgeInv, Triggers
    PROVE  AgeInv'
<1>1. SharedTypes /\ TypeOK /\ CarriedInv
    BY DEF DiscoveryInv, TypeOK
<1>2. \A w \in Threads : worker'[w] = worker[w] \/ worker'[w].at = "wait"
    BY <1>1, TriggerShape DEF Triggers
<1>3. slot' = slot /\ building' = building /\ version' = version
    BY DEF Triggers, ShellHookDebounceProc, UpdateMonitors, OnConfigChanged, BeginEnable,
           treeVars, worldVars
<1>4. \A m \in Monitors : shown'[m].ver \in {0, shown[m].ver}
    <2>1. CASE UpdateMonitors
        <3>1. \E gone : shown' = [m \in Monitors |-> IF m \in gone THEN NoTree
                                        ELSE [shown[m] EXCEPT !.intact = FALSE]]
            BY <2>1 DEF UpdateMonitors, DropAll
        <3>2. \A m \in Monitors : shown[m] \in Tree
            BY <1>1 DEF SharedTypes
        <3>3. \A t \in Tree : [t EXCEPT !.intact = FALSE].ver = t.ver
            BY DEF Tree
        <3>4. QED
            BY <3>1, <3>2, <3>3 DEF NoTree
    <2>2. CASE ~UpdateMonitors
        BY <2>2 DEF Triggers, ShellHookDebounceProc, OnConfigChanged, BeginEnable, treeVars
    <2>3. QED
        BY <2>1, <2>2
<1>5. version \in Nat /\ version' \in Nat /\ version' >= version
    BY <1>1, <1>3 DEF SharedTypes
<1>6. QED
    BY <1>1, <1>2, <1>3, <1>4, <1>5, ListsKept, AgeKept

\* The payload of a slot becomes the one being built from.
LEMMA TakeAge ==
    ASSUME DiscoveryInv, AgeInv, TakePayload, Enabled
    PROVE  AgeInv'
<1>1. SharedTypes /\ TypeOK /\ CarriedInv /\ SlotsInv
    BY DEF DiscoveryInv, TypeOK
<1>2. PICK h \in Monitors : h = Head(posted)
    BY <1>1 DEF TakePayload, SharedTypes
<1>3. /\ building = NoPayload /\ building' = slot[h]
      /\ slot' = [slot EXCEPT ![h] = NoPayload]
      /\ worker' = worker /\ shown' = shown /\ version' = version
    BY <1>2 DEF TakePayload, Pumping, worldVars
<1>4. slot'[h] = NoPayload /\ \A m \in Monitors \ {h} : slot'[m] = slot[m]
    BY <1>1, <1>3 DEF SharedTypes
<1>5. NoPayload.m = 0 /\ NoPayload.ver = 0
    BY DEF NoPayload
<1>6. building'.m \in {0, h}
    BY <1>1, <1>3, <1>5 DEF SlotsInv
<1>7. \A m \in Monitors : shown'[m].ver <= version'
    BY <1>3 DEF AgeInv
<1>8. building' # NoPayload =>
          shown'[building'.m].ver <= building'.ver /\ building'.ver <= version'
    BY <1>1, <1>3 DEF AgeInv, SlotsInv
<1>9. \A m \in Monitors : slot'[m] # NoPayload =>
          /\ shown'[m].ver <= slot'[m].ver /\ slot'[m].ver <= version'
          /\ building'.m = m => building'.ver <= slot'[m].ver
    <2>1. 0 \notin Monitors
        BY DEF Monitors
    <2>2. QED
        BY <1>3, <1>4, <1>6, <2>1 DEF AgeInv
<1>10. \A w \in Threads : worker'[w].at \in HasList =>
          LET load == worker'[w].load
          IN  /\ shown'[load.m].ver <= load.ver /\ load.ver <= version'
              /\ building'.m = load.m => building'.ver <= load.ver
              /\ slot'[load.m].ver <= load.ver
    <2> SUFFICES ASSUME NEW w \in Threads, worker[w].at \in HasList,
                        NEW m \in Monitors, m = worker[w].load.m
                 PROVE  LET load == worker[w].load
                        IN  /\ shown'[m].ver <= load.ver /\ load.ver <= version
                            /\ building'.m = m => building'.ver <= load.ver
                            /\ slot'[m].ver <= load.ver
        <3>1. \A w \in Threads : worker[w].at \in HasList => worker[w].load.m \in Monitors
            BY <1>1, ListsKept, <1>3
        <3>2. QED
            BY <1>3, <3>1
    <2> DEFINE load == worker[w].load
    <2>1. /\ shown[m].ver <= load.ver /\ load.ver <= version /\ slot[m].ver <= load.ver
        BY DEF AgeInv
    <2>2. load.ver \in Nat
        BY <1>1, ListsKept, <1>3 DEF Versions
    <2>3. 0 \notin Monitors
        BY DEF Monitors
    <2>4. building'.m = m => building'.ver <= load.ver
        BY <1>3, <1>6, <2>1, <2>3
    <2>5. slot'[m].ver <= load.ver
        BY <1>4, <1>5, <2>1, <2>2
    <2>6. QED
        BY <1>3, <2>1, <2>4, <2>5
<1>11. QED
    BY <1>7, <1>8, <1>9, <1>10 DEF AgeInv

\* The monitor takes over the list of its payload.
LEMMA BuiltAge ==
    ASSUME SharedTypes, FinishRebuildIconData, building.m \in Monitors
    PROVE  \A m \in Monitors :
              shown'[m] = shown[m] \/ (m = building.m /\ shown'[m].ver = building.ver)
<1> DEFINE b == building.m
           blank == [shown[b] EXCEPT !.ver = building.ver, !.empty = TRUE]
           tree(resized) == Built(b, resized)
<1>1. shown \in [Monitors -> Tree]
    BY DEF SharedTypes
<1>2. blank.ver = building.ver
    BY <1>1 DEF Tree
<1>3. \A resized : tree(resized).ver = building.ver
    BY DEF Built
<1>4. \/ shown' = shown
      \/ \E t : shown' = [shown EXCEPT ![b] = t] /\ t.ver = building.ver
    <2>1. \/ shown' = shown
          \/ shown' = [shown EXCEPT ![b] = blank]
          \/ \E resized \in BOOLEAN : shown' = [shown EXCEPT ![b] = tree(resized)]
        BY DEF FinishRebuildIconData
    <2> HIDE DEF blank, tree
    <2>2. QED
        BY <1>2, <1>3, <2>1
<1> HIDE DEF blank, tree
<1>5. QED
    BY <1>1, <1>4

LEMMA FinishAge ==
    ASSUME DiscoveryInv, AgeInv, FinishRebuildIconData
    PROVE  AgeInv'
<1>1. SharedTypes /\ TypeOK /\ CarriedInv
    BY DEF DiscoveryInv, TypeOK
<1>2. /\ building' = NoPayload /\ building # NoPayload
      /\ slot' = slot /\ worker' = worker /\ version' = version
    BY DEF FinishRebuildIconData, worldVars
<1>3. PICK b \in Monitors : b = building.m
    BY <1>1, <1>2 DEF SharedTypes, Payload
<1>4. \A m \in Monitors : shown'[m] = shown[m] \/ (m = b /\ shown'[m].ver = building.ver)
    BY <1>1, <1>3, BuiltAge
<1>5. building'.m = 0
    BY <1>2 DEF NoPayload
<1>6. \A m \in Monitors : shown'[m].ver <= version'
    BY <1>2, <1>3, <1>4 DEF AgeInv
<1>7. \A m \in Monitors : slot'[m] # NoPayload =>
          /\ shown'[m].ver <= slot'[m].ver /\ slot'[m].ver <= version'
          /\ building'.m = m => building'.ver <= slot'[m].ver
    <2>1. 0 \notin Monitors
        BY DEF Monitors
    <2>2. QED
        BY <1>2, <1>3, <1>4, <1>5, <2>1 DEF AgeInv
<1>8. \A w \in Threads : worker'[w].at \in HasList =>
          LET load == worker'[w].load
          IN  /\ shown'[load.m].ver <= load.ver /\ load.ver <= version'
              /\ building'.m = load.m => building'.ver <= load.ver
              /\ slot'[load.m].ver <= load.ver
    <2> SUFFICES ASSUME NEW w \in Threads, worker[w].at \in HasList,
                        NEW m \in Monitors, m = worker[w].load.m
                 PROVE  LET load == worker[w].load
                        IN  /\ shown'[m].ver <= load.ver /\ load.ver <= version
                            /\ building'.m = m => building'.ver <= load.ver
                            /\ slot[m].ver <= load.ver
        <3>1. \A w \in Threads : worker[w].at \in HasList => worker[w].load.m \in Monitors
            BY <1>1, ListsKept, <1>2
        <3>2. QED
            BY <1>2, <3>1
    <2>1. 0 \notin Monitors
        BY DEF Monitors
    <2>2. QED
        BY <1>3, <1>4, <1>5, <2>1 DEF AgeInv
<1>9. QED
    BY <1>2, <1>6, <1>7, <1>8 DEF AgeInv

LEMMA OthersAge ==
    ASSUME DiscoveryInv, AgeInv, Others
    PROVE  AgeInv'
<1>1. SharedTypes /\ TypeOK /\ CarriedInv
    BY DEF DiscoveryInv, TypeOK
<1>2. CASE TakePayload /\ Enabled
    BY <1>2, TakeAge
<1>3. CASE FinishRebuildIconData
    BY <1>3, FinishAge
<1>4. CASE ~FinishRebuildIconData /\ ~(TakePayload /\ Enabled)
    <2>1. building' = building
        BY <1>4 DEF Others, OnShellHook, TakePayload, ShellHookDebounceProc, EndEnable,
                    BeginDisable, SignalStop, Join, Flush, Unload, Load, IconsChange, vars,
                    treeVars
    <2>2. \A m \in Monitors : slot'[m] = slot[m] \/ slot'[m] = NoPayload
        <3>1. CASE Flush
            BY <3>1 DEF Flush
        <3>2. CASE ~Flush
            BY <1>4, <3>2
               DEF Others, OnShellHook, TakePayload, ShellHookDebounceProc, EndEnable,
                   BeginDisable, SignalStop, Join, Unload, Load, IconsChange, vars
        <3>3. QED
            BY <3>1, <3>2
    <2>3. \A m \in Monitors : shown'[m].ver \in {0, shown[m].ver}
        <3>1. CASE BeginDisable
            BY <3>1 DEF BeginDisable, NoTree
        <3>2. CASE OnShellHook
            <4>1. \/ shown' = shown
                  \/ \E S : shown' = [m \in Monitors |-> IF m \in S
                                THEN [shown[m] EXCEPT !.intact = FALSE] ELSE shown[m]]
                BY <3>2 DEF OnShellHook, Drop
            <4>2. \A m \in Monitors : shown[m] \in Tree
                BY <1>1 DEF SharedTypes
            <4>3. \A t \in Tree : [t EXCEPT !.intact = FALSE].ver = t.ver
                BY DEF Tree
            <4>4. QED
                BY <4>1, <4>2, <4>3
        <3>3. CASE ~BeginDisable /\ ~OnShellHook
            BY <1>4, <3>3
               DEF Others, TakePayload, ShellHookDebounceProc, EndEnable,
                   SignalStop, Join, Flush, Unload, Load, IconsChange, vars, treeVars
        <3>4. QED
            BY <3>1, <3>2, <3>3
    <2>4. version' \in Nat /\ version' >= version
        <3>1. version \in Nat
            BY <1>1 DEF SharedTypes
        <3>2. version' = version \/ version' = version + 1
            BY <1>4
               DEF Others, OnShellHook, TakePayload, ShellHookDebounceProc, EndEnable,
                   BeginDisable, SignalStop, Join, Flush, Unload, Load, IconsChange, vars,
                   worldVars
        <3>3. QED
            BY <3>1, <3>2
    <2>5. worker' = worker
        BY OthersKeepWorker
    <2>6. QED
        BY <1>1, <2>1, <2>2, <2>3, <2>4, <2>5, ListsKept, AgeKept
<1>5. QED
    BY <1>2, <1>3, <1>4

\* A step in which no list becomes newer and none changes its hands.
LEMMA PlainStepAge ==
    ASSUME DiscoveryInv, AgeInv, NEW w \in Threads, WorkerStep(w), slot' = slot,
           worker'[w].at \in HasList =>
               /\ worker[w].at \in HasList
               /\ worker'[w].load.m = worker[w].load.m
               /\ worker'[w].load.ver = worker[w].load.ver
    PROVE  AgeInv'
<1>1. SharedTypes /\ TypeOK /\ CarriedInv
    BY DEF DiscoveryInv, TypeOK
<1>2. \A v \in Threads \ {w} : worker'[v] = worker[v]
    BY <1>1, WorkerShape
<1>3. \A v \in Threads : worker[v].at \in HasList =>
          worker[v].load.m \in Monitors /\ worker[v].load.ver \in Versions
    <2> SUFFICES ASSUME NEW v \in Threads, worker[v].at \in HasList
                 PROVE  worker[v].load.m \in Monitors /\ worker[v].load.ver \in Versions
        OBVIOUS
    <2>1. worker[v] \in WorkerStates /\ Carries(worker[v]) /\ worker[v].at \in Holding
        BY <1>1 DEF CarriedInv, HasList, Holding
    <2>2. QED
        BY <2>1 DEF WorkerStates, Loads, Carries
<1>4. building' = building /\ shown' = shown /\ version' = version
    BY WorkerLives
<1>5. version \in Nat
    BY <1>1 DEF SharedTypes
<1>6. \A v \in Threads : worker'[v].at \in HasList =>
          /\ worker[v].at \in HasList
          /\ worker'[v].load.m = worker[v].load.m
          /\ worker'[v].load.ver = worker[v].load.ver
    BY <1>2
<1>7. \A v \in Threads : worker'[v].at \in HasList =>
          /\ worker[v].at \in HasList /\ worker[v].load.m \in Monitors
          /\ worker[v].load.ver \in Versions
          /\ worker'[v].load.m = worker[v].load.m
          /\ worker'[v].load.ver = worker[v].load.ver
    BY <1>3, <1>6
<1>8. version' \in Nat /\ version' >= version
    BY <1>4, <1>5
<1>9. QED
    BY <1>1, <1>4, <1>7, <1>8, AgeKept

\* A query returns what the taskbar has now, which is as new as anything.
LEMMA QueryAge ==
    ASSUME DiscoveryInv, AgeInv, NEW w \in Threads, QueryReturns(w)
    PROVE  AgeInv'
<1>1. SharedTypes /\ TypeOK /\ CarriedInv
    BY DEF DiscoveryInv, TypeOK
<1>2. WorkerStep(w)
    BY DEF WorkerStep
<1>3. slot' = slot
    BY DEF QueryReturns
<1>4. CASE Goes(w, "wait", NoPayload)
    <2>1. worker'[w].at \notin HasList
        BY <1>1, <1>4, GoesTo DEF HasList
    <2>2. QED
        BY <1>2, <1>3, <2>1, PlainStepAge
<1>5. CASE \E at : Goes(w, at, [worker[w].load EXCEPT !.ver = version])
    <2> DEFINE list == [worker[w].load EXCEPT !.ver = version]
    <2>1. worker[w].load \in Loads /\ worker[w].load.m \in Monitors
        BY <1>1 DEF QueryReturns, CarriedInv, Carries, WorkerStates, Holding
    <2>2. list.m \in Monitors /\ list.ver = version
        BY <2>1 DEF Loads
    <2>3. worker'[w].load = list /\ \A v \in Threads \ {w} : worker'[v] = worker[v]
        BY <1>1, <1>5, GoesTo
    <2>4. building' = building /\ shown' = shown /\ version' = version
        BY <1>2, WorkerLives
    <2>5. version \in Nat /\ NoPayload.ver = 0 /\ NoPayload.m \notin Monitors
        BY <1>1 DEF SharedTypes, NoPayload, Monitors
    <2> HIDE DEF list
    <2>6. /\ shown[list.m].ver <= version
          /\ building.m = list.m => building.ver <= version
          /\ slot[list.m].ver <= version
        BY <2>2, <2>5 DEF AgeInv
    <2>7. /\ \A m \in Monitors : shown'[m].ver <= version'
          /\ building' # NoPayload =>
                shown'[building'.m].ver <= building'.ver /\ building'.ver <= version'
        BY <2>4 DEF AgeInv
    <2>8. \A m \in Monitors : slot'[m] # NoPayload =>
              /\ shown'[m].ver <= slot'[m].ver /\ slot'[m].ver <= version'
              /\ building'.m = m => building'.ver <= slot'[m].ver
        BY <1>3, <2>4 DEF AgeInv
    <2> DEFINE Newer(load) == /\ shown[load.m].ver <= load.ver /\ load.ver <= version
                              /\ building.m = load.m => building.ver <= load.ver
                              /\ slot[load.m].ver <= load.ver
    <2>9. Newer(list)
        BY <2>2, <2>5, <2>6
    <2>10. \A v \in Threads \ {w} : worker[v].at \in HasList => Newer(worker[v].load)
        BY DEF AgeInv
    <2> HIDE DEF Newer
    <2>11. \A v \in Threads : worker'[v].at \in HasList => Newer(worker'[v].load)
        BY <2>3, <2>9, <2>10
    <2>12. \A v \in Threads : worker'[v].at \in HasList =>
              LET load == worker'[v].load
              IN  /\ shown'[load.m].ver <= load.ver /\ load.ver <= version'
                  /\ building'.m = load.m => building'.ver <= load.ver
                  /\ slot'[load.m].ver <= load.ver
        BY <1>3, <2>4, <2>11 DEF Newer
    <2>13. QED
        BY <2>7, <2>8, <2>12 DEF AgeInv
<1>6. QED
    BY <1>4, <1>5 DEF QueryReturns, GiveUp

\* The worker that publishes is the only one that holds a list.
LEMMA PublishAge ==
    ASSUME DiscoveryInv, AgeInv, OneWorkerInv, NEW w \in Threads, Publish(w)
    PROVE  AgeInv'
<1>1. SharedTypes /\ TypeOK /\ CarriedInv
    BY DEF DiscoveryInv, TypeOK
<1>2. WorkerStep(w)
    BY DEF WorkerStep
<1>3. PICK m \in Monitors : m = worker[w].load.m
    BY <1>1 DEF Publish, CarriedInv, Carries, Holding
<1> DEFINE load == worker[w].load
<1>4. slot'[m] = load /\ \A k \in Monitors \ {m} : slot'[k] = slot[k]
    BY <1>1, <1>3 DEF Publish, SharedTypes
<1>5. building' = building /\ shown' = shown /\ version' = version
    BY <1>2, WorkerLives
<1>6. \A v \in Threads : worker'[v].at \notin HasList
    <2>1. worker'[w].at = "post" /\ \A v \in Threads \ {w} : worker'[v] = worker[v]
        BY <1>1, GoesTo DEF Publish
    <2>2. \A v \in Threads \ {w} : worker[v] = Gone
        <3>1. worker[w] # Gone
            BY <1>2, WorkerLives
        <3>2. QED
            BY <3>1 DEF OneWorkerInv
    <2>3. QED
        BY <2>1, <2>2 DEF HasList, Gone
<1>7. /\ shown[m].ver <= load.ver /\ load.ver <= version
      /\ building.m = m => building.ver <= load.ver
    BY <1>3 DEF AgeInv, Publish, HasList
<1>8. \A k \in Monitors : slot'[k] # NoPayload =>
          /\ shown'[k].ver <= slot'[k].ver /\ slot'[k].ver <= version'
          /\ building'.m = k => building'.ver <= slot'[k].ver
    <2> HIDE DEF load
    <2>1. QED
        BY <1>4, <1>5, <1>7 DEF AgeInv
<1>9. QED
    BY <1>5, <1>6, <1>8 DEF AgeInv

LEMMA WorkersAge ==
    ASSUME DiscoveryInv, AgeInv, OneWorkerInv, NEW w \in Threads, WorkerStep(w)
    PROVE  AgeInv'
<1>1. TypeOK /\ CarriedInv
    BY DEF DiscoveryInv
<1>2. worker[w].load \in Loads
    BY <1>1 DEF CarriedInv, WorkerStates
<1>3. CASE Wake(w) \/ StartPass(w) \/ NextMonitor(w) \/ Post(w)
    <2>1. slot' = slot
        BY <1>3 DEF Wake, StartPass, NextMonitor, Post
    <2>2. worker'[w].at \notin HasList
        <3>1. CASE \E at \in {"wait", "woken", "next", "query"} : \E l : Goes(w, at, l)
            BY <1>1, <3>1, GoesTo DEF HasList
        <3>2. CASE worker' = [worker EXCEPT ![w] = Gone]
            BY <1>1, <3>2 DEF CarriedInv, Gone, HasList
        <3>3. CASE StartPass(w)
            BY <1>1, <3>1, <3>3 DEF StartPass, CarriedInv, HasList
        <3>4. CASE Wake(w)
            BY <3>1, <3>2, <3>4 DEF Wake
        <3>5. CASE NextMonitor(w) \/ Post(w)
            BY <3>1, <3>5 DEF NextMonitor, Post
        <3>6. QED
            BY <1>3, <3>3, <3>4, <3>5
    <2>3. QED
        BY <2>1, <2>2, PlainStepAge
<1>4. CASE QueryReturns(w)
    BY <1>4, QueryAge
<1>5. CASE GetBitmap(w) \/ Recheck(w)
    <2>1. slot' = slot /\ worker[w].at \in HasList
        BY <1>5 DEF GetBitmap, Recheck, HasList
    <2>2. \/ \E l : Goes(w, "wait", l)
          \/ \E at : \E l : /\ Goes(w, at, l)
                            /\ l.m = worker[w].load.m /\ l.ver = worker[w].load.ver
        <3>1. CASE Recheck(w)
            BY <3>1 DEF Recheck, GiveUp
        <3>2. CASE GetBitmap(w)
            <4> DEFINE l(h) == [worker[w].load EXCEPT !.bmp = h]
            <4>1. \A h : l(h).m = worker[w].load.m /\ l(h).ver = worker[w].load.ver
                BY <1>2 DEF Loads
            <4>2. Goes(w, "wait", NoPayload) \/ \E h : Goes(w, "captured", l(h))
                BY <3>2 DEF GetBitmap, GiveUp
            <4> HIDE DEF l
            <4>3. QED
                BY <4>1, <4>2
        <3>3. QED
            BY <1>5, <3>1, <3>2
    <2>3. worker'[w].at \in HasList =>
              /\ worker'[w].load.m = worker[w].load.m
              /\ worker'[w].load.ver = worker[w].load.ver
        BY <1>1, <2>2, GoesTo DEF HasList
    <2>4. QED
        BY <2>1, <2>3, PlainStepAge
<1>6. CASE Publish(w)
    BY <1>6, PublishAge
<1>7. QED
    BY <1>3, <1>4, <1>5, <1>6 DEF WorkerStep

LEMMA NextAge ==
    ASSUME DiscoveryInv, [Next]_vars, ~revived'
    PROVE  AgeInv'
<1>1. AgeInv /\ OneWorkerInv
    BY StaysRevived DEF DiscoveryInv
<1>2. QED
    BY <1>1, TriggersAge, OthersAge, WorkersAge, Steps

-----------------------------------------------------------------------------
(* The invariant holds.                                                      *)

LEMMA NextType ==
    ASSUME DiscoveryInv, [Next]_vars
    PROVE  TypeOK'
<1>1. SharedTypes' /\ CarriedInv' /\ PayloadsAccounted'
    BY NextShared, NextCarried, NextAccounted
<1>2. \A w \in Threads :
          /\ worker'[w].at \in Holding \cup {"gone", "wait", "woken", "next", "post"}
          /\ worker'[w].n \in 0..MaxMonitors
          /\ worker'[w].load.m \in 0..(MaxMonitors + 1)
    <2> SUFFICES ASSUME NEW w \in Threads
                 PROVE  /\ worker'[w].at \in Places /\ worker'[w].n \in Counts
                        /\ worker'[w].load.m \in 0..(MaxMonitors + 1)
        BY DEF Places, Counts
    <2>1. worker'[w] \in WorkerStates
        BY <1>1 DEF CarriedInv
    <2>2. worker'[w].at \in Places /\ worker'[w].n \in Counts /\ worker'[w].load \in Loads
        BY <2>1 DEF WorkerStates
    <2>3. QED
        BY <2>2 DEF Loads
<1>3. ~revived' => \A v, w \in Threads : Gone \in {worker'[v], worker'[w]} \/ v = w
    BY NextOneWorker DEF OneWorkerInv
<1>4. heap' \in Nat
    <2>1. heap' = InSlots' + InHands' + InTree'
        BY <1>1 DEF PayloadsAccounted, InSlots, InHands, InTree
    <2>2. InSlots' \in Nat /\ InHands' \in Nat /\ InTree' \in Nat
        BY CountTypes
    <2>3. \A a, b, c \in Nat : a + b + c \in Nat
        OBVIOUS
    <2>4. QED
        BY <2>1, <2>2, <2>3, Zenon
<1>5. QED
    BY <1>1, <1>2, <1>3, <1>4 DEF TypeOK

LEMMA NextInv == DiscoveryInv /\ [Next]_vars => DiscoveryInv'
<1> SUFFICES ASSUME DiscoveryInv, [Next]_vars PROVE DiscoveryInv'
    OBVIOUS
<1>1. TypeOK' /\ CarriedInv' /\ SlotsInv' /\ PayloadsAccounted'
    BY NextType, NextCarried, NextSlots, NextAccounted
<1>2. ~revived' => OneWorkerInv' /\ CleanInv' /\ AgeInv'
    BY NextOneWorker, NextClean, NextAge
<1>3. QED
    BY <1>1, <1>2 DEF DiscoveryInv

\* The inductive invariant holds in every reachable state.
THEOREM DiscoveryConsistent == Spec => []DiscoveryInv
BY InitInv, NextInv, PTL DEF Spec

\* The plugin's variables keep their types, and TriggerAsyncUiaDiscovery never
\* starts a second worker beside a living one, unless Enable comes while a
\* worker whose query outlasted the wait of Disable is still alive.
THEOREM TypeCorrect == Spec => []TypeOK
<1>1. DiscoveryInv => TypeOK
    BY DEF DiscoveryInv
<1>2. QED
    BY <1>1, DiscoveryConsistent, PTL

\* The payloads UiaDiscoveryWorkerThread allocates: however the exchange of a
\* slot, the message's handler, an abort of the worker and Disable are
\* interleaved, and even when a query outlasts Disable, each is held by the
\* worker, a slot or the UI thread until it is freed, once.
THEOREM PayloadsOwnedOnce == Spec => []PayloadsAccounted
<1>1. DiscoveryInv => PayloadsAccounted
    BY DEF DiscoveryInv
<1>2. QED
    BY <1>1, DiscoveryConsistent, PTL

\* With the plugin disabled or unloaded there is no payload in a slot and no
\* bitmap, and at most one worker, which Disable could not wait for because the
\* UI thread answers its query: it holds the payload of that query, returns
\* from it and ends.  The exception is a plugin enabled again meanwhile.
THEOREM DisableLeavesNothing == Spec => []NothingOutlivesDisable
<1>1. DiscoveryInv => NothingOutlivesDisable
    <2> SUFFICES ASSUME DiscoveryInv, phase \in {"off", "unmapped"}, ~revived
                 PROVE  /\ \A w \in Threads : worker[w] = Gone \/ worker[w].at \in {"query", "wait"}
                        /\ heap = Cardinality({w \in Threads : worker[w].at = "query"})
                        /\ slot = [m \in Monitors |-> NoPayload] /\ cache = EmptyCache
        BY DEF NothingOutlivesDisable
    <2>1. \A w \in Threads : worker[w] = Gone \/ worker[w].at \in {"query", "wait"}
        BY DEF DiscoveryInv, OneWorkerInv, Held
    <2>2. cache = EmptyCache /\ \A m \in Monitors : slot[m] = NoPayload
        BY DEF DiscoveryInv, CleanInv
    <2>3. building = NoPayload
        BY DEF DiscoveryInv, SlotsInv
    <2>4. {m \in Monitors : slot[m] # NoPayload} = {}
        BY <2>2
    <2>5. \A w \in Threads : worker[w].at \in Holding <=> worker[w].at = "query"
        BY <2>1 DEF Gone, Holding
    <2>6. InHands = Cardinality({w \in Threads : worker[w].at = "query"})
        BY <2>5 DEF InHands
    <2>7. InSlots = 0 /\ InTree = 0
        BY <2>3, <2>4, FS_EmptySet DEF InSlots, InTree
    <2>8. heap = InSlots + InHands + InTree
        BY Accounted DEF DiscoveryInv
    <2>9. heap = InHands
        BY <2>7, <2>8, CountTypes
    <2>10. slot = [m \in Monitors |-> NoPayload]
        BY <2>2 DEF DiscoveryInv, TypeOK, SharedTypes
    <2>11. QED
        BY <2>1, <2>2, <2>6, <2>9, <2>10
<1>2. QED
    BY <1>1, DiscoveryConsistent, PTL

\* No order of queries, exchanges, lost or late messages lets
\* FinishRebuildIconDataForMonitor replace a monitor's list of icons by an older
\* one, even when Disable gives up a worker; as long as Enable has never
\* overtaken such a worker.
THEOREM TreesNeverOlder == Spec => ShownNeverOlder
<1>1. ASSUME DiscoveryInv, [Next]_vars, ~revived, NEW m \in Monitors
      PROVE  shown'[m].ver >= shown[m].ver \/ shown'[m] = NoTree
    <2>1. SharedTypes /\ AgeInv
        BY <1>1 DEF DiscoveryInv, TypeOK
    <2>2. shown[m].ver \in Nat
        BY <2>1 DEF SharedTypes, Tree
    <2>3. CASE shown' = shown
        BY <2>2, <2>3
    <2> DEFINE stale == [shown[m] EXCEPT !.intact = FALSE]
    <2>s. stale.ver = shown[m].ver
        BY <2>1 DEF SharedTypes, Tree
    <2> HIDE DEF stale
    <2>4. CASE UpdateMonitors \/ OnShellHook
        <3>1. shown'[m] \in {shown[m], NoTree, stale}
            BY <2>4 DEF UpdateMonitors, DropAll, OnShellHook, Drop, stale
        <3>2. QED
            BY <2>2, <2>s, <3>1
    <2>5. CASE BeginDisable
        BY <2>5 DEF BeginDisable
    <2>6. CASE FinishRebuildIconData
        <3>1. building.m \in Monitors /\ building.ver \in Nat
            BY <2>1, <2>6 DEF FinishRebuildIconData, SharedTypes, Payload
        <3>2. shown[building.m].ver <= building.ver
            BY <2>1, <2>6 DEF FinishRebuildIconData, AgeInv
        <3>3. shown'[m] = shown[m] \/ (m = building.m /\ shown'[m].ver = building.ver)
            BY <2>1, <2>6, <3>1, BuiltAge
        <3>4. QED
            BY <2>2, <3>1, <3>2, <3>3
    <2>7. CASE \E w \in Threads : WorkerStep(w)
        BY <2>3, <2>7, WorkerLives
    <2>8. CASE Triggers /\ ~UpdateMonitors
        BY <2>3, <2>8
           DEF Triggers, ShellHookDebounceProc, OnConfigChanged, BeginEnable, treeVars
    <2>9. CASE Others /\ ~FinishRebuildIconData /\ ~BeginDisable /\ ~OnShellHook
        BY <2>3, <2>9
           DEF Others, TakePayload, ShellHookDebounceProc, EndEnable, SignalStop,
               Join, Flush, Unload, Load, IconsChange, vars, treeVars
    <2>10. QED
        BY <1>1, <2>4, <2>5, <2>6, <2>7, <2>8, <2>9, Steps
<1>2. DiscoveryInv /\ [Next]_vars =>
          [~revived => \A m \in Monitors :
               shown'[m].ver >= shown[m].ver \/ shown'[m] = NoTree]_vars
    BY <1>1
<1>3. QED
    BY <1>2, DiscoveryConsistent, PTL DEF Spec, ShownNeverOlder
=============================================================================
