------------------------- MODULE EngineCore_proofs -------------------------
(***************************************************************************)
(* For any number of windows, any queue and any disturbances: the names of *)
(* commands are freed exactly once, no server thread is left when the      *)
(* plugins are unmapped, and, if the host's sleep outlasts the teardown,   *)
(* an initialised engine is on the live window behind a closed gate.       *)
(***************************************************************************)
EXTENDS EngineCore, SequenceTheorems, FiniteSetTheorems, WellFoundedInduction, TLAPS

USE BoundsAssumption, CommandsAssumption DEF BoundsAssumption, CommandsAssumption

----------------------------------------------------------------------------
(* The drain of the queue.  Induction is by a least counterexample.        *)

LEMMA LeastNumber ==
    ASSUME NEW A \in SUBSET Nat, A # {}
    PROVE  \E n \in A : \A m \in A : n <= m
<1>1. \E n \in A : \A m \in A : ~(<<m, n>> \in OpToRel(<, Nat))
    BY NatLessThanWellFounded, WFMin
<1>2. \A m, n \in Nat : m < n => <<m, n>> \in OpToRel(<, Nat)
    BY Zenon DEF OpToRel
<1>3. \A m, n \in Nat : ~(m < n) => n <= m
    OBVIOUS
<1>4. QED
    BY <1>1, <1>2, <1>3, Zenon

\* What Kept(q) computes from what it computed for the index before.
KeptStep(q, f, i) ==
    IF i = 0 THEN <<>>
    ELSE IF q[i] \in IpcCommands THEN f[i - 1] ELSE Append(f[i - 1], q[i])

LEMMA KeptExists ==
    ASSUME NEW S, NEW q \in Seq(S)
    PROVE  \E f \in [0 .. Len(q) -> Seq(S \ IpcCommands)] :
              \A i \in 0 .. Len(q) : f[i] = KeptStep(q, f, i)
<1> DEFINE T == Seq(S \ IpcCommands)
           Defined(f, k) == f \in [0 .. k -> T] /\ \A i \in 0 .. k : f[i] = KeptStep(q, f, i)
           Bad == {k \in 0 .. Len(q) : ~\E f : Defined(f, k)}
<1>1. Len(q) \in Nat /\ \A i \in 1 .. Len(q) : q[i] \in S
    OBVIOUS
<1>2. SUFFICES ASSUME ~\E f : Defined(f, Len(q)) PROVE FALSE
    OBVIOUS
<1> HIDE DEF Defined
<1>3. Bad \in SUBSET Nat /\ Len(q) \in Bad
    BY <1>1, <1>2
<1>4. PICK k \in Bad : \A j \in Bad : k <= j
    <2> HIDE DEF Bad
    <2>1. QED
        BY <1>3, LeastNumber
<1>5. k # 0
    <2>1. Defined([i \in 0 .. 0 |-> <<>>], 0)
        BY DEF KeptStep, Defined
    <2>2. QED
        BY <2>1, <1>4
<1>6. k - 1 \in 0 .. Len(q) /\ k \in 1 .. Len(q) /\ k - 1 \notin Bad
    BY <1>1, <1>4, <1>5
<1>7. PICK f : Defined(f, k - 1)
    BY <1>6
<1>8. KeptStep(q, f, k) \in T
    <2>1. f[k - 1] \in T
        BY <1>6, <1>7 DEF Defined
    <2>2. q[k] \in S
        BY <1>1, <1>6
    <2>3. CASE q[k] \in IpcCommands
        BY <1>5, <2>1, <2>3 DEF KeptStep
    <2>4. CASE q[k] \notin IpcCommands
        <3>1. q[k] \in S \ IpcCommands
            BY <2>2, <2>4
        <3>2. Append(f[k - 1], q[k]) \in T
            BY <2>1, <3>1
        <3>3. QED
            BY <1>5, <2>4, <3>2 DEF KeptStep
    <2>5. QED
        BY <2>3, <2>4
<1> DEFINE g == [i \in 0 .. k |-> IF i = k THEN KeptStep(q, f, k) ELSE f[i]]
<1>9. Defined(g, k)
    <2>1. g \in [0 .. k -> T]
        BY <1>6, <1>7, <1>8 DEF Defined
    <2>2. \A i \in 0 .. k - 1 : g[i] = f[i]
        BY <1>6
    <2>3. \A i \in 0 .. k : KeptStep(q, g, i) = KeptStep(q, f, i)
        BY <1>6, <2>2 DEF KeptStep
    <2>4. \A i \in 0 .. k : g[i] = KeptStep(q, f, i)
        BY <1>6, <1>7 DEF Defined
    <2>5. QED
        BY <2>1, <2>3, <2>4 DEF Defined
<1>10. QED
    BY <1>4, <1>9

\* The drain keeps messages of the queue, and no command.
LEMMA DrainedKeeps ==
    ASSUME NEW S, NEW q \in Seq(S)
    PROVE  Drained(q) \in Seq(S \ IpcCommands)
<1> DEFINE n == Len(q)
<1>1. n \in Nat
    OBVIOUS
<1>2. PICK f \in [0 .. n -> Seq(S \ IpcCommands)] :
         \A i \in 0 .. n : f[i] = KeptStep(q, f, i)
    BY KeptExists
<1> DEFINE Eq(g) == g = [i \in 0 .. Len(q) |->
                            IF i = 0 THEN <<>>
                            ELSE IF q[i] \in IpcCommands THEN g[i - 1]
                                                         ELSE Append(g[i - 1], q[i])]
<1>3. Eq(f)
    BY <1>2 DEF KeptStep
<1>4. Eq(Kept(q))
    BY <1>3, Zenon DEF Kept
<1> DEFINE Bad == {i \in 0 .. n : Kept(q)[i] # f[i]}
<1>5. Bad = {}
    <2>1. SUFFICES ASSUME Bad # {} PROVE FALSE
        OBVIOUS
    <2>2. PICK k \in Bad : \A j \in Bad : k <= j
        <3>1. Bad \in SUBSET Nat
            BY <1>1
        <3> HIDE DEF Bad
        <3>2. QED
            BY <2>1, <3>1, LeastNumber
    <2>3. k = 0 \/ Kept(q)[k - 1] = f[k - 1]
        BY <1>1, <2>2
    <2>4. Kept(q)[k] = f[k]
        BY <1>1, <1>3, <1>4, <2>2, <2>3
    <2>5. QED
        BY <2>2, <2>4
<1>6. Kept(q)[n] = f[n]
    BY <1>1, <1>5
<1>7. QED
    BY <1>1, <1>2, <1>6 DEF Drained

----------------------------------------------------------------------------
(* How many messages of a kind are in the queue: those that own a name, and *)
(* WM_TE_INIT.                                                             *)

Of(q, kind) == {i \in 1 .. Len(q) : q[i] \in kind}

Count(q, kind) == Cardinality(Of(q, kind))

One(m, kind) == IF m \in kind THEN 1 ELSE 0

LEMMA CountType ==
    ASSUME NEW q \in Seq(Posted), NEW kind
    PROVE  IsFiniteSet(Of(q, kind)) /\ Count(q, kind) \in Nat
<1>1. IsFiniteSet(1 .. Len(q)) /\ Of(q, kind) \subseteq 1 .. Len(q)
    BY FS_Interval DEF Of
<1>2. IsFiniteSet(Of(q, kind))
    BY <1>1, FS_Subset
<1>3. QED
    BY <1>2, FS_CardinalityType DEF Count

LEMMA CountNone ==
    ASSUME NEW q \in Seq(Posted), NEW kind
    PROVE  Count(q, kind) = 0 <=> \A i \in 1 .. Len(q) : q[i] \notin kind
<1>1. Count(q, kind) = 0 <=> Of(q, kind) = {}
    BY CountType, FS_EmptySet DEF Count
<1>2. QED
    BY <1>1 DEF Of

LEMMA CountEmpty == ASSUME NEW kind PROVE <<>> \in Seq(Posted) /\ Count(<<>>, kind) = 0
<1> DEFINE q == <<>>
<1>1. q \in Seq(Posted) /\ \A i \in 1 .. Len(q) : q[i] \notin kind
    OBVIOUS
<1> HIDE DEF q
<1>2. Count(q, kind) = 0
    BY <1>1, CountNone
<1>3. QED
    BY <1>1, <1>2 DEF q

LEMMA CountAppend ==
    ASSUME NEW q \in Seq(Posted), NEW m \in Posted, NEW kind
    PROVE  /\ Append(q, m) \in Seq(Posted)
           /\ Count(Append(q, m), kind) = Count(q, kind) + One(m, kind)
<1> DEFINE r == Append(q, m)
<1>1. /\ Len(q) \in Nat /\ r \in Seq(Posted) /\ Len(r) = Len(q) + 1
      /\ r[Len(q) + 1] = m /\ \A i \in 1 .. Len(q) : r[i] = q[i]
    OBVIOUS
<1>2. IsFiniteSet(Of(q, kind)) /\ Cardinality(Of(q, kind)) \in Nat
    BY CountType DEF Count
<1>3. CASE m \in kind
    <2>1. Of(r, kind) = Of(q, kind) \cup {Len(q) + 1} /\ Len(q) + 1 \notin Of(q, kind)
        BY <1>1, <1>3 DEF Of
    <2>2. QED
        BY <1>1, <1>2, <1>3, <2>1, FS_AddElement DEF One, Count
<1>4. CASE m \notin kind
    <2>1. Of(r, kind) = Of(q, kind)
        BY <1>1, <1>4 DEF Of
    <2>2. QED
        BY <1>1, <1>2, <1>4, <2>1 DEF One, Count
<1>5. QED
    BY <1>3, <1>4

LEMMA CountTail ==
    ASSUME NEW q \in Seq(Posted), q # <<>>, NEW kind
    PROVE  /\ Head(q) \in Posted /\ Tail(q) \in Seq(Posted)
           /\ Count(q, kind) = Count(Tail(q), kind) + One(Head(q), kind)
<1> DEFINE r == Tail(q)
           Later == Of(q, kind) \ {1}
           shift == [i \in Of(r, kind) |-> i + 1]
<1>1. /\ Len(q) \in Nat \ {0} /\ r \in Seq(Posted) /\ Len(r) = Len(q) - 1
      /\ Head(q) = q[1] /\ Head(q) \in Posted
      /\ \A i \in 1 .. Len(r) : r[i] = q[i + 1]
    OBVIOUS
<1>2. IsFiniteSet(Of(r, kind)) /\ IsFiniteSet(Of(q, kind))
    BY <1>1, CountType
<1>3. shift \in Bijection(Of(r, kind), Later)
    <2>1. shift \in [Of(r, kind) -> Later]
        BY <1>1 DEF Of
    <2>2. \A i, j \in Of(r, kind) : shift[i] = shift[j] => i = j
        BY DEF Of
    <2>3. \A j \in Later : j - 1 \in Of(r, kind) /\ shift[j - 1] = j
        BY <1>1 DEF Of
    <2>4. \A j \in Later : \E i \in Of(r, kind) : shift[i] = j
        BY <2>3
    <2> HIDE DEF shift, Later
    <2>5. QED
        BY <2>1, <2>2, <2>4 DEF Bijection, Injection, Surjection, IsInjective
<1>4. Cardinality(Later) = Cardinality(Of(r, kind))
    <2>1. ExistsBijection(Of(r, kind), Later)
        BY <1>3 DEF ExistsBijection
    <2> HIDE DEF Later
    <2>2. QED
        BY <1>2, <2>1, FS_SameCardinalityBij, FS_Bijection
<1>5. Cardinality(Of(q, kind)) = Cardinality(Later) + One(Head(q), kind)
    <2>1. Cardinality(Of(q, kind)) \in Nat
        BY <1>2, FS_CardinalityType
    <2>2. CASE Head(q) \in kind
        <3>1. 1 \in Of(q, kind)
            BY <1>1, <2>2 DEF Of
        <3>2. Cardinality(Later) = Cardinality(Of(q, kind)) - 1
            BY <1>2, <3>1, FS_RemoveElement
        <3> HIDE DEF Later
        <3>3. QED
            BY <2>1, <2>2, <3>2 DEF One
    <2>3. CASE Head(q) \notin kind
        <3>1. Later = Of(q, kind)
            BY <1>1, <2>3 DEF Of
        <3> HIDE DEF Later
        <3>2. QED
            BY <2>1, <2>3, <3>1 DEF One
    <2>4. QED
        BY <2>2, <2>3
<1>6. QED
    BY <1>1, <1>4, <1>5 DEF Count

\* Once drained, a queue owns no name, and it has no kind of message that it
\* did not have before.
LEMMA CountDrained ==
    ASSUME NEW q \in Seq(Posted)
    PROVE  /\ Drained(q) \in Seq(Posted)
           /\ Count(Drained(q), PayloadCommands) = 0
           /\ \A kind : Count(q, kind) = 0 => Count(Drained(q), kind) = 0
<1> DEFINE r == Drained(q)
<1>1. r \in Seq(Posted \ IpcCommands)
    BY DrainedKeeps
<1>2. r \in Seq(Posted) /\ \A i \in 1 .. Len(r) : r[i] \notin PayloadCommands
    <2> HIDE DEF r
    <2>1. QED
        BY <1>1 DEF IpcCommands
<1>3. ASSUME NEW kind, Count(q, kind) = 0 PROVE Count(r, kind) = 0
    <2>1. q \in Seq(Posted \ kind)
        BY <1>3, CountNone
    <2>2. r \in Seq((Posted \ kind) \ IpcCommands)
        BY <2>1, DrainedKeeps
    <2>3. \A i \in 1 .. Len(r) : r[i] \notin kind
        <3> HIDE DEF r
        <3>1. QED
            BY <2>2
    <2>4. QED
        BY <1>2, <2>3, CountNone
<1>4. QED
    BY <1>2, <1>3, CountNone

Names(q) == Count(q, PayloadCommands)

Inits(q) == Count(q, {"INIT"})

LEMMA OwningCounts == ASSUME NEW q PROVE Owning(q) = Names(q)
    BY DEF Owning, Names, Count, Of

----------------------------------------------------------------------------
(* The invariant.                                                          *)

\* An engine that is initialised has its plugins mapped and its window alive
\* and subclassed; what the UI thread is doing tells whether it is.
CoreInv ==
    /\ core = 0 <=> plugin = "unmapped"
    /\ core # 0 => core = window /\ subclassed
    /\ subclassed => window # 0
    /\ ui.at \in {"switch", "stuck", "stop"} => core # 0
    /\ ui.at = "ncdestroy" => core = 0
    /\ ui.at = "switch" => ui.msg \in IpcCommands

Handling == ui.at \in {"dispatch", "switch", "stuck"} /\ ui.msg \in PayloadCommands

\* A window without the subclass, which nobody would serve, owns no names.
NamesInv == ~subclassed => Owning(queue) = 0 /\ ~Handling

EngineInv ==
    TypeOK /\ CoreInv /\ NamesInv /\ PayloadsOwned /\ NoServerAfterUnmap

\* At most one WM_TE_INIT is on its way, only to the window behind the closed
\* gate and only as long as the engine is down.
Pending == Inits(queue) + One(ui.msg, IF ui.at = "dispatch" THEN {"INIT"} ELSE {})

GateInv ==
    /\ EngineOnOneWindow
    /\ Pending \in {0, 1}
    /\ Pending = 1 => subclassed /\ core = 0 /\ gate = 1 /\ known = window

Steps == {"idle", "dispatch", "switch", "disable", "stop", "ncdestroy", "stuck"}

Frames == [at : Steps, msg : Handled, through : BOOLEAN]

\* The frames the UI thread may be in, made new or from the one it is in.
LEMMA FrameTypes ==
    /\ Idle \in Frames
    /\ \A step \in Steps, msg \in Handled : Frame(step, msg) \in Frames
    /\ TypeOK => /\ ui \in Frames
                 /\ \A step \in Steps : [ui EXCEPT !.at = step] \in Frames
<1>1. Idle \in Frames
    BY DEF Idle, Frames, Steps, Handled
<1>2. ASSUME NEW step \in Steps, NEW msg \in Handled PROVE Frame(step, msg) \in Frames
    <2>1. (plugin = "enabled") \in BOOLEAN
        OBVIOUS
    <2>2. QED
        BY <2>1 DEF Frame, Frames
<1>3. TypeOK => ui \in Frames
    BY DEF TypeOK, Frames, Steps
<1>4. ui \in Frames => \A step \in Steps : [ui EXCEPT !.at = step] \in Frames
    BY DEF Frames
<1>5. QED
    BY <1>1, <1>2, <1>3, <1>4

\* The conjuncts of TypeOK about neither the queue, nor the frame, nor the payloads.
ValueTypes ==
    /\ window \in 0..MaxWindows /\ created \in 0..MaxWindows
    /\ gate \in 0..2 /\ known \in 0..MaxWindows /\ subclassed \in BOOLEAN
    /\ core \in 0..MaxWindows
    /\ plugin \in {"unmapped", "mapped", "enabled"}
    /\ ipc \in {"none", "listening", "serving", "acked", "sending", "exited"}
    /\ running \in BOOLEAN /\ sent \in BOOLEAN
    /\ host \in {"off", "running", "closing", "sleeping"}
    /\ hooked \in BOOLEAN /\ announced \in BOOLEAN

LEMMA NextTypes ==
    ASSUME queue' \in Seq(Posted), ui' \in Frames, payloads' \in Nat, ValueTypes'
    PROVE  TypeOK'
BY DEF TypeOK, ValueTypes, Frames, Steps

LEMMA InitInv == Init => EngineInv /\ GateInv
<1> SUFFICES ASSUME Init PROVE EngineInv /\ GateInv
    OBVIOUS
<1>1. <<>> \in Seq(Posted) /\ Owning(<<>>) = 0 /\ Inits(<<>>) = 0
    BY CountEmpty, OwningCounts DEF Names, Inits
<1>2. TypeOK
    <2>1. ui \in Frames
        BY FrameTypes DEF Init
    <2>2. window \in 0 .. MaxWindows /\ created \in 0 .. MaxWindows
        BY DEF Init
    <2>3. core \in 0 .. MaxWindows /\ known \in 0 .. MaxWindows /\ gate \in 0 .. 2
        BY DEF Init
    <2>4. QED
        BY <1>1, <2>1, <2>2, <2>3 DEF Init, TypeOK, Frames, Steps
<1>3. CoreInv /\ NamesInv /\ PayloadsOwned /\ NoServerAfterUnmap
    BY <1>1 DEF Init, CoreInv, NamesInv, PayloadsOwned, NoServerAfterUnmap, Idle, Handling
<1>4. GateInv
    BY <1>1 DEF Init, GateInv, EngineOnOneWindow, Pending, One, Idle
<1>5. QED
    BY <1>2, <1>3, <1>4 DEF EngineInv

\* The steps that leave the queue as it is.
LEMMA QuietInv ==
    ASSUME EngineInv, UNCHANGED queue,
           \/ Ignore \/ HandleInit \/ BeginCommand \/ EndCommand \/ BeginShutdown
           \/ HandleFinalize \/ BeginDestroy \/ EndSession \/ NestedShutdown
           \/ Accept \/ Leave \/ ServeOther \/ ServeShutdown \/ SendShutdown
           \/ SendTimesOut \/ Close \/ GiveUp \/ Unhook \/ CreateTaskbar
    PROVE  EngineInv'
<1> USE DEF Idle, explorerVars, hostVars, dllVars, engineVars, serverVars
<1>1. Owning(queue) \in Nat /\ Owning(queue') = Owning(queue)
    BY CountType, OwningCounts DEF EngineInv, TypeOK, Names
<1>2. TypeOK /\ CoreInv /\ NamesInv /\ PayloadsOwned /\ NoServerAfterUnmap
    BY DEF EngineInv
<1>3. CASE Ignore
    <2>1. TypeOK'
        <3>1. ui' \in Frames
            BY <1>2, <1>3, FrameTypes DEF Steps, Handled, Ignore
        <3>2. payloads' \in Nat
            BY <1>1, <1>2, <1>3 DEF TypeOK, PayloadsOwned, CoreInv, Ignore
        <3>3. ValueTypes'
            BY <1>2, <1>3 DEF TypeOK, ValueTypes, Ignore
        <3>4. QED
            BY <1>2, <3>1, <3>2, <3>3, NextTypes DEF TypeOK
    <2>2. CoreInv' /\ NamesInv'
        BY <1>1, <1>2, <1>3 DEF TypeOK, CoreInv, NamesInv, Handling, IpcCommands, PayloadCommands, Ignore
    <2>3. PayloadsOwned' /\ NoServerAfterUnmap'
        BY <1>1, <1>2, <1>3 DEF TypeOK, CoreInv, NamesInv, PayloadsOwned, NoServerAfterUnmap, Handling, IpcCommands, PayloadCommands, Ignore
    <2>4. QED
        BY <2>1, <2>2, <2>3 DEF EngineInv
<1>4. CASE HandleInit
    <2>1. TypeOK'
        <3>1. ui' \in Frames
            BY <1>2, <1>4, FrameTypes DEF Steps, Handled, HandleInit, Dispatching
        <3>2. payloads' \in Nat
            BY <1>1, <1>2, <1>4 DEF TypeOK, PayloadsOwned, CoreInv, HandleInit, Dispatching
        <3>3. ValueTypes'
            BY <1>2, <1>4 DEF TypeOK, ValueTypes, HandleInit, Dispatching
        <3>4. QED
            BY <1>2, <3>1, <3>2, <3>3, NextTypes DEF TypeOK
    <2>2. CoreInv' /\ NamesInv'
        BY <1>1, <1>2, <1>4 DEF TypeOK, CoreInv, NamesInv, Handling, IpcCommands, PayloadCommands, HandleInit, Dispatching
    <2>3. PayloadsOwned' /\ NoServerAfterUnmap'
        BY <1>1, <1>2, <1>4 DEF TypeOK, CoreInv, NamesInv, PayloadsOwned, NoServerAfterUnmap, Handling, IpcCommands, PayloadCommands, HandleInit, Dispatching
    <2>4. QED
        BY <2>1, <2>2, <2>3 DEF EngineInv
<1>5. CASE BeginCommand
    <2>1. TypeOK'
        <3>1. ui' \in Frames
            BY <1>2, <1>5, FrameTypes DEF Steps, Handled, BeginCommand, Freed
        <3>2. payloads' \in Nat
            BY <1>1, <1>2, <1>5 DEF TypeOK, PayloadsOwned, CoreInv, BeginCommand, Freed
        <3>3. ValueTypes'
            BY <1>2, <1>5 DEF TypeOK, ValueTypes, BeginCommand, Freed
        <3>4. QED
            BY <1>2, <3>1, <3>2, <3>3, NextTypes DEF TypeOK
    <2>2. CoreInv' /\ NamesInv'
        BY <1>1, <1>2, <1>5 DEF TypeOK, CoreInv, NamesInv, Handling, IpcCommands, PayloadCommands, BeginCommand, Freed
    <2>3. PayloadsOwned' /\ NoServerAfterUnmap'
        BY <1>1, <1>2, <1>5 DEF TypeOK, CoreInv, NamesInv, PayloadsOwned, NoServerAfterUnmap, Handling, IpcCommands, PayloadCommands, BeginCommand, Freed
    <2>4. QED
        BY <2>1, <2>2, <2>3 DEF EngineInv
<1>6. CASE EndCommand
    <2>1. TypeOK'
        <3>1. ui' \in Frames
            BY <1>2, <1>6, FrameTypes DEF Steps, Handled, EndCommand, Freed
        <3>2. payloads' \in Nat
            BY <1>1, <1>2, <1>6 DEF TypeOK, PayloadsOwned, CoreInv, EndCommand, Freed
        <3>3. ValueTypes'
            BY <1>2, <1>6 DEF TypeOK, ValueTypes, EndCommand, Freed, CoreInv, IpcCommands, PayloadCommands
        <3>4. QED
            BY <1>2, <3>1, <3>2, <3>3, NextTypes DEF TypeOK
    <2>2. CoreInv' /\ NamesInv'
        BY <1>1, <1>2, <1>6 DEF TypeOK, CoreInv, NamesInv, Handling, IpcCommands, PayloadCommands, EndCommand, Freed
    <2>3. PayloadsOwned' /\ NoServerAfterUnmap'
        BY <1>1, <1>2, <1>6 DEF TypeOK, CoreInv, NamesInv, PayloadsOwned, NoServerAfterUnmap, Handling, IpcCommands, PayloadCommands, EndCommand, Freed
    <2>4. QED
        BY <2>1, <2>2, <2>3 DEF EngineInv
<1>7. CASE BeginShutdown
    <2>1. TypeOK'
        <3>1. ui' \in Frames
            BY <1>2, <1>7, FrameTypes DEF Steps, Handled, BeginShutdown
        <3>2. payloads' \in Nat
            BY <1>1, <1>2, <1>7 DEF TypeOK, PayloadsOwned, CoreInv, BeginShutdown, Frame
        <3>3. ValueTypes'
            BY <1>2, <1>7 DEF TypeOK, ValueTypes, BeginShutdown
        <3>4. QED
            BY <1>2, <3>1, <3>2, <3>3, NextTypes DEF TypeOK
    <2>2. CoreInv' /\ NamesInv'
        BY <1>1, <1>2, <1>7 DEF TypeOK, CoreInv, NamesInv, Handling, IpcCommands, PayloadCommands, BeginShutdown, Frame
    <2>3. PayloadsOwned' /\ NoServerAfterUnmap'
        BY <1>1, <1>2, <1>7 DEF TypeOK, CoreInv, NamesInv, PayloadsOwned, NoServerAfterUnmap, Handling, IpcCommands, PayloadCommands, BeginShutdown, Frame
    <2>4. QED
        BY <2>1, <2>2, <2>3 DEF EngineInv
<1>8. CASE HandleFinalize
    <2>1. TypeOK'
        <3>1. ui' \in Frames
            BY <1>2, <1>8, FrameTypes DEF Steps, Handled, HandleFinalize, Dispatching, Stopping
        <3>2. payloads' \in Nat
            BY <1>1, <1>2, <1>8 DEF TypeOK, PayloadsOwned, CoreInv, HandleFinalize, Dispatching, Stopping
        <3>3. ValueTypes'
            BY <1>2, <1>8 DEF TypeOK, ValueTypes, HandleFinalize, Dispatching, Stopping
        <3>4. QED
            BY <1>2, <3>1, <3>2, <3>3, NextTypes DEF TypeOK
    <2>2. CoreInv' /\ NamesInv'
        BY <1>1, <1>2, <1>8 DEF TypeOK, CoreInv, NamesInv, Handling, IpcCommands, PayloadCommands, HandleFinalize, Dispatching, Stopping
    <2>3. PayloadsOwned' /\ NoServerAfterUnmap'
        BY <1>1, <1>2, <1>8 DEF TypeOK, CoreInv, NamesInv, PayloadsOwned, NoServerAfterUnmap, Handling, IpcCommands, PayloadCommands, HandleFinalize, Dispatching, Stopping
    <2>4. QED
        BY <2>1, <2>2, <2>3 DEF EngineInv
<1>9. CASE BeginDestroy
    <2>1. TypeOK'
        <3>1. ui' \in Frames
            BY <1>2, <1>9, FrameTypes DEF Steps, Handled, BeginDestroy, Stopping
        <3>2. payloads' \in Nat
            BY <1>1, <1>2, <1>9 DEF TypeOK, PayloadsOwned, CoreInv, BeginDestroy, Frame, Stopping
        <3>3. ValueTypes'
            BY <1>2, <1>9 DEF TypeOK, ValueTypes, BeginDestroy, Stopping
        <3>4. QED
            BY <1>2, <3>1, <3>2, <3>3, NextTypes DEF TypeOK
    <2>2. CoreInv' /\ NamesInv'
        BY <1>1, <1>2, <1>9 DEF TypeOK, CoreInv, NamesInv, Handling, IpcCommands, PayloadCommands, BeginDestroy, Frame, Stopping
    <2>3. PayloadsOwned' /\ NoServerAfterUnmap'
        BY <1>1, <1>2, <1>9 DEF TypeOK, CoreInv, NamesInv, PayloadsOwned, NoServerAfterUnmap, Handling, IpcCommands, PayloadCommands, BeginDestroy, Frame, Stopping
    <2>4. QED
        BY <2>1, <2>2, <2>3 DEF EngineInv
<1>10. CASE EndSession
    <2>1. TypeOK'
        <3>1. ui' \in Frames
            BY <1>2, <1>10, FrameTypes DEF Steps, Handled, EndSession, Stopping
        <3>2. payloads' \in Nat
            BY <1>1, <1>2, <1>10 DEF TypeOK, PayloadsOwned, CoreInv, EndSession, Frame, Stopping
        <3>3. ValueTypes'
            BY <1>2, <1>10 DEF TypeOK, ValueTypes, EndSession, Stopping
        <3>4. QED
            BY <1>2, <3>1, <3>2, <3>3, NextTypes DEF TypeOK
    <2>2. CoreInv' /\ NamesInv'
        BY <1>1, <1>2, <1>10 DEF TypeOK, CoreInv, NamesInv, Handling, IpcCommands, PayloadCommands, EndSession, Frame, Stopping
    <2>3. PayloadsOwned' /\ NoServerAfterUnmap'
        BY <1>1, <1>2, <1>10 DEF TypeOK, CoreInv, NamesInv, PayloadsOwned, NoServerAfterUnmap, Handling, IpcCommands, PayloadCommands, EndSession, Frame, Stopping
    <2>4. QED
        BY <2>1, <2>2, <2>3 DEF EngineInv
<1>11. CASE NestedShutdown
    <2>1. TypeOK'
        <3>1. ui' \in Frames
            BY <1>2, <1>11, FrameTypes DEF Steps, Handled, NestedShutdown
        <3>2. payloads' \in Nat
            BY <1>1, <1>2, <1>11 DEF TypeOK, PayloadsOwned, CoreInv, NestedShutdown
        <3>3. ValueTypes'
            BY <1>2, <1>11 DEF TypeOK, ValueTypes, NestedShutdown
        <3>4. QED
            BY <1>2, <3>1, <3>2, <3>3, NextTypes DEF TypeOK
    <2>2. CoreInv' /\ NamesInv'
        BY <1>1, <1>2, <1>11 DEF TypeOK, CoreInv, NamesInv, Handling, IpcCommands, PayloadCommands, NestedShutdown
    <2>3. PayloadsOwned' /\ NoServerAfterUnmap'
        BY <1>1, <1>2, <1>11 DEF TypeOK, CoreInv, NamesInv, PayloadsOwned, NoServerAfterUnmap, Handling, IpcCommands, PayloadCommands, NestedShutdown
    <2>4. QED
        BY <2>1, <2>2, <2>3 DEF EngineInv
<1>12. CASE Accept \/ Leave \/ ServeOther \/ ServeShutdown \/ SendShutdown
            \/ SendTimesOut \/ Close \/ GiveUp
    <2>1. UNCHANGED << window, created, announced, ui, gate, known, subclassed,
                       core, plugin, payloads, hooked >>
        BY <1>12 DEF Accept, Leave, ServeOther, ServeShutdown, SendShutdown,
                     SendTimesOut, Close, GiveUp
    <2>2. /\ ipc' \in {"listening", "serving", "acked", "sending", "exited", ipc}
          /\ ipc' \in {"listening", "serving", "acked"}
                => ipc \in {"listening", "serving", "acked"}
          /\ running' \in BOOLEAN /\ sent' \in BOOLEAN
          /\ host' \in {"closing", "sleeping", host}
        BY <1>2, <1>12 DEF TypeOK, Accept, Leave, ServeOther, ServeShutdown, SendShutdown,
                           SendTimesOut, Close, GiveUp
    <2>3. TypeOK'
        BY <1>2, <2>1, <2>2 DEF TypeOK
    <2>4. CoreInv' /\ NamesInv' /\ PayloadsOwned' /\ NoServerAfterUnmap'
        BY <1>1, <1>2, <2>1, <2>2
           DEF CoreInv, NamesInv, Handling, PayloadsOwned, NoServerAfterUnmap
    <2>5. QED
        BY <2>3, <2>4 DEF EngineInv
<1>13. CASE Unhook
    <2>1. TypeOK'
        <3>1. ui' \in Frames
            BY <1>2, <1>13, FrameTypes DEF Steps, Handled, Unhook
        <3>2. payloads' \in Nat
            BY <1>1, <1>2, <1>13 DEF TypeOK, PayloadsOwned, CoreInv, Unhook
        <3>3. gate' \in 0 .. 2 /\ known' \in 0 .. MaxWindows
            BY <1>13 DEF Unhook
        <3>4. QED
            BY <1>1, <1>2, <1>13, <3>1, <3>2, <3>3 DEF TypeOK, Frames, Steps, Unhook
    <2>2. CoreInv' /\ NamesInv'
        BY <1>1, <1>2, <1>13 DEF TypeOK, CoreInv, NamesInv, Handling, IpcCommands, PayloadCommands, Unhook
    <2>3. PayloadsOwned' /\ NoServerAfterUnmap'
        BY <1>1, <1>2, <1>13 DEF TypeOK, CoreInv, NamesInv, PayloadsOwned, NoServerAfterUnmap, Handling, IpcCommands, PayloadCommands, Unhook
    <2>4. QED
        BY <2>1, <2>2, <2>3 DEF EngineInv
<1>14. CASE CreateTaskbar
    <2>1. TypeOK'
        <3>1. ui' \in Frames
            BY <1>2, <1>14, FrameTypes DEF Steps, Handled, CreateTaskbar
        <3>2. payloads' \in Nat
            BY <1>1, <1>2, <1>14 DEF TypeOK, PayloadsOwned, CoreInv, CreateTaskbar
        <3>3. ValueTypes'
            BY <1>2, <1>14 DEF TypeOK, ValueTypes, CreateTaskbar
        <3>4. QED
            BY <1>2, <3>1, <3>2, <3>3, NextTypes DEF TypeOK
    <2>2. CoreInv' /\ NamesInv'
        BY <1>1, <1>2, <1>14 DEF TypeOK, CoreInv, NamesInv, Handling, IpcCommands, PayloadCommands, CreateTaskbar
    <2>3. PayloadsOwned' /\ NoServerAfterUnmap'
        BY <1>1, <1>2, <1>14 DEF TypeOK, CoreInv, NamesInv, PayloadsOwned, NoServerAfterUnmap, Handling, IpcCommands, PayloadCommands, CreateTaskbar
    <2>4. QED
        BY <2>1, <2>2, <2>3 DEF EngineInv
<1>15. QED
    BY <1>3, <1>4, <1>5, <1>6, <1>7, <1>8, <1>9, <1>10, <1>11, <1>12, <1>13, <1>14

\* What the hook makes of the queue and the gate: the taskbar it subclasses
\* is alive, and it takes no subclass away.
LEMMA HookTypes ==
    ASSUME TypeOK, NEW isNull, NEW rest \in Seq(Posted), HookSees(isNull, rest)
    PROVE  /\ queue' \in Seq(Posted) /\ Names(queue') = Names(rest)
           /\ gate' \in 0 .. 2 /\ known' \in 0 .. MaxWindows
           /\ subclassed' \in BOOLEAN
           /\ subclassed => subclassed'
           /\ subclassed' => subclassed \/ window # 0
<1> USE DEF dllVars, TypeOK
<1>1. CASE window # 0 /\ hooked /\ (gate = 0 \/ Reopens(isNull))
    <2>1. queue' = Append(rest, "INIT") /\ gate' = 1 /\ known' = window /\ subclassed' = TRUE
        BY <1>1 DEF HookSees
    <2>2. "INIT" \in Posted /\ One("INIT", PayloadCommands) = 0
        BY DEF Posted, One, PayloadCommands
    <2>3. queue' \in Seq(Posted) /\ Names(queue') = Names(rest)
        BY <2>1, <2>2, CountAppend, CountType DEF Names
    <2>4. QED
        BY <1>1, <2>1, <2>3
<1>2. CASE ~(window # 0 /\ hooked /\ (gate = 0 \/ Reopens(isNull)))
    BY <1>2 DEF HookSees
<1>3. QED
    BY <1>1, <1>2

\* The steps that change it.
LEMMA PostingInv ==
    ASSUME EngineInv,
           \/ \E isNull \in BOOLEAN : OtherMessage(isNull)
           \/ Retrieve \/ EndShutdown \/ TakeDown \/ NcDestroy
           \/ \E cmd \in Commands : ServePost(cmd)
           \/ WatcherPosts \/ Inject \/ Crash
    PROVE  EngineInv'
<1> USE DEF Idle, explorerVars, hostVars, dllVars, engineVars, serverVars
<1>1. /\ queue \in Seq(Posted)
      /\ Owning(queue) = Names(queue) /\ Owning(queue') = Names(queue')
      /\ Names(queue) \in Nat
    BY CountType, OwningCounts DEF EngineInv, TypeOK, Names
<1>2. TypeOK /\ CoreInv /\ NamesInv /\ PayloadsOwned /\ NoServerAfterUnmap
    BY DEF EngineInv
<1>3. ASSUME NEW m \in {"FINALIZE", "RELOAD", "NULL"}, queue' = Append(queue, m)
      PROVE  queue' \in Seq(Posted) /\ Names(queue') = Names(queue)
    <2>1. m \in Posted /\ One(m, PayloadCommands) = 0
        BY DEF Posted, One, PayloadCommands, IpcCommands
    <2>2. QED
        BY <1>1, <1>3, <2>1, CountAppend DEF Names
<1>4. ASSUME NEW isNull \in BOOLEAN, OtherMessage(isNull) PROVE EngineInv'
    <2>1. /\ queue' \in Seq(Posted) /\ Names(queue') = Names(queue)
          /\ gate' \in 0 .. 2 /\ known' \in 0 .. MaxWindows /\ subclassed' \in BOOLEAN
          /\ subclassed => subclassed'
          /\ subclassed' => subclassed \/ window # 0
        BY <1>1, <1>2, <1>4, HookTypes DEF OtherMessage
    <2>2. UNCHANGED << window, created, ui, core, plugin, ipc, running, sent,
                       payloads, host, hooked, announced >>
        BY <1>4 DEF OtherMessage
    <2>3. TypeOK'
        BY <1>2, <2>1, <2>2 DEF TypeOK
    <2>4. CoreInv' /\ NamesInv'
        BY <1>1, <1>2, <2>1, <2>2 DEF CoreInv, NamesInv, Handling
    <2>5. PayloadsOwned' /\ NoServerAfterUnmap'
        BY <1>1, <1>2, <2>1, <2>2 DEF PayloadsOwned, NoServerAfterUnmap
    <2>6. QED
        BY <2>3, <2>4, <2>5 DEF EngineInv
<1>5. CASE Retrieve
    <2> DEFINE msg == Head(queue)
    <2>1. /\ msg \in Posted /\ Tail(queue) \in Seq(Posted)
          /\ Names(queue) = Names(Tail(queue)) + One(msg, PayloadCommands)
          /\ Names(Tail(queue)) \in Nat
        BY <1>1, <1>5, CountTail, CountType DEF Retrieve, Names
    <2>2. /\ queue' \in Seq(Posted) /\ Names(queue') = Names(Tail(queue))
          /\ gate' \in 0 .. 2 /\ known' \in 0 .. MaxWindows /\ subclassed' \in BOOLEAN
          /\ subclassed => subclassed'
          /\ subclassed' => subclassed \/ window # 0
        BY <1>2, <1>5, <2>1, HookTypes DEF Retrieve
    <2>3. UNCHANGED << window, created, core, plugin, ipc, running, sent,
                       payloads, host, hooked, announced >>
        BY <1>5 DEF Retrieve
    <2>4. ui' \in Frames /\ ui'.at = "dispatch" /\ ui'.msg = msg
        <3>1. ui' = Frame("dispatch", msg)
            BY <1>5 DEF Retrieve
        <3>2. msg \in Handled /\ "dispatch" \in Steps
            BY <2>1 DEF Handled, Steps
        <3>3. QED
            BY <3>1, <3>2, FrameTypes DEF Frame
    <2>5. ui = Idle
        BY <1>5 DEF Retrieve
    <2> HIDE DEF msg
    <2>6. TypeOK'
        BY <1>2, <2>2, <2>3, <2>4 DEF TypeOK, Frames, Steps
    <2>7. CoreInv' /\ NamesInv'
        BY <1>1, <1>2, <2>1, <2>2, <2>3, <2>4, <2>5 DEF CoreInv, NamesInv, Handling, One
    <2>8. PayloadsOwned' /\ NoServerAfterUnmap'
        BY <1>1, <1>2, <2>1, <2>2, <2>3, <2>4, <2>5
           DEF PayloadsOwned, NoServerAfterUnmap, One
    <2>9. QED
        BY <2>6, <2>7, <2>8 DEF EngineInv
<1>6. CASE EndShutdown
    <2>1. queue' \in Seq(Posted) /\ Names(queue') = Names(queue)
        BY <1>3, <1>6 DEF EndShutdown
    <2>2. ui' \in Frames
        BY <1>6, FrameTypes DEF EndShutdown
    <2>3. TypeOK'
        BY <1>2, <1>6, <2>1, <2>2 DEF TypeOK, Frames, Steps, EndShutdown, Disabled
    <2>4. CoreInv' /\ NamesInv'
        BY <1>1, <1>2, <1>6, <2>1 DEF TypeOK, CoreInv, NamesInv, Handling, EndShutdown, Disabled
    <2>5. PayloadsOwned' /\ NoServerAfterUnmap'
        BY <1>1, <1>2, <1>6, <2>1
           DEF TypeOK, PayloadsOwned, NoServerAfterUnmap, EndShutdown, Disabled
    <2>6. QED
        BY <2>3, <2>4, <2>5 DEF EngineInv
<1>7. CASE TakeDown
    <2>1. queue' \in Seq(Posted) /\ Names(queue') = 0
        BY <1>1, <1>7, CountDrained DEF TakeDown, Names
    <2>2. payloads' = 0
        BY <1>1, <1>2, <1>7, <2>1 DEF TakeDown, PayloadsOwned
    <2>3. ui' \in Frames /\ ui'.at \in {"ncdestroy", "idle"}
        <3>1. ui \in Frames /\ "ncdestroy" \in Steps
            BY <1>2, FrameTypes DEF Steps
        <3>2. ui' = Idle \/ ui' = [ui EXCEPT !.at = "ncdestroy"]
            BY <1>7 DEF TakeDown
        <3>3. CASE ui' = Idle
            BY <3>3, FrameTypes
        <3>4. CASE ui' = [ui EXCEPT !.at = "ncdestroy"]
            BY <3>1, <3>4 DEF Frames
        <3>5. QED
            BY <3>2, <3>3, <3>4
    <2>4. TypeOK'
        <3>1. gate' \in 0 .. 2 /\ known' \in 0 .. MaxWindows /\ core' \in 0 .. MaxWindows
            BY <1>7 DEF TakeDown
        <3>2. QED
            BY <1>2, <1>7, <2>1, <2>2, <2>3, <3>1 DEF TypeOK, Frames, Steps, TakeDown
    <2>5. CoreInv' /\ NamesInv'
        BY <1>1, <1>2, <1>7, <2>1, <2>3 DEF CoreInv, NamesInv, Handling, TakeDown
    <2>6. PayloadsOwned'
        BY <1>1, <2>1, <2>2, <2>3 DEF PayloadsOwned
    <2>7. NoServerAfterUnmap'
        BY <1>7 DEF NoServerAfterUnmap, TakeDown, Joined
    <2>8. QED
        BY <2>4, <2>5, <2>6, <2>7 DEF EngineInv
<1>8. CASE NcDestroy
    <2>1. queue' \in Seq(Posted) /\ Names(queue') = 0
        BY <1>8, CountEmpty DEF NcDestroy, Names
    <2>2. payloads' = 0
        BY <1>1, <1>2, <1>8 DEF NcDestroy, PayloadsOwned, NamesInv
    <2>3. ui' \in Frames /\ ui'.at = "idle" /\ ui'.msg = "none"
        BY <1>8, FrameTypes DEF NcDestroy
    <2>4. TypeOK'
        <3>1. /\ window' \in 0 .. MaxWindows /\ subclassed' = FALSE /\ sent' = FALSE
              /\ ipc' \in {ipc, "exited"}
              /\ UNCHANGED << created, announced, gate, known, core, plugin, running,
                              host, hooked >>
            BY <1>8 DEF NcDestroy
        <3>2. QED
            BY <1>2, <2>1, <2>2, <2>3, <3>1 DEF TypeOK, Frames, Steps
    <2>5. CoreInv' /\ NamesInv'
        BY <1>1, <1>2, <1>8, <2>1, <2>3 DEF CoreInv, NamesInv, Handling, NcDestroy
    <2>6. PayloadsOwned' /\ NoServerAfterUnmap'
        BY <1>1, <1>2, <1>8, <2>1, <2>2, <2>3 DEF PayloadsOwned, NoServerAfterUnmap, NcDestroy
    <2>7. QED
        BY <2>4, <2>5, <2>6 DEF EngineInv
<1>9. ASSUME NEW cmd \in Commands, ServePost(cmd) PROVE EngineInv'
    <2>1. cmd \in Posted /\ One(cmd, PayloadCommands) \in Nat
        BY DEF Posted, IpcCommands, PayloadCommands, One
    <2>2. /\ queue' \in Seq(Posted)
          /\ \/ UNCHANGED <<queue, payloads>>
             \/ /\ Names(queue') = Names(queue) + One(cmd, PayloadCommands)
                /\ payloads' = payloads + One(cmd, PayloadCommands)
        <3>1. Append(queue, cmd) \in Seq(Posted)
            BY <1>1, <2>1
        <3>2. Names(Append(queue, cmd)) = Names(queue) + One(cmd, PayloadCommands)
            BY <1>1, <2>1, CountAppend DEF Names
        <3>3. QED
            BY <1>1, <1>9, <3>1, <3>2 DEF ServePost, One
    <2>3. core # 0 /\ subclassed
        BY <1>2, <1>9 DEF ServePost, NoServerAfterUnmap, CoreInv
    <2>4. TypeOK'
        <3>1. payloads' \in Nat
            BY <1>1, <1>2, <2>1, <2>2 DEF TypeOK
        <3>2. QED
            BY <1>2, <1>9, <2>2, <3>1 DEF TypeOK, ServePost
    <2>5. CoreInv' /\ NamesInv'
        BY <1>1, <1>2, <1>9, <2>2, <2>3 DEF CoreInv, NamesInv, Handling, ServePost
    <2>6. PayloadsOwned' /\ NoServerAfterUnmap'
        BY <1>1, <1>2, <1>9, <2>1, <2>2 DEF PayloadsOwned, NoServerAfterUnmap, ServePost
    <2>7. QED
        BY <2>4, <2>5, <2>6 DEF EngineInv
<1>10. CASE WatcherPosts
    <2>1. queue' \in Seq(Posted) /\ Names(queue') = Names(queue)
        BY <1>3, <1>10 DEF WatcherPosts
    <2>2. TypeOK'
        <3>1. ValueTypes' /\ UNCHANGED <<ui, payloads>>
            BY <1>2, <1>10 DEF TypeOK, ValueTypes, WatcherPosts
        <3>2. QED
            BY <1>2, <2>1, <3>1, NextTypes, FrameTypes DEF TypeOK
    <2>3. CoreInv' /\ NamesInv' /\ PayloadsOwned' /\ NoServerAfterUnmap'
        BY <1>1, <1>2, <1>10, <2>1
           DEF CoreInv, NamesInv, Handling, PayloadsOwned, NoServerAfterUnmap, WatcherPosts
    <2>4. QED
        BY <2>2, <2>3 DEF EngineInv
<1>11. CASE Inject
    <2>1. queue' \in Seq(Posted) /\ Names(queue') = Names(queue)
        BY <1>3, <1>11 DEF Inject
    <2>2. TypeOK'
        <3>1. ValueTypes' /\ UNCHANGED <<ui, payloads>>
            BY <1>2, <1>11 DEF TypeOK, ValueTypes, Inject
        <3>2. QED
            BY <1>2, <2>1, <3>1, NextTypes, FrameTypes DEF TypeOK
    <2>3. CoreInv' /\ NamesInv' /\ PayloadsOwned' /\ NoServerAfterUnmap'
        BY <1>1, <1>2, <1>11, <2>1
           DEF CoreInv, NamesInv, Handling, PayloadsOwned, NoServerAfterUnmap, Inject
    <2>4. QED
        BY <2>2, <2>3 DEF EngineInv
<1>12. CASE Crash
    <2>1. queue' \in Seq(Posted) /\ Names(queue') = 0
        BY <1>12, CountEmpty DEF Crash, Names
    <2>2. ui' \in Frames /\ ui'.at = "idle" /\ ui'.msg = "none"
        BY <1>12, FrameTypes DEF Crash
    <2>3. TypeOK'
        <3>1. /\ window' \in 0 .. MaxWindows /\ gate' \in 0 .. 2
              /\ known' \in 0 .. MaxWindows /\ core' \in 0 .. MaxWindows
            BY <1>12 DEF Crash
        <3>2. QED
            BY <1>2, <1>12, <2>1, <2>2, <3>1 DEF TypeOK, Frames, Steps, Crash
    <2>4. CoreInv' /\ NamesInv' /\ PayloadsOwned' /\ NoServerAfterUnmap'
        BY <1>1, <1>12, <2>1, <2>2
           DEF CoreInv, NamesInv, Handling, PayloadsOwned, NoServerAfterUnmap, Crash
    <2>5. QED
        BY <2>3, <2>4 DEF EngineInv
<1>13. QED
    BY <1>4, <1>5, <1>6, <1>7, <1>8, <1>9, <1>10, <1>11, <1>12

LEMMA NextInv == EngineInv /\ [Next]_vars => EngineInv'
<1> SUFFICES ASSUME EngineInv, [Next]_vars PROVE EngineInv'
    OBVIOUS
<1>1. CASE UiStep
    <2> USE DEF explorerVars, hostVars, dllVars, serverVars
    <2>1. CASE Ignore \/ HandleInit \/ BeginCommand \/ EndCommand \/ BeginShutdown \/ HandleFinalize
        <3>1. UNCHANGED queue
            BY <2>1 DEF Ignore, HandleInit, BeginCommand, EndCommand, BeginShutdown,
                        HandleFinalize
        <3>2. QED
            BY <2>1, <3>1, QuietInv
    <2>2. CASE Retrieve \/ EndShutdown \/ TakeDown \/ NcDestroy
        BY <2>2, PostingInv
    <2>3. QED
        BY <1>1, <2>1, <2>2 DEF UiStep
<1>2. CASE ServerStep
    <2>1. CASE Leave \/ ServeOther \/ ServeShutdown \/ SendShutdown \/ SendTimesOut
        <3>1. UNCHANGED queue
            BY <2>1 DEF Leave, ServeOther, ServeShutdown, SendShutdown, SendTimesOut
        <3>2. QED
            BY <2>1, <3>1, QuietInv
    <2>2. CASE \E cmd \in Commands : ServePost(cmd)
        BY <2>2, PostingInv
    <2>3. QED
        BY <1>2, <2>1, <2>2 DEF ServerStep
<1>3. CASE Environment
    <2>1. CASE BeginDestroy \/ EndSession \/ NestedShutdown \/ Accept \/ Close \/ CreateTaskbar
        <3>1. UNCHANGED queue
            BY <2>1 DEF BeginDestroy, EndSession, NestedShutdown, Accept, Close, CreateTaskbar
        <3>2. QED
            BY <2>1, <3>1, QuietInv
    <2>2. CASE (\E isNull \in BOOLEAN : OtherMessage(isNull)) \/ WatcherPosts \/ Crash
        BY <2>2, PostingInv
    <2>3. QED
        BY <1>3, <2>1, <2>2 DEF Environment
<1>4. CASE HostStep
    <2>1. CASE GiveUp \/ Unhook
        <3>1. UNCHANGED queue
            BY <2>1 DEF GiveUp, Unhook
        <3>2. QED
            BY <2>1, <3>1, QuietInv
    <2>2. CASE Inject
        BY <2>2, PostingInv
    <2>3. QED
        BY <1>4, <2>1, <2>2 DEF HostStep
<1>5. CASE UNCHANGED vars
    <2>1. Owning(queue') = Owning(queue)
        BY <1>5 DEF vars
    <2>2. QED
        BY <1>5, <2>1
           DEF vars, EngineInv, TypeOK, CoreInv, NamesInv, Handling, PayloadsOwned,
               NoServerAfterUnmap
<1>6. QED
    BY <1>1, <1>2, <1>3, <1>4, <1>5 DEF Next

\* In every reachable state core, gate, sender and queue agree: what the handler
\* being dispatched relies on is so, and every message that owns a name is still
\* to be handled or drained.
THEOREM EngineIsConsistent == Spec => []EngineInv
<1>1. Init => EngineInv
    BY InitInv
<1>2. EngineInv /\ [Next]_vars => EngineInv'
    BY NextInv
<1>3. QED
    BY <1>1, <1>2, PTL DEF Spec

\* Whatever is posted, sent, destroyed or killed, the state stays of its type:
\* the count of live names, for one, never falls below zero.
THEOREM TypeCorrect == Spec => []TypeOK
<1>1. EngineInv => TypeOK
    BY DEF EngineInv
<1>2. QED
    BY <1>1, EngineIsConsistent, PTL

\* Every name that ENABLE and DISABLE allocate is owned by one message until
\* its handler, the teardown's loop or the destroyed window's frees it.
THEOREM NamesFreedOnce == Spec => []PayloadsOwned
<1>1. EngineInv => PayloadsOwned
    BY DEF EngineInv
<1>2. QED
    BY <1>1, EngineIsConsistent, PTL

\* TE_CoreManagerShutdownExcept joins the pipe server before the plugins are
\* unmapped, and nobody starts it again while they are.
THEOREM NoServerLeft == Spec => []NoServerAfterUnmap
<1>1. EngineInv => NoServerAfterUnmap
    BY DEF EngineInv
<1>2. QED
    BY <1>1, EngineIsConsistent, PTL

----------------------------------------------------------------------------
(* The gate.                                                               *)

LEMMA PendingType == TypeOK => Inits(queue) \in Nat /\ Pending \in Nat
    BY CountType DEF TypeOK, Pending, Inits, One

\* Whoever finds the gate open finds no engine and no WM_TE_INIT under way.
LEMMA HookGate ==
    ASSUME EngineInv, GateInv, NEW isNull, NEW rest \in Seq(Posted), HookSees(isNull, rest)
    PROVE  \/ queue' = rest /\ UNCHANGED <<gate, known, subclassed>>
           \/ /\ queue' = rest /\ UNCHANGED <<known, subclassed>>
              /\ core = 0 /\ Pending = 0
           \/ /\ core = 0 /\ Pending = 0
              /\ Inits(queue') = Inits(rest) + 1
              /\ gate' = 1 /\ known' = window /\ subclassed'
<1>1. TypeOK /\ CoreInv /\ Pending \in {0, 1}
    BY DEF EngineInv, GateInv
<1>2. CASE ~(hooked /\ (gate = 0 \/ Reopens(isNull)))
    BY <1>2 DEF HookSees, dllVars
<1>3. CASE hooked /\ (gate = 0 \/ Reopens(isNull))
    <2>1. gate \in {0, 2} \/ ~(known # 0 /\ known = window)
        BY <1>3 DEF Reopens, IsWindow
    <2>2. core = 0
        BY <1>1, <2>1 DEF GateInv, EngineOnOneWindow, CoreInv
    <2>3. Pending = 0
        BY <1>1, <2>1 DEF GateInv, CoreInv
    <2>4. CASE window = 0
        BY <1>3, <2>2, <2>3, <2>4 DEF HookSees
    <2>5. CASE window # 0
        <3>1. queue' = Append(rest, "INIT") /\ gate' = 1 /\ known' = window /\ subclassed' = TRUE
            BY <1>3, <2>5 DEF HookSees
        <3>2. Inits(queue') = Inits(rest) + 1
            BY <3>1, CountAppend DEF Inits, One, Posted
        <3>3. QED
            BY <2>2, <2>3, <3>1, <3>2
    <2>6. QED
        BY <2>4, <2>5
<1>4. QED
    BY <1>2, <1>3

LEMMA NextGate ==
    ASSUME EngineInv, GateInv, "short" \notin Disturbances, [Next]_vars
    PROVE  GateInv'
<1> USE DEF Idle, explorerVars, hostVars, dllVars, engineVars, serverVars
<1>1. /\ TypeOK /\ CoreInv /\ NoServerAfterUnmap /\ queue \in Seq(Posted)
      /\ Inits(queue) \in Nat /\ Pending \in {0, 1}
    BY PendingType DEF EngineInv, GateInv, TypeOK
<1>2. ASSUME UNCHANGED <<window, gate, known, subclassed, core>>,
             Inits(queue') = Inits(queue),
             ui' = ui \/ ui'.at # "dispatch"
      PROVE  GateInv'
    <2>1. Pending' \in {0, 1} /\ (Pending' = 1 => Pending = 1)
        BY <1>1, <1>2 DEF Pending, One
    <2>2. QED
        BY <1>2, <2>1 DEF GateInv, EngineOnOneWindow
<1>3. ASSUME NEW m \in Posted \ {"INIT"}, queue' = Append(queue, m)
      PROVE  Inits(queue') = Inits(queue)
    BY <1>1, <1>3, CountAppend DEF Inits, One
<1>4. ASSUME queue' = queue PROVE Inits(queue') = Inits(queue)
    BY <1>4
<1>5. CASE UiStep
    <2>1. CASE Retrieve
        <3> DEFINE msg == Head(queue)
        <3>1. /\ Tail(queue) \in Seq(Posted) /\ Inits(Tail(queue)) \in Nat
              /\ Inits(queue) = Inits(Tail(queue)) + One(msg, {"INIT"})
            BY <1>1, <2>1, CountTail, CountType DEF Retrieve, Inits
        <3>2. ui.at = "idle" /\ ui'.at = "dispatch" /\ ui'.msg = msg
            BY <2>1 DEF Retrieve, Frame
        <3>3. Pending = Inits(queue) /\ Pending' = Inits(queue') + One(msg, {"INIT"})
            BY <1>1, <3>2 DEF Pending, One
        <3>4. window' = window /\ core' = core
            BY <2>1 DEF Retrieve
        <3>5. \/ queue' = Tail(queue) /\ UNCHANGED <<gate, known, subclassed>>
              \/ /\ queue' = Tail(queue) /\ UNCHANGED <<known, subclassed>>
                 /\ core = 0 /\ Pending = 0
              \/ /\ core = 0 /\ Pending = 0
                 /\ Inits(queue') = Inits(Tail(queue)) + 1
                 /\ gate' = 1 /\ known' = window /\ subclassed'
            BY <2>1, <3>1, HookGate DEF Retrieve
        <3> HIDE DEF msg
        <3>6. One(msg, {"INIT"}) \in {0, 1}
            BY DEF One
        <3>7. CASE queue' = Tail(queue) /\ UNCHANGED <<gate, known, subclassed>>
            BY <1>1, <3>1, <3>3, <3>4, <3>7 DEF GateInv, EngineOnOneWindow
        <3>8. CASE queue' = Tail(queue) /\ core = 0 /\ Pending = 0
            BY <1>1, <3>1, <3>3, <3>4, <3>8 DEF GateInv, EngineOnOneWindow
        <3>9. CASE /\ core = 0 /\ Pending = 0
                   /\ Inits(queue') = Inits(Tail(queue)) + 1
                   /\ gate' = 1 /\ known' = window /\ subclassed'
            BY <1>1, <3>1, <3>3, <3>4, <3>6, <3>9 DEF GateInv, EngineOnOneWindow
        <3>10. QED
            BY <3>5, <3>7, <3>8, <3>9
    <2>2. CASE HandleInit
        <3>1. Pending = 1 /\ Inits(queue) = 0 /\ core = 0
            BY <1>1, <2>2 DEF HandleInit, Dispatching, Pending, One, GateInv
        <3>2. Pending' = 0
            BY <1>4, <2>2, <3>1 DEF HandleInit, Pending, One
        <3>3. QED
            BY <2>2, <3>1, <3>2 DEF HandleInit, GateInv, EngineOnOneWindow
    <2>3. CASE Ignore \/ BeginCommand \/ EndCommand \/ BeginShutdown \/ HandleFinalize
        <3>1. UNCHANGED <<window, gate, known, subclassed, core, queue>>
            BY <2>3 DEF Ignore, BeginCommand, EndCommand, BeginShutdown, HandleFinalize
        <3>2. ui' = ui \/ ui'.at # "dispatch"
            BY <1>1, <2>3 DEF TypeOK, Ignore, BeginCommand, EndCommand, BeginShutdown,
                              HandleFinalize, Stopping, Frame
        <3>3. QED
            BY <1>2, <1>4, <3>1, <3>2
    <2>4. CASE EndShutdown
        <3>1. Inits(queue') = Inits(queue)
            BY <1>3, <2>4 DEF EndShutdown, Posted
        <3>2. QED
            BY <1>2, <2>4, <3>1 DEF EndShutdown
    <2>5. CASE TakeDown
        <3>1. core # 0 /\ Pending = 0
            BY <1>1, <2>5 DEF TakeDown, CoreInv, GateInv
        <3>2. Inits(queue) = 0
            BY <1>1, <3>1 DEF Pending, One
        <3>3. Inits(queue') = 0
            BY <1>1, <2>5, <3>2, CountDrained DEF TakeDown, Inits
        <3>4. ui'.at # "dispatch" /\ core' = 0
            BY <1>1, <2>5 DEF TakeDown, TypeOK
        <3>5. QED
            BY <3>3, <3>4 DEF GateInv, EngineOnOneWindow, Pending, One
    <2>6. CASE NcDestroy
        <3>1. core' = 0 /\ ui'.at = "idle"
            BY <1>1, <2>6 DEF NcDestroy, CoreInv
        <3>2. Inits(queue') = 0
            BY <2>6, CountEmpty DEF NcDestroy, Inits
        <3>3. QED
            BY <3>1, <3>2 DEF GateInv, EngineOnOneWindow, Pending, One
    <2>7. QED
        BY <1>5, <2>1, <2>2, <2>3, <2>4, <2>5, <2>6 DEF UiStep
<1>6. CASE ServerStep
    <2>1. UNCHANGED <<window, gate, known, subclassed, core, ui>>
        BY <1>6 DEF ServerStep, Leave, ServeOther, ServeShutdown, SendShutdown,
                    SendTimesOut, ServePost
    <2>2. Inits(queue') = Inits(queue)
        <3>1. ASSUME NEW cmd \in Commands, ServePost(cmd) PROVE Inits(queue') = Inits(queue)
            BY <1>3, <1>4, <3>1 DEF ServePost, Posted, IpcCommands, PayloadCommands
        <3>2. CASE Leave \/ ServeOther \/ ServeShutdown \/ SendShutdown \/ SendTimesOut
            BY <1>4, <3>2 DEF Leave, ServeOther, ServeShutdown, SendShutdown, SendTimesOut
        <3>3. QED
            BY <1>6, <3>1, <3>2 DEF ServerStep
    <2>3. QED
        BY <1>2, <2>1, <2>2
<1>7. CASE HostStep
    <2>1. CASE Inject
        <3>1. Inits(queue') = Inits(queue)
            BY <1>3, <2>1 DEF Inject, Posted
        <3>2. QED
            BY <1>2, <2>1, <3>1 DEF Inject
    <2>2. CASE GiveUp
        BY <1>2, <1>4, <2>2 DEF GiveUp
    <2>3. CASE Unhook
        <3>1. Down
            BY <2>3 DEF Unhook
        <3>2. Inits(queue) = 0
            BY <1>1, <3>1, CountNone DEF Down, Inits
        <3>3. Inits(queue') = 0 /\ core' = 0 /\ ui'.at = "idle"
            BY <1>4, <2>3, <3>1, <3>2 DEF Unhook, Down
        <3>4. QED
            BY <3>3 DEF GateInv, EngineOnOneWindow, Pending, One
    <2>4. QED
        BY <1>7, <2>1, <2>2, <2>3 DEF HostStep
<1>8. CASE Environment
    <2>1. ASSUME NEW isNull \in BOOLEAN, OtherMessage(isNull) PROVE GateInv'
        <3>1. UNCHANGED <<window, core, ui>>
            BY <2>1 DEF OtherMessage
        <3>2. ui.at = "idle" /\ Pending = Inits(queue) /\ Pending' = Inits(queue')
            <4>1. ui.at = "idle"
                BY <2>1 DEF OtherMessage
            <4>2. Inits(queue') \in Nat
                BY <1>1, <2>1, HookTypes, CountType DEF OtherMessage, Inits
            <4>3. QED
                BY <1>1, <3>1, <4>1, <4>2 DEF Pending, One
        <3>3. \/ queue' = queue /\ UNCHANGED <<gate, known, subclassed>>
              \/ /\ queue' = queue /\ UNCHANGED <<known, subclassed>>
                 /\ core = 0 /\ Pending = 0
              \/ /\ core = 0 /\ Pending = 0
                 /\ Inits(queue') = Inits(queue) + 1
                 /\ gate' = 1 /\ known' = window /\ subclassed'
            BY <1>1, <2>1, HookGate DEF OtherMessage
        <3>4. CASE queue' = queue /\ UNCHANGED <<gate, known, subclassed>>
            BY <1>2, <1>4, <3>1, <3>4
        <3>5. CASE queue' = queue /\ core = 0 /\ Pending = 0
            BY <1>4, <3>1, <3>2, <3>5 DEF GateInv, EngineOnOneWindow
        <3>6. CASE /\ core = 0 /\ Pending = 0
                   /\ Inits(queue') = Inits(queue) + 1
                   /\ gate' = 1 /\ known' = window /\ subclassed'
            <4>1. Inits(queue) = 0
                BY <3>2, <3>6
            <4>2. Inits(queue') = 1
                BY <3>6, <4>1
            <4>3. Pending' = 1
                BY <3>2, <4>2
            <4>4. core' = 0 /\ window' = window
                BY <3>1, <3>6
            <4>5. QED
                BY <3>6, <4>3, <4>4 DEF GateInv, EngineOnOneWindow
        <3>7. QED
            BY <3>3, <3>4, <3>5, <3>6
    <2>2. CASE BeginDestroy \/ EndSession \/ NestedShutdown
        <3>1. UNCHANGED <<window, gate, known, subclassed, core, queue>>
            BY <2>2 DEF BeginDestroy, EndSession, NestedShutdown
        <3>2. ui'.at # "dispatch"
            BY <1>1, <2>2 DEF TypeOK, BeginDestroy, EndSession, NestedShutdown, Stopping, Frame
        <3>3. QED
            BY <1>2, <1>4, <3>1, <3>2
    <2>3. CASE Accept \/ Close
        BY <1>2, <1>4, <2>3 DEF Accept, Close
    <2>4. CASE WatcherPosts
        <3>1. Inits(queue') = Inits(queue)
            BY <1>3, <2>4 DEF WatcherPosts, Posted, IpcCommands
        <3>2. QED
            BY <1>2, <2>4, <3>1 DEF WatcherPosts
    <2>5. CASE CreateTaskbar
        <3>1. core = 0 /\ ~subclassed /\ Pending = 0
            BY <1>1, <2>5 DEF CreateTaskbar, CoreInv, GateInv
        <3>2. core' = 0 /\ Pending' = 0
            BY <1>4, <2>5, <3>1 DEF CreateTaskbar, Pending
        <3>3. QED
            BY <3>2 DEF GateInv, EngineOnOneWindow
    <2>6. CASE Crash
        <3>1. core' = 0 /\ ui'.at = "idle"
            BY <2>6 DEF Crash
        <3>2. Inits(queue') = 0
            BY <2>6, CountEmpty DEF Crash, Inits
        <3>3. QED
            BY <3>1, <3>2 DEF GateInv, EngineOnOneWindow, Pending, One
    <2>7. QED
        BY <1>8, <2>1, <2>2, <2>3, <2>4, <2>5, <2>6 DEF Environment
<1>9. CASE UNCHANGED vars
    BY <1>2, <1>4, <1>9 DEF vars
<1>10. QED
    BY <1>5, <1>6, <1>7, <1>8, <1>9 DEF Next

\* Where the host's sleep outlasts the teardown, an initialised engine is on
\* the live, subclassed taskbar behind a gate closed on that very window:
\* TE_CoreManagerInit runs once for a window, however the hook's messages,
\* shutdowns, new taskbars and crashes interleave.
THEOREM OneEngineOneWindow ==
    ASSUME "short" \notin Disturbances
    PROVE  Spec => []EngineOnOneWindow
<1>1. Init => EngineInv /\ GateInv
    BY InitInv
<1>2. EngineInv /\ GateInv /\ [Next]_vars => (EngineInv /\ GateInv)'
    BY NextInv, NextGate
<1>3. GateInv => EngineOnOneWindow
    BY DEF GateInv
<1>4. QED
    BY <1>1, <1>2, <1>3, PTL DEF Spec

=============================================================================
