------------------------ MODULE PluginLoader_proofs ------------------------
(***************************************************************************)
(* For any set of plugins, any size of the two tables and any number of    *)
(* faults: the loader keeps its types, every callback the event bus may    *)
(* call is code of a mapped DLL, the counter of the event table is exact,  *)
(* and the loader implements PluginLifecycle.                              *)
(***************************************************************************)
EXTENDS PluginLoader, FiniteSetTheorems, WellFoundedInduction, SequenceTheorems, TLAPS

-----------------------------------------------------------------------------
(* What the operations on the subscription table do, for a table of any size: which slot    *)
(* changes, what stays, and that the separate counter goes on telling the active slots.     *)

(***************************************************************************)
(* A loop over the slots that stops at its first hit finds one of the      *)
(* slots it looks for whenever there is one.                               *)
(***************************************************************************)
LEMMA FirstSlotIsOne ==
    ASSUME NEW S \in SUBSET Slots, S # {}
    PROVE  FirstSlot(S) \in S
<1> DEFINE less == {p \in Nat \X Nat : p[1] < p[2]}
<1>1. S \subseteq Nat
    BY MaxSubscriptionsAssumption DEF Slots
<1>2. IsWellFoundedOn(less, Nat)
    BY NatLessThanWellFounded DEF OpToRel
<1>3. PICK i \in S : \A j \in S : <<j, i>> \notin less
    BY <1>1, <1>2, WFMin
<1>4. ASSUME NEW j \in S PROVE i <= j
    <2>1. i \in Nat /\ j \in Nat /\ <<j, i>> \in Nat \X Nat
        BY <1>1
    <2>2. ~(<<j, i>>[1] < <<j, i>>[2])
        BY <1>3, <2>1
    <2>3. QED
        BY <2>1, <2>2
<1>5. QED
    BY <1>4 DEF FirstSlot

LEMMA SlotsFinite ==
    ASSUME NEW S \in SUBSET Slots
    PROVE  IsFiniteSet(S) /\ Cardinality(S) \in Nat
<1>1. IsFiniteSet(Slots)
    BY MaxSubscriptionsAssumption, FS_Interval DEF Slots
<1>2. IsFiniteSet(S)
    BY <1>1, FS_Subset
<1>3. QED
    BY <1>2, FS_CardinalityType

(***************************************************************************)
(* Subscribe fills one free slot and changes no other, or changes nothing. *)
(***************************************************************************)
LEMMA SubscribedEffect ==
    ASSUME NEW Subs, NEW t \in Table(Subs), NEW sub \in Subs, NoSub \notin Subs,
           CountIsExact(t)
    PROVE  LET u == Subscribed(t, sub)
           IN  /\ u \in Table(Subs)
               /\ CountIsExact(u)
               /\ \A s \in ActiveSlots(u) :
                     u.slot[s] = sub \/ (s \in ActiveSlots(t) /\ u.slot[s] = t.slot[s])
<1>1. CASE ~CanSubscribe(t)
    BY <1>1 DEF Subscribed
<1>2. CASE CanSubscribe(t)
    <2> DEFINE free == FirstSlot(FreeSlots(t))
               u == Subscribed(t, sub)
    <2>1. free \in Slots /\ free \notin ActiveSlots(t)
        BY <1>2, FirstSlotIsOne DEF CanSubscribe, FreeSlots
    <2>2. u = [slot |-> [t.slot EXCEPT ![free] = sub], count |-> t.count + 1]
        BY <1>2 DEF Subscribed
    <2>3. u \in Table(Subs)
        BY <2>1, <2>2 DEF Table
    <2>4. ActiveSlots(u) = ActiveSlots(t) \cup {free}
        BY <2>1, <2>2 DEF ActiveSlots, Table
    <2>5. CountIsExact(u)
        <3>1. IsFiniteSet(ActiveSlots(t))
            BY SlotsFinite DEF ActiveSlots
        <3>2. Cardinality(ActiveSlots(u)) = Cardinality(ActiveSlots(t)) + 1
            BY <3>1, <2>1, <2>4, FS_AddElement
        <3>3. QED
            BY <3>2, <2>2 DEF CountIsExact
    <2>6. \A s \in ActiveSlots(u) :
             u.slot[s] = sub \/ (s \in ActiveSlots(t) /\ u.slot[s] = t.slot[s])
        BY <2>1, <2>2, <2>4 DEF Table, ActiveSlots
    <2>7. QED
        BY <2>3, <2>5, <2>6
<1>3. QED
    BY <1>1, <1>2

(***************************************************************************)
(* Unsubscribe empties at most one slot and changes no other.              *)
(***************************************************************************)
LEMMA UnsubscribedEffect ==
    ASSUME NEW Subs, NEW t \in Table(Subs), NEW event, NEW owner,
           CountIsExact(t)
    PROVE  LET u == Unsubscribed(t, event, owner)
           IN  /\ u \in Table(Subs)
               /\ CountIsExact(u)
               /\ \A s \in ActiveSlots(u) :
                     s \in ActiveSlots(t) /\ u.slot[s] = t.slot[s]
<1> DEFINE hits == SlotsOfCallback(t, event, owner)
           u == Unsubscribed(t, event, owner)
<1>1. CASE hits = {}
    BY <1>1 DEF Unsubscribed
<1>2. CASE hits # {}
    <2> DEFINE gone == FirstSlot(hits)
    <2>1. gone \in ActiveSlots(t) /\ gone \in Slots
        <3>1. hits \in SUBSET Slots /\ hits \subseteq ActiveSlots(t)
            BY DEF SlotsOfCallback, SlotsOn, ActiveSlots
        <3>2. QED
            BY <1>2, <3>1, FirstSlotIsOne
    <2>2. u = [slot |-> [t.slot EXCEPT ![gone] = NoSub], count |-> t.count - 1]
        BY <1>2 DEF Unsubscribed
    <2>3. u \in Table(Subs)
        BY <2>1, <2>2 DEF Table
    <2>4. ActiveSlots(u) = ActiveSlots(t) \ {gone}
        BY <2>1, <2>2 DEF ActiveSlots, Table
    <2>5. CountIsExact(u)
        <3>1. IsFiniteSet(ActiveSlots(t)) /\ Cardinality(ActiveSlots(t)) \in Nat
            BY SlotsFinite DEF ActiveSlots
        <3>2. Cardinality(ActiveSlots(u)) = Cardinality(ActiveSlots(t)) - 1
            BY <3>1, <2>1, <2>4, FS_RemoveElement
        <3>3. QED
            BY <3>2, <2>2 DEF CountIsExact
    <2>6. \A s \in ActiveSlots(u) : s \in ActiveSlots(t) /\ u.slot[s] = t.slot[s]
        BY <2>1, <2>2, <2>4 DEF Table, ActiveSlots
    <2>7. QED
        BY <2>3, <2>5, <2>6
<1>3. QED
    BY <1>1, <1>2

(***************************************************************************)
(* RemoveByPlugin leaves no slot filed under the id, changes no other, and *)
(* takes off the counter as many as it emptied.                            *)
(***************************************************************************)
LEMMA RemovedByPluginEffect ==
    ASSUME NEW Subs, NEW t \in Table(Subs), NEW id, CountIsExact(t)
    PROVE  LET u == RemovedByPlugin(t, id)
           IN  /\ u \in Table(Subs)
               /\ CountIsExact(u)
               /\ SlotsOfPlugin(u, id) = {}
               /\ \A s \in ActiveSlots(u) :
                     s \in ActiveSlots(t) /\ u.slot[s] = t.slot[s]
<1> DEFINE gone == SlotsOfPlugin(t, id)
           u == RemovedByPlugin(t, id)
<1>1. /\ gone \in SUBSET Slots
      /\ gone \subseteq ActiveSlots(t)
      /\ ActiveSlots(t) \in SUBSET Slots
    BY DEF SlotsOfPlugin, ActiveSlots
<1>2. /\ IsFiniteSet(gone) /\ Cardinality(gone) \in Nat
      /\ IsFiniteSet(ActiveSlots(t)) /\ Cardinality(ActiveSlots(t)) \in Nat
    BY <1>1, SlotsFinite
<1>3. u \in Table(Subs)
    BY <1>2 DEF Table, RemovedByPlugin
<1>4. ActiveSlots(u) = ActiveSlots(t) \ gone
    BY DEF ActiveSlots, RemovedByPlugin, SlotsOfPlugin
<1>5. CountIsExact(u)
    <2>1. Cardinality(ActiveSlots(t) \ gone)
             = Cardinality(ActiveSlots(t)) - Cardinality(gone)
        <3>1. Cardinality(ActiveSlots(t) \ gone)
                 = Cardinality(ActiveSlots(t)) - Cardinality(ActiveSlots(t) \cap gone)
            BY <1>2, FS_Difference
        <3>2. ActiveSlots(t) \cap gone = gone
            BY <1>1
        <3>3. QED
            BY <3>1, <3>2
    <2>2. u.count = t.count - Cardinality(gone)
        BY DEF RemovedByPlugin
    <2>3. QED
        BY <1>4, <2>1, <2>2 DEF CountIsExact
<1>6. \A s \in ActiveSlots(u) : s \in ActiveSlots(t) /\ u.slot[s] = t.slot[s]
    BY <1>4 DEF RemovedByPlugin, ActiveSlots
<1>7. SlotsOfPlugin(u, id) = {}
    BY <1>4, <1>6 DEF SlotsOfPlugin
<1>8. QED
    BY <1>3, <1>5, <1>6, <1>7

-----------------------------------------------------------------------------
(* The loader. *)

USE MetaAssumption, EventsOfAssumption, LoaderBoundsAssumption

LEMMA SubIsNotNoSub == NoSub \notin Sub
BY NoSubAssumption DEF Sub

LEMMA TableIsEmpty ==
    /\ EmptyTable \in Table(Sub)
    /\ ActiveSlots(EmptyTable) = {}
    /\ CountIsExact(EmptyTable)
<1>1. EmptyTable \in Table(Sub) /\ ActiveSlots(EmptyTable) = {}
    BY DEF EmptyTable, Table, ActiveSlots
<1>2. QED
    BY <1>1, FS_EmptySet DEF CountIsExact, EmptyTable

LEMMA InitInv == Init => LoaderInv
<1> SUFFICES ASSUME Init PROVE LoaderInv
    OBVIOUS
<1>1. TypeOK
    <2>1. <<>> \in Seq(Entry) /\ <<>> \in Seq(Events)
        OBVIOUS
    <2>2. NoCall \in [op : Ops, slot : Int, todo : Seq(Events)]
        BY <2>1 DEF NoCall, Ops
    <2>3. DOMAIN pending \subseteq Slots /\ \A s \in DOMAIN pending : pending[s] \in Sub
        BY DEF Init
    <2>4. ui \in [pc : Pcs, i : Int, then : {"idle", "shutdownAll"}]
        BY DEF Init, Pcs
    <2>5. cur \in [id : Int, slot : Int]
        BY DEF Init, NoCur
    <2>6. QED
        BY TableIsEmpty, <2>1, <2>2, <2>3, <2>4, <2>5 DEF Init, TypeOK
<1>2. EntriesDistinct /\ CallInv /\ MappedInv /\ PendingInv
    BY DEF Init, EntriesDistinct, CallInv, MappedInv, PendingInv, NoneDue, Indices
<1>3. AllFiledRight /\ CountExact
    BY TableIsEmpty DEF Init, AllFiledRight, CountExact, TornDown
<1>4. QED
    BY <1>1, <1>2, <1>3 DEF LoaderInv

LEMMA StutterInv == LoaderInv /\ UNCHANGED vars => LoaderInv'
BY DEF vars, LoaderInv, TypeOK, EntriesDistinct, CallInv, MappedInv, PendingInv,
       AllFiledRight, FiledRight, CountExact, NoneDue, TornDown, Indices

(***************************************************************************)
(* Steps that only move the UI thread or the reader: the tables, the calls *)
(* and the event being delivered stay as they are.                         *)
(***************************************************************************)
ControlStep ==
    \/ InitializeDone \/ AutoEnableSkip \/ AutoEnableDone
    \/ Quiesce \/ BeginShutdown \/ DisableDone \/ ShutdownDone
    \/ BeginRead \/ EndRead

LEMMA ControlInv == LoaderInv /\ ControlStep => LoaderInv'
<1> SUFFICES ASSUME LoaderInv, ControlStep PROVE LoaderInv'
    OBVIOUS
<1>1. UNCHANGED <<plugins, table, cur, call, unscanned, pending>>
    BY DEF ControlStep, InitializeDone, AutoEnableSkip, AutoEnableDone, Quiesce,
           BeginShutdown, DisableDone, ShutdownDone, BeginRead, EndRead
<1>2. Len(plugins) \in Nat /\ Indices = 1 .. Len(plugins)
    BY DEF LoaderInv, TypeOK, Indices
<1> DEFINE before == {"scan", "initAll", "autoEnable", "idle", "disableAll"}
<1>3. TypeOK'
    <2>1. ui' \in [pc : Pcs, i : Int, then : {"idle", "shutdownAll"}]
        <3>1. CASE DisableDone
            BY <3>1 DEF LoaderInv, TypeOK, DisableDone, Goto, Pcs
        <3>2. CASE ~DisableDone
            BY <3>2, <1>2 DEF LoaderInv, TypeOK, ControlStep, InitializeDone,
                   AutoEnableSkip, AutoEnableDone, Quiesce, BeginShutdown,
                   ShutdownDone, BeginRead, EndRead, Goto, Pcs
        <3>3. QED
            BY <3>1, <3>2
    <2>2. ipcUp' \in BOOLEAN /\ reading' \in BOOLEAN
        BY DEF LoaderInv, TypeOK, ControlStep, InitializeDone, AutoEnableSkip,
               AutoEnableDone, Quiesce, BeginShutdown, DisableDone, ShutdownDone,
               BeginRead, EndRead
    <2>3. QED
        BY <1>1, <2>1, <2>2 DEF LoaderInv, TypeOK
<1>4. EntriesDistinct' /\ CountExact' /\ AllFiledRight'
    <2>1. TornDown => TornDown'
        BY DEF LoaderInv, TypeOK, TornDown, ControlStep, InitializeDone, AutoEnableSkip,
               AutoEnableDone, Quiesce, BeginShutdown, DisableDone, ShutdownDone,
               BeginRead, EndRead, At, Goto
    <2>2. QED
        BY <1>1, <2>1 DEF LoaderInv, EntriesDistinct, CountExact, AllFiledRight,
                          FiledRight, Indices
<1>5. CallInv'
    BY <1>1 DEF LoaderInv, CallInv, Indices, ControlStep, InitializeDone,
           AutoEnableSkip, AutoEnableDone, Quiesce, BeginShutdown, DisableDone,
           ShutdownDone, BeginRead, EndRead, At
<1>6. MappedInv'
    <2>1. \/ ui' = ui
          \/ ui.pc \in before /\ ui'.pc \in before \cup {"shutdownAll"}
          \/ ui'.pc = "reset"
        BY DEF LoaderInv, TypeOK, ControlStep, InitializeDone, AutoEnableSkip,
               AutoEnableDone, Quiesce, BeginShutdown, DisableDone, ShutdownDone,
               BeginRead, EndRead, At, Goto
    <2>2. QED
        BY <1>1, <2>1 DEF LoaderInv, MappedInv, Indices
<1>7. PendingInv'
    BY <1>1 DEF LoaderInv, TypeOK, PendingInv, NoneDue, ControlStep, InitializeDone,
           AutoEnableSkip, AutoEnableDone, Quiesce, BeginShutdown, DisableDone,
           ShutdownDone, BeginRead, EndRead, At, Goto
<1>8. QED
    BY <1>3, <1>4, <1>5, <1>6, <1>7 DEF LoaderInv

(***************************************************************************)
(* Steps that enter a plugin, or pass over one that is not enabled.        *)
(***************************************************************************)
EnteringStep ==
    \/ InitializeNext \/ AutoEnable \/ DisableNext
    \/ \E k \in Indices : EnableByName(k) \/ DisableByName(k)

LEMMA EnteringInv == LoaderInv /\ EnteringStep => LoaderInv'
<1> SUFFICES ASSUME LoaderInv, EnteringStep PROVE LoaderInv'
    OBVIOUS
<1>1. UNCHANGED <<plugins, table, unscanned, pending, ipcUp, reading>>
    BY DEF EnteringStep, InitializeNext, AutoEnable, DisableNext, EnableByName,
           DisableByName, SwitchByName
<1>2. /\ ui.pc' = ui.pc /\ ui.then' = ui.then
      /\ ui' \in [pc : Pcs, i : Int, then : {"idle", "shutdownAll"}]
      /\ ui.pc \in {"initAll", "autoEnable", "idle", "disableAll"}
    BY DEF LoaderInv, TypeOK, EnteringStep, InitializeNext, AutoEnable, DisableNext,
           EnableByName, DisableByName, SwitchByName, At, Goto
<1>3. \/ UNCHANGED <<cur, call>>
      \/ \E k \in Indices, op \in Ops \ {"None"} : BeginCall(op, k)
    BY DEF EnteringStep, InitializeNext, AutoEnable, DisableNext, EnableByName,
           DisableByName, SwitchByName, Ops
<1>4. ASSUME NEW k \in Indices, NEW op \in Ops \ {"None"}, BeginCall(op, k)
      PROVE  /\ cur' \in [id : Int, slot : Int]
             /\ call' \in [op : Ops, slot : Int, todo : Seq(Events)]
             /\ CallInv'
    <2>1. plugins[k] \in Entry /\ k \in Int /\ plugins[k].mapped
        BY <1>2 DEF LoaderInv, TypeOK, Indices, MappedInv
    <2>2. plugins[k].name \in Names /\ plugins[k].id \in Int
        BY <2>1 DEF Entry
    <2>3. EventsOf[plugins[k].name] \in Seq(Events) /\ <<>> \in Seq(Events)
        BY <2>2
    <2>4. cur' = [id |-> plugins[k].id, slot |-> k] /\ call'.op = op /\ call'.slot = k
        BY <1>4 DEF BeginCall
    <2>5. call' \in [op : Ops, slot : Int, todo : Seq(Events)]
        BY <1>4, <2>1, <2>3 DEF BeginCall
    <2>6. CallInv'
        BY <1>1, <1>2, <2>1, <2>4 DEF CallInv, Indices
    <2>7. QED
        BY <2>1, <2>2, <2>4, <2>5, <2>6
<1>5. TypeOK' /\ CallInv'
    BY <1>1, <1>2, <1>3, <1>4 DEF LoaderInv, TypeOK, CallInv, Indices
<1>6. EntriesDistinct' /\ CountExact' /\ AllFiledRight'
    BY <1>1, <1>2 DEF LoaderInv, EntriesDistinct, CountExact, AllFiledRight, FiledRight,
                      TornDown, Indices
<1>7. MappedInv' /\ PendingInv'
    BY <1>1, <1>2 DEF LoaderInv, MappedInv, PendingInv, NoneDue, Indices
<1>8. QED
    BY <1>5, <1>6, <1>7 DEF LoaderInv

(***************************************************************************)
(* A table of plugins with the same names and ids, all of them mapped that *)
(* were mapped: what is filed right stays so.                              *)
(***************************************************************************)
SameEntries ==
    /\ Len(plugins') = Len(plugins)
    /\ \A k \in 1 .. Len(plugins) :
          /\ plugins'[k].name = plugins[k].name
          /\ plugins'[k].id = plugins[k].id

LEMMA SameEntriesInv ==
    ASSUME LoaderInv, plugins' \in Seq(Entry), SameEntries
    PROVE  /\ EntriesDistinct'
           /\ Indices' = Indices
           /\ (\A k \in Indices : plugins'[k].mapped = plugins[k].mapped)
                 => \A sub : FiledRight(sub) => FiledRight(sub)'
<1>1. Indices = 1 .. Len(plugins) /\ Indices' = 1 .. Len(plugins)
    BY DEF LoaderInv, TypeOK, Indices, SameEntries
<1>2. EntriesDistinct'
    BY <1>1 DEF LoaderInv, EntriesDistinct, SameEntries
<1>3. QED
    BY <1>1, <1>2 DEF FiledRight, SameEntries

(***************************************************************************)
(* The end of a call: the result goes into the entry that was called.      *)
(***************************************************************************)
LEMMA EndCallInv ==
    ASSUME LoaderInv, call # NoCall,
           NEW succeeded \in BOOLEAN, NEW n \in Nat, EndCall(succeeded, n)
    PROVE  LoaderInv'
<1> DEFINE k == call.slot
           e == Recorded(plugins[k], call.op, succeeded, n)
<1>1. /\ k \in Indices /\ k \in 1 .. Len(plugins)
      /\ call.op \in {"Initialize", "Enable", "Disable"}
      /\ ui.pc \in {"initAll", "autoEnable", "idle", "disableAll"}
    BY DEF LoaderInv, TypeOK, CallInv, Indices, Ops
<1>2. plugins[k] \in Entry /\ \A j \in Indices : plugins[j] \in Entry
    BY <1>1 DEF LoaderInv, TypeOK, Indices
<1>3. e \in Entry /\ e.name = plugins[k].name /\ e.id = plugins[k].id
      /\ e.mapped = plugins[k].mapped
    <2> DEFINE op == call.op
               init == IF op = "Initialize" THEN succeeded
                                            ELSE plugins[k].initialized
               en == IF op = "Initialize" THEN plugins[k].enabled
                                          ELSE op = "Enable" /\ succeeded
    <2>1. /\ plugins[k].initialized \in BOOLEAN /\ plugins[k].enabled \in BOOLEAN
          /\ plugins[k].faults \in Nat
        BY <1>2 DEF Entry
    <2>2. init \in BOOLEAN /\ en \in BOOLEAN /\ plugins[k].faults + n \in Nat
        <3>1. CASE op = "Initialize"
            BY <2>1, <3>1
        <3>2. CASE op # "Initialize"
            <4>1. (op = "Enable" /\ succeeded) \in BOOLEAN
                BY Zenon
            <4>2. QED
                BY <2>1, <3>2, <4>1
        <3>3. QED
            BY <3>1, <3>2
    <2>3. e = [plugins[k] EXCEPT !.initialized = init, !.enabled = en,
                                 !.faults = plugins[k].faults + n]
        BY DEF Recorded
    <2> HIDE DEF e, init, en
    <2>4. QED
        BY <1>2, <2>2, <2>3 DEF Entry
<1>4. plugins' = [plugins EXCEPT ![k] = e]
    BY DEF EndCall
<1>5. plugins' \in Seq(Entry) /\ SameEntries
      /\ \A j \in Indices : plugins'[j].mapped = plugins[j].mapped
    <2>1. plugins \in Seq(Entry)
        BY DEF LoaderInv, TypeOK
    <2> HIDE DEF e
    <2>2. /\ plugins' \in Seq(Entry)
          /\ Len(plugins') = Len(plugins)
          /\ \A j \in 1 .. Len(plugins) : plugins'[j] = IF j = k THEN e ELSE plugins[j]
        BY <1>1, <1>3, <1>4, <2>1, ExceptSeq
    <2>3. Indices = 1 .. Len(plugins)
        BY <2>1 DEF Indices
    <2>4. QED
        BY <2>2, <2>3, <1>3 DEF SameEntries
<1>6. ui' \in [pc : Pcs, i : Int, then : {"idle", "shutdownAll"}]
      /\ ui'.pc = ui.pc /\ ui'.then = ui.then
    BY DEF LoaderInv, TypeOK, EndCall, Goto, NextIndex
<1>7. TypeOK'
    <2>1. call' = NoCall /\ NoCall \in [op : Ops, slot : Int, todo : Seq(Events)]
        BY DEF EndCall, NoCall, Ops
    <2>2. QED
        BY <1>5, <1>6, <2>1 DEF LoaderInv, TypeOK, EndCall
<1>8. EntriesDistinct' /\ Indices' = Indices
       /\ \A sub : FiledRight(sub) => FiledRight(sub)'
    BY <1>5, SameEntriesInv
<1>9. AllFiledRight' /\ CountExact'
    BY <1>6, <1>8 DEF LoaderInv, AllFiledRight, CountExact, EndCall, TornDown
<1>10. CallInv' /\ MappedInv' /\ PendingInv'
    BY <1>1, <1>5, <1>6, <1>8 DEF LoaderInv, CallInv, MappedInv, PendingInv, NoneDue, EndCall
<1>11. QED
    BY <1>7, <1>8, <1>9, <1>10 DEF LoaderInv

LEMMA ReturnInv ==
    LoaderInv /\ (PluginReturns \/ PluginRefuses \/ PluginFaults) => LoaderInv'
<1> SUFFICES ASSUME LoaderInv, PluginReturns \/ PluginRefuses \/ PluginFaults
             PROVE  LoaderInv'
    OBVIOUS
<1>1. call # NoCall
    <2>1. NoCall.op = "None"
        BY DEF NoCall
    <2>2. QED
        BY <2>1 DEF PluginReturns, PluginRefuses, PluginFaults
<1>2. EndCall(TRUE, 0) \/ EndCall(FALSE, 0) \/ EndCall(FALSE, 1)
    BY DEF PluginReturns, PluginRefuses, PluginFaults
<1>3. QED
    BY <1>1, <1>2, EndCallInv

(***************************************************************************)
(* Plugin code files its callbacks under g_current_plugin_id, which is the *)
(* id of the plugin being called, and takes them out again.                *)
(***************************************************************************)
LEMMA SubscriptionInv ==
    LoaderInv /\ (PluginSubscribes \/ PluginUnsubscribes) => LoaderInv'
<1> SUFFICES ASSUME LoaderInv, PluginSubscribes \/ PluginUnsubscribes
             PROVE  LoaderInv'
    OBVIOUS
<1> DEFINE entry == plugins[call.slot]
           sub == [event |-> Head(call.todo), owner |-> entry.name, id |-> cur.id]
<1>1. call # NoCall /\ call.todo # <<>> /\ call.op \in {"Enable", "Disable"}
    BY DEF PluginSubscribes, PluginUnsubscribes, NoCall
<1>2. /\ call.slot \in Indices
      /\ cur.id = entry.id
      /\ ui.pc \in {"initAll", "autoEnable", "idle", "disableAll"}
    BY <1>1 DEF LoaderInv, CallInv
<1>3. entry \in Entry /\ entry.mapped
    BY <1>2 DEF LoaderInv, TypeOK, Indices, MappedInv
<1>4. Head(call.todo) \in Events /\ Tail(call.todo) \in Seq(Events)
    BY <1>1 DEF LoaderInv, TypeOK
<1>5. sub \in Sub
    BY <1>2, <1>3, <1>4 DEF Sub, Subscription, Entry
<1>6. FiledRight(sub)
    BY <1>2, <1>3 DEF FiledRight
<1>7. /\ table' \in Table(Sub)
      /\ CountIsExact(table')
      /\ \A s \in ActiveSlots(table') :
            table'.slot[s] = sub
            \/ (s \in ActiveSlots(table) /\ table'.slot[s] = table.slot[s])
    <2>1. table \in Table(Sub) /\ CountIsExact(table)
        BY DEF LoaderInv, TypeOK, CountExact
    <2>2. CASE PluginSubscribes
        BY <2>1, <2>2, <1>5, SubIsNotNoSub, SubscribedEffect DEF PluginSubscribes
    <2>3. CASE PluginUnsubscribes
        BY <2>1, <2>3, UnsubscribedEffect DEF PluginUnsubscribes
    <2>4. QED
        BY <2>2, <2>3
<1>8. /\ UNCHANGED <<plugins, cur, ui, unscanned, pending, ipcUp, reading>>
      /\ call' = [call EXCEPT !.todo = Tail(call.todo)]
    BY DEF PluginSubscribes, PluginUnsubscribes
<1>9. call' \in [op : Ops, slot : Int, todo : Seq(Events)]
      /\ call'.op = call.op /\ call'.slot = call.slot
    BY <1>4, <1>8 DEF LoaderInv, TypeOK
<1>10. TypeOK'
    BY <1>7, <1>8, <1>9 DEF LoaderInv, TypeOK
<1>11. EntriesDistinct' /\ PendingInv' /\ CountExact'
    BY <1>7, <1>8 DEF LoaderInv, EntriesDistinct, PendingInv, NoneDue, Indices, CountExact
<1>12. AllFiledRight'
    <2>1. \A s \in ActiveSlots(table') : FiledRight(table'.slot[s])
        BY <1>6, <1>7 DEF LoaderInv, AllFiledRight
    <2>2. ~TornDown => \A s \in DOMAIN pending : FiledRight(pending[s])
        BY DEF LoaderInv, AllFiledRight
    <2>3. QED
        BY <1>8, <2>1, <2>2 DEF AllFiledRight, FiledRight, TornDown, Indices
<1>13. CallInv' /\ MappedInv'
    BY <1>1, <1>2, <1>8, <1>9 DEF LoaderInv, CallInv, MappedInv, Indices
<1>14. QED
    BY <1>10, <1>11, <1>12, <1>13 DEF LoaderInv

(***************************************************************************)
(* An event: what is copied out of the table is filed right, and what is   *)
(* left of the copy is as right as the copy was.                           *)
(***************************************************************************)
LEMMA EventInv ==
    LoaderInv /\ ((\E event \in Events : Fire(event)) \/ Deliver) => LoaderInv'
<1> SUFFICES ASSUME LoaderInv, (\E event \in Events : Fire(event)) \/ Deliver
             PROVE  LoaderInv'
    OBVIOUS
<1>1. UNCHANGED <<plugins, table, cur, ui, call, unscanned, ipcUp, reading>>
      /\ ui.pc \in {"idle", "down"}
    BY DEF Fire, Deliver, At
<1>2. /\ DOMAIN pending' \subseteq Slots
      /\ \A s \in DOMAIN pending' : pending'[s] \in Sub
      /\ ~TornDown => \A s \in DOMAIN pending' : FiledRight(pending'[s])
    <2>1. CASE Deliver
        BY <2>1 DEF Deliver, LoaderInv, TypeOK, AllFiledRight
    <2>2. ASSUME NEW event \in Events, Fire(event)
          PROVE  /\ DOMAIN pending' \subseteq Slots
                 /\ \A s \in DOMAIN pending' :
                       pending'[s] \in Sub /\ FiledRight(pending'[s])
        <3>1. /\ DOMAIN pending' \subseteq ActiveSlots(table)
              /\ \A s \in DOMAIN pending' : pending'[s] = table.slot[s]
            BY <2>2 DEF Fire, Snapshot, SlotsOn
        <3>2. \A s \in ActiveSlots(table) : s \in Slots /\ table.slot[s] \in Sub
            BY DEF LoaderInv, TypeOK, Table, ActiveSlots
        <3>3. QED
            BY <3>1, <3>2 DEF LoaderInv, AllFiledRight
    <2>3. QED
        BY <2>1, <2>2
<1>3. TypeOK'
    BY <1>1, <1>2 DEF LoaderInv, TypeOK
<1>4. EntriesDistinct' /\ CountExact' /\ CallInv' /\ MappedInv' /\ PendingInv'
    BY <1>1 DEF LoaderInv, EntriesDistinct, CountExact, CallInv, MappedInv, PendingInv,
                NoneDue, Indices
<1>5. AllFiledRight'
    BY <1>1, <1>2 DEF LoaderInv, AllFiledRight, FiledRight, TornDown, Indices
<1>6. QED
    BY <1>3, <1>4, <1>5 DEF LoaderInv

(***************************************************************************)
(* Steps that empty both tables.                                           *)
(***************************************************************************)
LEMMA EmptyingInv == LoaderInv /\ (StartUp \/ Reset) => LoaderInv'
<1> SUFFICES ASSUME LoaderInv, StartUp \/ Reset PROVE LoaderInv'
    OBVIOUS
<1>1. /\ plugins' = <<>> /\ table' = EmptyTable /\ cur' = NoCur
      /\ call = NoCall
      /\ UNCHANGED <<call, pending, ipcUp, reading>>
      /\ unscanned' \subseteq Dlls
    BY DEF StartUp, Reset, At, LoaderInv, TypeOK
<1>2. /\ ui' \in [pc : {"scan", "down"}, i : Int, then : {"idle", "shutdownAll"}]
      /\ ui'.pc = "down" \/ NoneDue
    BY DEF StartUp, Reset, Goto, LoaderInv, TypeOK
<1>3. plugins' \in Seq(Entry) /\ Indices' = {}
    BY <1>1 DEF Indices
<1>4. TypeOK'
    BY <1>1, <1>2, <1>3, TableIsEmpty DEF LoaderInv, TypeOK, NoCur, Pcs
<1>5. EntriesDistinct' /\ CountExact' /\ AllFiledRight'
    BY <1>1, <1>2, <1>3, TableIsEmpty
       DEF EntriesDistinct, CountExact, AllFiledRight, NoneDue, TornDown
<1>6. CallInv' /\ PendingInv'
    BY <1>1, <1>2 DEF CallInv, PendingInv, NoneDue
<1>7. MappedInv'
    BY <1>2, <1>3 DEF MappedInv
<1>8. QED
    BY <1>4, <1>5, <1>6, <1>7 DEF LoaderInv

(***************************************************************************)
(* Loading appends an entry whose name and id no other entry has.          *)
(***************************************************************************)
LEMMA LoadInv == LoaderInv /\ (\E dll \in Dlls : TryLoad(dll)) => LoaderInv'
<1> SUFFICES ASSUME LoaderInv, NEW dll \in Dlls, TryLoad(dll) PROVE LoaderInv'
    OBVIOUS
<1> DEFINE e == NewEntry(dll)
<1>1. UNCHANGED <<table, cur, ui, call, pending, ipcUp, reading>>
      /\ unscanned' \subseteq Dlls /\ ui.pc = "scan" /\ call = NoCall
    BY DEF TryLoad, At, LoaderInv, TypeOK
<1>2. CASE plugins' = plugins
    BY <1>1, <1>2 DEF LoaderInv, TypeOK, EntriesDistinct, CountExact, CallInv,
           MappedInv, PendingInv, AllFiledRight, FiledRight, NoneDue, TornDown, Indices
<1>3. CASE plugins' # plugins
    <2>1. plugins' = Append(plugins, e) /\ \A k \in Indices : plugins[k].name # e.name
        BY <1>3 DEF TryLoad, NewEntry
    <2>2. plugins \in Seq(Entry) /\ Len(plugins) \in Nat /\ Indices = 1 .. Len(plugins)
        BY DEF LoaderInv, TypeOK, Indices
    <2>3. e \in Entry /\ e.id = Len(plugins) + 1 /\ e.mapped
        BY <2>2 DEF NewEntry, Entry
    <2> HIDE DEF e
    <2>4. /\ plugins' \in Seq(Entry)
          /\ Indices' = 1 .. (Len(plugins) + 1)
          /\ Len(plugins') = Len(plugins) + 1
          /\ \A k \in Indices : plugins'[k] = plugins[k]
          /\ plugins'[Len(plugins) + 1] = e
        BY <2>1, <2>2, <2>3 DEF Indices
    <2>5. TypeOK'
        BY <1>1, <2>4 DEF LoaderInv, TypeOK
    <2>6. EntriesDistinct'
        <3>1. ASSUME NEW k \in Indices'
              PROVE  \/ k \in Indices /\ plugins'[k] = plugins[k]
                     \/ k = Len(plugins) + 1 /\ plugins'[k] = e
            BY <2>2, <2>4
        <3>2. \A k \in Indices : plugins[k].id \in 1 .. Len(plugins)
            BY DEF LoaderInv, EntriesDistinct
        <3>3. \A j, k \in Indices' : plugins'[j].name = plugins'[k].name => j = k
            <4>1. \A j, k \in Indices : plugins[j].name = plugins[k].name => j = k
                BY DEF LoaderInv, EntriesDistinct
            <4>2. QED
                BY <2>1, <3>1, <4>1
        <3>4. \A j, k \in Indices' : plugins'[j].id = plugins'[k].id => j = k
            <4>1. \A k \in Indices : plugins[k].id # e.id
                BY <2>2, <2>3, <3>2
            <4>2. \A j, k \in Indices : plugins[j].id = plugins[k].id => j = k
                BY DEF LoaderInv, EntriesDistinct
            <4>3. QED
                BY <3>1, <4>1, <4>2
        <3>5. \A k \in Indices' : plugins'[k].id \in 1 .. Len(plugins')
            <4>1. Len(plugins') = Len(plugins) + 1 /\ Len(plugins) \in Nat
                BY <2>2, <2>4
            <4>2. e.id \in 1 .. Len(plugins')
                BY <2>3, <4>1
            <4>3. \A k \in Indices : plugins[k].id \in 1 .. Len(plugins')
                BY <3>2, <4>1
            <4>4. QED
                BY <3>1, <4>2, <4>3
        <3>6. QED
            BY <3>3, <3>4, <3>5 DEF EntriesDistinct
    <2>7. AllFiledRight'
        <3>1. ASSUME NEW sub, FiledRight(sub) PROVE FiledRight(sub)'
            <4>1. PICK k \in Indices : /\ plugins[k].mapped
                                       /\ plugins[k].name = sub.owner
                                       /\ plugins[k].id = sub.id
                BY <3>1 DEF FiledRight
            <4>2. k \in Indices' /\ plugins'[k] = plugins[k]
                BY <2>2, <2>4
            <4>3. QED
                BY <4>1, <4>2 DEF FiledRight
        <3>2. QED
            BY <1>1, <3>1 DEF LoaderInv, AllFiledRight, TornDown
    <2>8. MappedInv'
        <3>1. \A k \in Indices' : plugins'[k].mapped
            <4>1. \A k \in Indices : plugins[k].mapped
                BY <1>1 DEF LoaderInv, MappedInv
            <4>2. ASSUME NEW k \in Indices'
                  PROVE  \/ k \in Indices /\ plugins'[k] = plugins[k]
                         \/ k = Len(plugins) + 1 /\ plugins'[k] = e
                BY <2>2, <2>4
            <4>3. e.mapped
                BY <2>3
            <4>4. QED
                BY <4>1, <4>2, <4>3, Zenon
        <3>2. QED
            BY <1>1, <3>1 DEF MappedInv
    <2>9. CallInv' /\ PendingInv' /\ CountExact'
        BY <1>1 DEF LoaderInv, CallInv, PendingInv, NoneDue, CountExact
    <2>10. QED
        BY <2>5, <2>6, <2>7, <2>8, <2>9 DEF LoaderInv
<1>4. QED
    BY <1>2, <1>3

(***************************************************************************)
(* Sorting permutes the entries.                                           *)
(***************************************************************************)
LEMMA SortInv == LoaderInv /\ SortByPriority => LoaderInv'
<1> SUFFICES ASSUME LoaderInv, SortByPriority PROVE LoaderInv'
    OBVIOUS
<1> DEFINE n == Len(plugins)
<1>1. UNCHANGED <<table, cur, call, unscanned, pending, ipcUp, reading>>
      /\ ui.pc = "scan" /\ call = NoCall /\ ui'.pc = "initAll"
      /\ ui' \in [pc : Pcs, i : Int, then : {"idle", "shutdownAll"}]
      /\ ui'.then = ui.then
    BY DEF SortByPriority, At, Goto, LoaderInv, TypeOK, Pcs
<1>2. plugins \in Seq(Entry) /\ n \in Nat /\ Indices = 1 .. n
      /\ \A k \in 1 .. n : plugins[k] \in Entry
    BY DEF LoaderInv, TypeOK, Indices
<1>3. PICK f \in [Indices -> Indices] :
         StableOrder(f) /\ plugins' = [k \in 1 .. n |-> plugins[f[k]]]
    BY DEF SortByPriority
<1> DEFINE e(k) == plugins[f[k]]
<1>a. \A k \in 1 .. n : f[k] \in 1 .. n /\ e(k) \in Entry
    BY <1>2, <1>3
<1>4. \A i, j \in Indices : f[i] = f[j] => i = j
    <2>1. \A i \in Indices : plugins[f[i]].priority \in Int /\ f[i] \in Int
        <3>1. ASSUME NEW i \in Indices
              PROVE  plugins[f[i]].priority \in Int /\ f[i] \in Int
            <4>1. i \in 1 .. n
                BY <1>2
            <4>2. f[i] \in 1 .. n /\ plugins[f[i]] \in Entry
                BY <1>a, <4>1
            <4>3. QED
                BY <4>2 DEF Entry
        <3>2. QED
            BY <3>1
    <2>2. \A i, j \in Indices : i < j => f[i] # f[j]
        BY <1>3, <2>1 DEF StableOrder
    <2>3. QED
        BY <1>2, <2>2
<1>5. \A j \in Indices : \E k \in Indices : f[k] = j
    <2>1. f \in Injection(Indices, Indices)
        BY <1>4 DEF Injection, IsInjective
    <2>2. IsFiniteSet(Indices)
        BY <1>2, FS_Interval
    <2>3. f \in Surjection(Indices, Indices)
        BY <2>1, <2>2, FS_Injection
    <2>4. QED
        BY <2>3 DEF Surjection
<1>6. /\ plugins' \in Seq(Entry) /\ Len(plugins') = n /\ Indices' = 1 .. n
      /\ \A k \in 1 .. n : plugins'[k] = plugins[f[k]] /\ f[k] \in 1 .. n
    <2>1. plugins' = [k \in 1 .. n |-> e(k)]
        BY <1>3
    <2> HIDE DEF e
    <2>2. plugins' \in [1 .. n -> Entry]
        BY <1>a, <2>1
    <2>3. plugins' \in Seq(Entry) /\ Len(plugins') = n /\ DOMAIN plugins' = 1 .. n
        BY <1>2, <2>2
    <2> USE DEF e
    <2>4. QED
        BY <1>a, <2>1, <2>3 DEF Indices
<1>7. TypeOK'
    BY <1>1, <1>6 DEF LoaderInv, TypeOK
<1>8. EntriesDistinct'
    <2>1. \A j, k \in 1 .. n :
          /\ plugins[j].name = plugins[k].name => j = k
          /\ plugins[j].id = plugins[k].id => j = k
        BY <1>2 DEF LoaderInv, EntriesDistinct
    <2>2. \A j, k \in 1 .. n :
          /\ e(j).name = e(k).name => j = k
          /\ e(j).id = e(k).id => j = k
        BY <2>1, <1>a, <1>2, <1>4
    <2>3. \A k \in 1 .. n : e(k).id \in 1 .. n
        BY <1>a, <1>2 DEF LoaderInv, EntriesDistinct
    <2>4. \A k \in 1 .. n : plugins'[k] = e(k)
        BY <1>6
    <2> HIDE DEF e
    <2>5. Indices' = 1 .. n /\ Len(plugins') = n
        BY <1>6
    <2>6. \A j, k \in Indices' : plugins'[j].name = plugins'[k].name => j = k
        <3> SUFFICES ASSUME NEW j \in Indices', NEW k \in Indices',
                            plugins'[j].name = plugins'[k].name
                     PROVE  j = k
            OBVIOUS
        <3>1. j \in 1 .. n /\ k \in 1 .. n
            BY <2>5
        <3>2. e(j).name = e(k).name
            BY <2>4, <3>1
        <3>3. QED
            BY <2>2, <3>1, <3>2
    <2>7. \A j, k \in Indices' : plugins'[j].id = plugins'[k].id => j = k
        <3> SUFFICES ASSUME NEW j \in Indices', NEW k \in Indices',
                            plugins'[j].id = plugins'[k].id
                     PROVE  j = k
            OBVIOUS
        <3>1. j \in 1 .. n /\ k \in 1 .. n
            BY <2>5
        <3>2. e(j).id = e(k).id
            BY <2>4, <3>1
        <3>3. QED
            BY <2>2, <3>1, <3>2
    <2>8. \A k \in Indices' : plugins'[k].id \in 1 .. Len(plugins')
        BY <2>3, <2>4, <2>5
    <2>9. QED
        BY <2>6, <2>7, <2>8 DEF EntriesDistinct
<1>9. AllFiledRight'
    <2>1. ASSUME NEW sub, FiledRight(sub) PROVE FiledRight(sub)'
        <3>1. PICK j \in Indices : /\ plugins[j].mapped
                                   /\ plugins[j].name = sub.owner
                                   /\ plugins[j].id = sub.id
            BY <2>1 DEF FiledRight
        <3>2. PICK k \in Indices : f[k] = j
            BY <1>5
        <3>3. k \in Indices' /\ plugins'[k] = plugins[j]
            BY <1>2, <1>6, <3>2
        <3>4. QED
            BY <3>1, <3>3 DEF FiledRight
    <2>2. QED
        BY <1>1, <2>1 DEF LoaderInv, AllFiledRight, PendingInv, NoneDue
<1>10. MappedInv'
    BY <1>1, <1>2, <1>6 DEF LoaderInv, MappedInv
<1>11. CallInv' /\ PendingInv' /\ CountExact'
    BY <1>1 DEF LoaderInv, CallInv, PendingInv, NoneDue, CountExact
<1>12. QED
    BY <1>7, <1>8, <1>9, <1>10, <1>11 DEF LoaderInv

(***************************************************************************)
(* A plugin is shut down: its subscriptions go, the others stay.           *)
(***************************************************************************)
LEMMA ShutdownInv == LoaderInv /\ ShutdownNext => LoaderInv'
<1> SUFFICES ASSUME LoaderInv, ShutdownNext PROVE LoaderInv'
    OBVIOUS
<1> DEFINE i == ui.i
           e == [plugins[i] EXCEPT !.initialized = FALSE]
<1>1. /\ UNCHANGED <<cur, call, unscanned, pending, ipcUp, reading>>
      /\ ui.pc = "shutdownAll" /\ i \in Indices /\ call = NoCall
      /\ ui' = [pc |-> "freeing", i |-> i, then |-> ui.then]
      /\ plugins' = [plugins EXCEPT ![i] = e]
    BY DEF ShutdownNext, At, Goto
<1>2. plugins \in Seq(Entry) /\ Indices = 1 .. Len(plugins) /\ plugins[i] \in Entry
    BY <1>1 DEF LoaderInv, TypeOK, Indices
<1>3. e \in Entry /\ e.name = plugins[i].name /\ e.id = plugins[i].id
      /\ e.mapped = plugins[i].mapped
    BY <1>2 DEF Entry
<1> HIDE DEF e
<1>4. /\ plugins' \in Seq(Entry) /\ SameEntries
      /\ \A k \in Indices : plugins'[k].mapped = plugins[k].mapped
      /\ plugins'[i].id = plugins[i].id
    <2>1. /\ plugins' \in Seq(Entry) /\ Len(plugins') = Len(plugins)
          /\ \A k \in 1 .. Len(plugins) : plugins'[k] = IF k = i THEN e ELSE plugins[k]
        BY <1>1, <1>2, <1>3, ExceptSeq
    <2>2. QED
        BY <1>1, <1>2, <1>3, <2>1 DEF SameEntries
<1>5. EntriesDistinct' /\ Indices' = Indices
      /\ \A sub : FiledRight(sub) => FiledRight(sub)'
    BY <1>4, SameEntriesInv
<1>6. /\ table' \in Table(Sub) /\ CountIsExact(table')
      /\ SlotsOfPlugin(table', plugins[i].id) = {}
      /\ \A s \in ActiveSlots(table') :
            s \in ActiveSlots(table) /\ table'.slot[s] = table.slot[s]
    BY RemovedByPluginEffect DEF LoaderInv, TypeOK, CountExact, ShutdownNext
<1>7. TypeOK'
    BY <1>1, <1>4, <1>6 DEF LoaderInv, TypeOK, Pcs
<1>8. AllFiledRight' /\ CountExact'
    BY <1>1, <1>5, <1>6 DEF LoaderInv, AllFiledRight, CountExact, TornDown
<1>9. MappedInv'
    BY <1>1, <1>4, <1>5, <1>6 DEF LoaderInv, MappedInv
<1>10. CallInv' /\ PendingInv'
    BY <1>1 DEF LoaderInv, CallInv, PendingInv, NoneDue
<1>11. QED
    BY <1>5, <1>7, <1>8, <1>9, <1>10 DEF LoaderInv

(***************************************************************************)
(* A DLL is unmapped: nothing in the table is filed under its id any more. *)
(***************************************************************************)
LEMMA FreeInv == LoaderInv /\ FreeDll => LoaderInv'
<1> SUFFICES ASSUME LoaderInv, FreeDll PROVE LoaderInv'
    OBVIOUS
<1> DEFINE i == ui.i
           e == [plugins[i] EXCEPT !.mapped = FALSE]
<1>1. /\ UNCHANGED <<table, cur, call, unscanned, pending, ipcUp, reading>>
      /\ ui.pc = "freeing" /\ call = NoCall
      /\ ui' = [pc |-> "shutdownAll", i |-> i + 1, then |-> ui.then]
      /\ plugins' = [plugins EXCEPT ![i] = e]
    BY DEF FreeDll, At, Goto
<1>2. /\ i \in Indices /\ SlotsOfPlugin(table, plugins[i].id) = {}
      /\ \A k \in Indices : k >= i => plugins[k].mapped
    BY <1>1 DEF LoaderInv, MappedInv
<1>3. plugins \in Seq(Entry) /\ Indices = 1 .. Len(plugins) /\ plugins[i] \in Entry
      /\ i \in Int /\ Len(plugins) \in Nat
    BY <1>2 DEF LoaderInv, TypeOK, Indices
<1>4. e \in Entry /\ e.name = plugins[i].name /\ e.id = plugins[i].id
    BY <1>3 DEF Entry
<1> HIDE DEF e
<1>5. /\ plugins' \in Seq(Entry) /\ Len(plugins') = Len(plugins) /\ Indices' = Indices
      /\ \A k \in Indices : plugins'[k] = IF k = i THEN e ELSE plugins[k]
    <2>1. /\ plugins' \in Seq(Entry) /\ Len(plugins') = Len(plugins)
          /\ \A k \in 1 .. Len(plugins) : plugins'[k] = IF k = i THEN e ELSE plugins[k]
        BY <1>1, <1>2, <1>3, <1>4, ExceptSeq
    <2>2. QED
        BY <1>3, <2>1 DEF Indices
<1>6. EntriesDistinct'
    <2>1. SameEntries
        BY <1>3, <1>4, <1>5 DEF SameEntries
    <2>2. QED
        BY <1>5, <2>1, SameEntriesInv
<1>7. AllFiledRight'
    <2>1. ASSUME NEW s \in ActiveSlots(table) PROVE FiledRight(table.slot[s])'
        <3>1. PICK k \in Indices : /\ plugins[k].mapped
                                   /\ plugins[k].name = table.slot[s].owner
                                   /\ plugins[k].id = table.slot[s].id
            BY DEF LoaderInv, AllFiledRight, FiledRight
        <3>2. k # i
            BY <1>2, <3>1 DEF SlotsOfPlugin
        <3>3. QED
            BY <1>1, <1>5, <3>1, <3>2 DEF FiledRight
    <2>2. QED
        BY <1>1, <2>1 DEF AllFiledRight, TornDown
<1>8. TypeOK'
    BY <1>1, <1>3, <1>5 DEF LoaderInv, TypeOK, Pcs
<1>9. MappedInv'
    BY <1>1, <1>2, <1>3, <1>5 DEF MappedInv
<1>10. CallInv' /\ PendingInv' /\ CountExact'
    BY <1>1, <1>2 DEF LoaderInv, CallInv, PendingInv, NoneDue, CountExact
<1>11. QED
    BY <1>6, <1>7, <1>8, <1>9, <1>10 DEF LoaderInv

(***************************************************************************)
(* Every step keeps the invariant.                                         *)
(***************************************************************************)
LEMMA NextInv == LoaderInv /\ [Next]_vars => LoaderInv'
<1> SUFFICES ASSUME LoaderInv, [Next]_vars PROVE LoaderInv'
    OBVIOUS
<1>1. CASE UNCHANGED vars
    BY <1>1, StutterInv
<1>2. CASE Loading
    BY <1>2, EmptyingInv, LoadInv, SortInv, EnteringInv, ControlInv
       DEF Loading, EnteringStep, ControlStep
<1>3. CASE CallStep
    BY <1>3, SubscriptionInv, ReturnInv DEF CallStep
<1>4. CASE Serving
    BY <1>4, EnteringInv, EventInv DEF Serving, EnteringStep
<1>5. CASE Teardown
    BY <1>5, ControlInv, EnteringInv, ShutdownInv, FreeInv, EmptyingInv
       DEF Teardown, EnteringStep, ControlStep
<1>6. CASE Reader
    BY <1>6, ControlInv DEF Reader, ControlStep
<1>7. QED
    BY <1>1, <1>2, <1>3, <1>4, <1>5, <1>6 DEF Next

\* The tables, the entries and what is mapped fit together in every reachable state.
THEOREM LoaderInvariant == Spec => []LoaderInv
BY InitInv, NextInv, PTL DEF Spec

(***************************************************************************)
(* Every variable keeps its type.                                          *)
(***************************************************************************)
THEOREM TypeCorrect == Spec => []TypeOK
<1>1. LoaderInv => TypeOK
    BY DEF LoaderInv
<1>2. QED
    BY <1>1, LoaderInvariant, PTL

(***************************************************************************)
(* The event bus never calls into a DLL that is not mapped: not from its   *)
(* table, and, unless the engine was torn down inside one of its       *)
(* callbacks, not from the copy that an event in progress works through    *)
(* after the lock is released.                                             *)
(***************************************************************************)
THEOREM NoCallIntoUnmapped == Spec => []CallbacksAreMapped
<1>1. LoaderInv => CallbacksAreMapped
    BY DEF LoaderInv, AllFiledRight, FiledRight, CallbacksAreMapped, MappedNames
<1>2. QED
    BY <1>1, LoaderInvariant, PTL

(***************************************************************************)
(* g_subscription_count is always the number of active slots.              *)
(***************************************************************************)
THEOREM CountAlwaysExact == Spec => []CountExact
<1>1. LoaderInv => CountExact
    BY DEF LoaderInv
<1>2. QED
    BY <1>1, LoaderInvariant, PTL

-----------------------------------------------------------------------------
(* The loader implements PluginLifecycle: initial states map to initial states, and every   *)
(* step of the loader is one of the lifecycle's or changes neither a phase nor who listens.  *)

\* The assumptions are cited from here on.
HIDE LoaderBoundsAssumption
HIDE EventsOfAssumption
HIDE MetaAssumption

RefInv == LoaderInv /\ PhaseInv /\ CallPhaseInv

LEMMA EntryTypes ==
    LoaderInv => /\ plugins \in Seq(Entry) /\ Len(plugins) \in Nat
                 /\ Indices = 1 .. Len(plugins)
                 /\ \A k \in Indices :
                       /\ plugins[k] \in Entry /\ plugins[k].name \in Names
                       /\ plugins[k].mapped \in BOOLEAN
                       /\ plugins[k].initialized \in BOOLEAN
                       /\ plugins[k].enabled \in BOOLEAN
                 /\ ui.pc \in Pcs /\ ui.i \in Int
<1>1. LoaderInv => /\ plugins \in Seq(Entry) /\ Len(plugins) \in Nat
                   /\ Indices = 1 .. Len(plugins)
                   /\ \A k \in Indices : plugins[k] \in Entry
                   /\ ui.pc \in Pcs /\ ui.i \in Int
    BY DEF LoaderInv, TypeOK, Indices
<1>2. QED
    BY <1>1 DEF Entry

\* What the end of a call changes: the flags of the entry that was called.
LEMMA EndCallFlags ==
    ASSUME LoaderInv, call # NoCall,
           NEW succeeded \in BOOLEAN, NEW n \in Nat, EndCall(succeeded, n)
    PROVE  LET old == plugins[call.slot]
               new == plugins'[call.slot]
           IN  /\ call.slot \in Indices /\ Indices' = Indices /\ Len(plugins') = Len(plugins)
               /\ plugins' \in Seq(Entry)
               /\ \A j \in Indices : j # call.slot => plugins'[j] = plugins[j]
               /\ new.name = old.name /\ new.mapped = old.mapped
               /\ call.op = "Initialize" =>
                     new.enabled = old.enabled /\ new.initialized = succeeded
               /\ call.op = "Enable" =>
                     new.enabled = succeeded /\ new.initialized = old.initialized
               /\ call.op = "Disable" =>
                     ~new.enabled /\ new.initialized = old.initialized
               /\ call.op \in {"Initialize", "Enable", "Disable"}
<1> DEFINE k == call.slot
           e == Recorded(plugins[k], call.op, succeeded, n)
<1>1. /\ k \in Indices /\ k \in 1 .. Len(plugins) /\ plugins[k] \in Entry
      /\ plugins \in Seq(Entry) /\ Indices = 1 .. Len(plugins)
      /\ call.op \in {"Initialize", "Enable", "Disable"}
    BY EntryTypes DEF LoaderInv, TypeOK, CallInv, Ops
<1>2. plugins' = [plugins EXCEPT ![k] = e]
    BY DEF EndCall
<1>3. /\ plugins' \in Seq(Entry) /\ Indices' = Indices
    BY EndCallInv, EntryTypes, <1>1, <1>2 DEF LoaderInv, TypeOK, Indices
<1>4. plugins'[k] = e /\ \A j \in Indices : j # k => plugins'[j] = plugins[j]
    <2> HIDE DEF e
    <2>1. QED
        BY <1>1, <1>2 DEF Indices
<1>5. Len(plugins') = Len(plugins)
    <2> HIDE DEF e
    <2>1. QED
        BY <1>1, <1>2
<1>6. /\ e.name = plugins[k].name /\ e.mapped = plugins[k].mapped
      /\ call.op = "Initialize" =>
            e.enabled = plugins[k].enabled /\ e.initialized = succeeded
      /\ call.op # "Initialize" =>
            /\ e.enabled = (call.op = "Enable" /\ succeeded)
            /\ e.initialized = plugins[k].initialized
    BY <1>1 DEF Recorded, Entry
<1>7. /\ call.op = "Enable" => (call.op = "Enable" /\ succeeded) = succeeded
      /\ call.op = "Disable" => (call.op = "Enable" /\ succeeded) = FALSE
    BY Zenon
<1> HIDE DEF e
<1>8. QED
    BY <1>1, <1>3, <1>4, <1>5, <1>6, <1>7

(***************************************************************************)
(* PhaseInv and CallPhaseInv are kept.                                     *)
(***************************************************************************)
LEMMA InitPhase == Init => PhaseInv /\ CallPhaseInv
    BY DEF Init, PhaseInv, CallPhaseInv, NoCall, Indices

LEMMA ControlPhase == RefInv /\ ControlStep => (PhaseInv /\ CallPhaseInv)'
<1> SUFFICES ASSUME RefInv, ControlStep PROVE (PhaseInv /\ CallPhaseInv)'
    OBVIOUS
<1>1. UNCHANGED <<plugins, table, call>> /\ Indices' = Indices
    BY DEF ControlStep, InitializeDone, AutoEnableSkip, AutoEnableDone, Quiesce,
           BeginShutdown, DisableDone, ShutdownDone, BeginRead, EndRead, Indices
<1>2. /\ Len(plugins) \in Nat /\ Indices = 1 .. Len(plugins)
      /\ ui.pc \in Pcs /\ ui.i \in Int
      /\ LoaderInv /\ PhaseInv /\ CallPhaseInv
    BY EntryTypes DEF RefInv
<1>3. CASE BeginRead \/ EndRead
    BY <1>1, <1>2, <1>3 DEF PhaseInv, CallPhaseInv, BeginRead, EndRead
<1>4. CASE ~(BeginRead \/ EndRead)
    <2>1. call = NoCall /\ NoCall.op = "None"
        BY <1>4 DEF ControlStep, InitializeDone, AutoEnableSkip, AutoEnableDone, Quiesce,
               BeginShutdown, DisableDone, ShutdownDone, At, NoCall
    <2>2. CallPhaseInv'
        BY <1>1, <2>1 DEF CallPhaseInv
    <2>3. ASSUME InitializeDone \/ AutoEnableSkip \/ AutoEnableDone PROVE PhaseInv'
        BY <1>1, <1>2, <2>3
           DEF PhaseInv, InitializeDone, AutoEnableSkip, AutoEnableDone, Goto
    <2>4. ASSUME Quiesce \/ BeginShutdown PROVE PhaseInv'
        BY <1>1, <1>2, <2>4 DEF PhaseInv, Quiesce, BeginShutdown
    <2>5. ASSUME DisableDone PROVE PhaseInv'
        <3>1. ui.pc = "disableAll" /\ ui.i < 1
            BY <1>2, <2>5 DEF DisableDone, At, PhaseInv
        <3>2. \A k \in Indices : ~plugins[k].enabled
            BY <1>2, <3>1 DEF PhaseInv
        <3>3. \/ ui'.pc = "idle"
              \/ ui'.pc = "shutdownAll" /\ ui'.i = 1
            BY <1>2, <2>5 DEF DisableDone, Goto, LoaderInv, TypeOK
        <3>4. QED
            BY <1>1, <1>2, <3>2, <3>3 DEF PhaseInv
    <2>6. ASSUME ShutdownDone PROVE PhaseInv'
        <3>1. ui.pc = "shutdownAll" /\ ui.i > Len(plugins) /\ ui'.pc = "reset"
            BY <1>2, <2>6 DEF ShutdownDone, At, Goto, PhaseInv
        <3>2. \A k \in Indices : ~plugins[k].enabled /\ ~plugins[k].mapped
            BY <1>2, <3>1 DEF PhaseInv
        <3>3. QED
            BY <1>1, <1>2, <3>1, <3>2 DEF PhaseInv
    <2>7. QED
        BY <1>4, <2>2, <2>3, <2>4, <2>5, <2>6 DEF ControlStep
<1>5. QED
    BY <1>3, <1>4

LEMMA EnteringPhase == RefInv /\ EnteringStep => (PhaseInv /\ CallPhaseInv)'
<1> SUFFICES ASSUME RefInv, EnteringStep PROVE (PhaseInv /\ CallPhaseInv)'
    OBVIOUS
<1>1. UNCHANGED <<plugins, table>> /\ Indices' = Indices /\ call = NoCall
      /\ NoCall.op = "None"
    BY DEF EnteringStep, InitializeNext, AutoEnable, DisableNext, EnableByName,
           DisableByName, SwitchByName, At, Indices, NoCall
<1>2. /\ Len(plugins) \in Nat /\ Indices = 1 .. Len(plugins)
      /\ ui.pc \in Pcs /\ ui.i \in Int
      /\ PhaseInv /\ CallPhaseInv
    BY EntryTypes DEF RefInv
<1>3. ASSUME NEW op \in {"Initialize", "Enable", "Disable"}, NEW k, BeginCall(op, k)
      PROVE  call'.op = op /\ call'.slot = k
    BY <1>3 DEF BeginCall
<1>4. CASE InitializeNext
    BY <1>1, <1>2, <1>3, <1>4 DEF InitializeNext, At, PhaseInv, CallPhaseInv
<1>5. CASE AutoEnable
    BY <1>1, <1>2, <1>3, <1>5 DEF AutoEnable, MayEnable, At, PhaseInv, CallPhaseInv
<1>6. CASE DisableNext
    <2>1. CASE plugins[ui.i].enabled
        BY <1>1, <1>2, <1>3, <1>6, <2>1 DEF DisableNext, At, PhaseInv, CallPhaseInv
    <2>2. CASE ~plugins[ui.i].enabled
        BY <1>1, <1>2, <1>6, <2>2 DEF DisableNext, At, Goto, PhaseInv, CallPhaseInv
    <2>3. QED
        BY <2>1, <2>2
<1>7. ASSUME NEW k \in Indices, EnableByName(k) \/ DisableByName(k)
      PROVE  (PhaseInv /\ CallPhaseInv)'
    BY <1>1, <1>2, <1>3, <1>7
       DEF EnableByName, DisableByName, MayEnable, MayDisable, SwitchByName, At,
           PhaseInv, CallPhaseInv
<1>8. QED
    BY <1>4, <1>5, <1>6, <1>7 DEF EnteringStep

LEMMA EndCallPhase ==
    ASSUME RefInv, call # NoCall,
           NEW succeeded \in BOOLEAN, NEW n \in Nat, EndCall(succeeded, n)
    PROVE  (PhaseInv /\ CallPhaseInv)'
<1> DEFINE k == call.slot
<1>1. /\ Len(plugins) \in Nat /\ Indices = 1 .. Len(plugins)
      /\ ui.pc \in Pcs /\ ui.i \in Int
      /\ LoaderInv /\ PhaseInv /\ CallPhaseInv
    BY EntryTypes DEF RefInv
<1>2. /\ k \in Indices /\ Indices' = Indices /\ Len(plugins') = Len(plugins)
      /\ \A j \in Indices : j # k => plugins'[j] = plugins[j]
      /\ plugins'[k].mapped = plugins[k].mapped
      /\ call.op = "Initialize" =>
            plugins'[k].enabled = plugins[k].enabled /\ plugins'[k].initialized = succeeded
      /\ call.op = "Enable" =>
            /\ plugins'[k].enabled = succeeded
            /\ plugins'[k].initialized = plugins[k].initialized
      /\ call.op = "Disable" =>
            ~plugins'[k].enabled /\ plugins'[k].initialized = plugins[k].initialized
      /\ call.op \in {"Initialize", "Enable", "Disable"}
    BY <1>1, EndCallFlags
<1>3. /\ call' = NoCall /\ NoCall.op = "None"
      /\ ui'.pc = ui.pc /\ ui'.i = NextIndex
    BY DEF EndCall, Goto, NoCall
<1>4. CallPhaseInv'
    BY <1>3 DEF CallPhaseInv
<1>5. plugins[k].mapped
    BY <1>1, <1>2, EntryTypes DEF LoaderInv, CallInv, MappedInv
<1>6. ASSUME call.op = "Initialize" PROVE PhaseInv'
    <2>1. ui.pc = "initAll" /\ k = ui.i /\ ui'.i = ui.i + 1
        BY <1>1, <1>3, <1>6 DEF CallPhaseInv, NextIndex
    <2>2. \A j \in Indices : /\ ~plugins[j].enabled
                             /\ plugins[j].initialized => plugins[j].mapped
                             /\ j >= ui.i => ~plugins[j].initialized
        BY <1>1, <2>1 DEF PhaseInv
    <2>3. \A j \in Indices : /\ ~plugins'[j].enabled
                             /\ plugins'[j].initialized => plugins'[j].mapped
                             /\ j > ui.i => ~plugins'[j].initialized
        <3>1. plugins'[k].mapped /\ ~plugins'[k].enabled /\ ~(k > ui.i)
            BY <1>1, <1>2, <1>5, <1>6, <2>1, <2>2
        <3>2. \A j \in Indices : j > ui.i => j >= ui.i
            BY <1>1
        <3>3. \A j \in Indices : j # k => plugins'[j] = plugins[j]
            BY <1>2
        <3> HIDE DEF k
        <3>4. QED
            BY <2>2, <3>1, <3>2, <3>3
    <2>4. QED
        BY <1>1, <1>2, <1>3, <2>1, <2>3 DEF PhaseInv
<1>7. ASSUME call.op = "Enable" PROVE PhaseInv'
    <2>1. ui.pc \in {"autoEnable", "idle"} /\ plugins[k].initialized
        BY <1>1, <1>7 DEF CallPhaseInv
    <2>2. QED
        BY <1>1, <1>2, <1>3, <1>5, <1>7, <2>1 DEF PhaseInv
<1>8. ASSUME call.op = "Disable" PROVE PhaseInv'
    <2>1. /\ ui.pc \in {"disableAll", "idle"}
          /\ ui.pc = "disableAll" => k = ui.i /\ ui'.i = ui.i - 1
        BY <1>1, <1>3, <1>8 DEF CallPhaseInv, NextIndex
    <2>2. \A j \in Indices : /\ plugins[j].enabled => plugins[j].initialized
                             /\ plugins[j].initialized => plugins[j].mapped
                             /\ ui.pc = "disableAll" /\ j > ui.i => ~plugins[j].enabled
        BY <1>1 DEF PhaseInv
    <2>3. \A j \in Indices : /\ plugins'[j].enabled => plugins'[j].initialized
                             /\ plugins'[j].initialized => plugins'[j].mapped
        BY <1>2, <1>5, <1>8, <2>2
    <2>4. \A j \in Indices : ui.pc = "disableAll" /\ j > ui.i - 1 => ~plugins'[j].enabled
        BY <1>1, <1>2, <1>8, <2>1, <2>2
    <2>5. ui.pc = "disableAll" => ui.i - 1 <= Len(plugins)
        BY <1>1 DEF PhaseInv
    <2>6. QED
        BY <1>1, <1>2, <1>3, <2>1, <2>3, <2>4, <2>5 DEF PhaseInv
<1>9. QED
    BY <1>2, <1>4, <1>6, <1>7, <1>8

\* Plugin code, an event, and the steps that change the table of plugins as a
\* whole.
LEMMA PluginCodePhase ==
    RefInv /\ (PluginSubscribes \/ PluginUnsubscribes) => (PhaseInv /\ CallPhaseInv)'
<1> SUFFICES ASSUME RefInv, PluginSubscribes \/ PluginUnsubscribes
             PROVE  (PhaseInv /\ CallPhaseInv)'
    OBVIOUS
<1>1. /\ UNCHANGED <<plugins, ui>> /\ Indices' = Indices
      /\ call.op \in {"Enable", "Disable"}
      /\ call' = [call EXCEPT !.todo = Tail(call.todo)]
    BY DEF PluginSubscribes, PluginUnsubscribes, Indices
<1>2. call'.op = call.op /\ call'.slot = call.slot
    BY <1>1 DEF RefInv, LoaderInv, TypeOK
<1>3. ui.pc # "down"
    BY <1>1 DEF RefInv, CallPhaseInv
<1>4. QED
    BY <1>1, <1>2, <1>3 DEF RefInv, PhaseInv, CallPhaseInv

LEMMA EventPhase ==
    RefInv /\ ((\E event \in Events : Fire(event)) \/ Deliver) => (PhaseInv /\ CallPhaseInv)'
    BY DEF RefInv, PhaseInv, CallPhaseInv, Fire, Deliver, Indices

LEMMA EmptyingPhase == RefInv /\ (StartUp \/ Reset) => (PhaseInv /\ CallPhaseInv)'
<1> SUFFICES ASSUME RefInv, StartUp \/ Reset PROVE (PhaseInv /\ CallPhaseInv)'
    OBVIOUS
<1>1. /\ plugins' = <<>> /\ table' = EmptyTable /\ Indices' = {}
      /\ call' = NoCall /\ NoCall.op = "None" /\ ui'.pc \in {"scan", "down"}
    BY DEF StartUp, Reset, At, Goto, Indices, NoCall
<1>2. QED
    BY <1>1 DEF PhaseInv, CallPhaseInv

LEMMA LoadPhase == RefInv /\ (\E dll \in Dlls : TryLoad(dll)) => (PhaseInv /\ CallPhaseInv)'
<1> SUFFICES ASSUME RefInv, NEW dll \in Dlls, TryLoad(dll) PROVE (PhaseInv /\ CallPhaseInv)'
    OBVIOUS
<1> DEFINE e == NewEntry(dll)
<1>1. UNCHANGED <<table, ui, call>> /\ ui.pc = "scan" /\ call = NoCall /\ NoCall.op = "None"
    BY DEF TryLoad, At, NoCall
<1>2. /\ plugins \in Seq(Entry) /\ Len(plugins) \in Nat /\ Indices = 1 .. Len(plugins)
      /\ \A k \in Indices : plugins[k].initialized = FALSE /\ plugins[k].enabled = FALSE
    <2>1. \A k \in Indices : plugins[k].initialized \in BOOLEAN /\ plugins[k].enabled \in BOOLEAN
        BY EntryTypes DEF RefInv
    <2>2. \A k \in Indices : ~plugins[k].initialized /\ ~plugins[k].enabled
        BY <1>1 DEF RefInv, PhaseInv
    <2>3. QED
        BY <2>1, <2>2, EntryTypes DEF RefInv
<1>3. ~e.initialized /\ ~e.enabled
    BY DEF NewEntry
<1>4. plugins' = plugins \/ plugins' = Append(plugins, e)
    BY DEF TryLoad
<1> HIDE DEF e
<1>5. \A k \in Indices' : ~plugins'[k].initialized /\ ~plugins'[k].enabled
    <2>1. CASE plugins' = plugins
        BY <1>2, <2>1 DEF Indices
    <2>2. CASE plugins' = Append(plugins, e)
        <3>1. /\ Indices' = 1 .. (Len(plugins) + 1) /\ plugins'[Len(plugins) + 1] = e
              /\ \A k \in Indices : plugins'[k] = plugins[k]
            BY <1>2, <2>2 DEF Indices
        <3>2. \A k \in Indices' : k \in Indices \/ k = Len(plugins) + 1
            BY <1>2, <3>1
        <3>3. QED
            BY <1>2, <1>3, <3>1, <3>2
    <2>3. QED
        BY <1>4, <2>1, <2>2
<1>6. QED
    BY <1>1, <1>5 DEF PhaseInv, CallPhaseInv

\* The sort is a renumbering of the entries.
LEMMA SortPermutes ==
    ASSUME LoaderInv, SortByPriority
    PROVE  \E f \in [Indices -> Indices] :
              /\ Indices' = Indices
              /\ \A k \in Indices : plugins'[k] = plugins[f[k]]
              /\ \A j \in Indices : \E k \in Indices : f[k] = j
<1>1. PICK f \in [Indices -> Indices] :
         StableOrder(f) /\ plugins' = [k \in 1 .. Len(plugins) |-> plugins[f[k]]]
    BY DEF SortByPriority
<1>2. /\ Indices = 1 .. Len(plugins) /\ Len(plugins) \in Nat
      /\ \A k \in Indices : plugins[k] \in Entry
    BY EntryTypes
<1>3. Indices' = Indices /\ \A k \in Indices : plugins'[k] = plugins[f[k]]
    BY <1>1, <1>2 DEF Indices
<1>4. \A i, j \in Indices : f[i] = f[j] => i = j
    <2>1. \A i \in Indices : plugins[f[i]].priority \in Int /\ f[i] \in Int
        <3> SUFFICES ASSUME NEW i \in Indices
                     PROVE  plugins[f[i]].priority \in Int /\ f[i] \in Int
            OBVIOUS
        <3>1. f[i] \in Indices /\ plugins[f[i]] \in Entry
            BY <1>2
        <3>2. QED
            BY <1>2, <3>1 DEF Entry
    <2>2. \A i, j \in Indices : i < j => f[i] # f[j]
        BY <1>1, <2>1 DEF StableOrder
    <2>3. QED
        BY <1>2, <2>2
<1>5. \A j \in Indices : \E k \in Indices : f[k] = j
    <2>1. f \in Injection(Indices, Indices)
        BY <1>4 DEF Injection, IsInjective
    <2>2. IsFiniteSet(Indices)
        BY <1>2, FS_Interval
    <2>3. f \in Surjection(Indices, Indices)
        BY <2>1, <2>2, FS_Injection
    <2>4. QED
        BY <2>3 DEF Surjection
<1>6. QED
    BY <1>3, <1>5

LEMMA SortPhase == RefInv /\ SortByPriority => (PhaseInv /\ CallPhaseInv)'
<1> SUFFICES ASSUME RefInv, SortByPriority PROVE (PhaseInv /\ CallPhaseInv)'
    OBVIOUS
<1>1. /\ UNCHANGED <<table, call>> /\ ui.pc = "scan" /\ ui'.pc = "initAll"
      /\ call = NoCall /\ NoCall.op = "None"
    BY DEF SortByPriority, At, Goto, NoCall
<1>2. \A k \in Indices : ~plugins[k].initialized /\ ~plugins[k].enabled
    BY <1>1 DEF RefInv, PhaseInv
<1>3. \A k \in Indices' : ~plugins'[k].initialized /\ ~plugins'[k].enabled
    BY <1>2, SortPermutes DEF RefInv
<1>4. QED
    BY <1>1, <1>3 DEF PhaseInv, CallPhaseInv

LEMMA ShutdownPhase == RefInv /\ ShutdownNext => (PhaseInv /\ CallPhaseInv)'
<1> SUFFICES ASSUME RefInv, ShutdownNext PROVE (PhaseInv /\ CallPhaseInv)'
    OBVIOUS
<1> DEFINE e == [plugins[ui.i] EXCEPT !.initialized = FALSE]
<1>1. /\ call = NoCall /\ call' = call /\ NoCall.op = "None"
      /\ ui.pc = "shutdownAll" /\ ui'.pc = "freeing" /\ ui'.i = ui.i /\ ui.i \in Indices
      /\ plugins' = [plugins EXCEPT ![ui.i] = e]
    BY DEF ShutdownNext, At, Goto, NoCall
<1>2. /\ plugins \in Seq(Entry) /\ Indices = 1 .. Len(plugins) /\ Len(plugins) \in Nat
      /\ plugins[ui.i] \in Entry /\ ui.i \in Int /\ PhaseInv
    BY <1>1, EntryTypes DEF RefInv
<1>3. ~e.initialized /\ e.enabled = plugins[ui.i].enabled /\ e.mapped = plugins[ui.i].mapped
    BY <1>2 DEF Entry
<1> HIDE DEF e
<1>4. /\ Indices' = Indices
      /\ plugins'[ui.i] = e /\ \A k \in Indices : k # ui.i => plugins'[k] = plugins[k]
    BY <1>1, <1>2 DEF Indices
<1>5. ui.i >= 1 /\ \A k \in Indices : /\ ~plugins[k].enabled
                                      /\ plugins[k].initialized => plugins[k].mapped
                                      /\ k < ui.i => ~plugins[k].mapped
    BY <1>1, <1>2 DEF PhaseInv
<1>6. \A k \in Indices : /\ ~plugins'[k].enabled
                         /\ plugins'[k].initialized => plugins'[k].mapped
                         /\ k < ui.i => ~plugins'[k].mapped
    BY <1>2, <1>3, <1>4, <1>5
<1>7. QED
    BY <1>1, <1>3, <1>4, <1>5, <1>6 DEF PhaseInv, CallPhaseInv

LEMMA FreePhase == RefInv /\ FreeDll => (PhaseInv /\ CallPhaseInv)'
<1> SUFFICES ASSUME RefInv, FreeDll PROVE (PhaseInv /\ CallPhaseInv)'
    OBVIOUS
<1> DEFINE e == [plugins[ui.i] EXCEPT !.mapped = FALSE]
<1>1. /\ call = NoCall /\ call' = call /\ NoCall.op = "None"
      /\ ui.pc = "freeing" /\ ui'.pc = "shutdownAll" /\ ui'.i = ui.i + 1
      /\ plugins' = [plugins EXCEPT ![ui.i] = e]
    BY DEF FreeDll, At, Goto, NoCall
<1>2. /\ plugins \in Seq(Entry) /\ Indices = 1 .. Len(plugins) /\ Len(plugins) \in Nat
      /\ ui.i \in Indices /\ plugins[ui.i] \in Entry /\ ui.i \in Int /\ PhaseInv
    BY <1>1, EntryTypes DEF RefInv, LoaderInv, MappedInv
<1>3. /\ ~e.mapped /\ e.enabled = plugins[ui.i].enabled
      /\ e.initialized = plugins[ui.i].initialized
    BY <1>2 DEF Entry
<1> HIDE DEF e
<1>4. /\ Indices' = Indices
      /\ plugins'[ui.i] = e /\ \A k \in Indices : k # ui.i => plugins'[k] = plugins[k]
    BY <1>1, <1>2 DEF Indices
<1>5. /\ ui.i >= 1 /\ ~plugins[ui.i].initialized
      /\ \A k \in Indices : /\ ~plugins[k].enabled
                            /\ plugins[k].initialized => plugins[k].mapped
                            /\ k < ui.i => ~plugins[k].mapped
    BY <1>1, <1>2 DEF PhaseInv
<1>6. \A k \in Indices : /\ ~plugins'[k].enabled
                         /\ plugins'[k].initialized => plugins'[k].mapped
                         /\ k < ui.i + 1 => ~plugins'[k].mapped
    BY <1>2, <1>3, <1>4, <1>5
<1>7. QED
    BY <1>1, <1>2, <1>4, <1>5, <1>6 DEF PhaseInv, CallPhaseInv

LEMMA NextPhase == RefInv /\ [Next]_vars => RefInv'
<1> SUFFICES ASSUME RefInv, [Next]_vars PROVE (PhaseInv /\ CallPhaseInv)'
    BY NextInv DEF RefInv
<1>1. CASE UNCHANGED vars
    BY <1>1 DEF vars, RefInv, PhaseInv, CallPhaseInv, Indices
<1>2. CASE Loading
    BY <1>2, EmptyingPhase, LoadPhase, SortPhase, EnteringPhase, ControlPhase
       DEF Loading, EnteringStep, ControlStep
<1>3. CASE PluginSubscribes \/ PluginUnsubscribes
    BY <1>3, PluginCodePhase
<1>4. CASE PluginReturns \/ PluginRefuses \/ PluginFaults
    <2>1. call # NoCall
        <3>1. NoCall.op = "None"
            BY DEF NoCall
        <3>2. QED
            BY <1>4, <3>1 DEF PluginReturns, PluginRefuses, PluginFaults
    <2>2. EndCall(TRUE, 0) \/ EndCall(FALSE, 0) \/ EndCall(FALSE, 1)
        BY <1>4 DEF PluginReturns, PluginRefuses, PluginFaults
    <2>3. QED
        BY <2>1, <2>2, EndCallPhase
<1>5. CASE Serving
    BY <1>5, EnteringPhase, EventPhase DEF Serving, EnteringStep
<1>6. CASE Teardown
    BY <1>6, ControlPhase, EnteringPhase, ShutdownPhase, FreePhase, EmptyingPhase
       DEF Teardown, EnteringStep, ControlStep
<1>7. CASE Reader
    BY <1>7, ControlPhase DEF Reader, ControlStep
<1>8. QED
    BY <1>1, <1>2, <1>3, <1>4, <1>5, <1>6, <1>7 DEF Next, CallStep

(***************************************************************************)
(* Phases.                                                                 *)
(***************************************************************************)
PhaseIn(ps, p) ==
    IF \E k \in DOMAIN ps : ps[k].name = p
    THEN PhaseOf(ps[CHOOSE k \in DOMAIN ps : ps[k].name = p])
    ELSE "unloaded"

LEMMA PhaseIs ==
    ASSUME NEW p
    PROVE  Phase(p) = PhaseIn(plugins, p) /\ Phase(p)' = PhaseIn(plugins', p)
    BY DEF Phase, PhaseIn, Indices, PhaseOf

\* A name that is in the table picks its one entry.
LEMMA PhaseOfEntry ==
    ASSUME NEW ps, \A j, k \in DOMAIN ps : ps[j].name = ps[k].name => j = k
    PROVE  /\ \A k \in DOMAIN ps : PhaseIn(ps, ps[k].name) = PhaseOf(ps[k])
           /\ \A p : (\A k \in DOMAIN ps : ps[k].name # p) => PhaseIn(ps, p) = "unloaded"
<1>1. ASSUME NEW k \in DOMAIN ps PROVE PhaseIn(ps, ps[k].name) = PhaseOf(ps[k])
    <2>1. (CHOOSE j \in DOMAIN ps : ps[j].name = ps[k].name) = k
        OBVIOUS
    <2>2. QED
        BY <2>1 DEF PhaseIn
<1>2. QED
    BY <1>1 DEF PhaseIn

LEMMA PhaseValues ==
    ASSUME NEW e
    PROVE  /\ e.enabled => PhaseOf(e) = "enabled"
           /\ ~e.enabled /\ e.initialized => PhaseOf(e) = "initialized"
           /\ ~e.enabled /\ ~e.initialized /\ e.mapped => PhaseOf(e) = "loaded"
           /\ ~e.enabled /\ ~e.initialized /\ ~e.mapped => PhaseOf(e) = "unloaded"
    BY DEF PhaseOf

\* When one entry changes, one phase may.
LEMMA OneEntryChanges ==
    ASSUME RefInv, EntriesDistinct', Indices' = Indices, NEW k \in Indices,
           NEW p, plugins[k].name = p, plugins'[k].name = p,
           \A j \in Indices : j # k => plugins'[j] = plugins[j]
    PROVE  /\ p \in Names
           /\ Phase(p) = PhaseOf(plugins[k]) /\ Phase(p)' = PhaseOf(plugins'[k])
           /\ \A q \in Names : q # p => Phase(q)' = Phase(q)
<1>1. /\ Indices = DOMAIN plugins /\ DOMAIN plugins' = Indices /\ p \in Names
      /\ EntriesDistinct
    BY EntryTypes DEF Indices, RefInv, LoaderInv
<1>2. /\ \A i, j \in DOMAIN plugins : plugins[i].name = plugins[j].name => i = j
      /\ \A i, j \in DOMAIN plugins' : plugins'[i].name = plugins'[j].name => i = j
    BY <1>1 DEF EntriesDistinct
<1>3. PhaseIn(plugins, p) = PhaseOf(plugins[k]) /\ PhaseIn(plugins', p) = PhaseOf(plugins'[k])
    <2>1. PhaseIn(plugins', plugins'[k].name) = PhaseOf(plugins'[k])
        BY <1>1, <1>2, PhaseOfEntry
    <2>2. QED
        BY <1>1, <1>2, <2>1, PhaseOfEntry
<1>4. ASSUME NEW q \in Names, q # p PROVE PhaseIn(plugins', q) = PhaseIn(plugins, q)
    <2>1. CASE \E j \in Indices : plugins[j].name = q
        <3>1. PICK j \in Indices : plugins[j].name = q
            BY <2>1
        <3>2. j # k /\ plugins'[j] = plugins[j]
            BY <1>4, <3>1
        <3>3. PhaseIn(plugins, plugins[j].name) = PhaseOf(plugins[j])
            BY <1>1, <1>2, PhaseOfEntry
        <3>4. PhaseIn(plugins', plugins'[j].name) = PhaseOf(plugins'[j])
            BY <1>1, <1>2, PhaseOfEntry
        <3>5. QED
            BY <3>1, <3>2, <3>3, <3>4
    <2>2. CASE \A j \in Indices : plugins[j].name # q
        <3>1. \A j \in Indices : plugins'[j].name # q
            BY <1>4, <2>2
        <3>2. PhaseIn(plugins, q) = "unloaded" /\ PhaseIn(plugins', q) = "unloaded"
            BY <1>1, <1>2, <2>2, <3>1, PhaseOfEntry
        <3>3. QED
            BY <3>2
    <2>3. QED
        BY <2>1, <2>2
<1>5. QED
    BY <1>1, <1>3, <1>4, PhaseIs

LEMMA SamePhases ==
    ASSUME plugins' = plugins
    PROVE  \A q : Phase(q)' = Phase(q)
    BY PhaseIs

(***************************************************************************)
(* Steps of PluginLifecycle.                                               *)
(***************************************************************************)
LEMMA Stays ==
    ASSUME \A q \in Names : Phase(q)' = Phase(q), Listening' = Listening
    PROVE  UNCHANGED Lifecycle!vars
    BY DEF Lifecycle!vars

LEMMA Moves ==
    ASSUME NEW p \in Names, NEW from, NEW to,
           Phase(p) = from, Phase(p)' = to,
           \A q \in Names : q # p => Phase(q)' = Phase(q)
    PROVE  Lifecycle!Move(p, from, to)
    BY DEF Lifecycle!Move

\* A step that stays in its phase and takes p, at most, from the listeners.
LEMMA Unlistens ==
    ASSUME NEW p \in Names, \A q \in Names : Phase(q)' = Phase(q),
           Listening' \subseteq Listening, Listening \ {p} \subseteq Listening'
    PROVE  [Lifecycle!Next]_Lifecycle!vars
<1>1. CASE p \in Listening'
    <2>1. Listening' = Listening
        BY <1>1
    <2>2. QED
        BY <2>1, Stays
<1>2. CASE p \notin Listening'
    <2>1. Listening' = Listening \ {p}
        BY <1>2
    <2>2. Lifecycle!Unlisten(p)
        BY <2>1 DEF Lifecycle!Unlisten
    <2>3. QED
        BY <2>2 DEF Lifecycle!Next, Lifecycle!Step
<1>3. QED
    BY <1>1, <1>2

\* And one that adds p to them, at most.
LEMMA Listens ==
    ASSUME NEW p \in Names, \A q \in Names : Phase(q)' = Phase(q),
           Phase(p) = "initialized", Listening' \in {Listening, Listening \cup {p}}
    PROVE  [Lifecycle!Next]_Lifecycle!vars
<1>1. CASE Listening' = Listening
    BY <1>1, Stays
<1>2. CASE Listening' = Listening \cup {p}
    <2>1. Lifecycle!Listen(p)
        BY <1>2 DEF Lifecycle!Listen
    <2>2. QED
        BY <2>1 DEF Lifecycle!Next, Lifecycle!Step
<1>3. QED
    BY <1>1, <1>2

(***************************************************************************)
(* Who is listening.                                                       *)
(***************************************************************************)
LEMMA ListeningAfterSubscribe ==
    ASSUME table \in Table(Sub), NEW sub \in Sub, table' = Subscribed(table, sub)
    PROVE  Listening' \in {Listening, Listening \cup {sub.owner}}
<1>1. CASE ~CanSubscribe(table)
    <2>1. table' = table
        BY <1>1 DEF Subscribed
    <2>2. QED
        BY <2>1 DEF Listening
<1>2. CASE CanSubscribe(table)
    <2> DEFINE f == FirstSlot(FreeSlots(table))
    <2>1. f \in Slots /\ f \notin ActiveSlots(table)
        <3>1. FreeSlots(table) \in SUBSET Slots /\ FreeSlots(table) # {}
            BY <1>2 DEF FreeSlots, CanSubscribe
        <3>2. f \in FreeSlots(table)
            BY <3>1, FirstSlotIsOne
        <3>3. QED
            BY <3>2 DEF FreeSlots
    <2>2. table'.slot = [table.slot EXCEPT ![f] = sub] /\ DOMAIN table.slot = Slots
        BY <1>2 DEF Subscribed, Table
    <2> HIDE DEF f
    <2>3. ActiveSlots(table') = ActiveSlots(table) \cup {f}
        BY <2>1, <2>2, SubIsNotNoSub DEF ActiveSlots
    <2>4. \A s \in ActiveSlots(table) : table'.slot[s] = table.slot[s]
        BY <2>1, <2>2 DEF ActiveSlots
    <2>5. table'.slot[f] = sub
        BY <2>1, <2>2
    <2>6. QED
        BY <2>3, <2>4, <2>5 DEF Listening
<1>3. QED
    BY <1>1, <1>2

LEMMA ListeningAfterUnsubscribe ==
    ASSUME table \in Table(Sub), NEW event, NEW owner,
           table' = Unsubscribed(table, event, owner)
    PROVE  Listening' \subseteq Listening /\ Listening \ {owner} \subseteq Listening'
<1> DEFINE found == SlotsOfCallback(table, event, owner)
           f == FirstSlot(found)
<1>1. CASE found = {}
    <2>1. table' = table
        BY <1>1 DEF Unsubscribed
    <2>2. QED
        BY <2>1 DEF Listening
<1>2. CASE found # {}
    <2>1. f \in ActiveSlots(table) /\ table.slot[f].owner = owner
        <3>1. found \in SUBSET Slots
            BY DEF SlotsOfCallback, SlotsOn, ActiveSlots
        <3>2. f \in found
            BY <1>2, <3>1, FirstSlotIsOne
        <3>3. QED
            BY <3>2 DEF SlotsOfCallback, SlotsOn
    <2>2. table'.slot = [table.slot EXCEPT ![f] = NoSub] /\ DOMAIN table.slot = Slots
        BY <1>2 DEF Unsubscribed, Table
    <2> HIDE DEF f
    <2>3. ActiveSlots(table') = ActiveSlots(table) \ {f}
        BY <2>1, <2>2 DEF ActiveSlots
    <2>4. \A s \in ActiveSlots(table') : table'.slot[s] = table.slot[s]
        BY <2>2, <2>3 DEF ActiveSlots
    <2>5. QED
        BY <2>1, <2>3, <2>4 DEF Listening
<1>3. QED
    BY <1>1, <1>2

\* What is filed under the id of a plugin is what the plugin filed.
LEMMA ListeningAfterRemove ==
    ASSUME LoaderInv, NEW k \in Indices, table' = RemovedByPlugin(table, plugins[k].id)
    PROVE  Listening' = Listening \ {plugins[k].name}
<1> DEFINE gone == SlotsOfPlugin(table, plugins[k].id)
<1>1. table'.slot = [s \in Slots |-> IF s \in gone THEN NoSub ELSE table.slot[s]]
    BY DEF RemovedByPlugin
<1>2. \A s \in ActiveSlots(table) : s \in gone <=> table.slot[s].owner = plugins[k].name
    <2> SUFFICES ASSUME NEW s \in ActiveSlots(table)
                 PROVE  table.slot[s].id = plugins[k].id
                           <=> table.slot[s].owner = plugins[k].name
        BY DEF SlotsOfPlugin
    <2>1. PICK j \in Indices : /\ plugins[j].name = table.slot[s].owner
                               /\ plugins[j].id = table.slot[s].id
        BY DEF LoaderInv, AllFiledRight, FiledRight
    <2>2. QED
        BY <2>1 DEF LoaderInv, EntriesDistinct
<1> HIDE DEF gone
<1>3. /\ ActiveSlots(table') = ActiveSlots(table) \ gone
      /\ \A s \in ActiveSlots(table') : table'.slot[s] = table.slot[s]
    BY <1>1 DEF ActiveSlots
<1>4. QED
    BY <1>2, <1>3 DEF Listening

(***************************************************************************)
(* Every step of the loader is one of the lifecycle's, or none.            *)
(***************************************************************************)
LEMMA InitRefines == Init => Lifecycle!Init
<1> SUFFICES ASSUME Init PROVE Lifecycle!Init
    OBVIOUS
<1>1. Indices = {} /\ ActiveSlots(table) = {}
    BY TableIsEmpty DEF Init, Indices
<1>2. \A p : Phase(p) = "unloaded"
    BY <1>1 DEF Phase
<1>3. Listening = {}
    BY <1>1 DEF Listening
<1>4. QED
    BY <1>2, <1>3 DEF Lifecycle!Init

LEMMA EndCallRefines ==
    ASSUME RefInv, RefInv', call # NoCall,
           NEW succeeded \in BOOLEAN, NEW n \in Nat, EndCall(succeeded, n)
    PROVE  [Lifecycle!Next]_Lifecycle!vars
<1> PICK k, p : k = call.slot /\ p = plugins[call.slot].name
    OBVIOUS
<1> DEFINE old == plugins[k]
           new == plugins'[k]
<1>1. /\ k \in Indices /\ Indices' = Indices
      /\ \A j \in Indices : j # k => plugins'[j] = plugins[j]
      /\ old.name = p /\ new.name = p /\ new.mapped = old.mapped
      /\ call.op = "Initialize" => new.enabled = old.enabled /\ new.initialized = succeeded
      /\ call.op = "Enable" => new.enabled = succeeded /\ new.initialized = old.initialized
      /\ call.op = "Disable" => ~new.enabled /\ new.initialized = old.initialized
      /\ call.op \in {"Initialize", "Enable", "Disable"}
    BY EndCallFlags DEF RefInv
<1>2. LoaderInv /\ PhaseInv /\ CallPhaseInv /\ EntriesDistinct'
    BY DEF RefInv, LoaderInv
<1>3. /\ p \in Names /\ Phase(p) = PhaseOf(old) /\ Phase(p)' = PhaseOf(new)
      /\ \A q \in Names : q # p => Phase(q)' = Phase(q)
    BY <1>1, <1>2, OneEntryChanges
<1>4. Listening' = Listening
    BY DEF EndCall, Listening
<1>5. /\ old.enabled => old.initialized
      /\ old.mapped
    BY <1>1, <1>2 DEF PhaseInv, LoaderInv, CallInv, MappedInv
<1>6. ASSUME Phase(p)' = Phase(p) PROVE [Lifecycle!Next]_Lifecycle!vars
    BY <1>3, <1>4, <1>6, Stays
<1> HIDE DEF old, new
<1>7. CASE call.op = "Initialize"
    <2>1. ~old.initialized /\ ~old.enabled
        BY <1>2, <1>5, <1>7 DEF CallPhaseInv, old
    <2>2. CASE succeeded
        <3>1. Phase(p) = "loaded" /\ Phase(p)' = "initialized"
            BY <1>1, <1>3, <1>5, <1>7, <2>1, <2>2, PhaseValues
        <3>2. Lifecycle!Initialize(p)
            BY <1>3, <1>4, <3>1, Moves DEF Lifecycle!Initialize
        <3>3. QED
            BY <1>3, <3>2 DEF Lifecycle!Next, Lifecycle!Step
    <2>3. CASE ~succeeded
        <3>1. Phase(p) = "loaded" /\ Phase(p)' = "loaded"
            BY <1>1, <1>3, <1>5, <1>7, <2>1, <2>3, PhaseValues
        <3>2. QED
            BY <1>6, <3>1
    <2>4. QED
        BY <2>2, <2>3
<1>8. CASE call.op = "Enable"
    <2>1. old.initialized /\ ~old.enabled
        BY <1>2, <1>8 DEF CallPhaseInv, old
    <2>2. CASE succeeded
        <3>1. Phase(p) = "initialized" /\ Phase(p)' = "enabled"
            BY <1>1, <1>3, <1>8, <2>1, <2>2, PhaseValues
        <3>2. Lifecycle!Enable(p)
            BY <1>3, <1>4, <3>1, Moves DEF Lifecycle!Enable
        <3>3. QED
            BY <1>3, <3>2 DEF Lifecycle!Next, Lifecycle!Step
    <2>3. CASE ~succeeded
        <3>1. Phase(p) = "initialized" /\ Phase(p)' = "initialized"
            BY <1>1, <1>3, <1>8, <2>1, <2>3, PhaseValues
        <3>2. QED
            BY <1>6, <3>1
    <2>4. QED
        BY <2>2, <2>3
<1>9. CASE call.op = "Disable"
    <2>1. old.enabled
        BY <1>2, <1>9 DEF CallPhaseInv, old
    <2>2. Phase(p) = "enabled" /\ Phase(p)' = "initialized"
        BY <1>1, <1>3, <1>5, <1>9, <2>1, PhaseValues
    <2>3. Lifecycle!Disable(p)
        BY <1>3, <1>4, <2>2, Moves DEF Lifecycle!Disable
    <2>4. QED
        BY <1>3, <2>3 DEF Lifecycle!Next, Lifecycle!Step
<1>10. QED
    BY <1>1, <1>7, <1>8, <1>9

\* Plugin code subscribes and unsubscribes its own callbacks.
LEMMA PluginCodeRefines ==
    ASSUME RefInv, PluginSubscribes \/ PluginUnsubscribes
    PROVE  [Lifecycle!Next]_Lifecycle!vars
<1> PICK p : p = plugins[call.slot].name
    OBVIOUS
<1>1. /\ plugins' = plugins /\ call # NoCall /\ call.todo # <<>>
      /\ call.op \in {"Enable", "Disable"}
    BY DEF PluginSubscribes, PluginUnsubscribes, NoCall
<1>2. LoaderInv /\ PhaseInv /\ CallPhaseInv /\ table \in Table(Sub)
    BY DEF RefInv, LoaderInv, TypeOK
<1>3. call.slot \in Indices /\ cur.id = plugins[call.slot].id
    BY <1>1, <1>2 DEF LoaderInv, CallInv
<1>4. plugins[call.slot] \in Entry /\ p \in Names
    BY <1>2, <1>3, EntryTypes
<1>5. \A q \in Names : Phase(q)' = Phase(q)
    BY <1>1, SamePhases
<1>6. CASE PluginUnsubscribes
    <2>1. Listening' \subseteq Listening /\ Listening \ {p} \subseteq Listening'
        BY <1>2, <1>6, ListeningAfterUnsubscribe DEF PluginUnsubscribes
    <2>2. QED
        BY <1>4, <1>5, <2>1, Unlistens
<1>7. CASE PluginSubscribes
    <2> DEFINE sub == [event |-> Head(call.todo), owner |-> p, id |-> cur.id]
    <2>1. sub \in Sub
        <3>1. Head(call.todo) \in Events
            BY <1>1, <1>2 DEF LoaderInv, TypeOK
        <3>2. cur.id \in Int
            BY <1>3, <1>4 DEF Entry
        <3>3. QED
            BY <1>4, <3>1, <3>2 DEF Sub, Subscription
    <2>2. table' = Subscribed(table, sub) /\ sub.owner = p
        BY <1>7 DEF PluginSubscribes
    <2>3. Listening' \in {Listening, Listening \cup {p}}
        <3> HIDE DEF sub
        <3>1. QED
            BY <1>2, <2>1, <2>2, ListeningAfterSubscribe
    <2>4. Phase(p) = "initialized"
        <3>1. call.op = "Enable"
            BY <1>7 DEF PluginSubscribes
        <3>2. plugins[call.slot].initialized /\ ~plugins[call.slot].enabled
            BY <1>2, <3>1 DEF CallPhaseInv
        <3>3. Phase(p) = PhaseOf(plugins[call.slot])
            BY <1>2, <1>3, PhaseIs, PhaseOfEntry DEF LoaderInv, EntriesDistinct, Indices
        <3>4. QED
            BY <3>2, <3>3, PhaseValues
    <2>5. QED
        BY <1>4, <1>5, <2>3, <2>4, Listens
<1>8. QED
    BY <1>6, <1>7

\* TryLoadPluginDll brings one name into the table.
LEMMA LoadRefines ==
    ASSUME RefInv, EntriesDistinct', NEW dll \in Dlls, TryLoad(dll)
    PROVE  [Lifecycle!Next]_Lifecycle!vars
<1> PICK e, p, n : e = NewEntry(dll) /\ p = Meta[dll].name /\ n = Len(plugins) + 1
    OBVIOUS
<1>1. /\ p \in Names /\ e.name = p
      /\ PhaseOf(e) = "loaded" /\ Listening' = Listening
    <2>1. p \in Names
        BY MetaAssumption
    <2>2. e.name = p /\ e.mapped /\ ~e.initialized /\ ~e.enabled
        BY DEF NewEntry
    <2>3. Listening' = Listening
        BY DEF TryLoad, Listening
    <2>4. QED
        BY <2>1, <2>2, <2>3, PhaseValues
<1>2. /\ plugins \in Seq(Entry) /\ Len(plugins) \in Nat /\ Indices = 1 .. Len(plugins)
      /\ Indices = DOMAIN plugins /\ EntriesDistinct
    BY EntryTypes DEF RefInv, LoaderInv, Indices
<1>3. CASE plugins' = plugins
    BY <1>1, <1>3, SamePhases, Stays
<1>4. CASE plugins' # plugins
    <2>1. plugins' = Append(plugins, e) /\ \A k \in Indices : plugins[k].name # p
        BY <1>4 DEF TryLoad
    <2>2. /\ DOMAIN plugins' = 1 .. n /\ n \in 1 .. n /\ n \notin Indices
          /\ plugins'[n] = e /\ \A k \in Indices : k \in 1 .. n /\ plugins'[k] = plugins[k]
          /\ \A k \in 1 .. n : k \in Indices \/ k = n
        BY <1>2, <2>1
    <2>3. /\ \A i, j \in DOMAIN plugins : plugins[i].name = plugins[j].name => i = j
          /\ \A i, j \in DOMAIN plugins' : plugins'[i].name = plugins'[j].name => i = j
        BY <1>2 DEF EntriesDistinct, Indices
    <2>4. PhaseIn(plugins, p) = "unloaded"
        BY <1>2, <2>1, <2>3, PhaseOfEntry
    <2>5. PhaseIn(plugins', p) = "loaded"
        <3>1. PhaseIn(plugins', plugins'[n].name) = PhaseOf(plugins'[n])
            BY <2>2, <2>3, PhaseOfEntry
        <3>2. QED
            BY <1>1, <2>2, <3>1
    <2>6. ASSUME NEW q \in Names, q # p PROVE PhaseIn(plugins', q) = PhaseIn(plugins, q)
        <3>1. CASE \E k \in Indices : plugins[k].name = q
            <4>1. PICK k \in Indices : plugins[k].name = q
                BY <3>1
            <4>2. PhaseIn(plugins, plugins[k].name) = PhaseOf(plugins[k])
                BY <1>2, <2>3, PhaseOfEntry
            <4>3. PhaseIn(plugins', plugins'[k].name) = PhaseOf(plugins'[k])
                BY <2>2, <2>3, PhaseOfEntry
            <4>4. QED
                BY <2>2, <4>1, <4>2, <4>3
        <3>2. CASE \A k \in Indices : plugins[k].name # q
            <4>1. \A k \in DOMAIN plugins' : plugins'[k].name # q
                BY <1>1, <2>2, <2>6, <3>2
            <4>2. PhaseIn(plugins, q) = "unloaded" /\ PhaseIn(plugins', q) = "unloaded"
                BY <1>2, <2>3, <3>2, <4>1, PhaseOfEntry
            <4>3. QED
                BY <4>2
        <3>3. QED
            BY <3>1, <3>2
    <2>7. Lifecycle!Move(p, "unloaded", "loaded")
        BY <1>1, <2>4, <2>5, <2>6, PhaseIs, Moves
    <2>8. Lifecycle!Load(p)
        BY <1>1, <2>7 DEF Lifecycle!Load
    <2>9. QED
        BY <1>1, <2>8 DEF Lifecycle!Next, Lifecycle!Step
<1>5. QED
    BY <1>3, <1>4

\* The sort leaves every name with its entry.
LEMMA SortRefines ==
    ASSUME RefInv, EntriesDistinct', SortByPriority
    PROVE  [Lifecycle!Next]_Lifecycle!vars
<1>1. PICK f \in [Indices -> Indices] :
         /\ Indices' = Indices
         /\ \A k \in Indices : plugins'[k] = plugins[f[k]]
         /\ \A j \in Indices : \E k \in Indices : f[k] = j
    BY SortPermutes DEF RefInv
<1>2. /\ \A i, j \in DOMAIN plugins : plugins[i].name = plugins[j].name => i = j
      /\ \A i, j \in DOMAIN plugins' : plugins'[i].name = plugins'[j].name => i = j
      /\ DOMAIN plugins = Indices /\ DOMAIN plugins' = Indices
    BY <1>1 DEF EntriesDistinct, Indices, RefInv, LoaderInv
<1>3. ASSUME NEW q PROVE PhaseIn(plugins', q) = PhaseIn(plugins, q)
    <2>1. CASE \E j \in Indices : plugins[j].name = q
        <3>1. PICK j \in Indices : plugins[j].name = q
            BY <2>1
        <3>2. PICK k \in Indices : f[k] = j
            BY <1>1
        <3>3. plugins'[k] = plugins[j]
            BY <1>1, <3>2
        <3>4. PhaseIn(plugins, plugins[j].name) = PhaseOf(plugins[j])
            BY <1>2, PhaseOfEntry
        <3>5. PhaseIn(plugins', plugins'[k].name) = PhaseOf(plugins'[k])
            BY <1>2, PhaseOfEntry
        <3>6. QED
            BY <3>1, <3>3, <3>4, <3>5
    <2>2. CASE \A j \in Indices : plugins[j].name # q
        <3>1. \A k \in DOMAIN plugins' : plugins'[k].name # q
            BY <1>1, <1>2, <2>2
        <3>2. PhaseIn(plugins, q) = "unloaded" /\ PhaseIn(plugins', q) = "unloaded"
            BY <1>2, <2>2, <3>1, PhaseOfEntry
        <3>3. QED
            BY <3>2
    <2>3. QED
        BY <2>1, <2>2
<1>4. Listening' = Listening
    BY DEF SortByPriority, Listening
<1>5. QED
    BY <1>3, <1>4, PhaseIs, Stays

\* TE_PluginLoaderShutdownAll removes the callbacks of a plugin and calls its
\* Shutdown; one that was never initialized just loses its callbacks.
LEMMA ShutdownRefines ==
    ASSUME RefInv, EntriesDistinct', ShutdownNext
    PROVE  [Lifecycle!Next]_Lifecycle!vars
<1> PICK i, p : i = ui.i /\ p = plugins[ui.i].name
    OBVIOUS
<1> DEFINE old == plugins[i]
           e == [old EXCEPT !.initialized = FALSE]
<1>1. /\ i \in Indices /\ ui.pc = "shutdownAll"
      /\ table' = RemovedByPlugin(table, old.id) /\ plugins' = [plugins EXCEPT ![i] = e]
    BY DEF ShutdownNext, At
<1>2. /\ LoaderInv /\ PhaseInv /\ Indices = DOMAIN plugins
      /\ old \in Entry /\ old.name = p
    BY <1>1, EntryTypes DEF RefInv, Indices
<1>3. /\ e.name = p /\ ~e.initialized /\ e.enabled = old.enabled /\ e.mapped = old.mapped
    BY <1>2 DEF Entry
<1>4. ~old.enabled /\ old.mapped
    BY <1>1, <1>2, EntryTypes DEF PhaseInv, LoaderInv, MappedInv
<1> HIDE DEF e
<1>5. /\ Indices' = Indices /\ plugins'[i] = e
      /\ \A j \in Indices : j # i => plugins'[j] = plugins[j]
    BY <1>1, <1>2 DEF Indices
<1>6. /\ p \in Names /\ Phase(p) = PhaseOf(old) /\ Phase(p)' = PhaseOf(e)
      /\ \A q \in Names : q # p => Phase(q)' = Phase(q)
    <2>1. plugins'[i].name = p
        BY <1>3, <1>5
    <2>2. /\ p \in Names /\ Phase(p) = PhaseOf(plugins[i]) /\ Phase(p)' = PhaseOf(plugins'[i])
          /\ \A q \in Names : q # p => Phase(q)' = Phase(q)
        BY <1>1, <1>2, <1>5, <2>1, OneEntryChanges
    <2>3. QED
        BY <1>5, <2>2
<1>7. Listening' = Listening \ {p}
    BY <1>1, <1>2, ListeningAfterRemove
<1>8. Phase(p)' = "loaded"
    BY <1>3, <1>4, <1>6, PhaseValues
<1>9. CASE old.initialized
    <2>1. Phase(p) = "initialized"
        BY <1>4, <1>6, <1>9, PhaseValues
    <2>2. Lifecycle!Shutdown(p)
        BY <1>6, <1>7, <1>8, <2>1, Moves DEF Lifecycle!Shutdown
    <2>3. QED
        BY <1>6, <2>2 DEF Lifecycle!Next, Lifecycle!Step
<1>10. CASE ~old.initialized
    <2>1. Phase(p) = "loaded"
        BY <1>4, <1>6, <1>10, PhaseValues
    <2>2. \A q \in Names : Phase(q)' = Phase(q)
        BY <1>6, <1>8, <2>1
    <2>3. QED
        BY <1>6, <1>7, <2>2, Unlistens
<1>11. QED
    BY <1>9, <1>10

\* FreeLibrary comes when nothing of the DLL is listening.
LEMMA FreeRefines ==
    ASSUME RefInv, EntriesDistinct', FreeDll
    PROVE  [Lifecycle!Next]_Lifecycle!vars
<1> PICK i, p : i = ui.i /\ p = plugins[ui.i].name
    OBVIOUS
<1> DEFINE old == plugins[i]
           e == [old EXCEPT !.mapped = FALSE]
<1>1. /\ ui.pc = "freeing" /\ UNCHANGED table
      /\ plugins' = [plugins EXCEPT ![i] = e]
    BY DEF FreeDll, At
<1>2. LoaderInv /\ PhaseInv /\ i \in Indices /\ Indices = DOMAIN plugins
      /\ SlotsOfPlugin(table, old.id) = {}
    BY <1>1 DEF RefInv, LoaderInv, MappedInv, Indices
<1>3. /\ old \in Entry /\ old.name = p
      /\ old.mapped /\ ~old.initialized /\ ~old.enabled
    <2>1. i \in Int
        BY <1>2, EntryTypes
    <2>2. QED
        BY <1>1, <1>2, <2>1, EntryTypes DEF PhaseInv, LoaderInv, MappedInv
<1>4. /\ e.name = p /\ ~e.initialized /\ ~e.enabled /\ ~e.mapped
    BY <1>3 DEF Entry
<1> HIDE DEF e
<1>5. /\ Indices' = Indices /\ plugins'[i] = e
      /\ \A j \in Indices : j # i => plugins'[j] = plugins[j]
    BY <1>1, <1>2 DEF Indices
<1>6. /\ p \in Names /\ Phase(p) = PhaseOf(old) /\ Phase(p)' = PhaseOf(e)
      /\ \A q \in Names : q # p => Phase(q)' = Phase(q)
    <2>1. plugins'[i].name = p
        BY <1>4, <1>5
    <2>2. /\ p \in Names /\ Phase(p) = PhaseOf(plugins[i]) /\ Phase(p)' = PhaseOf(plugins'[i])
          /\ \A q \in Names : q # p => Phase(q)' = Phase(q)
        BY <1>2, <1>3, <1>5, <2>1, OneEntryChanges
    <2>3. QED
        BY <1>5, <2>2
<1>7. p \notin Listening
    <2>1. ASSUME NEW s \in ActiveSlots(table), table.slot[s].owner = p PROVE FALSE
        <3>1. PICK j \in Indices : /\ plugins[j].name = p
                                   /\ plugins[j].id = table.slot[s].id
            BY <1>2, <2>1 DEF LoaderInv, AllFiledRight, FiledRight
        <3>2. j = i
            BY <1>2, <1>3, <3>1 DEF LoaderInv, EntriesDistinct
        <3>3. s \in SlotsOfPlugin(table, old.id)
            BY <3>1, <3>2 DEF SlotsOfPlugin
        <3>4. QED
            BY <1>2, <3>3
    <2>2. QED
        BY <2>1 DEF Listening
<1>8. Phase(p) = "loaded" /\ Phase(p)' = "unloaded"
    BY <1>3, <1>4, <1>6, PhaseValues
<1>9. Listening' = Listening
    BY <1>1 DEF Listening
<1>10. Lifecycle!Unload(p)
    BY <1>6, <1>7, <1>8, <1>9, Moves DEF Lifecycle!Unload
<1>11. QED
    BY <1>6, <1>10 DEF Lifecycle!Next, Lifecycle!Step

\* The tables are emptied when there is nothing left in them.
LEMMA EmptyingRefines ==
    ASSUME RefInv, StartUp \/ Reset
    PROVE  [Lifecycle!Next]_Lifecycle!vars
<1>1. LoaderInv /\ PhaseInv
    BY DEF RefInv
<1>2. /\ plugins' = <<>> /\ table' = EmptyTable /\ Indices' = {}
    BY DEF StartUp, Reset, Indices
<1>3. \A k \in Indices : ~plugins[k].mapped /\ ~plugins[k].initialized /\ ~plugins[k].enabled
    <2>1. CASE StartUp
        <3>1. plugins = <<>>
            BY <1>1, <2>1 DEF StartUp, At, PhaseInv
        <3>2. QED
            BY <3>1 DEF Indices
    <2>2. CASE Reset
        BY <1>1, <2>2 DEF Reset, At, PhaseInv
    <2>3. QED
        BY <2>1, <2>2
<1>4. Listening = {} /\ Listening' = {}
    <2>1. ActiveSlots(table) = {}
        BY <1>1, <1>3 DEF LoaderInv, AllFiledRight, FiledRight
    <2>2. QED
        BY <1>2, <2>1, TableIsEmpty DEF Listening
<1>5. ASSUME NEW q PROVE PhaseIn(plugins, q) = "unloaded" /\ PhaseIn(plugins', q) = "unloaded"
    <2>1. /\ \A j, k \in DOMAIN plugins : plugins[j].name = plugins[k].name => j = k
          /\ DOMAIN plugins = Indices /\ DOMAIN plugins' = {}
        BY <1>1, <1>2 DEF LoaderInv, EntriesDistinct, Indices
    <2>2. PhaseIn(plugins', q) = "unloaded"
        BY <2>1 DEF PhaseIn
    <2>3. CASE \E k \in Indices : plugins[k].name = q
        <3>1. PICK k \in Indices : plugins[k].name = q
            BY <2>3
        <3>2. PhaseIn(plugins, plugins[k].name) = PhaseOf(plugins[k])
            BY <2>1, PhaseOfEntry
        <3>3. QED
            BY <1>3, <2>2, <3>1, <3>2, PhaseValues
    <2>4. CASE \A k \in Indices : plugins[k].name # q
        BY <2>1, <2>2, <2>4, PhaseOfEntry
    <2>5. QED
        BY <2>3, <2>4
<1>6. QED
    BY <1>4, <1>5, PhaseIs, Stays

LEMMA NextRefines ==
    ASSUME RefInv, RefInv', [Next]_vars
    PROVE  [Lifecycle!Next]_Lifecycle!vars
<1>1. EntriesDistinct'
    BY DEF RefInv, LoaderInv
<1>2. ASSUME UNCHANGED <<plugins, table>> PROVE [Lifecycle!Next]_Lifecycle!vars
    <2>1. Listening' = Listening
        BY <1>2 DEF Listening
    <2>2. QED
        BY <1>2, <2>1, SamePhases, Stays
<1>3. CASE UNCHANGED vars
    BY <1>2, <1>3 DEF vars
<1>4. CASE Loading
    <2>1. CASE InitializeNext \/ InitializeDone \/ AutoEnable \/ AutoEnableSkip \/ AutoEnableDone
        BY <1>2, <2>1 DEF InitializeNext, InitializeDone, AutoEnable, AutoEnableSkip,
                          AutoEnableDone
    <2>2. QED
        BY <1>1, <1>4, <2>1, EmptyingRefines, LoadRefines, SortRefines DEF Loading
<1>5. CASE PluginSubscribes \/ PluginUnsubscribes
    BY <1>5, PluginCodeRefines
<1>6. CASE PluginReturns \/ PluginRefuses \/ PluginFaults
    <2>1. call # NoCall
        <3>1. NoCall.op = "None"
            BY DEF NoCall
        <3>2. QED
            BY <1>6, <3>1 DEF PluginReturns, PluginRefuses, PluginFaults
    <2>2. EndCall(TRUE, 0) \/ EndCall(FALSE, 0) \/ EndCall(FALSE, 1)
        BY <1>6 DEF PluginReturns, PluginRefuses, PluginFaults
    <2>3. QED
        BY <2>1, <2>2, EndCallRefines
<1>7. CASE Serving
    BY <1>2, <1>7 DEF Serving, EnableByName, DisableByName, SwitchByName, Fire, Deliver
<1>8. CASE Teardown
    <2>1. CASE Quiesce \/ BeginShutdown \/ DisableNext \/ DisableDone \/ ShutdownDone
        BY <1>2, <2>1 DEF Quiesce, BeginShutdown, DisableNext, DisableDone, ShutdownDone
    <2>2. QED
        BY <1>1, <1>8, <2>1, ShutdownRefines, FreeRefines, EmptyingRefines DEF Teardown
<1>9. CASE Reader
    BY <1>2, <1>9 DEF Reader, BeginRead, EndRead
<1>10. QED
    BY <1>3, <1>4, <1>5, <1>6, <1>7, <1>8, <1>9 DEF Next, CallStep

\* The loader implements PluginLifecycle: a plugin is initialized, enabled,
\* disabled, shut down and unmapped in that order only, whatever faults on the
\* way, and its DLL goes only when no callback of it is in the event table.
THEOREM LoaderImplementsLifecycle == Spec => LifecycleSpec
<1>1. Init => RefInv /\ Lifecycle!Init
    BY InitInv, InitPhase, InitRefines DEF RefInv
<1>2. RefInv /\ [Next]_vars => RefInv'
    BY NextPhase
<1>3. RefInv /\ RefInv' /\ [Next]_vars => [Lifecycle!Next]_Lifecycle!vars
    BY NextRefines
<1>4. QED
    BY <1>1, <1>2, <1>3, PTL DEF Spec, LifecycleSpec, Lifecycle!Spec

=============================================================================
