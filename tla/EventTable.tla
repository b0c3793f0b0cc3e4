----------------------------- MODULE EventTable -----------------------------
(***************************************************************************)
(* The subscription table of the engine's event bus, event_dispatch.c: a   *)
(* fixed array of slots and a separate counter, changed by the plugins     *)
(* (through the wrappers of plugin_loader.c) and by the loader, read by    *)
(* every event that is fired.  The table is a value here; the modules that *)
(* own one keep it in a variable and apply these operators to it.          *)
(*                                                                         *)
(* Every operation of the C file runs from its first to its last statement *)
(* under g_event_lock, so each is one operator from table to table.        *)
(***************************************************************************)
EXTENDS Integers, FiniteSets

CONSTANTS
    MaxSubscriptions,  \* TE_MAX_SUBSCRIPTIONS, 64 in event_dispatch.h
    NoSub              \* the content of a slot whose "active" flag is FALSE

ASSUME MaxSubscriptionsAssumption == MaxSubscriptions \in Nat \ {0}

Slots == 1 .. MaxSubscriptions

(***************************************************************************)
(* A subscription: the event, the callback (a function of one DLL, named   *)
(* here by the plugin that owns the code) and the plugin_id it was filed   *)
(* under.  The two are different data: nothing in the table makes the id   *)
(* be the id of the plugin whose code the callback points into.            *)
(***************************************************************************)
Subscription(Events, Owners, Ids) == [event : Events, owner : Owners, id : Ids]

Table(Subs) == [slot : [Slots -> Subs \cup {NoSub}], count : Int]

EmptyTable == [slot |-> [i \in Slots |-> NoSub], count |-> 0]

ActiveSlots(t) == {i \in Slots : t.slot[i] # NoSub}

FreeSlots(t) == Slots \ ActiveSlots(t)

\* The slot at which a loop "for i = 0 .. 63" that stops at its first hit stops.
FirstSlot(S) == CHOOSE i \in S : \A j \in S : i <= j

SlotsOn(t, event) == {i \in ActiveSlots(t) : t.slot[i].event = event}

SlotsOfCallback(t, event, owner) ==
    {i \in SlotsOn(t, event) : t.slot[i].owner = owner}

SlotsOfPlugin(t, id) == {i \in ActiveSlots(t) : t.slot[i].id = id}

CanSubscribe(t) == t.count < MaxSubscriptions /\ FreeSlots(t) # {}

\* Mutant: the slot after the last one counted, with no limit.
SubscribedUnchecked(t, sub) ==
    [slot  |-> [i \in Slots \cup {t.count + 1} |->
                   IF i = t.count + 1 THEN sub ELSE t.slot[i]],
     count |-> t.count + 1]

\* TE_EventDispatchSubscribe.  Two subscriptions of one callback to one event
\* are two slots: the code looks for a free slot, not for a duplicate.
Subscribed(t, sub) ==
    IF CanSubscribe(t)
    THEN [slot  |-> [t.slot EXCEPT ![FirstSlot(FreeSlots(t))] = sub],
          count |-> t.count + 1]
    ELSE t

\* TE_EventDispatchUnsubscribe: the first slot of that callback, one slot only.
Unsubscribed(t, event, owner) ==
    IF SlotsOfCallback(t, event, owner) # {}
    THEN [slot  |-> [t.slot EXCEPT
                        ![FirstSlot(SlotsOfCallback(t, event, owner))] = NoSub],
          count |-> t.count - 1]
    ELSE t

\* Mutant: the counter goes down once, however many slots are emptied.
RemovedByPluginCountedOnce(t, id) ==
    [slot  |-> [i \in Slots |-> IF i \in SlotsOfPlugin(t, id) THEN NoSub
                                                              ELSE t.slot[i]],
     count |-> IF SlotsOfPlugin(t, id) = {} THEN t.count ELSE t.count - 1]

\* TE_EventDispatchRemoveByPlugin: every slot filed under that id.
RemovedByPlugin(t, id) ==
    [slot  |-> [i \in Slots |-> IF i \in SlotsOfPlugin(t, id) THEN NoSub
                                                              ELSE t.slot[i]],
     count |-> t.count - Cardinality(SlotsOfPlugin(t, id))]

\* The copy TE_EventDispatchFire makes under the lock and then calls, slot by
\* slot, after it has released it.
Snapshot(t, event) ==
    [i \in IF t.count = 0 THEN {} ELSE SlotsOn(t, event) |-> t.slot[i]]

\* The counter says how many slots are in use: Fire trusts it to return early
\* and Subscribe trusts it to refuse.
CountIsExact(t) == t.count = Cardinality(ActiveSlots(t))
=============================================================================
