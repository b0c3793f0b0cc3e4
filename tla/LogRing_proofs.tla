-------------------------- MODULE LogRing_proofs --------------------------
(***************************************************************************)
(* Proofs about LogRing: for any number of threads, any size of the ring   *)
(* and any number of messages, the log file is in order and whole, and the *)
(* last flush of a shutdown leaves nothing complete behind, as long as no  *)
(* producer laps the reader.                                               *)
(***************************************************************************)
EXTENDS LogRing, TLAPS

\* The positions that are claimed and not yet written to the file.
Window == readPos .. writePos - 1

Active(p) == producer[p].at # "idle"

\* The entry at position i was taken out of its slot and is being written.
Taken(i) == flusher.at = "write" /\ flusher.read = i

\* Positions: a producer is below g_write_pos and alone at its position, which is not
\* complete; whoever flushes reads at g_read_pos, up to a g_write_pos of before.
PositionsInv ==
  /\ \A p \in Producers : Active(p) => producer[p].pos < writePos /\ producer[p].pos \notin past.done
  /\ \A p, q \in Producers : Active(p) /\ Active(q) /\ producer[p].pos = producer[q].pos => p = q
  /\ flusher.holder = "none" => flusher.at = "test"
  /\ flusher.holder # "none" => /\ flusher.read = readPos
                                /\ flusher.read <= flusher.write /\ flusher.write <= writePos
  /\ flusher.at = "write" => flusher.read < flusher.write
  /\ \A m \in past.done : m < writePos

\* A producer holds the slot of its position, unready and in nobody's hands.
Held(p) ==
  /\ producer[p].pos >= readPos
  /\ ~ring[SlotOf(producer[p].pos)].ready /\ ~Taken(producer[p].pos)
  /\ producer[p].at = "filled" => ring[SlotOf(producer[p].pos)].text = producer[p].pos

\* Slots, while the reader is not lapped: a position of the window has a slot of its own.
\* Its producer holds it unready; without a producer it has the message, ready or taken.
SlotsInv ==
  /\ writePos - readPos <= Size
  /\ \A p \in Producers : Active(p) => Held(p)
  /\ \A i \in Window : (\A p \in Producers : Active(p) => producer[p].pos # i) =>
       ring[SlotOf(i)].text = i /\ (ring[SlotOf(i)].ready \/ Taken(i))
  /\ \A s \in Slots : ring[s].ready => \E i \in Window : SlotOf(i) = s /\ ~Taken(i)

\* Shutdown: what was complete then is below what the last flush goes up to, and when the
\* flush has ended it is below g_read_pos.
ShutdownInv ==
  /\ life.thread = "flush" \/ life.thread = "last" <=> flusher.holder = "thread"
  /\ life.thread \in {"last", "gone"} => life.stop
  /\ life.stop => flusher.holder # "caller"
  /\ past.before \subseteq past.done
  /\ life.thread = "last" => \A m \in past.before : m < flusher.write
  /\ life.thread = "gone" /\ ~past.lapped =>
       \A m \in past.before : (0 .. m) \subseteq past.before => m < readPos

RingInv ==
  /\ TypeOK /\ PositionsInv /\ ShutdownInv
  /\ ~past.lapped => SlotsInv
  /\ FileInOrder

----------------------------------------------------------------------------
(***************************************************************************)
(* Slots.                                                                  *)
(***************************************************************************)

\* The slot of a position is a slot.
LEMMA SlotOfPosition == ASSUME NEW i \in Nat PROVE SlotOf(i) \in Slots
<1>1. Size \in Nat /\ Size > 0
    BY LogRingAssumption
<1>2. i % Size \in 0 .. Size - 1
    BY <1>1
<1>3. QED
    BY <1>2 DEF SlotOf, Slots

\* Two positions less than a lap apart have two slots.
LEMMA SlotsDiffer ==
  ASSUME NEW i \in Nat, NEW j \in Nat, i < j, j - i < Size PROVE SlotOf(i) # SlotOf(j)
<1>1. Size \in Nat /\ Size > 0
    BY LogRingAssumption
<1> DEFINE qi == i \div Size
           qj == j \div Size
<1>2. /\ qi \in Int /\ qj \in Int
      /\ i = Size * qi + (i % Size) /\ j = Size * qj + (j % Size)
    BY <1>1
<1>3. SUFFICES ASSUME i % Size = j % Size PROVE FALSE
    BY DEF SlotOf
<1> DEFINE d == qj - qi
<1>4. d \in Int /\ j - i = Size * d
    BY <1>1, <1>2, <1>3
<1>5. CASE d <= 0
    <2>1. Size * d <= 0
        BY <1>1, <1>4, <1>5
    <2>2. QED
        BY <2>1, <1>4
<1>6. CASE d >= 1
    <2>1. Size * d >= Size
        BY <1>1, <1>4, <1>6
    <2>2. QED
        BY <2>1, <1>1, <1>4
<1>7. QED
    BY <1>4, <1>5, <1>6

----------------------------------------------------------------------------
(***************************************************************************)
(* The steps, by what they change.                                         *)
(***************************************************************************)

\* The log starts with the invariant: an empty ring, nobody writing, nobody flushing.
LEMMA InitInv == Init => RingInv
<1> SUFFICES ASSUME Init PROVE RingInv
    OBVIOUS
<1>1. Size \in Nat /\ Size > 0 /\ MaxMessages \in Nat
    BY LogRingAssumption
<1>2. TypeOK
    BY <1>1 DEF Init, TypeOK, Empty, Positions
<1>3. PositionsInv
    BY DEF Init, PositionsInv, Active
<1>4. SlotsInv
    BY <1>1 DEF Init, SlotsInv, Active, Window
<1>5. ShutdownInv
    BY DEF Init, ShutdownInv
<1>6. FileInOrder
    BY DEF Init, FileInOrder
<1>7. QED
    BY <1>2, <1>3, <1>4, <1>5, <1>6 DEF RingInv

\* What type correctness says of numbers and threads.
LEMMA Numbers ==
  ASSUME RingInv
  PROVE  /\ Size \in Nat /\ Size > 0 /\ MaxMessages \in Nat
         /\ writePos \in Nat /\ readPos \in Nat /\ readPos <= writePos /\ writePos <= MaxMessages
         /\ flusher.read \in Nat /\ flusher.write \in Nat
         /\ \A p \in Producers : producer[p].pos \in Nat
         /\ \A p \in Producers : Active(p) => /\ producer[p].pos \in Positions
                                             /\ SlotOf(producer[p].pos) \in Slots
<1>1. /\ Size \in Nat /\ Size > 0 /\ MaxMessages \in Nat
      /\ writePos \in Nat /\ readPos \in Nat /\ readPos <= writePos /\ writePos <= MaxMessages
      /\ flusher.read \in Nat /\ flusher.write \in Nat
      /\ \A p \in Producers : producer[p].pos \in Nat
    BY LogRingAssumption DEF RingInv, TypeOK
<1>2. ASSUME NEW p \in Producers, Active(p)
      PROVE  producer[p].pos \in Positions /\ SlotOf(producer[p].pos) \in Slots
    BY <1>1, <1>2, SlotOfPosition DEF RingInv, PositionsInv, Positions
<1>3. QED
    BY <1>1, <1>2

\* No step, mid-flush or mid-write, leaves the types.
LEMMA TypeStep == RingInv /\ [Next]_vars => TypeOK'
<1> SUFFICES ASSUME RingInv, [Next]_vars PROVE TypeOK'
    OBVIOUS
<1> USE Numbers
<1> USE DEF Active
<1> DEFINE At == {"idle", "claimed", "cleared", "filled"}
<1> DEFINE Places == [at : At, pos : 0 .. MaxMessages]
<1> DEFINE Flushers == [holder : {"none", "thread", "caller"}, at : {"test", "write"},
                        read : 0 .. MaxMessages, write : 0 .. MaxMessages]
<1> DEFINE Pasts == [lapped : BOOLEAN, done : SUBSET Positions, before : SUBSET Positions]
<1> DEFINE Entries == [text : {Empty, Torn} \cup Positions, ready : BOOLEAN]
<1>0. /\ producer \in [Producers -> Places] /\ flusher \in Flushers
      /\ past \in Pasts /\ ring \in [Slots -> Entries]
    BY DEF RingInv, TypeOK
<1>1. ASSUME NEW p \in Producers, Claim(p) PROVE TypeOK'
    <2>1. [at |-> "claimed", pos |-> writePos] \in Places
        OBVIOUS
    <2>2. producer' \in [Producers -> Places]
        BY <1>1, <2>1 DEF Claim, RingInv, TypeOK
    <2>3. past' \in Pasts
        BY <1>1 DEF Claim, RingInv, TypeOK
    <2>4. writePos' \in 0 .. MaxMessages /\ readPos' \in 0 .. writePos'
        BY <1>1 DEF Claim, RingInv, TypeOK
    <2>5. QED
        BY <1>1, <2>2, <2>3, <2>4 DEF Claim, RingInv, TypeOK
<1>2. ASSUME NEW p \in Producers, Clear(p) PROVE TypeOK'
    BY <1>2 DEF Clear, RingInv, TypeOK
<1>3. ASSUME NEW p \in Producers, Fill(p) PROVE TypeOK'
    <2>1. producer[p].pos \in Positions /\ producer[p].at = "cleared"
        BY <1>3 DEF Fill
    <2> DEFINE s == SlotOf(producer[p].pos)
    <2>2. ring' \in [Slots -> Entries]
        <3>1. s \in Slots /\ ring[s] \in Entries
            BY <1>0, <1>3 DEF Fill
        <3>2. [ring[s] EXCEPT !.text = producer[p].pos] \in Entries
            BY <2>1, <3>1
        <3>3. ring' = [ring EXCEPT ![s] = [ring[s] EXCEPT !.text = producer[p].pos]]
            BY <1>3 DEF Fill
        <3>4. QED
            BY <1>0, <3>1, <3>2, <3>3
    <2>3. producer' \in [Producers -> Places]
        BY <1>3 DEF Fill, RingInv, TypeOK
    <2>4. QED
        BY <1>3, <2>2, <2>3 DEF Fill, RingInv, TypeOK
<1>4. ASSUME NEW p \in Producers, Ready(p) PROVE TypeOK'
    <2>1. producer[p].pos \in Positions /\ producer[p].at = "filled"
        BY <1>4 DEF Ready
    <2> DEFINE s == SlotOf(producer[p].pos)
    <2>2. ring' \in [Slots -> Entries]
        <3>1. s \in Slots /\ ring[s] \in Entries
            BY <1>0, <1>4 DEF Ready
        <3>2. [ring[s] EXCEPT !.ready = TRUE] \in Entries
            BY <3>1
        <3>3. ring' = [ring EXCEPT ![s] = [ring[s] EXCEPT !.ready = TRUE]]
            BY <1>4 DEF Ready
        <3>4. QED
            BY <1>0, <3>1, <3>2, <3>3
    <2>3. producer' \in [Producers -> Places]
        BY <1>4 DEF Ready, RingInv, TypeOK
    <2>4. past' \in Pasts
        BY <1>4, <2>1 DEF Ready, RingInv, TypeOK
    <2>5. QED
        BY <1>4, <2>2, <2>3, <2>4 DEF Ready, RingInv, TypeOK
<1>5. CASE Test
    BY <1>5, SlotOfPosition DEF Test, RingInv, TypeOK
<1>6. CASE Write
    <2>1. SlotOf(flusher.read) \in Slots
        BY SlotOfPosition
    <2>2. file' \in Seq({Empty, Torn} \cup Positions)
        BY <1>6, <2>1 DEF Write, RingInv, TypeOK
    <2>3. flusher.read + 1 <= writePos /\ flusher.read + 1 <= MaxMessages
        BY <1>6 DEF Write, RingInv, PositionsInv
    <2>4. flusher' \in Flushers
        <3>1. flusher' = [holder |-> flusher.holder, at |-> "test", read |-> flusher.read + 1,
                          write |-> flusher.write]
            BY <1>0, <1>6 DEF Write
        <3>2. /\ flusher.holder \in {"none", "thread", "caller"}
              /\ flusher.read + 1 \in 0 .. MaxMessages /\ flusher.write \in 0 .. MaxMessages
            BY <1>0, <2>3
        <3>3. QED
            BY <3>1, <3>2
    <2>5. readPos' \in 0 .. writePos' /\ writePos' \in 0 .. MaxMessages
        BY <1>6, <2>3 DEF Write, RingInv, TypeOK
    <2>6. QED
        BY <1>6, <2>2, <2>4, <2>5 DEF Write, RingInv, TypeOK
<1>7. CASE ThreadWakes
    BY <1>7 DEF ThreadWakes, Begin, RingInv, TypeOK
<1>8. CASE ThreadEnds
    <2>1. flusher' \in Flushers
        <3>1. flusher' = [holder |-> "none", at |-> flusher.at, read |-> 0, write |-> 0]
            BY <1>0, <1>8 DEF ThreadEnds, Release
        <3>2. flusher.at \in {"test", "write"} /\ 0 \in 0 .. MaxMessages
            BY <1>0
        <3>3. QED
            BY <3>1, <3>2
    <2>2. life' \in [thread : {"wait", "flush", "last", "gone"}, stop : BOOLEAN]
        BY <1>8 DEF ThreadEnds, RingInv, TypeOK
    <2>3. QED
        BY <1>8, <2>1, <2>2 DEF ThreadEnds, RingInv, TypeOK
<1>9. CASE CallerEnds
    <2>1. flusher' \in Flushers
        <3>1. flusher' = [holder |-> "none", at |-> flusher.at, read |-> 0, write |-> 0]
            BY <1>0, <1>9 DEF CallerEnds, Release
        <3>2. flusher.at \in {"test", "write"} /\ 0 \in 0 .. MaxMessages
            BY <1>0
        <3>3. QED
            BY <3>1, <3>2
    <2>2. life' \in [thread : {"wait", "flush", "last", "gone"}, stop : BOOLEAN]
        BY <1>9 DEF CallerEnds, RingInv, TypeOK
    <2>3. QED
        BY <1>9, <2>1, <2>2 DEF CallerEnds, RingInv, TypeOK
<1>10. CASE TE_LogFlush
    BY <1>10 DEF TE_LogFlush, Begin, RingInv, TypeOK
<1>11. CASE TE_LogShutdown
    BY <1>11 DEF TE_LogShutdown, RingInv, TypeOK
<1>12. CASE UNCHANGED vars
    BY <1>12 DEF vars, RingInv, TypeOK
<1>13. QED
    BY <1>1, <1>2, <1>3, <1>4, <1>5, <1>6, <1>7, <1>8, <1>9, <1>10, <1>11, <1>12
       DEF Next, FlushStep, Writing

----------------------------------------------------------------------------
(***************************************************************************)
(* What a step makes of the producers and of the flusher, field by field.  *)
(***************************************************************************)

\* A step of producer p leaves the other producers alone.
LEMMA ClaimFields ==
  ASSUME RingInv, NEW p \in Producers, Claim(p)
  PROVE  /\ producer'[p].at = "claimed" /\ producer'[p].pos = writePos
         /\ \A q \in Producers \ {p} : producer'[q] = producer[q]
         /\ ~Active(p) /\ writePos' = writePos + 1
         /\ past'.done = past.done /\ past'.before = past.before
         /\ ~past'.lapped => ~past.lapped /\ writePos - readPos < Size
         /\ UNCHANGED <<ring, readPos, flusher, life, file>>
<1>1. producer \in [Producers -> [at : {"idle", "claimed", "cleared", "filled"},
                                  pos : 0 .. MaxMessages]]
    BY DEF RingInv, TypeOK
<1>2. past \in [lapped : BOOLEAN, done : SUBSET Positions, before : SUBSET Positions]
    BY DEF RingInv, TypeOK
<1>3. /\ producer'[p] = [at |-> "claimed", pos |-> writePos]
      /\ \A q \in Producers \ {p} : producer'[q] = producer[q]
      /\ ~Active(p) /\ writePos' = writePos + 1
      /\ UNCHANGED <<ring, readPos, flusher, life, file>>
    BY <1>1 DEF Claim, Active
<1>4. /\ past'.done = past.done /\ past'.before = past.before
      /\ past'.lapped = (past.lapped \/ writePos - readPos >= Size)
    BY <1>2 DEF Claim
<1>5. writePos \in Nat /\ readPos \in Nat /\ Size \in Nat
    BY Numbers
<1>6. ~past'.lapped => ~past.lapped /\ writePos - readPos < Size
    <2>1. ASSUME ~past'.lapped PROVE ~past.lapped /\ ~(writePos - readPos >= Size)
        BY <1>4, <2>1, Zenon
    <2>2. QED
        BY <2>1, <1>5
<1>7. QED
    BY <1>3, <1>4, <1>6

\* Clearing a slot changes that slot and where its producer is.
LEMMA ClearFields ==
  ASSUME RingInv, NEW p \in Producers, Clear(p)
  PROVE  /\ producer'[p].at = "cleared" /\ producer'[p].pos = producer[p].pos
         /\ \A q \in Producers \ {p} : producer'[q] = producer[q]
         /\ Active(p) /\ ring' = [ring EXCEPT ![SlotOf(producer[p].pos)] =
                                                 [text |-> Torn, ready |-> FALSE]]
         /\ UNCHANGED <<writePos, readPos, flusher, life, file, past>>
<1>1. producer \in [Producers -> [at : {"idle", "claimed", "cleared", "filled"},
                                  pos : 0 .. MaxMessages]]
    BY DEF RingInv, TypeOK
<1>2. past \in [lapped : BOOLEAN, done : SUBSET Positions, before : SUBSET Positions]
    BY DEF RingInv, TypeOK
<1>3. QED
    BY <1>1, <1>2 DEF Clear, Active

\* Filling a slot changes its text and where its producer is.
LEMMA FillFields ==
  ASSUME RingInv, NEW p \in Producers, Fill(p)
  PROVE  /\ producer'[p].at = "filled" /\ producer'[p].pos = producer[p].pos
         /\ \A q \in Producers \ {p} : producer'[q] = producer[q]
         /\ Active(p) /\ ring' = [ring EXCEPT ![SlotOf(producer[p].pos)].text = producer[p].pos]
         /\ UNCHANGED <<writePos, readPos, flusher, life, file, past>>
<1>1. producer \in [Producers -> [at : {"idle", "claimed", "cleared", "filled"},
                                  pos : 0 .. MaxMessages]]
    BY DEF RingInv, TypeOK
<1>2. past \in [lapped : BOOLEAN, done : SUBSET Positions, before : SUBSET Positions]
    BY DEF RingInv, TypeOK
<1>3. QED
    BY <1>1, <1>2 DEF Fill, Active

\* Marking a slot ready makes its position complete and its producer idle.
LEMMA ReadyFields ==
  ASSUME RingInv, NEW p \in Producers, Ready(p)
  PROVE  /\ producer'[p].at = "idle" /\ producer'[p].pos = producer[p].pos
         /\ \A q \in Producers \ {p} : producer'[q] = producer[q]
         /\ producer[p].at = "filled" /\ ring' = [ring EXCEPT ![SlotOf(producer[p].pos)].ready = TRUE]
         /\ past'.done = past.done \cup {producer[p].pos}
         /\ past'.before = past.before /\ past'.lapped = past.lapped
         /\ UNCHANGED <<writePos, readPos, flusher, life, file>>
<1>1. producer \in [Producers -> [at : {"idle", "claimed", "cleared", "filled"},
                                  pos : 0 .. MaxMessages]]
    BY DEF RingInv, TypeOK
<1>2. past \in [lapped : BOOLEAN, done : SUBSET Positions, before : SUBSET Positions]
    BY DEF RingInv, TypeOK
<1>3. QED
    BY <1>1, <1>2 DEF Ready, Active

\* A flush begins at g_read_pos, if the reader is not lapped.
LEMMA BeginFields ==
  ASSUME RingInv, NEW who, Begin(who)
  PROVE  /\ flusher' = [holder |-> who, at |-> "test", read |-> readPos', write |-> writePos]
         /\ readPos' \in Nat /\ readPos' <= writePos
         /\ writePos - readPos <= Size => readPos' = readPos
BY Numbers DEF Begin

\* A flush that ends leaves the ring, the positions and the file as they are.
LEMMA EndFields ==
  ASSUME RingInv, ThreadEnds \/ CallerEnds
  PROVE  /\ flusher' = [holder |-> "none", at |-> "test", read |-> 0, write |-> 0]
         /\ flusher.at = "test" /\ UNCHANGED <<ring, writePos, readPos, producer, file, past>>
<1>1. flusher \in [holder : {"none", "thread", "caller"}, at : {"test", "write"},
                   read : 0 .. MaxMessages, write : 0 .. MaxMessages]
    BY DEF RingInv, TypeOK
<1>2. QED
    BY <1>1 DEF ThreadEnds, CallerEnds, Ended, Release

\* A write appends the text of the slot of g_read_pos and moves g_read_pos past it.
LEMMA WriteFields ==
  ASSUME RingInv, Write
  PROVE  /\ flusher' = [holder |-> flusher.holder, at |-> "test", read |-> readPos + 1,
                        write |-> flusher.write]
         /\ readPos' = readPos + 1 /\ flusher.at = "write" /\ flusher.holder # "none"
         /\ flusher.read = readPos /\ readPos < flusher.write /\ flusher.write <= writePos
         /\ file' = Append(file, ring[SlotOf(readPos)].text)
         /\ UNCHANGED <<ring, writePos, producer, life, past>>
<1>1. flusher \in [holder : {"none", "thread", "caller"}, at : {"test", "write"},
                   read : 0 .. MaxMessages, write : 0 .. MaxMessages]
    BY DEF RingInv, TypeOK
<1>2. QED
    BY <1>1 DEF Write, RingInv, PositionsInv

\* A test takes the ready slot of g_read_pos.
LEMMA TestFields ==
  ASSUME RingInv, Test
  PROVE  /\ flusher' = [holder |-> flusher.holder, at |-> "write", read |-> readPos,
                        write |-> flusher.write]
         /\ flusher.holder # "none" /\ flusher.at = "test" /\ flusher.read = readPos
         /\ readPos < flusher.write /\ flusher.write <= writePos
         /\ ring[SlotOf(readPos)].ready
         /\ UNCHANGED <<writePos, readPos, producer, life, file, past>>
<1>1. flusher \in [holder : {"none", "thread", "caller"}, at : {"test", "write"},
                   read : 0 .. MaxMessages, write : 0 .. MaxMessages]
    BY DEF RingInv, TypeOK
<1>2. QED
    BY <1>1 DEF Test, RingInv, PositionsInv

\* A step on slot s of the ring leaves the other slots alone.
LEMMA RingFields ==
  ASSUME RingInv, NEW i \in Nat
  PROVE  /\ ring' = [ring EXCEPT ![SlotOf(i)] = [text |-> Torn, ready |-> FALSE]] =>
              /\ ~ring'[SlotOf(i)].ready
              /\ \A s \in Slots \ {SlotOf(i)} : ring'[s] = ring[s]
         /\ ring' = [ring EXCEPT ![SlotOf(i)].text = i] =>
              /\ ring'[SlotOf(i)].text = i
              /\ ring'[SlotOf(i)].ready = ring[SlotOf(i)].ready
              /\ \A s \in Slots \ {SlotOf(i)} : ring'[s] = ring[s]
         /\ ring' = [ring EXCEPT ![SlotOf(i)].ready = TRUE] =>
              /\ ring'[SlotOf(i)].ready
              /\ ring'[SlotOf(i)].text = ring[SlotOf(i)].text
              /\ \A s \in Slots \ {SlotOf(i)} : ring'[s] = ring[s]
         /\ ring' = [ring EXCEPT ![SlotOf(i)].ready = FALSE] =>
              /\ ~ring'[SlotOf(i)].ready
              /\ ring'[SlotOf(i)].text = ring[SlotOf(i)].text
              /\ \A s \in Slots \ {SlotOf(i)} : ring'[s] = ring[s]
<1>1. ring \in [Slots -> [text : {Empty, Torn} \cup Positions, ready : BOOLEAN]]
    BY DEF RingInv, TypeOK
<1>2. SlotOf(i) \in Slots
    BY SlotOfPosition
<1>3. QED
    BY <1>1, <1>2

----------------------------------------------------------------------------
(***************************************************************************)
(* The invariant is preserved, one part at a time.                         *)
(***************************************************************************)

\* Every step keeps producers apart, below g_write_pos, and the flusher at g_read_pos.
LEMMA PositionsStep == RingInv /\ [Next]_vars => PositionsInv'
<1> SUFFICES ASSUME RingInv, [Next]_vars PROVE PositionsInv'
    OBVIOUS
<1> USE Numbers
<1>0. PositionsInv
    BY DEF RingInv
<1>1. ASSUME NEW p \in Producers, Claim(p) PROVE PositionsInv'
    <2>1. \A m \in past.done : m \in Nat /\ m < writePos
        BY <1>0 DEF PositionsInv, RingInv, TypeOK, Positions
    <2>2. ASSUME NEW q \in Producers, Active(q)'
          PROVE  producer'[q].pos < writePos' /\ producer'[q].pos \notin past'.done
        BY <1>0, <1>1, <2>1, <2>2, ClaimFields DEF PositionsInv, Active
    <2>3. ASSUME NEW q \in Producers, NEW r \in Producers, Active(q)', Active(r)',
                 producer'[q].pos = producer'[r].pos
          PROVE  q = r
        BY <1>0, <1>1, <2>3, ClaimFields DEF PositionsInv, Active
    <2>4. \A m \in past'.done : m < writePos'
        BY <1>1, <2>1, ClaimFields
    <2>5. QED
        BY <1>0, <1>1, <2>2, <2>3, <2>4, ClaimFields DEF PositionsInv
<1>2. ASSUME NEW p \in Producers, Clear(p) \/ Fill(p) PROVE PositionsInv'
    <2>1. /\ UNCHANGED <<writePos, past, readPos, flusher>>
          /\ \A q \in Producers : producer'[q].pos = producer[q].pos /\ (Active(q)' <=> Active(q))
        <3>1. CASE Clear(p)
            BY <3>1, ClearFields DEF Active
        <3>2. CASE Fill(p)
            BY <3>2, FillFields DEF Active
        <3>3. QED
            BY <1>2, <3>1, <3>2
    <2>2. QED
        BY <1>0, <2>1 DEF PositionsInv
<1>3. ASSUME NEW p \in Producers, Ready(p) PROVE PositionsInv'
    <2>1. \A q \in Producers : /\ Active(q)' <=> Active(q) /\ q # p
                               /\ producer'[q].pos = producer[q].pos
        BY <1>3, ReadyFields DEF Active
    <2>2. /\ Active(p) /\ past'.done = past.done \cup {producer[p].pos}
          /\ writePos' = writePos /\ readPos' = readPos /\ flusher' = flusher
        BY <1>3, ReadyFields DEF Active
    <2>3. ASSUME NEW q \in Producers, Active(q)'
          PROVE  producer'[q].pos < writePos' /\ producer'[q].pos \notin past'.done
        BY <1>0, <2>1, <2>2, <2>3 DEF PositionsInv
    <2>4. \A m \in past'.done : m < writePos'
        BY <1>0, <2>2 DEF PositionsInv
    <2>5. QED
        BY <1>0, <2>1, <2>2, <2>3, <2>4 DEF PositionsInv
<1>4. CASE Test
    BY <1>0, <1>4, TestFields DEF PositionsInv, Active
<1>5. CASE Write
    BY <1>0, <1>5, WriteFields DEF PositionsInv, Active
<1>6. CASE ThreadWakes \/ TE_LogFlush
    <2>1. PICK who \in {"thread", "caller"} :
              Begin(who) /\ UNCHANGED <<writePos, producer, past>>
        BY <1>6 DEF ThreadWakes, TE_LogFlush
    <2>2. QED
        BY <1>0, <2>1, BeginFields DEF PositionsInv, Active
<1>7. CASE ThreadEnds \/ CallerEnds
    BY <1>0, <1>7, EndFields DEF PositionsInv, Active
<1>8. CASE TE_LogShutdown
    <2>1. past'.done = past.done /\ UNCHANGED <<writePos, readPos, producer, flusher>>
        BY <1>8 DEF TE_LogShutdown, RingInv, TypeOK
    <2>2. QED
        BY <1>0, <2>1 DEF PositionsInv, Active
<1>9. CASE UNCHANGED vars
    BY <1>0, <1>9 DEF vars, PositionsInv, Active
<1>10. QED
    BY <1>1, <1>2, <1>3, <1>4, <1>5, <1>6, <1>7, <1>8, <1>9 DEF Next, FlushStep, Writing

\* The entry a write appends is the one of g_read_pos, whole: the file stays in order.
LEMMA OrderStep == RingInv /\ [Next]_vars => FileInOrder'
<1> SUFFICES ASSUME RingInv, [Next]_vars, ~past'.lapped PROVE
        Len(file') = readPos' /\ \A i \in DOMAIN file' : file'[i] = i - 1
    BY DEF FileInOrder
<1> USE Numbers
<1>0. ~past.lapped /\ (past.lapped = past'.lapped \/ \E p \in Producers : Claim(p))
    BY DEF RingInv, TypeOK, Next, FlushStep, Writing, Claim, Clear, Fill, Ready, Test, Write,
           ThreadWakes, ThreadEnds, CallerEnds, TE_LogFlush, TE_LogShutdown, vars
<1>1. /\ SlotsInv /\ Len(file) = readPos /\ \A i \in DOMAIN file : file[i] = i - 1
      /\ file \in Seq({Empty, Torn} \cup Positions)
    BY <1>0 DEF RingInv, FileInOrder, TypeOK
<1>2. CASE Write
    <2>1. readPos \in Window /\ Taken(readPos)
        BY <1>2, WriteFields DEF Window, Taken
    <2>2. \A p \in Producers : Active(p) => producer[p].pos # readPos
        BY <1>1, <2>1 DEF SlotsInv, Held
    <2>3. ring[SlotOf(readPos)].text = readPos
        BY <1>1, <2>1, <2>2 DEF SlotsInv
    <2>4. file' = Append(file, readPos) /\ readPos' = readPos + 1 /\ readPos \in Positions
        BY <1>2, <2>3, WriteFields DEF Positions
    <2>5. QED
        BY <1>1, <2>4
<1>3. CASE UNCHANGED <<file, readPos>>
    BY <1>1, <1>3
<1>4. CASE ThreadWakes \/ TE_LogFlush
    <2>1. PICK who \in {"thread", "caller"} : Begin(who) /\ UNCHANGED file
        BY <1>4 DEF ThreadWakes, TE_LogFlush
    <2>2. QED
        BY <1>1, <2>1, BeginFields DEF SlotsInv
<1>5. QED
    BY <1>2, <1>3, <1>4 DEF Next, FlushStep, Writing, Claim, Clear, Fill, Ready, Test,
       ThreadEnds, CallerEnds, TE_LogShutdown, vars

\* The last flush ends only past every position that was complete at the shutdown.
LEMMA ShutdownStep == RingInv /\ [Next]_vars => ShutdownInv'
<1> SUFFICES ASSUME RingInv, [Next]_vars PROVE ShutdownInv'
    OBVIOUS
<1> USE Numbers
<1>0. /\ ShutdownInv /\ PositionsInv
      /\ life \in [thread : {"wait", "flush", "last", "gone"}, stop : BOOLEAN]
      /\ past.before \subseteq Nat
    BY DEF RingInv, TypeOK, Positions
<1>1. ASSUME NEW p \in Producers, Claim(p) PROVE ShutdownInv'
    <2>1. /\ past'.done = past.done /\ past'.before = past.before
          /\ ~past'.lapped => ~past.lapped
          /\ life' = life /\ flusher' = flusher /\ readPos' = readPos
        BY <1>1, ClaimFields
    <2>2. QED
        BY <1>0, <2>1 DEF ShutdownInv
<1>2. ASSUME NEW p \in Producers, Clear(p) \/ Fill(p) PROVE ShutdownInv'
    <2>1. life' = life /\ flusher' = flusher /\ readPos' = readPos /\ past' = past
        BY <1>2 DEF Clear, Fill
    <2>2. QED
        BY <1>0, <2>1 DEF ShutdownInv
<1>3. ASSUME NEW p \in Producers, Ready(p) PROVE ShutdownInv'
    <2>1. /\ past.done \subseteq past'.done /\ past'.before = past.before
          /\ past'.lapped = past.lapped
          /\ life' = life /\ flusher' = flusher /\ readPos' = readPos
        BY <1>3, ReadyFields
    <2>2. QED
        BY <1>0, <2>1 DEF ShutdownInv
<1>4. CASE Test
    BY <1>0, <1>4, TestFields DEF ShutdownInv
<1>5. CASE Write
    BY <1>0, <1>5, WriteFields DEF ShutdownInv
<1>6. CASE ThreadWakes
    <2>1. /\ flusher'.holder = "thread" /\ flusher'.write = writePos
          /\ past' = past /\ life'.stop = life.stop
          /\ life'.thread = "last" => life.stop
          /\ life'.thread = "flush" \/ life'.thread = "last"
        BY <1>0, <1>6, BeginFields DEF ThreadWakes
    <2>2. \A m \in past.before : m < writePos
        BY <1>0 DEF ShutdownInv, PositionsInv
    <2>3. QED
        BY <1>0, <2>1, <2>2 DEF ShutdownInv
<1>7. CASE ThreadEnds
    <2>1. /\ flusher.holder = "thread" /\ flusher'.holder = "none" /\ readPos' = readPos
          /\ past' = past /\ life'.stop = life.stop
          /\ life'.thread = IF life.thread = "last" THEN "gone" ELSE "wait"
        BY <1>0, <1>7, EndFields DEF ThreadEnds
    <2>2. ASSUME life.thread = "last", ~past.lapped, NEW m \in past.before, (0 .. m) \subseteq past.before
          PROVE  m < readPos
        <3>1. SUFFICES ASSUME readPos <= m PROVE FALSE
            BY <1>0
        <3>2. m < flusher.write /\ readPos \in past.before /\ past.before \subseteq past.done
            BY <1>0, <2>2, <3>1 DEF ShutdownInv
        <3>3. flusher.at = "test" /\ flusher.read = readPos /\ flusher.write <= writePos
            BY <1>0, <1>7, <2>1, EndFields DEF PositionsInv
        <3>4. m \in Nat /\ readPos < flusher.write /\ readPos < writePos
            BY <1>0, <3>1, <3>2, <3>3
        <3>5. ~ring[SlotOf(readPos)].ready /\ readPos \in Window /\ ~Taken(readPos)
            <4>1. flusher.read >= flusher.write \/ ~ring[SlotOf(flusher.read)].ready
                BY <1>7 DEF ThreadEnds, Ended
            <4>2. ~ring[SlotOf(readPos)].ready
                BY <4>1, <3>3, <3>4
            <4>3. readPos \in Window
                BY <3>4 DEF Window
            <4>4. ~Taken(readPos)
                BY <3>3 DEF Taken
            <4>5. QED
                BY <4>2, <4>3, <4>4
        <3>6. \A p \in Producers : Active(p) => producer[p].pos # readPos
            BY <1>0, <3>2 DEF PositionsInv
        <3>7. QED
            BY <2>2, <3>5, <3>6 DEF RingInv, SlotsInv
    <2>3. QED
        BY <1>0, <2>1, <2>2 DEF ShutdownInv
<1>8. CASE CallerEnds
    <2>1. /\ flusher.holder = "caller" /\ flusher'.holder = "none" /\ readPos' = readPos
          /\ past' = past /\ life' = life
        BY <1>0, <1>8, EndFields DEF CallerEnds
    <2>2. QED
        BY <1>0, <2>1 DEF ShutdownInv
<1>9. CASE TE_LogFlush
    <2>1. /\ flusher.holder = "none" /\ flusher'.holder = "caller" /\ ~life.stop
          /\ past' = past /\ life' = life
        BY <1>0, <1>9, BeginFields DEF TE_LogFlush, Begin
    <2>2. QED
        BY <1>0, <2>1 DEF ShutdownInv
<1>10. CASE TE_LogShutdown
    <2>1. /\ ~life.stop /\ flusher.holder # "caller" /\ flusher' = flusher
          /\ life'.stop = TRUE /\ life'.thread = life.thread
          /\ past'.before = past.done /\ past'.done = past.done
        BY <1>0, <1>10 DEF TE_LogShutdown, RingInv, TypeOK
    <2>2. QED
        BY <1>0, <2>1 DEF ShutdownInv
<1>11. CASE UNCHANGED vars
    BY <1>0, <1>11 DEF vars, ShutdownInv
<1>12. QED
    BY <1>1, <1>2, <1>3, <1>4, <1>5, <1>6, <1>7, <1>8, <1>9, <1>10, <1>11
       DEF Next, FlushStep, Writing

\* Two positions of the window have two slots, when the reader is not lapped.
LEMMA WindowSlots ==
  ASSUME RingInv, writePos - readPos <= Size, NEW i \in Window, NEW j \in Window, i # j
  PROVE  i \in Nat /\ SlotOf(i) \in Slots /\ SlotOf(i) # SlotOf(j)
<1>1. /\ writePos \in Nat /\ readPos \in Nat /\ Size \in Nat
      /\ i \in Nat /\ j \in Nat /\ i < writePos /\ j < writePos /\ readPos <= i /\ readPos <= j
    BY Numbers DEF Window
<1>2. CASE i < j
    BY <1>1, <1>2, SlotsDiffer, SlotOfPosition
<1>3. CASE j < i
    BY <1>1, <1>3, SlotsDiffer, SlotOfPosition
<1>4. QED
    BY <1>1, <1>2, <1>3

\* The position of an active producer is in the window, its alone and unready.
LEMMA ActiveInWindow ==
  ASSUME RingInv, SlotsInv, NEW p \in Producers, Active(p)
  PROVE  /\ producer[p].pos \in Window /\ producer[p].pos \in Nat
         /\ ~ring[SlotOf(producer[p].pos)].ready /\ ~Taken(producer[p].pos)
         /\ \A q \in Producers : Active(q) /\ q # p => producer[q].pos # producer[p].pos
<1>1. /\ writePos \in Nat /\ readPos \in Nat /\ producer[p].pos \in Nat
      /\ producer[p].pos < writePos /\ producer[p].pos >= readPos
    BY Numbers DEF RingInv, PositionsInv, SlotsInv, Held
<1>2. QED
    BY <1>1 DEF RingInv, PositionsInv, SlotsInv, Held, Window

\* Unless it laps the reader, a step keeps every position of the window in its own slot.
LEMMA SlotsStep == RingInv /\ [Next]_vars => (~past'.lapped => SlotsInv')
<1> SUFFICES ASSUME RingInv, [Next]_vars, ~past'.lapped PROVE SlotsInv'
    OBVIOUS
<1>n. /\ Size \in Nat /\ Size > 0 /\ writePos \in Nat /\ readPos \in Nat /\ readPos <= writePos
      /\ flusher.read \in Nat /\ flusher.write \in Nat
    BY Numbers
<1>0. ~past.lapped /\ SlotsInv
    BY DEF RingInv, TypeOK, Next, FlushStep, Writing, Claim, Clear, Fill, Ready, Test, Write,
           ThreadWakes, ThreadEnds, CallerEnds, TE_LogFlush, TE_LogShutdown, vars
<1>1. ASSUME NEW p \in Producers, Claim(p) PROVE SlotsInv'
    <2>1. /\ producer'[p].at = "claimed" /\ producer'[p].pos = writePos
          /\ \A q \in Producers \ {p} : producer'[q] = producer[q]
          /\ ~Active(p) /\ writePos' = writePos + 1 /\ writePos - readPos < Size
          /\ ring' = ring /\ readPos' = readPos /\ flusher' = flusher
        BY <1>1, ClaimFields
    <2>2. /\ Active(p)'
          /\ \A q \in Producers \ {p} : Active(q)' <=> Active(q)
          /\ \A i : Taken(i)' <=> Taken(i)
        BY <2>1 DEF Active, Taken
    <2>3. \A i \in Window' : i # writePos => i \in Window
        BY <1>n, <2>1 DEF Window
    <2>4. \A i \in Window : i \in Window' /\ i # writePos
        BY <1>n, <2>1 DEF Window
    <2>5. writePos' - readPos' <= Size
        BY <1>n, <2>1
    <2>6. ~ring[SlotOf(writePos)].ready
        <3>1. SUFFICES ASSUME ring[SlotOf(writePos)].ready PROVE FALSE
            OBVIOUS
        <3>2. SlotOf(writePos) \in Slots
            BY <1>n, SlotOfPosition
        <3>3. PICK i \in Window : SlotOf(i) = SlotOf(writePos)
            BY <1>0, <3>1, <3>2 DEF SlotsInv
        <3>4. i \in Nat /\ i < writePos /\ writePos - i < Size
            BY <1>n, <2>1 DEF Window
        <3>5. QED
            BY <1>n, <3>3, <3>4, SlotsDiffer
    <2>7. ~Taken(writePos)
        BY <1>n DEF Taken, RingInv, PositionsInv
    <2>8. ASSUME NEW q \in Producers, Active(q)'
          PROVE  Held(q)'
        <3>1. CASE q = p
            BY <1>n, <2>1, <2>2, <2>6, <2>7, <3>1 DEF Held
        <3>2. CASE q # p
            BY <1>0, <2>1, <2>2, <2>8, <3>2 DEF SlotsInv, Held
        <3>3. QED
            BY <3>1, <3>2
    <2>9. ASSUME NEW i \in Window', \A q \in Producers : Active(q)' => producer'[q].pos # i
          PROVE  ring'[SlotOf(i)].text = i /\ (ring'[SlotOf(i)].ready \/ Taken(i)')
        <3>1. i # writePos /\ i \in Window
            BY <2>1, <2>2, <2>3, <2>9
        <3>2. \A q \in Producers : Active(q) => producer[q].pos # i
            BY <2>1, <2>2, <2>9
        <3>3. QED
            BY <1>0, <2>1, <2>2, <3>1, <3>2 DEF SlotsInv
    <2>10. \A s \in Slots : ring'[s].ready => \E i \in Window' : SlotOf(i) = s /\ ~Taken(i)'
        BY <1>0, <2>1, <2>2, <2>4 DEF SlotsInv
    <2>11. QED
        BY <2>5, <2>8, <2>9, <2>10 DEF SlotsInv
<1>2. ASSUME NEW p \in Producers, Clear(p) \/ Fill(p) PROVE SlotsInv'
    <2> DEFINE own == producer[p].pos
    <2>1. /\ Active(p) /\ producer'[p].pos = own
          /\ \A q \in Producers \ {p} : producer'[q] = producer[q]
          /\ writePos' = writePos /\ readPos' = readPos /\ flusher' = flusher
          /\ producer'[p].at \in {"cleared", "filled"}
        <3>1. CASE Clear(p)
            BY <3>1, ClearFields
        <3>2. CASE Fill(p)
            BY <3>2, FillFields
        <3>3. QED
            BY <1>2, <3>1, <3>2
    <2>2. /\ own \in Window /\ own \in Nat /\ ~ring[SlotOf(own)].ready /\ ~Taken(own)
          /\ \A q \in Producers : Active(q) /\ q # p => producer[q].pos # own
        BY <1>0, <2>1, ActiveInWindow
    <2>3. /\ ~ring'[SlotOf(own)].ready
          /\ producer'[p].at = "filled" => ring'[SlotOf(own)].text = own
          /\ \A s \in Slots \ {SlotOf(own)} : ring'[s] = ring[s]
        <3>1. CASE Clear(p)
            BY <2>2, <3>1, ClearFields, RingFields
        <3>2. CASE Fill(p)
            BY <2>2, <3>2, FillFields, RingFields
        <3>3. QED
            BY <1>2, <3>1, <3>2
    <2>4. /\ Window' = Window /\ \A i : Taken(i)' <=> Taken(i)
          /\ \A q \in Producers : (Active(q)' <=> Active(q)) /\ producer'[q].pos = producer[q].pos
        BY <2>1 DEF Window, Taken, Active
    <2>5. writePos - readPos <= Size
        BY <1>0 DEF SlotsInv
    <2>6. \A i \in Window : i # own => /\ SlotOf(i) \in Slots \ {SlotOf(own)}
                                      /\ ring'[SlotOf(i)] = ring[SlotOf(i)]
        BY <2>2, <2>3, <2>5, WindowSlots
    <2>7. ASSUME NEW q \in Producers, Active(q)'
          PROVE  Held(q)'
        <3>1. CASE q = p
            BY <1>0, <2>1, <2>2, <2>3, <2>4, <3>1 DEF SlotsInv, Held
        <3>2. CASE q # p
            <4>1. producer[q].pos \in Window /\ producer[q].pos # own
                BY <1>0, <2>2, <2>4, <2>7, <3>2, ActiveInWindow
            <4>2. QED
                BY <1>0, <2>1, <2>4, <2>6, <2>7, <3>2, <4>1 DEF SlotsInv, Held
        <3>3. QED
            BY <3>1, <3>2
    <2>8. ASSUME NEW i \in Window', \A q \in Producers : Active(q)' => producer'[q].pos # i
          PROVE  ring'[SlotOf(i)].text = i /\ (ring'[SlotOf(i)].ready \/ Taken(i)')
        <3>1. i \in Window /\ i # own
            BY <2>1, <2>4, <2>8
        <3>2. \A q \in Producers : Active(q) => producer[q].pos # i
            BY <2>4, <2>8
        <3>3. QED
            BY <1>0, <2>4, <2>6, <3>1, <3>2 DEF SlotsInv
    <2>9. \A s \in Slots : ring'[s].ready => \E i \in Window' : SlotOf(i) = s /\ ~Taken(i)'
        BY <1>0, <2>3, <2>4 DEF SlotsInv
    <2>10. QED
        BY <2>1, <2>5, <2>7, <2>8, <2>9 DEF SlotsInv
<1>3. ASSUME NEW p \in Producers, Ready(p) PROVE SlotsInv'
    <2> DEFINE own == producer[p].pos
    <2>1. /\ producer'[p].at = "idle" /\ producer[p].at = "filled"
          /\ \A q \in Producers \ {p} : producer'[q] = producer[q]
          /\ writePos' = writePos /\ readPos' = readPos /\ flusher' = flusher
          /\ ring' = [ring EXCEPT ![SlotOf(own)].ready = TRUE]
        BY <1>3, ReadyFields
    <2>2. /\ Active(p) /\ own \in Window /\ own \in Nat /\ ~Taken(own)
          /\ \A q \in Producers : Active(q) /\ q # p => producer[q].pos # own
        <3>1. Active(p)
            BY <2>1 DEF Active
        <3>2. QED
            BY <1>0, <3>1, ActiveInWindow
    <2>3. /\ ring'[SlotOf(own)].ready /\ ring'[SlotOf(own)].text = own
          /\ \A s \in Slots \ {SlotOf(own)} : ring'[s] = ring[s]
        <3>1. ring[SlotOf(own)].text = own
            BY <1>0, <2>1, <2>2 DEF SlotsInv, Held
        <3>2. QED
            BY <2>1, <2>2, <3>1, RingFields
    <2>4. /\ Window' = Window /\ \A i : Taken(i)' <=> Taken(i)
          /\ \A q \in Producers : Active(q)' <=> Active(q) /\ q # p
        BY <2>1 DEF Window, Taken, Active
    <2>5. writePos - readPos <= Size
        BY <1>0 DEF SlotsInv
    <2>6. \A i \in Window : i # own => /\ SlotOf(i) \in Slots \ {SlotOf(own)}
                                      /\ ring'[SlotOf(i)] = ring[SlotOf(i)]
        BY <2>2, <2>3, <2>5, WindowSlots
    <2>7. ASSUME NEW q \in Producers, Active(q)'
          PROVE  Held(q)'
        <3>1. Active(q) /\ q # p /\ producer'[q] = producer[q]
            BY <2>1, <2>4, <2>7
        <3>2. producer[q].pos \in Window /\ producer[q].pos # own
            BY <1>0, <2>2, <3>1, ActiveInWindow
        <3>3. QED
            BY <1>0, <2>1, <2>4, <2>6, <3>1, <3>2 DEF SlotsInv, Held
    <2>8. ASSUME NEW i \in Window', \A q \in Producers : Active(q)' => producer'[q].pos # i
          PROVE  ring'[SlotOf(i)].text = i /\ (ring'[SlotOf(i)].ready \/ Taken(i)')
        <3>1. CASE i = own
            BY <2>3, <3>1
        <3>2. CASE i # own
            <4>1. i \in Window /\ \A q \in Producers : Active(q) => producer[q].pos # i
                BY <2>1, <2>4, <2>8, <3>2
            <4>2. QED
                BY <1>0, <2>4, <2>6, <3>2, <4>1 DEF SlotsInv
        <3>3. QED
            BY <3>1, <3>2
    <2>9. \A s \in Slots : ring'[s].ready => \E i \in Window' : SlotOf(i) = s /\ ~Taken(i)'
        BY <1>0, <2>2, <2>3, <2>4 DEF SlotsInv
    <2>10. QED
        BY <2>1, <2>5, <2>7, <2>8, <2>9 DEF SlotsInv
<1>4. CASE Test
    <2>1. /\ flusher'.at = "write" /\ flusher'.read = readPos /\ flusher.at = "test"
          /\ readPos < writePos /\ ring[SlotOf(readPos)].ready
          /\ writePos' = writePos /\ readPos' = readPos /\ producer' = producer
          /\ ring' = [ring EXCEPT ![SlotOf(readPos)].ready = FALSE]
        <3>1. /\ flusher.read = readPos /\ flusher.at = "test"
              /\ readPos < flusher.write /\ flusher.write <= writePos
              /\ flusher' = [holder |-> flusher.holder, at |-> "write", read |-> readPos,
                             write |-> flusher.write]
              /\ ring[SlotOf(readPos)].ready
              /\ UNCHANGED <<writePos, readPos, producer>>
            BY <1>4, TestFields
        <3>2. ring' = [ring EXCEPT ![SlotOf(readPos)].ready = FALSE]
            BY <1>4, <3>1 DEF Test
        <3>3. readPos < writePos
            BY <1>n, <3>1
        <3>4. QED
            BY <3>1, <3>2, <3>3
    <2>2. /\ readPos \in Window /\ Window' = Window
          /\ \A i : ~Taken(i) /\ (Taken(i)' <=> i = readPos)
          /\ \A q \in Producers : Active(q)' <=> Active(q)
        BY <1>n, <2>1 DEF Window, Taken, Active
    <2>3. \A q \in Producers : Active(q) => producer[q].pos # readPos /\ producer[q].pos \in Window
        BY <1>0, <2>1, ActiveInWindow
    <2>4. /\ ~ring'[SlotOf(readPos)].ready /\ ring'[SlotOf(readPos)].text = ring[SlotOf(readPos)].text
          /\ \A s \in Slots \ {SlotOf(readPos)} : ring'[s] = ring[s]
        BY <1>n, <2>1, RingFields
    <2>5. writePos - readPos <= Size
        BY <1>0 DEF SlotsInv
    <2>6. \A i \in Window : i # readPos => /\ SlotOf(i) \in Slots \ {SlotOf(readPos)}
                                          /\ ring'[SlotOf(i)] = ring[SlotOf(i)]
        BY <2>2, <2>4, <2>5, WindowSlots
    <2>7. ASSUME NEW q \in Producers, Active(q)'
          PROVE  Held(q)'
        BY <1>0, <2>1, <2>2, <2>3, <2>6, <2>7 DEF SlotsInv, Held
    <2>8. ASSUME NEW i \in Window', \A q \in Producers : Active(q)' => producer'[q].pos # i
          PROVE  ring'[SlotOf(i)].text = i /\ (ring'[SlotOf(i)].ready \/ Taken(i)')
        <3>1. i \in Window /\ \A q \in Producers : Active(q) => producer[q].pos # i
            BY <2>1, <2>2, <2>8
        <3>2. ring[SlotOf(i)].text = i /\ ring[SlotOf(i)].ready
            BY <1>0, <2>2, <3>1 DEF SlotsInv
        <3>3. CASE i = readPos
            BY <2>2, <2>4, <3>2, <3>3
        <3>4. CASE i # readPos
            BY <2>6, <3>1, <3>2, <3>4
        <3>5. QED
            BY <3>3, <3>4
    <2>9. ASSUME NEW s \in Slots, ring'[s].ready
          PROVE  \E i \in Window' : SlotOf(i) = s /\ ~Taken(i)'
        <3>1. s # SlotOf(readPos) /\ ring[s].ready
            BY <2>4, <2>9
        <3>2. PICK i \in Window : SlotOf(i) = s
            BY <1>0, <3>1 DEF SlotsInv
        <3>3. QED
            BY <2>2, <3>1, <3>2
    <2>10. QED
        BY <2>1, <2>5, <2>7, <2>8, <2>9 DEF SlotsInv
<1>5. CASE Write
    <2>1. /\ flusher'.at = "test" /\ flusher.at = "write" /\ flusher.read = readPos
          /\ readPos' = readPos + 1 /\ readPos < writePos
          /\ ring' = ring /\ writePos' = writePos /\ producer' = producer
        BY <1>n, <1>5, WriteFields
    <2>2. /\ \A i : (Taken(i) <=> i = readPos) /\ ~Taken(i)'
          /\ \A q \in Producers : Active(q)' <=> Active(q)
        BY <2>1 DEF Taken, Active
    <2>3. Window' = Window \ {readPos}
        BY <1>n, <2>1 DEF Window
    <2>4. writePos' - readPos' <= Size
        BY <1>n, <1>0, <2>1 DEF SlotsInv
    <2>5. ASSUME NEW q \in Producers, Active(q)'
          PROVE  Held(q)'
        <3>1. producer[q].pos \in Window /\ ~Taken(producer[q].pos)
            BY <1>0, <2>2, <2>5, ActiveInWindow
        <3>2. producer[q].pos \in Window'
            BY <2>2, <2>3, <3>1
        <3>3. producer[q].pos >= readPos'
            BY <1>n, <2>1, <3>2 DEF Window
        <3>4. QED
            BY <1>0, <2>1, <2>2, <2>5, <3>3 DEF SlotsInv, Held
    <2>6. ASSUME NEW i \in Window', \A q \in Producers : Active(q)' => producer'[q].pos # i
          PROVE  ring'[SlotOf(i)].text = i /\ (ring'[SlotOf(i)].ready \/ Taken(i)')
        <3>1. i \in Window /\ ~Taken(i) /\ \A q \in Producers : Active(q) => producer[q].pos # i
            BY <2>1, <2>2, <2>3, <2>6
        <3>2. QED
            BY <1>0, <2>1, <3>1 DEF SlotsInv
    <2>7. ASSUME NEW s \in Slots, ring'[s].ready
          PROVE  \E i \in Window' : SlotOf(i) = s /\ ~Taken(i)'
        <3>1. PICK i \in Window : SlotOf(i) = s /\ ~Taken(i)
            BY <1>0, <2>1, <2>7 DEF SlotsInv
        <3>2. QED
            BY <2>2, <2>3, <3>1
    <2>8. QED
        BY <2>4, <2>5, <2>6, <2>7 DEF SlotsInv
<1>6. CASE ThreadWakes \/ TE_LogFlush \/ ThreadEnds \/ CallerEnds
    <2>1. /\ flusher.at = "test" /\ flusher'.at = "test" /\ readPos' = readPos
          /\ ring' = ring /\ writePos' = writePos /\ producer' = producer
        <3>1. CASE ThreadWakes \/ TE_LogFlush
            <4>1. PICK who \in {"thread", "caller"} :
                      Begin(who) /\ UNCHANGED <<ring, writePos, producer>>
                BY <3>1 DEF ThreadWakes, TE_LogFlush
            <4>2. flusher.at = "test"
                BY <4>1 DEF Begin, RingInv, PositionsInv
            <4>3. writePos - readPos <= Size
                BY <1>0 DEF SlotsInv
            <4>4. QED
                BY <4>1, <4>2, <4>3, BeginFields
        <3>2. CASE ThreadEnds \/ CallerEnds
            BY <3>2, EndFields
        <3>3. QED
            BY <1>6, <3>1, <3>2
    <2>2. /\ Window' = Window /\ \A i : ~Taken(i) /\ ~Taken(i)'
          /\ \A q \in Producers : Active(q)' <=> Active(q)
        BY <2>1 DEF Window, Taken, Active
    <2>3. QED
        BY <1>0, <2>1, <2>2 DEF SlotsInv, Held
<1>7. CASE TE_LogShutdown \/ UNCHANGED vars
    <2>1. UNCHANGED <<ring, readPos, writePos, producer, flusher>>
        BY <1>7 DEF TE_LogShutdown, vars
    <2>2. /\ Window' = Window /\ \A i : Taken(i)' <=> Taken(i)
          /\ \A q \in Producers : Active(q)' <=> Active(q)
        BY <2>1 DEF Window, Taken, Active
    <2>3. QED
        BY <1>0, <2>1, <2>2 DEF SlotsInv, Held
<1>8. QED
    BY <1>1, <1>2, <1>3, <1>4, <1>5, <1>6, <1>7 DEF Next, FlushStep, Writing

----------------------------------------------------------------------------
(***************************************************************************)
(* The theorems.                                                           *)
(***************************************************************************)

\* The invariant holds in every reachable state.
LEMMA Invariance == Spec => []RingInv
<1>1. Init => RingInv
    BY InitInv
<1>2. RingInv /\ [Next]_vars => RingInv'
    BY TypeStep, PositionsStep, SlotsStep, ShutdownStep, OrderStep DEF RingInv
<1>3. QED
    BY <1>1, <1>2, PTL DEF Spec

\* The ring, the two positions, the producers and the flusher keep their types: no position
\* runs past what was claimed, whoever laps whom.
THEOREM TypeCorrect == Spec => []TypeOK
<1>1. RingInv => TypeOK
    BY DEF RingInv
<1>2. QED
    BY <1>1, Invariance, PTL

\* As long as no producer laps the reader, the log file is the messages in the order of
\* their positions, each once and whole, for any number of writing and flushing threads.
THEOREM OrderAlwaysKept == Spec => []FileInOrder
<1>1. RingInv => FileInOrder
    BY DEF RingInv
<1>2. QED
    BY <1>1, Invariance, PTL

\* TE_LogShutdown loses no message that was complete when it was called, up to the first
\* message some thread was still writing, if no producer lapped the reader.
THEOREM LastFlushAlwaysComplete == Spec => []LastFlushComplete
<1>1. RingInv => LastFlushComplete
    <2>1. SUFFICES ASSUME RingInv, life.thread = "gone", ~past.lapped, NEW m \in past.before,
                          (0 .. m) \subseteq past.before
                   PROVE  m \in ToSet(file)
        BY DEF LastFlushComplete
    <2>2. m \in Nat /\ m < readPos
        BY <2>1 DEF RingInv, ShutdownInv, TypeOK, Positions
    <2>3. /\ file \in Seq({Empty, Torn} \cup Positions) /\ Len(file) = readPos
          /\ \A i \in DOMAIN file : file[i] = i - 1
        BY <2>1 DEF RingInv, TypeOK, FileInOrder
    <2>4. m + 1 \in DOMAIN file /\ file[m + 1] = m
        <3>1. readPos \in Nat
            BY <2>1, Numbers
        <3>2. DOMAIN file = 1 .. readPos
            BY <2>3
        <3>3. m + 1 \in DOMAIN file /\ (m + 1) - 1 = m
            BY <2>2, <3>1, <3>2
        <3>4. QED
            BY <2>3, <3>3
    <2>5. QED
        BY <2>4 DEF ToSet
<1>2. QED
    BY <1>1, Invariance, PTL
=============================================================================
