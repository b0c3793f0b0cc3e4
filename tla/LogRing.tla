------------------------------ MODULE LogRing ------------------------------
(***************************************************************************)
(* The asynchronous log (SDK/src/te_log_impl.c): threads claim positions   *)
(* of a ring with an atomic increment and mark their slot ready when it is *)
(* filled; a flusher thread, and whoever calls TE_LogFlush, writes the     *)
(* ready slots to the file in the order of the positions.  Nobody waits    *)
(* for a producer, and producers wait for nobody: they may lap the reader. *)
(* Positions are plain numbers here: the 32-bit wrap is not reached.       *)
(***************************************************************************)
EXTENDS Integers, Sequences, SequencesExt

CONSTANTS Producers,   \* threads that write messages
          Size,        \* RING_BUFFER_SIZE
          MaxMessages  \* bound: messages written

ASSUME LogRingAssumption == Size \in Nat \ {0} /\ MaxMessages \in Nat

VARIABLES ring,      \* g_ring_buffer: what is in a slot, and its ready flag
          writePos,  \* g_write_pos
          readPos,   \* g_read_pos
          producer,  \* per producer: where it is in TE_LogWrite
          flusher,   \* who holds g_flush_cs, and where it is in FlushPendingEntries
          life,      \* the flusher thread and TE_LogShutdown
          file,      \* the messages in the log file, by position
          past       \* history: has a producer lapped the reader, what was complete

vars == <<ring, writePos, readPos, producer, flusher, life, file, past>>

Slots == 0 .. Size - 1
SlotOf(pos) == pos % Size
Positions == 0 .. MaxMessages - 1
Empty == MaxMessages      \* no message yet
Torn == MaxMessages + 1   \* a producer is filling the slot

TypeOK ==
  /\ ring \in [Slots -> [text: {Empty, Torn} \cup Positions, ready: BOOLEAN]]
  /\ writePos \in 0 .. MaxMessages
  /\ readPos \in 0 .. writePos
  /\ producer \in [Producers -> [at: {"idle", "claimed", "cleared", "filled"},
                                 pos: 0 .. MaxMessages]]
  /\ flusher \in [holder: {"none", "thread", "caller"}, at: {"test", "write"},
                  read: 0 .. MaxMessages, write: 0 .. MaxMessages]
  /\ life \in [thread: {"wait", "flush", "last", "gone"}, stop: BOOLEAN]
  /\ file \in Seq({Empty, Torn} \cup Positions)
  /\ past \in [lapped: BOOLEAN, done: SUBSET Positions, before: SUBSET Positions]

Init ==
  /\ ring = [i \in Slots |-> [text |-> Empty, ready |-> FALSE]]
  /\ writePos = 0 /\ readPos = 0
  /\ producer = [p \in Producers |-> [at |-> "idle", pos |-> 0]]
  /\ flusher = [holder |-> "none", at |-> "test", read |-> 0, write |-> 0]
  /\ life = [thread |-> "wait", stop |-> FALSE]
  /\ file = <<>>
  /\ past = [lapped |-> FALSE, done |-> {}, before |-> {}]

----------------------------------------------------------------------------
(* TE_LogWrite *)

\* InterlockedIncrement.  The reader is lapped when the slot still waits to be written.
Claim(p) ==
  /\ producer[p].at = "idle" /\ writePos < MaxMessages
  /\ producer' = [producer EXCEPT ![p] = [at |-> "claimed", pos |-> writePos]]
  /\ writePos' = writePos + 1
  /\ past' = [past EXCEPT !.lapped = @ \/ writePos - readPos >= Size]
  /\ UNCHANGED <<ring, readPos, flusher, life, file>>

\* Mutant: the slot is marked ready before it is filled.
ClearReady(p) ==
  /\ producer[p].at = "claimed"
  /\ ring' = [ring EXCEPT ![SlotOf(producer[p].pos)] = [text |-> Torn, ready |-> TRUE]]
  /\ producer' = [producer EXCEPT ![p].at = "cleared"]
  /\ UNCHANGED <<writePos, readPos, flusher, life, file, past>>

Clear(p) ==
  /\ producer[p].at = "claimed"
  /\ ring' = [ring EXCEPT ![SlotOf(producer[p].pos)] = [text |-> Torn, ready |-> FALSE]]
  /\ producer' = [producer EXCEPT ![p].at = "cleared"]
  /\ UNCHANGED <<writePos, readPos, flusher, life, file, past>>

Fill(p) ==
  /\ producer[p].at = "cleared"
  /\ ring' = [ring EXCEPT ![SlotOf(producer[p].pos)].text = producer[p].pos]
  /\ producer' = [producer EXCEPT ![p].at = "filled"]
  /\ UNCHANGED <<writePos, readPos, flusher, life, file, past>>

\* ready := 1, SetEvent(g_flush_event).
Ready(p) ==
  /\ producer[p].at = "filled"
  /\ ring' = [ring EXCEPT ![SlotOf(producer[p].pos)].ready = TRUE]
  /\ producer' = [producer EXCEPT ![p].at = "idle"]
  /\ past' = [past EXCEPT !.done = @ \cup {producer[p].pos}]
  /\ UNCHANGED <<writePos, readPos, flusher, life, file>>

----------------------------------------------------------------------------
(* FlushPendingEntries, under g_flush_cs *)

\* Mutant: the reader skips without asking whether it was lapped.
BeginAhead(who) ==
  /\ flusher.holder = "none"
  /\ flusher' = [holder |-> who, at |-> "test", read |-> writePos - Size, write |-> writePos]
  /\ readPos' = writePos - Size

\* The reader looks at g_write_pos once, and skips what was overwritten by then.
Begin(who) ==
  /\ flusher.holder = "none"
  /\ LET from == IF writePos - readPos > Size THEN writePos - Size ELSE readPos
     IN /\ flusher' = [holder |-> who, at |-> "test", read |-> from, write |-> writePos]
        /\ readPos' = from

\* Mutant: a slot that is not ready is passed over.
TestAnyway ==
  /\ flusher.holder # "none" /\ flusher.at = "test" /\ flusher.read < flusher.write
  /\ ring' = [ring EXCEPT ![SlotOf(flusher.read)].ready = FALSE]
  /\ flusher' = IF ring[SlotOf(flusher.read)].ready THEN [flusher EXCEPT !.at = "write"]
                ELSE [flusher EXCEPT !.read = @ + 1]
  /\ UNCHANGED <<writePos, readPos, producer, life, file, past>>

\* The slot is taken when it is ready.
Test ==
  /\ flusher.holder # "none" /\ flusher.at = "test" /\ flusher.read < flusher.write
  /\ ring[SlotOf(flusher.read)].ready
  /\ ring' = [ring EXCEPT ![SlotOf(flusher.read)].ready = FALSE]
  /\ flusher' = [flusher EXCEPT !.at = "write"]
  /\ UNCHANGED <<writePos, readPos, producer, life, file, past>>

\* WriteEntryToFile: the slot is read now.
Write ==
  /\ flusher.holder # "none" /\ flusher.at = "write"
  /\ file' = Append(file, ring[SlotOf(flusher.read)].text)
  /\ readPos' = flusher.read + 1
  /\ flusher' = [flusher EXCEPT !.at = "test", !.read = @ + 1]
  /\ UNCHANGED <<ring, writePos, producer, life, past>>

\* Everything was written, or the next slot is still being filled.
Ended ==
  /\ flusher.at = "test"
  /\ flusher.read >= flusher.write \/ ~ring[SlotOf(flusher.read)].ready

Release == flusher' = [flusher EXCEPT !.holder = "none", !.read = 0, !.write = 0]

----------------------------------------------------------------------------
(* FlushThreadProc, TE_LogFlush, TE_LogShutdown *)

\* Woken by the event or after 100 ms; at last by the stop.
ThreadWakes ==
  /\ life.thread = "wait"
  /\ Begin("thread")
  /\ life' = [life EXCEPT !.thread = IF life.stop THEN "last" ELSE "flush"]
  /\ UNCHANGED <<ring, writePos, producer, file, past>>

\* Mutant: the thread that is told to stop leaves without a last look.
ThreadEndsAtOnce ==
  /\ flusher.holder = "thread" /\ Ended /\ Release
  /\ life' = [life EXCEPT !.thread = IF life.stop THEN "gone" ELSE "wait"]
  /\ UNCHANGED <<ring, writePos, readPos, producer, file, past>>

ThreadEnds ==
  /\ flusher.holder = "thread" /\ Ended /\ Release
  /\ life' = [life EXCEPT !.thread = IF @ = "last" THEN "gone" ELSE "wait"]
  /\ UNCHANGED <<ring, writePos, readPos, producer, file, past>>

TE_LogFlush ==
  /\ ~life.stop /\ Begin("caller")
  /\ UNCHANGED <<ring, writePos, producer, life, file, past>>

CallerEnds ==
  /\ flusher.holder = "caller" /\ Ended /\ Release
  /\ UNCHANGED <<ring, writePos, readPos, producer, life, file, past>>

\* TE_LogShutdown; other threads may still be writing.
TE_LogShutdown ==
  /\ ~life.stop /\ flusher.holder # "caller"
  /\ life' = [life EXCEPT !.stop = TRUE]
  /\ past' = [past EXCEPT !.before = past.done]
  /\ UNCHANGED <<ring, writePos, readPos, producer, flusher, file>>

FlushStep == ThreadWakes \/ ThreadEnds \/ CallerEnds \/ Test \/ Write
Writing(p) == Clear(p) \/ Fill(p) \/ Ready(p)

Next ==
  \/ \E p \in Producers : Claim(p) \/ Writing(p)
  \/ FlushStep \/ TE_LogFlush \/ TE_LogShutdown

Spec == Init /\ [][Next]_vars

\* A producer that claimed a position finishes, the flusher thread runs.
FairSpec ==
  /\ Spec
  /\ \A p \in Producers : WF_vars(Writing(p))
  /\ WF_vars(FlushStep)

----------------------------------------------------------------------------
(* Properties. *)

\* As long as no producer laps the reader, the file is the messages in the order of their
\* positions, each once and whole, however many threads write and flush.
FileInOrder ==
  ~past.lapped => /\ Len(file) = readPos
                  /\ \A i \in DOMAIN file : file[i] = i - 1

\* What was complete when the log was shut down is in the file when the thread is gone, up
\* to the first message some thread was still writing; if the reader was never lapped.
LastFlushComplete ==
  life.thread = "gone" /\ ~past.lapped =>
    \A m \in past.before : (0 .. m) \subseteq past.before => m \in ToSet(file)

\* A message that stays in the ring is flushed in the end: a reader that found a slot
\* unready comes back for it; if the reader was never lapped.
Flushed ==
  \A m \in Positions : m \in past.done ~> past.lapped \/ life.stop \/ m \in ToSet(file)

\* "The message will be written to the active ring buffer / log sink and flushed
\* asynchronously": the newest message is flushed in the end, whoever lapped whom before.
NewestFlushed ==
  (past.done = Positions /\ ~life.stop) ~> (life.stop \/ MaxMessages - 1 \in ToSet(file))
==========================================================================
