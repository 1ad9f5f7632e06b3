------------------------------ MODULE RWMutex ------------------------------
(***************************************************************************)
(* sync.RWMutex of std/sync.  A writer that waits keeps new readers out;   *)
(* whoever gives up the last hold passes the lock to the oldest waiting    *)
(* writer, or else to all waiting readers at once.                         *)
(*                                                                         *)
(* As in module Mutex a call runs without interruption until it blocks,    *)
(* and a send blocks exactly when nobody waits to receive.                 *)
(***************************************************************************)
EXTENDS Naturals, Sequences, FiniteSets

CONSTANT Tasks

VARIABLES
    writer, readers, readerWaiters, writerWaiters,   \* the fields of RWMutex
    readQueue,    \* the tasks blocked in <-m.readerWake, in order
    writeQueue,   \* the tasks blocked in <-m.writerWake, in order
    stuck,        \* whether a send of wakeWaiters found no receiver
    reading,      \* history: the tasks that were granted a read lock
    writing       \* history: the tasks that were granted the write lock

vars == <<writer, readers, readerWaiters, writerWaiters, readQueue, writeQueue,
          stuck, reading, writing>>

InSeq(t, s) == \E k \in 1..Len(s) : s[k] = t
Waits(t) == InSeq(t, readQueue) \/ InSeq(t, writeQueue)

\* A task that may ask for the lock, of which it has nothing.
Idle(t) == ~Waits(t) /\ t \notin reading /\ t \notin writing

Init ==
    /\ writer = FALSE /\ readers = 0 /\ readerWaiters = 0 /\ writerWaiters = 0
    /\ readQueue = <<>> /\ writeQueue = <<>>
    /\ stuck = FALSE
    /\ reading = {} /\ writing = {}

TakeWrite(t) ==
    /\ writer' = TRUE
    /\ writing' = writing \cup {t}
    /\ UNCHANGED <<readers, readerWaiters, writerWaiters, readQueue, writeQueue, stuck, reading>>

TakeRead(t) ==
    /\ readers' = readers + 1
    /\ reading' = reading \cup {t}
    /\ UNCHANGED <<writer, readerWaiters, writerWaiters, readQueue, writeQueue, stuck, writing>>

WaitRead(t) ==
    /\ readerWaiters' = readerWaiters + 1
    /\ readQueue' = Append(readQueue, t)
    /\ UNCHANGED <<writer, readers, writerWaiters, writeQueue, stuck, reading, writing>>

WaitWrite(t) ==
    /\ writerWaiters' = writerWaiters + 1
    /\ writeQueue' = Append(writeQueue, t)
    /\ UNCHANGED <<writer, readers, readerWaiters, readQueue, stuck, reading, writing>>

LockBesideReaders(t) ==
    /\ Idle(t)
    /\ IF ~writer THEN TakeWrite(t) ELSE WaitWrite(t)

Lock(t) ==
    /\ Idle(t)
    /\ IF ~writer /\ readers = 0 THEN TakeWrite(t) ELSE WaitWrite(t)

\* A TryLock or TryRLock that fails changes nothing.
TryLock(t) == Idle(t) /\ ~writer /\ readers = 0 /\ TakeWrite(t)

RLockPastWriters(t) ==
    /\ Idle(t)
    /\ IF ~writer THEN TakeRead(t) ELSE WaitRead(t)

RLock(t) ==
    /\ Idle(t)
    /\ IF ~writer /\ writerWaiters = 0 THEN TakeRead(t) ELSE WaitRead(t)

TryRLock(t) == Idle(t) /\ ~writer /\ writerWaiters = 0 /\ TakeRead(t)

\* The first n tasks of a queue, as far as there are that many.
FirstOf(n, s) == {s[k] : k \in 1..(IF n < Len(s) THEN n ELSE Len(s))}

\* The lock stays as its fields wr and rd say, held by r and w; nobody is woken.
StayHeld(wr, rd, r, w) ==
    /\ writer' = wr /\ readers' = rd
    /\ reading' = r /\ writing' = w
    /\ UNCHANGED <<readerWaiters, writerWaiters, readQueue, writeQueue, stuck>>

\* The oldest writer that waits gets the lock.
WakeWriter(r, w) ==
    /\ writerWaiters' = writerWaiters - 1
    /\ writer' = TRUE
    /\ writing' = w \cup FirstOf(1, writeQueue)
    /\ writeQueue' = SubSeq(writeQueue, 2, Len(writeQueue))
    /\ stuck' = (stuck \/ writeQueue = <<>>)
    /\ readers' = 0
    /\ reading' = r
    /\ UNCHANGED <<readerWaiters, readQueue>>

\* The first n readers that wait get the lock; readerWaiters becomes left.
WakeReaders(n, left, r, w) ==
    /\ readerWaiters' = left
    /\ readers' = n
    /\ reading' = r \cup FirstOf(n, readQueue)
    /\ readQueue' = SubSeq(readQueue, n + 1, Len(readQueue))
    /\ stuck' = (stuck \/ n > Len(readQueue))
    /\ writer' = FALSE
    /\ writing' = w
    /\ UNCHANGED <<writerWaiters, writeQueue>>

WakeKeepsReaderCount(wr, rd, r, w) ==
    IF wr \/ rd # 0 THEN StayHeld(wr, rd, r, w)
    ELSE IF writerWaiters > 0 THEN WakeWriter(r, w)
    ELSE WakeReaders(readerWaiters, readerWaiters, r, w)

WakeWritersOnly(wr, rd, r, w) ==
    IF wr \/ rd # 0 \/ writerWaiters = 0 THEN StayHeld(wr, rd, r, w)
    ELSE WakeWriter(r, w)

\* wakeWaiters, called when the fields writer and readers are wr and rd and the
\* holders r and w: one writer, or else every reader that waits.
WakeWaiters(wr, rd, r, w) ==
    IF wr \/ rd # 0 THEN StayHeld(wr, rd, r, w)
    ELSE IF writerWaiters > 0 THEN WakeWriter(r, w)
    ELSE WakeReaders(readerWaiters, 0, r, w)

\* Callers give up only what they hold; an Unlock or RUnlock of a lock not held
\* that way panics and changes nothing.
Unlock(t) ==
    /\ t \in writing
    /\ writer
    /\ WakeWaiters(FALSE, readers, reading, writing \ {t})

RUnlock(t) ==
    /\ t \in reading
    /\ readers > 0
    /\ IF readers = 1 THEN WakeWaiters(writer, 0, reading \ {t}, writing)
                      ELSE StayHeld(writer, readers - 1, reading \ {t}, writing)

Next == \E t \in Tasks :
    Lock(t) \/ TryLock(t) \/ Unlock(t) \/ RLock(t) \/ TryRLock(t) \/ RUnlock(t)

\* Whoever holds the lock gives it up in the end.
Fairness == \A t \in Tasks : WF_vars(Unlock(t)) /\ WF_vars(RUnlock(t))

Spec == Init /\ [][Next]_vars /\ Fairness

----------------------------------------------------------------------------
\* A writer has the lock alone, and the fields say who has it, also while tasks
\* that were granted it have not run yet.
ReadWriteExclusion ==
    /\ \A t, u \in writing : t = u
    /\ writing # {} => reading = {}
    /\ writer <=> writing # {}
    /\ readers = Cardinality(reading)

\* The counts of waiters are those that really wait, so wakeWaiters never blocks
\* the task that gives up the lock.
WakingNeverBlocks ==
    /\ ~stuck
    /\ readerWaiters = Len(readQueue)
    /\ writerWaiters = Len(writeQueue)

\* Readers do not starve a writer: each Lock gets the lock in the end.
WritersGranted == \A t \in Tasks : InSeq(t, writeQueue) ~> t \in writing

\* Writers may starve a reader, but only as long as there are writers waiting:
\* once no more come, each RLock gets the lock.
ReadersGranted ==
    <>[](writeQueue = <<>>) => \A t \in Tasks : InSeq(t, readQueue) ~> t \in reading
=============================================================================
