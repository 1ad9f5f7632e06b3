------------------------------- MODULE Mutex -------------------------------
(***************************************************************************)
(* sync.Mutex of std/sync: a flag, a count of waiters and an unbuffered    *)
(* channel that hands the lock over.                                       *)
(*                                                                         *)
(* Goroutines are serialized (module Serial), so a call runs without       *)
(* interruption up to the point where it blocks on the channel.  Of the    *)
(* channel only Serial's promise is used: receivers are served in order,   *)
(* and a send blocks exactly when no receiver waits.                       *)
(***************************************************************************)
EXTENDS Naturals, Sequences

CONSTANT Tasks

VARIABLES
    locked,     \* Mutex.locked
    waiters,    \* Mutex.waiters
    receivers,  \* the tasks blocked in <-m.wake, in order
    stuck,      \* the tasks blocked in m.wake <- 1
    holds       \* history: the tasks that were granted the lock

mutexVars == <<locked, waiters, receivers, stuck, holds>>

MutexInit ==
    /\ locked = FALSE
    /\ waiters = 0
    /\ receivers = <<>>
    /\ stuck = {}
    /\ holds = {}

\* Task t is blocked in Lock; it can call nothing while it is blocked.
Receiving(t) == \E k \in 1..Len(receivers) : receivers[k] = t
Active(t) == ~Receiving(t) /\ t \notin stuck

Lock(t) ==
    \/ /\ ~locked
       /\ locked' = TRUE
       /\ holds' = holds \cup {t}
       /\ UNCHANGED <<waiters, receivers, stuck>>
    \/ /\ locked
       /\ waiters' = waiters + 1
       /\ receivers' = Append(receivers, t)
       /\ UNCHANGED <<locked, stuck, holds>>

TryLock(t) == ~locked /\ Lock(t)

\* The send m.wake <- 1 of task t, which gives up the lock: the oldest receiver
\* has it now.  A send without a receiver blocks; what follows then is not
\* modelled, HandoverNeverBlocks shows that it does not happen.
Handover(t) ==
    LET next == {receivers[k] : k \in 1..Len(receivers) \cap {1}}
    IN  /\ holds' = (holds \ {t}) \cup next
        /\ receivers' = SubSeq(receivers, 2, Len(receivers))
        /\ stuck' = IF next = {} THEN stuck \cup {t} ELSE stuck

\* Nobody waits: the flag is cleared.
Release(t) ==
    /\ locked' = FALSE
    /\ holds' = holds \ {t}
    /\ UNCHANGED <<waiters, receivers, stuck>>

UnlockClearsFlag(t) ==
    /\ locked
    /\ IF waiters = 0 THEN Release(t)
       ELSE /\ waiters' = waiters - 1
            /\ Handover(t)
            /\ locked' = FALSE

UnlockKeepsCount(t) ==
    /\ locked
    /\ IF waiters = 0 THEN Release(t)
       ELSE Handover(t) /\ UNCHANGED <<locked, waiters>>

UnlockWithoutSend(t) ==
    /\ locked
    /\ locked' = FALSE
    /\ holds' = holds \ {t}
    /\ waiters' = IF waiters = 0 THEN 0 ELSE waiters - 1
    /\ UNCHANGED <<receivers, stuck>>

\* With a waiter the lock stays locked and passes to the oldest one.  (An Unlock
\* of an unlocked mutex panics and changes nothing.)
Unlock(t) ==
    /\ locked
    /\ IF waiters = 0 THEN Release(t)
       ELSE /\ waiters' = waiters - 1
            /\ Handover(t)
            /\ UNCHANGED locked

----------------------------------------------------------------------------
(* A mutex alone, with callers that unlock what they locked *)

MutexLock(t) == Active(t) /\ t \notin holds /\ Lock(t)
MutexTryLock(t) == Active(t) /\ TryLock(t)
MutexUnlock(t) == Active(t) /\ t \in holds /\ Unlock(t)

MutexNext == \E t \in Tasks : MutexLock(t) \/ MutexTryLock(t) \/ MutexUnlock(t)

\* A task that holds the lock gives it up in the end.
MutexSpec ==
    /\ MutexInit
    /\ [][MutexNext]_mutexVars
    /\ \A t \in Tasks : WF_mutexVars(MutexUnlock(t))

\* The fields keep their types: waiters is never decremented below zero.
MutexTypeOK ==
    /\ locked \in BOOLEAN
    /\ waiters \in Nat
    /\ receivers \in Seq(Tasks)
    /\ stuck \subseteq Tasks
    /\ holds \subseteq Tasks

\* At most one task has the lock, also at a handover, where `locked' stays true
\* and the woken task has not run yet; and the flag says so.
Exclusion ==
    /\ \A t, u \in holds : t = u
    /\ locked <=> holds # {}

\* Unlock never blocks: there is a receiver for each waiter counted.
HandoverNeverBlocks == stuck = {} /\ waiters = Len(receivers)

\* Each task waiting for the lock gets it.
LockGranted == \A t \in Tasks : Receiving(t) ~> t \in holds
=============================================================================
