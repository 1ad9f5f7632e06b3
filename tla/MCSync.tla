------------------------------- MODULE MCSync -------------------------------
(***************************************************************************)
(* The sync package for TLC: a program that uses a Mutex with a Cond, a    *)
(* Once, an RWMutex or a WaitGroup.  The types share no state, so programs *)
(* that use one of them show all that each can do; `uses' is which.        *)
(***************************************************************************)
EXTENDS Mutex

CONSTANTS MaxDelta, MaxAdds

ASSUME SyncAssumption == MaxDelta \in Nat /\ MaxAdds \in Nat

VARIABLES
    uses,
    list, asleep, awake, sending,
    onceLocked, onceWaiters, onceReceivers, onceStuck, onceHolds, done, phase, calls,
    writer, readers, readerWaiters, writerWaiters, readQueue, writeQueue, rwStuck, reading, writing,
    count, groupWaiters, groupReceivers, groupStuck, owed, workers, adds

cond == <<mutexVars, list, asleep, awake, sending>>
once == <<onceLocked, onceWaiters, onceReceivers, onceStuck, onceHolds, done, phase, calls>>
rwmutex == <<writer, readers, readerWaiters, writerWaiters, readQueue, writeQueue, rwStuck, reading, writing>>
waitgroup == <<count, groupWaiters, groupReceivers, groupStuck, owed, workers, adds>>

C == INSTANCE Cond
O == INSTANCE Once WITH locked <- onceLocked, waiters <- onceWaiters, receivers <- onceReceivers,
                        stuck <- onceStuck, holds <- onceHolds
R == INSTANCE RWMutex WITH stuck <- rwStuck
W == INSTANCE WaitGroup WITH waiters <- groupWaiters, receivers <- groupReceivers, stuck <- groupStuck

Init ==
    /\ uses \in {"cond", "once", "rwmutex", "waitgroup"}
    /\ C!Init /\ O!Init /\ R!Init /\ W!Init

UseCond == uses = "cond" /\ C!Next /\ UNCHANGED <<uses, once, rwmutex, waitgroup>>
UseOnce == uses = "once" /\ O!Next /\ UNCHANGED <<uses, cond, rwmutex, waitgroup>>
UseRWMutex == uses = "rwmutex" /\ R!Next /\ UNCHANGED <<uses, cond, once, waitgroup>>
UseWaitGroup == uses = "waitgroup" /\ W!Next /\ UNCHANGED <<uses, cond, once, rwmutex>>

Next == UseCond \/ UseOnce \/ UseRWMutex \/ UseWaitGroup

\* A type that is not used stays in its initial state, where none of its fair
\* actions is enabled.
Spec ==
    /\ Init /\ [][Next]_<<uses, cond, once, rwmutex, waitgroup>>
    /\ C!Fairness /\ O!Fairness /\ R!Fairness /\ W!Fairness

-----------------------------------------------------------------------------
(* The properties of the modules; Exclusion, HandoverNeverBlocks and        *)
(* LockGranted are those of Mutex, beside tasks that Wait.                  *)

\* Cond: a Signal reaches each task asleep in Wait, and no other.
SleepersAreListed == C!SleepersAreListed

\* Cond: Signal, Broadcast and the Unlock inside Wait never block the caller.
SignalNeverBlocks == C!SignalNeverBlocks

\* Cond: a woken task returns from Wait with the lock.
WokenRelocks == C!WokenRelocks

\* Once: f is called once, by a task that holds the lock.
CalledOnce == O!CalledOnce

\* Once: no Do returns before the call of f has ended.
ReturnsAfterCall == O!ReturnsAfterCall

\* Once: each Do that waits for the call returns.
DoReturns == O!DoReturns

\* RWMutex: a writer has the lock alone, and the fields say who has it.
ReadWriteExclusion == R!ReadWriteExclusion

\* RWMutex: wakeWaiters has a receiver for each send.
WakingNeverBlocks == R!WakingNeverBlocks

\* RWMutex: readers do not starve a writer.
WritersGranted == R!WritersGranted

\* RWMutex: once no more writers come, each reader gets the lock.
ReadersGranted == R!ReadersGranted

\* WaitGroup: the Done that reaches zero has a receiver for each send.
DoneNeverBlocks == W!DoneNeverBlocks

\* WaitGroup: a waiter leaves only when the count reaches zero, with all others.
WaitsUntilZero == W!WaitsUntilZero

\* WaitGroup: each Wait returns once what was added is done.
WaitReturns == W!WaitReturns
=============================================================================
