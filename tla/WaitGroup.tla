----------------------------- MODULE WaitGroup -----------------------------
(***************************************************************************)
(* sync.WaitGroup of std/sync: a count of tasks to wait for, a count of    *)
(* waiters and the channel that wakes them.  As in module Mutex a call     *)
(* runs without interruption until it blocks, and a send blocks exactly    *)
(* when nobody waits to receive.                                           *)
(*                                                                         *)
(* Callers balance their own Adds; a group may be used again after a Wait, *)
(* and Add may be called while others wait.                                *)
(***************************************************************************)
EXTENDS Integers, Sequences

CONSTANTS
    Tasks,      \* the tasks that may wait
    MaxDelta,   \* the largest delta of an Add
    MaxAdds     \* bound: how many calls of Add and Go a behaviour has

VARIABLES
    count, waiters,   \* the fields of WaitGroup
    receivers,        \* the tasks blocked in <-w.wake, in order
    stuck,            \* whether a send of Add found no receiver
    owed,             \* history: what callers added and have not taken off yet
    workers,          \* how many goroutines started by Go have yet to call Done
    adds              \* history: the calls of Add and Go so far

vars == <<count, waiters, receivers, stuck, owed, workers, adds>>

Init ==
    /\ count = 0 /\ waiters = 0
    /\ receivers = <<>>
    /\ stuck = FALSE
    /\ owed = 0 /\ workers = 0 /\ adds = 0

Waits(t) == \E k \in 1..Len(receivers) : receivers[k] = t

ChangeKeepsWaiters(delta) ==
    LET next == count + delta
    IN  /\ next >= 0
        /\ count' = next
        /\ IF next # 0 \/ waiters = 0
           THEN UNCHANGED <<waiters, receivers, stuck>>
           ELSE /\ receivers' = SubSeq(receivers, waiters + 1, Len(receivers))
                /\ stuck' = (stuck \/ waiters > Len(receivers))
                /\ UNCHANGED waiters

ChangeWakesOne(delta) ==
    LET next == count + delta
    IN  /\ next >= 0
        /\ count' = next
        /\ IF next # 0 \/ waiters = 0
           THEN UNCHANGED <<waiters, receivers, stuck>>
           ELSE /\ waiters' = waiters - 1
                /\ receivers' = Tail(receivers)
                /\ UNCHANGED stuck

ChangeWakesAlways(delta) ==
    LET next == count + delta
    IN  /\ next >= 0
        /\ count' = next
        /\ waiters' = 0
        /\ receivers' = <<>>
        /\ UNCHANGED stuck

\* Add: at zero every waiter is woken.  (A negative count panics before anything
\* is changed.)
Change(delta) ==
    LET next == count + delta
    IN  /\ next >= 0
        /\ count' = next
        /\ IF next # 0 \/ waiters = 0
           THEN UNCHANGED <<waiters, receivers, stuck>>
           ELSE /\ waiters' = 0
                /\ receivers' = SubSeq(receivers, waiters + 1, Len(receivers))
                /\ stuck' = (stuck \/ waiters > Len(receivers))

Add(delta) ==
    /\ adds < MaxAdds
    /\ Change(delta)
    /\ owed' = owed + delta
    /\ adds' = adds + 1
    /\ UNCHANGED workers

Done ==
    /\ owed > 0
    /\ Change(-1)
    /\ owed' = owed - 1
    /\ UNCHANGED <<workers, adds>>

Go ==
    /\ adds < MaxAdds
    /\ Change(1)
    /\ workers' = workers + 1
    /\ adds' = adds + 1
    /\ UNCHANGED owed

\* The deferred Done of a goroutine started by Go: f returned or panicked.
GoDone ==
    /\ workers > 0
    /\ Change(-1)
    /\ workers' = workers - 1
    /\ UNCHANGED <<owed, adds>>

\* A Wait that does not block changes nothing.
Wait(t) ==
    /\ ~Waits(t)
    /\ count # 0
    /\ waiters' = waiters + 1
    /\ receivers' = Append(receivers, t)
    /\ UNCHANGED <<count, stuck, owed, workers, adds>>

Next ==
    \/ \E delta \in 0..MaxDelta : Add(delta)
    \/ Done \/ Go \/ GoDone
    \/ \E t \in Tasks : Wait(t)

\* Whatever was added is taken off in the end.
Fairness == WF_vars(Done) /\ WF_vars(GoDone)

Spec == Init /\ [][Next]_vars /\ Fairness

----------------------------------------------------------------------------
\* The goroutine whose Done reaches zero is never blocked by waking the waiters.
DoneNeverBlocks == ~stuck /\ waiters = Len(receivers)

\* No Wait returns early: a waiter leaves only when the count reaches zero, and
\* then all leave together.
WaitsUntilZero ==
    [][\A t \in Tasks : Waits(t) /\ ~Waits(t)' => count' = 0 /\ receivers' = <<>>]_vars

\* Each Wait returns once what was added is done.
WaitReturns == \A t \in Tasks : Waits(t) ~> ~Waits(t)
=============================================================================
