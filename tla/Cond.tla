-------------------------------- MODULE Cond --------------------------------
(***************************************************************************)
(* sync.Cond of std/sync with a sync.Mutex as its Locker.  Every Wait      *)
(* makes a channel of its own and puts it in Cond.waiters; Signal sends on *)
(* the first of them and drops it, Broadcast does so until none is left.   *)
(*                                                                         *)
(* Mutex.Unlock does not block (HandoverNeverBlocks, checked here too), so *)
(* Wait runs from its registration to its receive without interruption.    *)
(***************************************************************************)
EXTENDS Mutex

VARIABLES
    list,     \* Cond.waiters: the channels, each named by the task that made it
    asleep,   \* the tasks blocked in <-wake
    awake,    \* the tasks that received and have yet to call c.L.Lock
    sending   \* the tasks blocked in Signal's or Broadcast's send

condVars == <<list, asleep, awake, sending>>
vars == <<mutexVars, condVars>>

CondInit == list = <<>> /\ asleep = {} /\ awake = {} /\ sending = {}

Init == MutexInit /\ CondInit

\* A task that may call something: it is not inside any of these calls.
Idle(t) == Active(t) /\ t \notin asleep \cup awake \cup sending

CondLock(t) == Idle(t) /\ t \notin holds /\ Lock(t) /\ UNCHANGED condVars
CondTryLock(t) == Idle(t) /\ TryLock(t) /\ UNCHANGED condVars
CondUnlock(t) == Idle(t) /\ t \in holds /\ Unlock(t) /\ UNCHANGED condVars

WaitUnregistered(t) ==
    /\ Idle(t)
    /\ t \in holds
    /\ Unlock(t)
    /\ asleep' = asleep \cup {t}
    /\ UNCHANGED <<list, awake, sending>>

\* Registers, unlocks c.L and receives.
Wait(t) ==
    /\ Idle(t)
    /\ t \in holds
    /\ list' = Append(list, t)
    /\ Unlock(t)
    /\ asleep' = asleep \cup {t}
    /\ UNCHANGED <<awake, sending>>

RelockIfFree(t) ==
    /\ t \in awake
    /\ awake' = awake \ {t}
    /\ IF locked THEN UNCHANGED mutexVars ELSE Lock(t)
    /\ UNCHANGED <<list, asleep, sending>>

\* The end of a Wait: lock c.L again.
Relock(t) ==
    /\ t \in awake
    /\ awake' = awake \ {t}
    /\ Lock(t)
    /\ UNCHANGED <<list, asleep, sending>>

\* wakeConditionWaiter for the first n channels of the list, each dropped from
\* it after its send; the first send without a receiver blocks.
WakeFirst(t, n) ==
    LET ok(k) == \A i \in 1..k : list[i] \in asleep
        done == CHOOSE k \in 0..n : ok(k) /\ (k < n => ~ok(k + 1))
        woken == {list[i] : i \in 1..done}
    IN  /\ list' = SubSeq(list, done + 1, Len(list))
        /\ asleep' = asleep \ woken
        /\ awake' = awake \cup woken
        /\ sending' = IF done < n THEN sending \cup {t} ELSE sending
        /\ UNCHANGED mutexVars

SignalKeepsChannel(t) ==
    /\ Idle(t)
    /\ list # <<>>
    /\ IF Head(list) \in asleep
       THEN /\ asleep' = asleep \ {Head(list)}
            /\ awake' = awake \cup {Head(list)}
            /\ UNCHANGED sending
       ELSE sending' = sending \cup {t} /\ UNCHANGED <<asleep, awake>>
    /\ UNCHANGED <<list, mutexVars>>

Signal(t) ==
    /\ Idle(t)
    /\ list # <<>>
    /\ WakeFirst(t, 1)

Broadcast(t) ==
    /\ Idle(t)
    /\ list # <<>>
    /\ WakeFirst(t, Len(list))

Next == \E t \in Tasks :
    \/ CondLock(t) \/ CondTryLock(t) \/ CondUnlock(t) \/ Wait(t) \/ Relock(t) \/ Signal(t) \/ Broadcast(t)

\* A woken task runs, and one that holds the lock gives it up: it calls Unlock
\* itself or does so in a Wait.  Nobody has to signal.
Fairness == \A t \in Tasks : WF_vars(CondUnlock(t) \/ Wait(t)) /\ WF_vars(Relock(t))

Spec == Init /\ [][Next]_vars /\ Fairness

----------------------------------------------------------------------------
\* No waiter is beyond the reach of a Signal: the list holds each task asleep in
\* Wait exactly once and nobody else, so neither does a Signal spend itself on a
\* Wait that has returned.  A waiter never sleeps with the lock.
SleepersAreListed ==
    /\ asleep = {list[k] : k \in 1..Len(list)}
    /\ \A j, k \in 1..Len(list) : list[j] = list[k] => j = k
    /\ asleep \cap holds = {}

\* Signal and Broadcast, and the Unlock inside Wait, never block the caller.
SignalNeverBlocks == sending = {} /\ HandoverNeverBlocks

\* Wait returns only with the lock: a task that was woken has it again in the end.
WokenRelocks == \A t \in Tasks : t \in awake ~> t \in holds
=============================================================================
