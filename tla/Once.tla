-------------------------------- MODULE Once --------------------------------
(***************************************************************************)
(* sync.Once of std/sync: a flag and a Mutex held while f runs.  f is the  *)
(* caller's; it may block, so other tasks run while it is under way, and   *)
(* it may panic, in which case the deferred function still marks the Once. *)
(***************************************************************************)
EXTENDS Mutex

VARIABLES
    done,     \* Once.done
    phase,    \* per task: "idle", "locking" (in o.lock.Lock), "calling" (in f), "returned"
    calls     \* history: how often f was called

onceVars == <<done, phase, calls>>
vars == <<mutexVars, onceVars>>

Init ==
    /\ MutexInit
    /\ done = FALSE
    /\ phase = [t \in Tasks |-> "idle"]
    /\ calls = 0

\* The fast path: no lock is taken.
DoDone(t) ==
    /\ phase[t] = "idle"
    /\ done
    /\ phase' = [phase EXCEPT ![t] = "returned"]
    /\ UNCHANGED <<mutexVars, done, calls>>

\* o.done was false: lock.  The task goes on without interruption when the lock
\* is free, and blocks otherwise.
DoLock(t) ==
    /\ phase[t] = "idle"
    /\ ~done
    /\ Lock(t)
    /\ IF locked THEN phase' = [phase EXCEPT ![t] = "locking"] /\ UNCHANGED calls
                 ELSE phase' = [phase EXCEPT ![t] = "calling"] /\ calls' = calls + 1
    /\ UNCHANGED done

DoLockedUnchecked(t) ==
    /\ phase[t] = "locking"
    /\ t \in holds
    /\ phase' = [phase EXCEPT ![t] = "calling"]
    /\ calls' = calls + 1
    /\ UNCHANGED <<mutexVars, done>>

DoLockedKeepsLock(t) ==
    /\ phase[t] = "locking"
    /\ t \in holds
    /\ done
    /\ phase' = [phase EXCEPT ![t] = "returned"]
    /\ UNCHANGED <<mutexVars, calls, done>>

\* The lock was handed over: look at o.done again.
DoLocked(t) ==
    /\ phase[t] = "locking"
    /\ t \in holds
    /\ IF done THEN Unlock(t) /\ phase' = [phase EXCEPT ![t] = "returned"] /\ UNCHANGED calls
               ELSE /\ phase' = [phase EXCEPT ![t] = "calling"]
                    /\ calls' = calls + 1
                    /\ UNCHANGED mutexVars
    /\ UNCHANGED done

DoDeferUnlocksOnly(t) ==
    /\ phase[t] = "calling"
    /\ Unlock(t)
    /\ phase' = [phase EXCEPT ![t] = "returned"]
    /\ UNCHANGED <<done, calls>>

\* f ends, by a return or by a panic: the deferred function runs in both cases.
DoDefer(t) ==
    /\ phase[t] = "calling"
    /\ done' = TRUE
    /\ Unlock(t)
    /\ phase' = [phase EXCEPT ![t] = "returned"]
    /\ UNCHANGED calls

\* The same task may call Do again later.
Again(t) ==
    /\ phase[t] = "returned"
    /\ phase' = [phase EXCEPT ![t] = "idle"]
    /\ UNCHANGED <<mutexVars, done, calls>>

Next == \E t \in Tasks :
    DoDone(t) \/ DoLock(t) \/ DoLocked(t) \/ DoDefer(t) \/ Again(t)

\* f ends, and a task with the lock goes on.
Fairness == \A t \in Tasks : WF_vars(DoLocked(t)) /\ WF_vars(DoDefer(t))

Spec == Init /\ [][Next]_vars /\ Fairness

----------------------------------------------------------------------------
\* f is called at most once, although several tasks may have seen o.done false
\* before the first of them had the lock; and while it runs its caller holds the
\* lock, so that nobody else can finish first.
CalledOnce ==
    /\ calls <= 1
    /\ \A t \in Tasks : phase[t] = "calling" => t \in holds /\ ~done

\* No Do returns before the call of f has ended, panicking or not.
ReturnsAfterCall ==
    (\E t \in Tasks : phase[t] = "returned") =>
        /\ done
        /\ \A t \in Tasks : phase[t] # "calling"

\* A task that waits for the first call to end returns in the end: the lock is
\* passed down the queue of all that wait.
DoReturns == \A t \in Tasks : phase[t] = "locking" ~> phase[t] = "returned"
=============================================================================
