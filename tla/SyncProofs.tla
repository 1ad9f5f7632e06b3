----------------------------- MODULE SyncProofs -----------------------------
(***************************************************************************)
(* Proofs about sync.Cond, sync.Once, sync.RWMutex and sync.WaitGroup, for *)
(* any number of tasks, stated for the programs of MCSync.                 *)
(*                                                                         *)
(* The lemmas about sync.Mutex come from MutexProofs: as they stand for    *)
(* the Mutex beside a Cond, and instantiated for the lock inside a Once.   *)
(***************************************************************************)
EXTENDS MCSync, MutexProofs, FiniteSetTheorems

\* The proofs about the lock of a Once.
OnceLock == INSTANCE MutexProofs WITH locked <- onceLocked, waiters <- onceWaiters,
         receivers <- onceReceivers, stuck <- onceStuck, holds <- onceHolds

all == <<uses, cond, once, rwmutex, waitgroup>>

\* A step of a program is a step of the type it uses and leaves the others alone.
LEMMA PartSteps ==
    [Next]_all => /\ [C!Next]_(C!vars) /\ [O!Next]_(O!vars)
                  /\ [R!Next]_(R!vars) /\ [W!Next]_(W!vars)
<1> USE DEF cond, once, rwmutex, waitgroup, mutexVars,
            C!vars, C!mutexVars, C!condVars, O!vars, O!mutexVars, O!onceVars, R!vars, W!vars
<1> SUFFICES ASSUME [Next]_all
             PROVE  /\ [C!Next]_(C!vars) /\ [O!Next]_(O!vars)
                    /\ [R!Next]_(R!vars) /\ [W!Next]_(W!vars)
  OBVIOUS
<1>1. \/ C!Next /\ UNCHANGED <<once, rwmutex, waitgroup>>
      \/ O!Next /\ UNCHANGED <<cond, rwmutex, waitgroup>>
      \/ R!Next /\ UNCHANGED <<cond, once, waitgroup>>
      \/ W!Next /\ UNCHANGED <<cond, once, rwmutex>>
      \/ UNCHANGED <<cond, once, rwmutex, waitgroup>>
  BY DEF Next, UseCond, UseOnce, UseRWMutex, UseWaitGroup, all
<1>2. UNCHANGED cond => UNCHANGED C!vars
  OBVIOUS
<1>3. UNCHANGED once => UNCHANGED O!vars
  OBVIOUS
<1>4. UNCHANGED rwmutex => UNCHANGED R!vars
  OBVIOUS
<1>5. UNCHANGED waitgroup => UNCHANGED W!vars
  OBVIOUS
<1> QED
  BY <1>1, <1>2, <1>3, <1>4, <1>5

-----------------------------------------------------------------------------
(* Sequences of tasks, as the queues of this package are.                  *)

Distinct(s) == \A j, k \in 1..Len(s) : s[j] = s[k] => j = k
Members(s) == {s[k] : k \in 1..Len(s)}

\* A task that is not in a queue joins it.
LEMMA JoinQueue ==
    ASSUME NEW s \in Seq(Tasks), NEW t \in Tasks, t \notin Members(s), Distinct(s)
    PROVE  /\ Append(s, t) \in Seq(Tasks) /\ Len(Append(s, t)) = Len(s) + 1
           /\ Distinct(Append(s, t))
           /\ Members(Append(s, t)) = Members(s) \cup {t}
<1>1. /\ Append(s, t) \in Seq(Tasks) /\ Len(Append(s, t)) = Len(s) + 1 /\ Len(s) \in Nat
      /\ \A i \in 1..Len(s) : Append(s, t)[i] = s[i]
      /\ Append(s, t)[Len(s) + 1] = t
  BY AppendProperties, LenProperties
<1>2. \A i \in 1..(Len(s) + 1) : i \in 1..Len(s) \/ i = Len(s) + 1
  BY <1>1
<1>3. Distinct(Append(s, t))
  BY <1>1, <1>2 DEF Distinct, Members
<1>4. Members(Append(s, t)) = Members(s) \cup {t}
  BY <1>1, <1>2 DEF Members
<1> QED
  BY <1>1, <1>3, <1>4

\* The first n tasks of a queue leave it.
LEMMA LeaveQueue ==
    ASSUME NEW s \in Seq(Tasks), Distinct(s), NEW n \in 0..Len(s)
    PROVE  LET r == SubSeq(s, n + 1, Len(s))
               gone == {s[k] : k \in 1..n}
           IN  /\ r \in Seq(Tasks) /\ Len(r) = Len(s) - n
               /\ Distinct(r)
               /\ Members(r) = Members(s) \ gone
               /\ gone \subseteq Members(s)
<1> DEFINE r == SubSeq(s, n + 1, Len(s))
           gone == {s[k] : k \in 1..n}
<1>1. Len(s) \in Nat /\ n \in Nat /\ n <= Len(s)
  OBVIOUS
<1>2. \A i \in (n + 1)..Len(s) : s[i] \in Tasks
  BY <1>1
<1>3. /\ r \in Seq(Tasks) /\ Len(r) = Len(s) - n
      /\ \A i \in 1..(Len(s) - n) : r[i] = s[n + i]
  <2>1. /\ r \in Seq(Tasks)
        /\ Len(r) = IF n + 1 <= Len(s) THEN Len(s) - (n + 1) + 1 ELSE 0
        /\ \A i \in 1..(Len(s) - (n + 1) + 1) : r[i] = s[(n + 1) + i - 1]
    BY <1>1, <1>2, SubSeqProperties
  <2> HIDE DEF r
  <2>2. ASSUME NEW i \in 1..(Len(s) - n) PROVE r[i] = s[n + i]
    <3>1. i \in 1..(Len(s) - (n + 1) + 1) /\ (n + 1) + i - 1 = n + i
      BY <1>1
    <3> QED
      BY <2>1, <3>1
  <2> QED
    BY <1>1, <2>1, <2>2
<1> HIDE DEF r
<1>4. Distinct(r)
  <2> SUFFICES ASSUME NEW j \in 1..(Len(s) - n), NEW k \in 1..(Len(s) - n), r[j] = r[k]
               PROVE  j = k
    BY <1>3 DEF Distinct
  <2>1. n + j \in 1..Len(s) /\ n + k \in 1..Len(s) /\ s[n + j] = s[n + k]
    BY <1>1, <1>3
  <2>2. n + j = n + k
    BY <2>1 DEF Distinct
  <2> QED
    BY <1>1, <2>2
<1>5. Members(r) \subseteq Members(s) \ gone
  <2> SUFFICES ASSUME NEW j \in 1..(Len(s) - n) PROVE r[j] \in Members(s) \ gone
    BY <1>3 DEF Members
  <2>1. n + j \in 1..Len(s) /\ r[j] = s[n + j]
    BY <1>1, <1>3
  <2>2. ASSUME NEW k \in 1..n, s[k] = s[n + j] PROVE FALSE
    <3>1. k \in 1..Len(s)
      BY <1>1
    <3>2. k = n + j
      BY <2>1, <2>2, <3>1 DEF Distinct
    <3> QED
      BY <1>1, <3>2
  <2> QED
    BY <2>1, <2>2 DEF Members
<1>6. Members(s) \ gone \subseteq Members(r)
  <2> SUFFICES ASSUME NEW k \in 1..Len(s), s[k] \notin gone PROVE s[k] \in Members(r)
    BY DEF Members
  <2>1. k \notin 1..n
    OBVIOUS
  <2>2. k - n \in 1..(Len(s) - n) /\ n + (k - n) = k
    BY <1>1, <2>1
  <2>3. r[k - n] = s[k]
    BY <1>3, <2>2
  <2> QED
    BY <1>3, <2>2, <2>3 DEF Members
<1>7. gone \subseteq Members(s)
  BY <1>1 DEF Members
<1> QED
  BY <1>3, <1>4, <1>5, <1>6, <1>7 DEF r

\* A queue of distinct tasks has as many members as places.
LEMMA QueueSize ==
    ASSUME NEW s \in Seq(Tasks), Distinct(s)
    PROVE  IsFiniteSet(Members(s)) /\ Cardinality(Members(s)) = Len(s)
<1>1. Len(s) \in Nat /\ s \in [1..Len(s) -> Tasks]
  BY LenProperties
<1>2. IsFiniteSet(1..Len(s)) /\ Cardinality(1..Len(s)) = Len(s)
  BY <1>1, FS_Interval
<1> DEFINE f == [k \in 1..Len(s) |-> s[k]]
<1>3. f \in Bijection(1..Len(s), Members(s))
  BY DEF Bijection, Injection, IsInjective, Surjection, Members, Distinct
<1>4. ExistsBijection(1..Len(s), Members(s))
  BY <1>3 DEF ExistsBijection
<1> QED
  BY <1>2, <1>4, FS_Bijection

-----------------------------------------------------------------------------
(* sync.Once                                                               *)
(*                                                                         *)
(* That f is called once rests on who may be where: a task has the lock    *)
(* or waits for it only inside Do, f is called with the lock and before    *)
(* the flag is set, and whoever has returned has seen the flag.            *)

OncePhases == {"idle", "locking", "calling", "returned"}

OnceTypeOK ==
    /\ done \in BOOLEAN
    /\ phase \in [Tasks -> OncePhases]
    /\ calls \in Nat

InsideDo ==
    /\ \A t \in Tasks : phase[t] = "calling" => t \in onceHolds /\ ~done
    /\ \A t \in onceHolds : phase[t] \in {"locking", "calling"}
    /\ \A k \in 1..Len(onceReceivers) : phase[onceReceivers[k]] = "locking"

CallsCounted ==
    /\ calls = IF done \/ (\E t \in Tasks : phase[t] = "calling") THEN 1 ELSE 0
    /\ \A t \in Tasks : phase[t] = "returned" => done

OnceInductive == OnceLock!MutexInductive /\ OnceTypeOK /\ InsideDo /\ CallsCounted

LEMMA OnceInit == O!Init => OnceInductive
<1> SUFFICES ASSUME O!Init PROVE OnceInductive
  OBVIOUS
<1>1. OnceLock!MutexInit
  BY DEF O!Init, O!MutexInit, OnceLock!MutexInit
<1>2. OnceLock!MutexInductive
  BY <1>1, OnceLock!InitInductive
<1>3. OnceTypeOK /\ CallsCounted
  BY DEF O!Init, OnceTypeOK, OncePhases, CallsCounted
<1>4. InsideDo
  <2>1. onceReceivers = <<>> /\ onceHolds = {} /\ Len(onceReceivers) = 0
    BY DEF O!Init, O!MutexInit
  <2> QED
    BY <2>1 DEF O!Init, InsideDo
<1> QED
  BY <1>2, <1>3, <1>4 DEF OnceInductive

\* What the lock of a Once does, in the terms the other lemmas need.
LEMMA OnceLocks ==
    ASSUME OnceInductive, NEW t \in Tasks, phase[t] = "idle", O!Lock(t)
    PROVE  /\ OnceLock!MutexInductive'
           /\ ~onceLocked => onceHolds = {} /\ onceHolds' = {t} /\ onceReceivers' = onceReceivers
           /\ onceLocked => onceHolds' = onceHolds /\ onceReceivers' = Append(onceReceivers, t)
<1> USE DEF OnceInductive
<1>1. OnceLock!Lock(t)
  BY DEF O!Lock, OnceLock!Lock
<1>2. t \notin onceHolds /\ OnceLock!Active(t)
  BY DEF InsideDo, OnceLock!Active, OnceLock!Receiving, OnceLock!MutexInductive,
         OnceLock!HandoverNeverBlocks
<1>3. OnceLock!MutexInductive'
  BY <1>1, <1>2, OnceLock!LockStep
<1>4. ~onceLocked => onceHolds = {}
  BY DEF OnceLock!MutexInductive, OnceLock!Exclusion
<1> QED
  BY <1>3, <1>4 DEF O!Lock

LEMMA OnceUnlocks ==
    ASSUME OnceInductive, NEW t \in Tasks, t \in onceHolds, O!Unlock(t)
    PROVE  /\ OnceLock!MutexInductive'
           /\ onceHolds = {t}
           /\ \A u \in onceHolds' : \E k \in 1..Len(onceReceivers) : onceReceivers[k] = u
           /\ \A j \in 1..Len(onceReceivers') :
                  \E k \in 1..Len(onceReceivers) : onceReceivers[k] = onceReceivers'[j]
<1> USE DEF OnceInductive
<1>1. OnceLock!Unlock(t)
  BY DEF O!Unlock, O!Release, O!Handover, OnceLock!Unlock, OnceLock!Release, OnceLock!Handover
<1>2. OnceLock!MutexInductive'
  BY <1>1, OnceLock!UnlockStep
<1>3. onceHolds = {t} /\ Len(onceReceivers) \in Nat
  BY DEF OnceLock!MutexInductive, OnceLock!Exclusion, OnceLock!MutexTypeOK
<1>4. CASE onceWaiters = 0
  BY <1>1, <1>2, <1>3, <1>4 DEF OnceLock!Unlock, OnceLock!Release
<1>5. CASE onceWaiters # 0
  <2>1. OnceLock!Handover(t) /\ Len(onceReceivers) > 0
    BY <1>1, <1>3, <1>5 DEF OnceLock!Unlock, OnceLock!MutexInductive, OnceLock!HandoverNeverBlocks
  <2>2. /\ onceHolds' = (onceHolds \ {t}) \cup {onceReceivers[1]}
        /\ Len(onceReceivers') = Len(onceReceivers) - 1
        /\ \A k \in 1..Len(onceReceivers') : onceReceivers'[k] = onceReceivers[k + 1]
    BY <2>1, OnceLock!HandoverToFirst DEF OnceLock!MutexInductive
  <2>3. 1 \in 1..Len(onceReceivers) /\ \A k \in 1..Len(onceReceivers') : k + 1 \in 1..Len(onceReceivers)
    BY <1>3, <2>1, <2>2
  <2> QED
    BY <1>2, <1>3, <2>2, <2>3
<1> QED
  BY <1>4, <1>5

LEMMA OnceStep == OnceInductive /\ [O!Next]_(O!vars) => OnceInductive'
<1> SUFFICES ASSUME OnceInductive, [O!Next]_(O!vars) PROVE OnceInductive'
  OBVIOUS
<1> USE DEF OnceInductive
<1>0. /\ \A k \in 1..Len(onceReceivers) : onceReceivers[k] \in Tasks
      /\ onceHolds \subseteq Tasks /\ \A t, u \in onceHolds : t = u
      /\ onceLocked <=> onceHolds # {}
  BY DEF OnceLock!MutexInductive, OnceLock!MutexTypeOK, OnceLock!Exclusion
<1>1. ASSUME NEW t \in Tasks, O!DoDone(t) \/ O!Again(t) PROVE OnceInductive'
  <2>1. /\ phase[t] \in {"idle", "returned"} /\ (phase'[t] = "returned" => done)
        /\ phase' = [phase EXCEPT ![t] = phase'[t]] /\ phase'[t] \in {"idle", "returned"}
        /\ UNCHANGED <<onceLocked, onceWaiters, onceReceivers, onceStuck, onceHolds, done, calls>>
    BY <1>1 DEF O!DoDone, O!Again, O!mutexVars, OnceTypeOK
  <2>2. OnceLock!MutexInductive'
    BY <2>1 DEF OnceLock!MutexInductive, OnceLock!MutexTypeOK, OnceLock!Exclusion,
                OnceLock!HandoverNeverBlocks, OnceLock!QueueOfOthers
  <2>3. OnceTypeOK'
    BY <2>1 DEF OnceTypeOK, OncePhases
  <2>4. InsideDo'
    BY <1>0, <2>1 DEF InsideDo, OnceTypeOK
  <2>5. \A u \in Tasks : phase'[u] = "calling" <=> phase[u] = "calling"
    BY <2>1 DEF OnceTypeOK
  <2>6. CallsCounted'
    BY <2>1, <2>5 DEF CallsCounted, OnceTypeOK
  <2> QED
    BY <2>2, <2>3, <2>4, <2>6
<1>2. ASSUME NEW t \in Tasks, O!DoLock(t) PROVE OnceInductive'
  <2>1. phase[t] = "idle" /\ ~done /\ O!Lock(t) /\ done' = done
    BY <1>2 DEF O!DoLock
  <2>2. /\ OnceLock!MutexInductive'
        /\ ~onceLocked => onceHolds = {} /\ onceHolds' = {t} /\ onceReceivers' = onceReceivers
        /\ onceLocked => onceHolds' = onceHolds /\ onceReceivers' = Append(onceReceivers, t)
    BY <2>1, OnceLocks
  <2>3. CASE onceLocked
    <3>1. phase' = [phase EXCEPT ![t] = "locking"] /\ calls' = calls
      BY <1>2, <2>3 DEF O!DoLock
    <3>2. /\ Len(Append(onceReceivers, t)) = Len(onceReceivers) + 1 /\ Len(onceReceivers) \in Nat
          /\ \A k \in 1..Len(onceReceivers) : Append(onceReceivers, t)[k] = onceReceivers[k]
          /\ Append(onceReceivers, t)[Len(onceReceivers) + 1] = t
      BY AppendProperties, LenProperties DEF OnceLock!MutexInductive, OnceLock!MutexTypeOK
    <3>3. \A k \in 1..(Len(onceReceivers) + 1) : k \in 1..Len(onceReceivers) \/ k = Len(onceReceivers) + 1
      BY <3>2
    <3>4. InsideDo'
      BY <1>0, <2>1, <2>2, <2>3, <3>1, <3>2, <3>3 DEF InsideDo, OnceTypeOK
    <3>5. OnceTypeOK'
      BY <2>1, <3>1 DEF OnceTypeOK, OncePhases
    <3>6. CallsCounted'
      BY <2>1, <3>1 DEF CallsCounted, OnceTypeOK
    <3> QED
      BY <2>2, <3>4, <3>5, <3>6
  <2>4. CASE ~onceLocked
    <3>1. phase' = [phase EXCEPT ![t] = "calling"] /\ calls' = calls + 1
      BY <1>2, <2>4 DEF O!DoLock
    <3>2. \A u \in Tasks : phase[u] # "calling"
      BY <2>2, <2>4 DEF InsideDo
    <3>3. InsideDo'
      BY <1>0, <2>1, <2>2, <2>4, <3>1, <3>2 DEF InsideDo, OnceTypeOK
    <3>4. OnceTypeOK'
      BY <2>1, <3>1 DEF OnceTypeOK, OncePhases
    <3>5. calls = 0 /\ phase'[t] = "calling"
      BY <2>1, <3>1, <3>2 DEF CallsCounted, OnceTypeOK
    <3>6. CallsCounted'
      BY <2>1, <3>1, <3>5 DEF CallsCounted, OnceTypeOK
    <3> QED
      BY <2>2, <3>3, <3>4, <3>6
  <2> QED
    BY <2>3, <2>4
<1>3. ASSUME NEW t \in Tasks, t \in onceHolds, O!Unlock(t), done', UNCHANGED calls,
             phase' = [phase EXCEPT ![t] = "returned"],
             done \/ phase[t] = "calling"
      PROVE  OnceInductive'
  <2>1. /\ OnceLock!MutexInductive'
        /\ onceHolds = {t}
        /\ \A u \in onceHolds' : \E k \in 1..Len(onceReceivers) : onceReceivers[k] = u
        /\ \A j \in 1..Len(onceReceivers') :
               \E k \in 1..Len(onceReceivers) : onceReceivers[k] = onceReceivers'[j]
    BY <1>3, OnceUnlocks
  <2>2. \A k \in 1..Len(onceReceivers) : onceReceivers[k] # t /\ onceReceivers[k] \in Tasks
    BY <1>0, <2>1 DEF OnceLock!MutexInductive, OnceLock!QueueOfOthers
  <2>3. \A u \in Tasks : phase'[u] = IF u = t THEN "returned" ELSE phase[u]
    BY <1>3 DEF OnceTypeOK
  <2>4. \A u \in Tasks : phase'[u] # "calling"
    BY <2>1, <2>3 DEF InsideDo
  <2>5. InsideDo'
    BY <2>1, <2>2, <2>3, <2>4 DEF InsideDo
  <2>6. calls = 1
    BY <1>3 DEF CallsCounted
  <2>7. CallsCounted'
    BY <1>3, <2>6 DEF CallsCounted
  <2>8. done' = TRUE
    BY <1>0, <1>3, <2>1, <2>7 DEF InsideDo
  <2> QED
    BY <1>3, <2>1, <2>5, <2>7, <2>8 DEF OnceTypeOK, OncePhases
<1>4. ASSUME NEW t \in Tasks, O!DoLocked(t) PROVE OnceInductive'
  <2>1. phase[t] = "locking" /\ t \in onceHolds /\ done' = done
    BY <1>4 DEF O!DoLocked
  <2>2. CASE done
    BY <1>3, <1>4, <2>1, <2>2 DEF O!DoLocked
  <2>3. CASE ~done
    <3>1. /\ phase' = [phase EXCEPT ![t] = "calling"] /\ calls' = calls + 1
          /\ UNCHANGED <<onceLocked, onceWaiters, onceReceivers, onceStuck, onceHolds>>
      BY <1>4, <2>3 DEF O!DoLocked, O!mutexVars
    <3>2. OnceLock!MutexInductive'
      BY <3>1 DEF OnceLock!MutexInductive, OnceLock!MutexTypeOK, OnceLock!Exclusion,
                  OnceLock!HandoverNeverBlocks, OnceLock!QueueOfOthers
    <3>3. \A u \in Tasks : phase[u] # "calling"
      BY <1>0, <2>1 DEF InsideDo
    <3>4. \A k \in 1..Len(onceReceivers) : onceReceivers[k] # t
      BY <2>1 DEF OnceLock!MutexInductive, OnceLock!QueueOfOthers
    <3>5. InsideDo'
      BY <1>0, <2>1, <2>3, <3>1, <3>3, <3>4 DEF InsideDo, OnceTypeOK
    <3>6. calls = 0 /\ phase'[t] = "calling"
      BY <2>3, <3>1, <3>3 DEF CallsCounted, OnceTypeOK
    <3>7. CallsCounted'
      BY <2>1, <2>3, <3>1, <3>6 DEF CallsCounted, OnceTypeOK
    <3>8. OnceTypeOK'
      BY <2>1, <3>1 DEF OnceTypeOK, OncePhases
    <3> QED
      BY <3>2, <3>5, <3>7, <3>8
  <2> QED
    BY <2>2, <2>3 DEF OnceTypeOK
<1>5. ASSUME NEW t \in Tasks, O!DoDefer(t) PROVE OnceInductive'
  <2>1. phase[t] = "calling" /\ t \in onceHolds
    BY <1>5 DEF O!DoDefer, InsideDo
  <2> QED
    BY <1>3, <1>5, <2>1 DEF O!DoDefer
<1>6. CASE UNCHANGED O!vars
  <2>1. UNCHANGED <<onceLocked, onceWaiters, onceReceivers, onceStuck, onceHolds, done, phase, calls>>
    BY <1>6 DEF O!vars, O!mutexVars, O!onceVars
  <2> QED
    BY <2>1 DEF OnceLock!MutexInductive, OnceLock!MutexTypeOK, OnceLock!Exclusion,
                OnceLock!HandoverNeverBlocks, OnceLock!QueueOfOthers, OnceTypeOK, InsideDo, CallsCounted
<1> QED
  BY <1>1, <1>2, <1>4, <1>5, <1>6 DEF O!Next

LEMMA OnceInvariant == Spec => []OnceInductive
<1>1. Init => OnceInductive
  BY OnceInit DEF Init
<1>2. OnceInductive /\ [Next]_all => OnceInductive'
  BY PartSteps, OnceStep
<1> QED
  BY <1>1, <1>2, PTL DEF Spec, all

\* f is called at most once, by a task that holds the lock and before the flag
\* is set, however many tasks saw the flag unset before one had the lock.
THEOREM OnceCallsOnce == Spec => []CalledOnce
<1>1. OnceInductive => CalledOnce
  BY DEF OnceInductive, OnceTypeOK, InsideDo, CallsCounted, CalledOnce, O!CalledOnce
<1> QED
  BY <1>1, OnceInvariant, PTL

\* No Do returns before the call of f has ended, by a return or a panic.
THEOREM OnceReturnsAfterCall == Spec => []ReturnsAfterCall
<1>1. OnceInductive => ReturnsAfterCall
  BY DEF OnceInductive, InsideDo, CallsCounted, ReturnsAfterCall, O!ReturnsAfterCall
<1> QED
  BY <1>1, OnceInvariant, PTL

-----------------------------------------------------------------------------
(* sync.Cond                                                               *)
(*                                                                         *)
(* A task is in one place at a time: asleep, woken, waiting for the lock   *)
(* or holding it.                                                          *)

CondTypeOK ==
    /\ list \in Seq(Tasks)
    /\ asleep \subseteq Tasks /\ awake \subseteq Tasks /\ sending \subseteq Tasks

OnePlace ==
    /\ asleep \cap (awake \cup holds \cup Members(receivers)) = {}
    /\ awake \cap (holds \cup Members(receivers)) = {}

CondInductive ==
    /\ MutexInductive
    /\ CondTypeOK
    /\ asleep = Members(list) /\ Distinct(list)
    /\ sending = {}
    /\ OnePlace

LEMMA CondInits == C!Init => CondInductive
<1> SUFFICES ASSUME C!Init PROVE CondInductive
  OBVIOUS
<1>1. MutexInit
  BY DEF C!Init, C!MutexInit, MutexInit
<1>2. MutexInductive
  BY <1>1, InitInductive
<1>3. list \in Seq(Tasks) /\ Len(list) = 0 /\ asleep = {} /\ awake = {} /\ sending = {}
  BY DEF C!Init, C!CondInit
<1> QED
  BY <1>2, <1>3 DEF CondInductive, CondTypeOK, OnePlace, Members, Distinct

\* What a Lock beside a Cond does.
LEMMA CondLocks ==
    ASSUME MutexInductive, NEW t \in Tasks, t \notin Members(receivers), t \notin holds, C!Lock(t)
    PROVE  /\ MutexInductive'
           /\ holds' \cup Members(receivers)' \subseteq holds \cup Members(receivers) \cup {t}
<1>1. Lock(t)
  BY DEF C!Lock, Lock
<1>2. Active(t)
  BY DEF Active, Receiving, Members, MutexInductive, HandoverNeverBlocks
<1>3. MutexInductive'
  BY <1>1, <1>2, LockStep
<1>4. receivers \in Seq(Tasks) /\ Distinct(receivers)
  BY DEF MutexInductive, MutexTypeOK, QueueOfOthers, Distinct
<1>5. Members(Append(receivers, t)) = Members(receivers) \cup {t}
  BY <1>4, JoinQueue
<1>6. CASE ~locked
  BY <1>1, <1>3, <1>6 DEF Lock, Members
<1>7. CASE locked
  BY <1>1, <1>3, <1>5, <1>7 DEF Lock
<1> QED
  BY <1>6, <1>7

\* What an Unlock does: the lock is free, or one that waited for it has it.
LEMMA CondUnlocks ==
    ASSUME MutexInductive, NEW t \in Tasks, t \in holds, C!Unlock(t)
    PROVE  /\ MutexInductive'
           /\ holds = {t} /\ t \notin Members(receivers)
           /\ holds' \cup Members(receivers)' \subseteq Members(receivers)
<1>1. Unlock(t)
  BY DEF C!Unlock, C!Release, C!Handover, Unlock, Release, Handover
<1>2. MutexInductive'
  BY <1>1, UnlockStep
<1>3. holds = {t} /\ t \notin Members(receivers) /\ Len(receivers) \in Nat
  BY DEF MutexInductive, Exclusion, MutexTypeOK, QueueOfOthers, Members
<1>4. CASE waiters = 0
  BY <1>1, <1>2, <1>3, <1>4 DEF Unlock, Release, Members
<1>5. CASE waiters # 0
  <2>1. Handover(t) /\ Len(receivers) > 0
    BY <1>1, <1>3, <1>5 DEF Unlock, MutexInductive, HandoverNeverBlocks
  <2>2. /\ holds' = (holds \ {t}) \cup {receivers[1]}
        /\ Len(receivers') = Len(receivers) - 1
        /\ \A k \in 1..Len(receivers') : receivers'[k] = receivers[k + 1]
    BY <2>1, HandoverToFirst DEF MutexInductive
  <2>3. 1 \in 1..Len(receivers) /\ \A k \in 1..Len(receivers') : k + 1 \in 1..Len(receivers)
    BY <1>3, <2>1, <2>2
  <2> QED
    BY <1>2, <1>3, <2>2, <2>3 DEF Members
<1> QED
  BY <1>4, <1>5

\* Waking the first n of the list wakes n tasks that sleep, and never blocks.
LEMMA WakeFirstWakes ==
    ASSUME CondInductive, NEW t \in Tasks, NEW n \in 0..Len(list), C!WakeFirst(t, n)
    PROVE  CondInductive'
<1> USE DEF CondInductive
<1> DEFINE ok(k) == \A i \in 1..k : list[i] \in asleep
           woke == CHOOSE k \in 0..n : ok(k) /\ (k < n => ~ok(k + 1))
           gone == {list[i] : i \in 1..n}
<1>1. list \in Seq(Tasks) /\ Len(list) \in Nat /\ n \in Nat /\ n <= Len(list)
  BY DEF CondTypeOK
<1>2. ASSUME NEW k \in 0..n PROVE ok(k)
  BY <1>1 DEF Members
<1>3. woke = n
  <2>1. n \in 0..n /\ ok(n) /\ ~(n < n)
    BY <1>1, <1>2
  <2>2. woke \in 0..n /\ (woke < n => ~ok(woke + 1))
    BY <2>1
  <2> HIDE DEF woke
  <2>3. ASSUME woke < n PROVE FALSE
    <3>1. woke + 1 \in 0..n
      BY <1>1, <2>2, <2>3
    <3> QED
      BY <1>2, <2>2, <2>3, <3>1
  <2> QED
    BY <1>1, <2>2, <2>3
<1>4. /\ list' = SubSeq(list, woke + 1, Len(list))
      /\ asleep' = asleep \ {list[i] : i \in 1..woke}
      /\ awake' = awake \cup {list[i] : i \in 1..woke}
      /\ sending' = IF woke < n THEN sending \cup {t} ELSE sending
      /\ UNCHANGED <<locked, waiters, receivers, stuck, holds>>
  BY DEF C!WakeFirst, C!mutexVars
<1> HIDE DEF woke, ok
<1>5. /\ list' = SubSeq(list, n + 1, Len(list))
      /\ asleep' = asleep \ gone /\ awake' = awake \cup gone /\ sending' = {}
  BY <1>1, <1>3, <1>4
<1>6. /\ list' \in Seq(Tasks) /\ Distinct(list')
      /\ Members(list') = Members(list) \ gone /\ gone \subseteq Members(list)
  BY <1>1, <1>5, LeaveQueue
<1>7. MutexInductive'
  BY <1>4 DEF MutexInductive, MutexTypeOK, Exclusion, HandoverNeverBlocks, QueueOfOthers
<1>8. Members(receivers)' = Members(receivers) /\ Members(list)' = Members(list') /\ Distinct(list)' = Distinct(list')
  BY <1>4 DEF Members, Distinct
<1> HIDE DEF gone
<1>9. CondTypeOK' /\ OnePlace'
  BY <1>4, <1>5, <1>6, <1>8 DEF CondTypeOK, OnePlace
<1> QED
  BY <1>5, <1>6, <1>7, <1>8, <1>9

LEMMA CondStep == CondInductive /\ [C!Next]_(C!vars) => CondInductive'
<1> SUFFICES ASSUME CondInductive, [C!Next]_(C!vars) PROVE CondInductive'
  OBVIOUS
<1> USE DEF CondInductive
<1>1. ASSUME NEW t \in Tasks, C!Idle(t)
      PROVE  t \notin Members(receivers) /\ t \notin asleep /\ t \notin awake
  BY <1>1 DEF C!Idle, C!Active, C!Receiving, Members
<1>2. ASSUME NEW t \in Tasks, C!Lock(t), t \notin holds, t \notin Members(receivers),
             t \notin asleep, awake' = awake \ {t}, UNCHANGED <<list, asleep, sending>>
      PROVE  CondInductive'
  <2>1. /\ MutexInductive'
        /\ holds' \cup Members(receivers)' \subseteq holds \cup Members(receivers) \cup {t}
    BY <1>2, CondLocks
  <2>2. Members(list)' = Members(list) /\ Distinct(list)' = Distinct(list)
    BY <1>2 DEF Members, Distinct
  <2>3. OnePlace' /\ CondTypeOK'
    BY <1>2, <2>1 DEF OnePlace, CondTypeOK
  <2> QED
    BY <1>2, <2>1, <2>2, <2>3
<1>3. ASSUME NEW t \in Tasks, C!CondLock(t) PROVE CondInductive'
  <2>1. awake' = awake \ {t}
    BY <1>1, <1>3 DEF C!CondLock, C!condVars
  <2> QED
    BY <1>1, <1>2, <1>3, <2>1 DEF C!CondLock, C!condVars
<1>4. ASSUME NEW t \in Tasks, C!CondTryLock(t) PROVE CondInductive'
  <2>1. t \notin holds
    BY <1>4 DEF C!CondTryLock, C!TryLock, MutexInductive, Exclusion
  <2>2. awake' = awake \ {t}
    BY <1>1, <1>4 DEF C!CondTryLock, C!condVars
  <2> QED
    BY <1>1, <1>2, <1>4, <2>1, <2>2 DEF C!CondTryLock, C!TryLock, C!condVars
<1>5. ASSUME NEW t \in Tasks, C!Relock(t) PROVE CondInductive'
  <2>1. t \notin holds /\ t \notin Members(receivers) /\ t \notin asleep
    BY <1>5 DEF C!Relock, OnePlace
  <2> QED
    BY <1>2, <1>5, <2>1 DEF C!Relock
<1>6. ASSUME NEW t \in Tasks, C!CondUnlock(t) PROVE CondInductive'
  <2>1. /\ MutexInductive'
        /\ holds' \cup Members(receivers)' \subseteq Members(receivers)
    BY <1>6, CondUnlocks DEF C!CondUnlock
  <2>2. UNCHANGED <<list, asleep, awake, sending>>
    BY <1>6 DEF C!CondUnlock, C!condVars
  <2>3. Members(list)' = Members(list) /\ Distinct(list)' = Distinct(list)
    BY <2>2 DEF Members, Distinct
  <2> QED
    BY <2>1, <2>2, <2>3 DEF CondTypeOK, OnePlace
<1>7. ASSUME NEW t \in Tasks, C!Wait(t) PROVE CondInductive'
  <2>1. /\ MutexInductive' /\ t \notin Members(receivers)
        /\ holds' \cup Members(receivers)' \subseteq Members(receivers)
    BY <1>7, CondUnlocks DEF C!Wait
  <2>2. /\ list' = Append(list, t) /\ asleep' = asleep \cup {t}
        /\ UNCHANGED <<awake, sending>> /\ t \notin asleep /\ t \notin awake
    BY <1>1, <1>7 DEF C!Wait
  <2>3. list' \in Seq(Tasks) /\ Distinct(list') /\ Members(list') = Members(list) \cup {t}
    BY <2>2, JoinQueue DEF CondTypeOK
  <2>4. Members(list)' = Members(list') /\ Distinct(list)' = Distinct(list')
    BY DEF Members, Distinct
  <2> QED
    BY <2>1, <2>2, <2>3, <2>4 DEF CondTypeOK, OnePlace
<1>8. ASSUME NEW t \in Tasks, C!Signal(t) \/ C!Broadcast(t) PROVE CondInductive'
  <2>1. Len(list) \in Nat /\ Len(list) > 0
    BY <1>8 DEF C!Signal, C!Broadcast, CondTypeOK
  <2>2. 1 \in 0..Len(list) /\ Len(list) \in 0..Len(list)
    BY <2>1
  <2> QED
    BY <1>8, <2>2, WakeFirstWakes DEF C!Signal, C!Broadcast
<1>9. CASE UNCHANGED C!vars
  <2>1. UNCHANGED <<locked, waiters, receivers, stuck, holds, list, asleep, awake, sending>>
    BY <1>9 DEF C!vars, C!mutexVars, C!condVars
  <2> QED
    BY <2>1 DEF MutexInductive, MutexTypeOK, Exclusion, HandoverNeverBlocks, QueueOfOthers,
                CondTypeOK, OnePlace, Members, Distinct
<1> QED
  BY <1>3, <1>4, <1>5, <1>6, <1>7, <1>8, <1>9 DEF C!Next

LEMMA CondInvariant == Spec => []CondInductive
<1>1. Init => CondInductive
  BY CondInits DEF Init
<1>2. CondInductive /\ [Next]_all => CondInductive'
  BY PartSteps, CondStep
<1> QED
  BY <1>1, <1>2, PTL DEF Spec, all

\* Cond.waiters holds each task asleep in Wait exactly once and nobody else: no
\* waiter is beyond the reach of a Signal, and no Signal is spent on a Wait that
\* has returned.
THEOREM CondListsSleepers == Spec => []SleepersAreListed
<1>1. CondInductive => SleepersAreListed
  BY DEF CondInductive, OnePlace, Members, Distinct, SleepersAreListed, C!SleepersAreListed
<1> QED
  BY <1>1, CondInvariant, PTL

\* Signal, Broadcast and the Unlock inside Wait never block their caller.
THEOREM CondSignalNeverBlocks == Spec => []SignalNeverBlocks
<1>1. CondInductive => SignalNeverBlocks
  BY DEF CondInductive, MutexInductive, HandoverNeverBlocks, SignalNeverBlocks,
         C!SignalNeverBlocks, C!HandoverNeverBlocks
<1> QED
  BY <1>1, CondInvariant, PTL

-----------------------------------------------------------------------------
(* sync.RWMutex                                                            *)
(*                                                                         *)
(* The count of readers is the number of tasks with a read lock because a  *)
(* task waits in one place of the queue only: otherwise waking all readers *)
(* that wait would grant fewer locks than it counts.                       *)

RWTypeOK ==
    /\ writer \in BOOLEAN /\ rwStuck \in BOOLEAN
    /\ readQueue \in Seq(Tasks) /\ writeQueue \in Seq(Tasks)
    /\ IsFiniteSet(reading)

RWInductive ==
    /\ RWTypeOK
    /\ R!ReadWriteExclusion /\ R!WakingNeverBlocks
    /\ Distinct(readQueue) /\ Distinct(writeQueue)

\* The module of RWMutex counts as FiniteSets does.
LEMMA RWCardinality == \A S : R!Cardinality(S) = Cardinality(S)
  BY Zenon DEF R!Cardinality, Cardinality

LEMMA RWInit == R!Init => RWInductive
<1> SUFFICES ASSUME R!Init PROVE RWInductive
  OBVIOUS
<1>1. Len(readQueue) = 0 /\ Len(writeQueue) = 0 /\ IsFiniteSet({}) /\ Cardinality({}) = 0
  BY FS_EmptySet DEF R!Init
<1>2. RWTypeOK
  <2>1. writer = FALSE /\ rwStuck = FALSE /\ reading = {} /\ readQueue = <<>> /\ writeQueue = <<>>
    BY DEF R!Init
  <2>2. writer \in BOOLEAN /\ rwStuck \in BOOLEAN
    BY <2>1
  <2>3. readQueue \in Seq(Tasks) /\ writeQueue \in Seq(Tasks) /\ IsFiniteSet(reading)
    BY <1>1, <2>1
  <2> QED
    BY <2>2, <2>3 DEF RWTypeOK
<1>3. R!ReadWriteExclusion /\ R!WakingNeverBlocks
  <2>1. readers = R!Cardinality(reading)
    BY <1>1, RWCardinality DEF R!Init
  <2> QED
    BY <1>1, <2>1 DEF R!Init, R!ReadWriteExclusion, R!WakingNeverBlocks
<1>4. Distinct(readQueue) /\ Distinct(writeQueue)
  BY <1>1 DEF Distinct
<1> QED
  BY <1>1, <1>2, <1>3, <1>4 DEF RWInductive

\* A call that gets the lock at once, or waits for it in a queue.
LEMMA RWTakes ==
    ASSUME RWInductive, NEW t \in Tasks, R!Idle(t)
    PROVE  /\ R!TakeWrite(t) /\ ~writer /\ readers = 0 => RWInductive'
           /\ R!TakeRead(t) /\ ~writer => RWInductive'
           /\ R!WaitRead(t) \/ R!WaitWrite(t) => RWInductive'
<1> USE DEF RWInductive, RWTypeOK
<1>1. t \notin reading /\ t \notin Members(readQueue) /\ t \notin Members(writeQueue)
  BY DEF R!Idle, R!Waits, R!InSeq, Members
<1>2. ASSUME R!TakeWrite(t), ~writer, readers = 0 PROVE RWInductive'
  <2>1. reading = {} /\ writing = {}
    BY <1>2, RWCardinality, FS_EmptySet DEF R!ReadWriteExclusion
  <2> QED
    BY <1>2, <2>1, RWCardinality, FS_EmptySet DEF R!TakeWrite, R!ReadWriteExclusion, R!WakingNeverBlocks, Distinct
<1>3. ASSUME R!TakeRead(t), ~writer PROVE RWInductive'
  <2>1. IsFiniteSet(reading \cup {t}) /\ Cardinality(reading \cup {t}) = readers + 1
    BY <1>1, RWCardinality, FS_AddElement DEF R!ReadWriteExclusion
  <2> QED
    BY <1>3, <2>1, RWCardinality DEF R!TakeRead, R!ReadWriteExclusion, R!WakingNeverBlocks, Distinct
<1>4. ASSUME R!WaitRead(t) PROVE RWInductive'
  <2>1. /\ readQueue' \in Seq(Tasks) /\ Len(readQueue') = Len(readQueue) + 1
        /\ Distinct(readQueue)'
    BY <1>1, <1>4, JoinQueue DEF R!WaitRead, Distinct
  <2> QED
    BY <1>4, <2>1 DEF R!WaitRead, R!ReadWriteExclusion, R!WakingNeverBlocks, Distinct
<1>5. ASSUME R!WaitWrite(t) PROVE RWInductive'
  <2>1. /\ writeQueue' \in Seq(Tasks) /\ Len(writeQueue') = Len(writeQueue) + 1
        /\ Distinct(writeQueue)'
    BY <1>1, <1>5, JoinQueue DEF R!WaitWrite, Distinct
  <2> QED
    BY <1>5, <2>1 DEF R!WaitWrite, R!ReadWriteExclusion, R!WakingNeverBlocks, Distinct
<1> QED
  BY <1>2, <1>3, <1>4, <1>5

\* Whoever gives up the last hold wakes one writer, or all readers that wait.
LEMMA RWWakes ==
    ASSUME RWInductive, R!WakeWaiters(FALSE, 0, {}, {})
    PROVE  RWInductive'
<1> USE DEF RWInductive, RWTypeOK
<1>1. Len(readQueue) \in Nat /\ Len(writeQueue) \in Nat
  BY LenProperties
<1>2. CASE writerWaiters > 0
  <2>1. R!WakeWriter({}, {}) /\ Len(writeQueue) > 0 /\ 1 \in 0..Len(writeQueue)
    BY <1>1, <1>2 DEF R!WakeWaiters, R!WakingNeverBlocks
  <2>2. R!FirstOf(1, writeQueue) = {writeQueue[1]}
    <3>1. \A m \in Nat : m > 0 => (IF 1 < m THEN 1 ELSE m) = 1
      OBVIOUS
    <3>2. (IF 1 < Len(writeQueue) THEN 1 ELSE Len(writeQueue)) = 1
      BY <1>1, <2>1, <3>1
    <3> QED
      BY <3>2 DEF R!FirstOf
  <2>3. /\ writeQueue' \in Seq(Tasks) /\ Len(writeQueue') = Len(writeQueue) - 1
        /\ Distinct(writeQueue)'
    <3>1. writeQueue' = SubSeq(writeQueue, 1 + 1, Len(writeQueue))
      BY <2>1 DEF R!WakeWriter
    <3> QED
      BY <2>1, <3>1, LeaveQueue DEF Distinct
  <2>4. writing' = {writeQueue[1]} /\ reading' = {} /\ readers' = 0 /\ writer' /\ ~rwStuck'
    BY <2>1, <2>2 DEF R!WakeWriter, R!WakingNeverBlocks
  <2>5. R!ReadWriteExclusion'
    <3>1. readers' = R!Cardinality(reading')
      BY <2>4, RWCardinality, FS_EmptySet
    <3> QED
      BY <2>4, <3>1 DEF R!ReadWriteExclusion
  <2>6. R!WakingNeverBlocks' /\ Distinct(readQueue)'
    BY <1>1, <2>1, <2>3, <2>4 DEF R!WakeWriter, R!WakingNeverBlocks, Distinct
  <2>7. RWTypeOK'
    BY <2>1, <2>3, <2>4, FS_EmptySet DEF R!WakeWriter
  <2> QED
    BY <2>3, <2>5, <2>6, <2>7
<1>3. CASE ~(writerWaiters > 0)
  <2> DEFINE n == Len(readQueue)
  <2>1. R!WakeReaders(n, 0, {}, {}) /\ n \in 0..Len(readQueue)
    BY <1>1, <1>3 DEF R!WakeWaiters, R!WakingNeverBlocks
  <2>2. R!FirstOf(n, readQueue) = Members(readQueue)
    BY <1>1 DEF R!FirstOf, Members
  <2>3. /\ readQueue' \in Seq(Tasks) /\ Len(readQueue') = 0
        /\ Distinct(readQueue)'
    <3>1. readQueue' = SubSeq(readQueue, n + 1, Len(readQueue))
      BY <2>1 DEF R!WakeReaders
    <3>2. readQueue' \in Seq(Tasks) /\ Len(readQueue') = Len(readQueue) - n /\ Distinct(readQueue')
      BY <2>1, <3>1, LeaveQueue
    <3> QED
      BY <1>1, <3>2 DEF Distinct
  <2>4. /\ reading' = Members(readQueue) /\ writing' = {} /\ readers' = n /\ ~writer' /\ ~rwStuck'
        /\ readerWaiters' = 0 /\ UNCHANGED <<writerWaiters, writeQueue>>
        /\ writer' \in BOOLEAN /\ rwStuck' \in BOOLEAN
    <3>1. rwStuck' = (rwStuck \/ n > n) /\ reading' = {} \cup R!FirstOf(n, readQueue)
      BY <2>1 DEF R!WakeReaders
    <3>2. ~rwStuck' /\ rwStuck' \in BOOLEAN
      BY <1>1, <3>1 DEF R!WakingNeverBlocks
    <3> QED
      BY <2>1, <2>2, <3>1, <3>2 DEF R!WakeReaders
  <2>5. IsFiniteSet(reading') /\ Cardinality(reading') = n
    BY <2>4, QueueSize
  <2>6. R!ReadWriteExclusion'
    <3>1. readers' = R!Cardinality(reading')
      BY <2>4, <2>5, RWCardinality
    <3> QED
      BY <2>4, <3>1 DEF R!ReadWriteExclusion
  <2>7. R!WakingNeverBlocks' /\ Distinct(writeQueue)'
    BY <2>3, <2>4 DEF R!WakingNeverBlocks, Distinct
  <2>8. RWTypeOK'
    BY <2>3, <2>4, <2>5
  <2> QED
    BY <2>3, <2>6, <2>7, <2>8
<1> QED
  BY <1>2, <1>3

LEMMA RWStep == RWInductive /\ [R!Next]_(R!vars) => RWInductive'
<1> SUFFICES ASSUME RWInductive, [R!Next]_(R!vars) PROVE RWInductive'
  OBVIOUS
<1> USE DEF RWInductive, RWTypeOK
<1>1. ASSUME NEW t \in Tasks, R!Lock(t) \/ R!TryLock(t) \/ R!RLock(t) \/ R!TryRLock(t)
      PROVE  RWInductive'
  BY <1>1, RWTakes DEF R!Lock, R!TryLock, R!RLock, R!TryRLock
<1>2. ASSUME NEW t \in Tasks, R!Unlock(t) PROVE RWInductive'
  <2>1. writing \ {t} = {} /\ reading = {} /\ readers = 0
    BY <1>2, RWCardinality, FS_EmptySet DEF R!Unlock, R!ReadWriteExclusion
  <2> QED
    BY <1>2, <2>1, RWWakes DEF R!Unlock
<1>3. ASSUME NEW t \in Tasks, R!RUnlock(t) PROVE RWInductive'
  <2>1. /\ writer = FALSE /\ writing = {} /\ Cardinality(reading) \in Nat
        /\ IsFiniteSet(reading \ {t}) /\ Cardinality(reading \ {t}) = readers - 1
    BY <1>3, RWCardinality, FS_RemoveElement, FS_CardinalityType DEF R!RUnlock, R!ReadWriteExclusion
  <2>2. CASE readers = 1
    <3>1. reading \ {t} = {}
      BY <2>1, <2>2, RWCardinality, FS_EmptySet
    <3> QED
      BY <1>3, <2>1, <2>2, <3>1, RWWakes DEF R!RUnlock
  <2>3. CASE readers # 1
    BY <1>3, <2>1, <2>3, RWCardinality
    DEF R!RUnlock, R!StayHeld, R!ReadWriteExclusion, R!WakingNeverBlocks, Distinct
  <2> QED
    BY <2>2, <2>3
<1>4. CASE UNCHANGED R!vars
  BY <1>4 DEF R!vars, R!ReadWriteExclusion, R!WakingNeverBlocks, Distinct
<1> QED
  BY <1>1, <1>2, <1>3, <1>4 DEF R!Next

LEMMA RWInvariant == Spec => []RWInductive
<1>1. Init => RWInductive
  BY RWInit DEF Init
<1>2. RWInductive /\ [Next]_all => RWInductive'
  BY PartSteps, RWStep
<1> QED
  BY <1>1, <1>2, PTL DEF Spec, all

\* A writer has an RWMutex alone, readers share it, and the fields writer and
\* readers say who has it, however many tasks were granted it and have not run.
THEOREM RWMutexExcludes == Spec => []ReadWriteExclusion
<1>1. RWInductive => ReadWriteExclusion
  BY DEF RWInductive, ReadWriteExclusion
<1> QED
  BY <1>1, RWInvariant, PTL

\* wakeWaiters has a receiver for each of its sends: no Unlock or RUnlock blocks.
THEOREM RWMutexWakes == Spec => []WakingNeverBlocks
<1>1. RWInductive => WakingNeverBlocks
  BY DEF RWInductive, WakingNeverBlocks
<1> QED
  BY <1>1, RWInvariant, PTL

-----------------------------------------------------------------------------
(* sync.WaitGroup                                                          *)

GroupInductive ==
    /\ count \in Nat /\ groupStuck \in BOOLEAN
    /\ groupReceivers \in Seq(Tasks)
    /\ W!DoneNeverBlocks

\* An Add wakes everyone if it reaches zero and changes no queue otherwise.
LEMMA GroupChange ==
    ASSUME GroupInductive, NEW delta \in Int, W!Change(delta)
    PROVE  GroupInductive' /\ (groupReceivers' = groupReceivers \/ (count' = 0 /\ groupReceivers' = <<>>))
<1> USE DEF GroupInductive, W!DoneNeverBlocks
<1> DEFINE n == Len(groupReceivers)
<1>1. n \in Nat
  BY LenProperties
<1>2. /\ count + delta >= 0 /\ count' = count + delta
      /\ IF count + delta # 0 \/ groupWaiters = 0
         THEN UNCHANGED <<groupWaiters, groupReceivers, groupStuck>>
         ELSE /\ groupWaiters' = 0
              /\ groupReceivers' = SubSeq(groupReceivers, n + 1, n)
              /\ groupStuck' = (groupStuck \/ n > n)
  BY DEF W!Change
<1>3. SubSeq(groupReceivers, n + 1, n) = <<>>
  BY <1>1, SubSeqEmpty
<1>4. count' \in Nat
  BY <1>2
<1> QED
  BY <1>1, <1>2, <1>3, <1>4

LEMMA GroupStep ==
    GroupInductive /\ [W!Next]_(W!vars) =>
        /\ GroupInductive'
        /\ [\A t \in Tasks : W!Waits(t) /\ ~W!Waits(t)' => count' = 0 /\ groupReceivers' = <<>>]_(W!vars)
<1> SUFFICES ASSUME GroupInductive, [W!Next]_(W!vars)
             PROVE  /\ GroupInductive'
                    /\ \A t \in Tasks : W!Waits(t) /\ ~W!Waits(t)' => count' = 0 /\ groupReceivers' = <<>>
  OBVIOUS
<1>1. CASE \E delta \in Int : W!Change(delta)
  <2>1. GroupInductive' /\ (groupReceivers' = groupReceivers \/ (count' = 0 /\ groupReceivers' = <<>>))
    BY <1>1, GroupChange
  <2> QED
    BY <2>1 DEF W!Waits
<1>2. ASSUME NEW u \in Tasks, W!Wait(u)
      PROVE  GroupInductive' /\ \A t \in Tasks : W!Waits(t) => W!Waits(t)'
  <2>1. /\ groupReceivers' = Append(groupReceivers, u) /\ Len(groupReceivers) \in Nat
        /\ groupReceivers' \in Seq(Tasks) /\ Len(groupReceivers') = Len(groupReceivers) + 1
        /\ \A k \in 1..Len(groupReceivers) : groupReceivers'[k] = groupReceivers[k]
    BY <1>2, AppendProperties, LenProperties DEF W!Wait, GroupInductive
  <2>2. GroupInductive'
    BY <1>2, <2>1 DEF W!Wait, GroupInductive, W!DoneNeverBlocks
  <2>3. ASSUME NEW t \in Tasks, W!Waits(t) PROVE W!Waits(t)'
    <3>1. PICK k \in 1..Len(groupReceivers) : groupReceivers[k] = t
      BY <2>3 DEF W!Waits
    <3>2. k \in 1..Len(groupReceivers') /\ groupReceivers'[k] = t
      BY <2>1, <3>1
    <3> QED
      BY <3>2 DEF W!Waits
  <2> QED
    BY <2>2, <2>3
<1>3. CASE UNCHANGED W!vars
  BY <1>3 DEF W!vars, GroupInductive, W!DoneNeverBlocks, W!Waits
<1>4. W!Next => \/ \E delta \in Int : W!Change(delta)
                \/ \E u \in Tasks : W!Wait(u)
  <2>1. -1 \in Int /\ 1 \in Int /\ \A delta \in 0..MaxDelta : delta \in Int
    BY SyncAssumption
  <2> QED
    BY <2>1 DEF W!Next, W!Add, W!Done, W!Go, W!GoDone
<1> QED
  BY <1>1, <1>2, <1>3, <1>4

LEMMA GroupInvariant == Spec => []GroupInductive
<1>1. Init => GroupInductive
  <2>1. W!Init => Len(groupReceivers) = 0 /\ groupReceivers \in Seq(Tasks)
    BY DEF W!Init
  <2>2. W!Init => groupStuck = FALSE /\ groupWaiters = 0 /\ count = 0
    BY DEF W!Init
  <2>3. W!Init => groupStuck \in BOOLEAN /\ ~groupStuck
    BY <2>2
  <2>4. W!Init => count \in Nat
    BY <2>2
  <2> QED
    BY <2>1, <2>2, <2>3, <2>4 DEF Init, GroupInductive, W!DoneNeverBlocks
<1>2. GroupInductive /\ [Next]_all => GroupInductive'
  BY PartSteps, GroupStep
<1> QED
  BY <1>1, <1>2, PTL DEF Spec, all

\* The Done that brings a WaitGroup to zero has a receiver for each of its sends.
THEOREM WaitGroupDone == Spec => []DoneNeverBlocks
<1>1. GroupInductive => DoneNeverBlocks
  BY DEF GroupInductive, DoneNeverBlocks
<1> QED
  BY <1>1, GroupInvariant, PTL

\* No Wait returns before the count is zero, and then all waiters return together,
\* whatever Adds, Dones and Waits come in between.
THEOREM WaitGroupWaits == Spec => WaitsUntilZero
<1>1. GroupInductive /\ [Next]_all =>
         [\A t \in Tasks : W!Waits(t) /\ ~W!Waits(t)' => count' = 0 /\ groupReceivers' = <<>>]_(W!vars)
  BY PartSteps, GroupStep
<1> QED
  BY <1>1, GroupInvariant, PTL DEF Spec, all, WaitsUntilZero, W!WaitsUntilZero
=============================================================================
