---------------------------- MODULE MutexProofs ----------------------------
(***************************************************************************)
(* Mutual exclusion of sync.Mutex, for any number of tasks.                *)
(*                                                                         *)
(* Exclusion alone is not inductive: a handover is safe only because the   *)
(* receivers are distinct, are no holders, and are as many as the waiters  *)
(* counted.                                                                *)
(***************************************************************************)
EXTENDS Mutex, SequenceTheorems, TLAPS

\* Each task waits at most once, and no holder waits.
QueueOfOthers ==
    /\ \A j, k \in 1..Len(receivers) : receivers[j] = receivers[k] => j = k
    /\ \A k \in 1..Len(receivers) : receivers[k] \notin holds

MutexInductive == MutexTypeOK /\ Exclusion /\ HandoverNeverBlocks /\ QueueOfOthers

\* What Handover does when there is somebody to hand over to.
LEMMA HandoverToFirst ==
    ASSUME MutexTypeOK, NEW t \in Tasks, Handover(t), Len(receivers) > 0
    PROVE  /\ holds' = (holds \ {t}) \cup {receivers[1]}
           /\ receivers[1] \in Tasks
           /\ receivers' \in Seq(Tasks) /\ Len(receivers') = Len(receivers) - 1
           /\ \A k \in 1..Len(receivers') : receivers'[k] = receivers[k + 1]
           /\ stuck' = stuck
<1>1. receivers \in Seq(Tasks) /\ Len(receivers) \in Nat
  BY DEF MutexTypeOK
<1>2. 1..Len(receivers) \cap {1} = {1}
  BY <1>1
<1>3. {receivers[k] : k \in 1..Len(receivers) \cap {1}} = {receivers[1]}
  BY <1>2
<1>4. /\ SubSeq(receivers, 2, Len(receivers)) \in Seq(Tasks)
      /\ Len(SubSeq(receivers, 2, Len(receivers))) = Len(receivers) - 1
      /\ \A k \in 1..(Len(receivers) - 1) :
            SubSeq(receivers, 2, Len(receivers))[k] = receivers[k + 1]
  <2>1. receivers # <<>>
    BY <1>1
  <2> QED
    BY <1>1, <2>1, TailIsSubSeq, HeadTailProperties
<1> QED
  BY <1>1, <1>3, <1>4 DEF Handover

LEMMA InitInductive == MutexInit => MutexInductive
<1> SUFFICES ASSUME MutexInit PROVE MutexInductive
  OBVIOUS
<1>1. Len(receivers) = 0 /\ receivers \in Seq(Tasks)
  BY DEF MutexInit
<1>2. MutexTypeOK
  BY <1>1 DEF MutexInit, MutexTypeOK
<1>3. Exclusion
  BY DEF MutexInit, Exclusion
<1>4. HandoverNeverBlocks /\ QueueOfOthers
  BY <1>1 DEF MutexInit, HandoverNeverBlocks, QueueOfOthers
<1> QED
  BY <1>2, <1>3, <1>4 DEF MutexInductive

LEMMA LockStep ==
    ASSUME MutexInductive, NEW t \in Tasks, Active(t), t \notin holds, Lock(t)
    PROVE  MutexInductive'
<1> USE DEF MutexInductive, MutexTypeOK, Exclusion, HandoverNeverBlocks, QueueOfOthers
<1>1. CASE ~locked
  <2>1. /\ locked' = TRUE /\ holds' = {t} /\ UNCHANGED <<waiters, receivers, stuck>>
    BY <1>1 DEF Lock
  <2>2. \A k \in 1..Len(receivers) : receivers[k] # t
    BY DEF Active, Receiving
  <2> QED
    BY <2>1, <2>2
<1>2. CASE locked
  <2>1. /\ waiters' = waiters + 1 /\ receivers' = Append(receivers, t)
        /\ UNCHANGED <<locked, stuck, holds>>
    BY <1>2 DEF Lock
  <2>2. \A k \in 1..Len(receivers) : receivers[k] # t
    BY DEF Active, Receiving
  <2>3. /\ receivers' \in Seq(Tasks) /\ Len(receivers') = Len(receivers) + 1
        /\ \A k \in 1..Len(receivers) : receivers'[k] = receivers[k]
        /\ receivers'[Len(receivers) + 1] = t
    BY <2>1
  <2>4. Len(receivers) \in Nat
    OBVIOUS
  <2>5. QueueOfOthers'
    BY <2>1, <2>2, <2>3, <2>4
  <2> QED
    BY <2>1, <2>3, <2>4, <2>5
<1> QED
  BY <1>1, <1>2

LEMMA UnlockStep ==
    ASSUME MutexInductive, NEW t \in Tasks, t \in holds, Unlock(t)
    PROVE  MutexInductive'
<1> USE DEF MutexInductive, Exclusion, HandoverNeverBlocks, QueueOfOthers
<1>0. holds = {t} /\ locked /\ Len(receivers) \in Nat
  BY DEF MutexTypeOK
<1>1. CASE waiters = 0
  <2>1. locked' = FALSE /\ holds' = {} /\ UNCHANGED <<waiters, receivers, stuck>>
    BY <1>0, <1>1 DEF Unlock, Release
  <2> QED
    BY <2>1 DEF MutexTypeOK
<1>2. CASE waiters # 0
  <2>1. waiters' = waiters - 1 /\ Handover(t) /\ locked' = locked /\ Len(receivers) > 0
    BY <1>0, <1>2 DEF Unlock
  <2>2. /\ holds' = {receivers[1]} /\ receivers[1] \in Tasks
        /\ receivers' \in Seq(Tasks) /\ Len(receivers') = Len(receivers) - 1
        /\ \A k \in 1..Len(receivers') : receivers'[k] = receivers[k + 1]
        /\ stuck' = stuck
    BY <1>0, <2>1, HandoverToFirst
  <2>3. MutexTypeOK'
    BY <1>0, <2>1, <2>2 DEF MutexTypeOK
  <2>4. Exclusion' /\ HandoverNeverBlocks'
    BY <1>0, <2>1, <2>2
  <2>5. \A j, k \in 1..Len(receivers') : receivers'[j] = receivers'[k] => j = k
    BY <1>0, <2>2
  <2>6. \A k \in 1..Len(receivers') : receivers'[k] \notin holds'
    BY <1>0, <2>2
  <2> QED
    BY <2>3, <2>4, <2>5, <2>6
<1> QED
  BY <1>1, <1>2

\* The invariant holds in every state.
LEMMA InductiveInvariant == MutexSpec => []MutexInductive
<1>1. MutexInductive /\ [MutexNext]_mutexVars => MutexInductive'
  <2> SUFFICES ASSUME MutexInductive, [MutexNext]_mutexVars PROVE MutexInductive'
    OBVIOUS
  <2>1. ASSUME NEW t \in Tasks, MutexLock(t) PROVE MutexInductive'
    BY <2>1, LockStep DEF MutexLock
  <2>2. ASSUME NEW t \in Tasks, MutexTryLock(t) PROVE MutexInductive'
    BY <2>2, LockStep DEF MutexTryLock, TryLock, MutexInductive, Exclusion
  <2>3. ASSUME NEW t \in Tasks, MutexUnlock(t) PROVE MutexInductive'
    BY <2>3, UnlockStep DEF MutexUnlock
  <2>4. CASE UNCHANGED mutexVars
    BY <2>4 DEF mutexVars, MutexInductive, MutexTypeOK, Exclusion, HandoverNeverBlocks, QueueOfOthers
  <2> QED
    BY <2>1, <2>2, <2>3, <2>4 DEF MutexNext
<1> QED
  BY <1>1, InitInductive, PTL DEF MutexSpec

\* At most one task holds a sync.Mutex, and its flag says whether one does, also
\* while Unlock hands the lock over.
THEOREM MutexExclusion == MutexSpec => []Exclusion
<1>1. MutexInductive => Exclusion
  BY DEF MutexInductive
<1> QED
  BY <1>1, InductiveInvariant, PTL

\* The send of Unlock always finds a receiver, so Unlock does not block.
THEOREM UnlockNeverBlocks == MutexSpec => []HandoverNeverBlocks
<1>1. MutexInductive => HandoverNeverBlocks
  BY DEF MutexInductive
<1> QED
  BY <1>1, InductiveInvariant, PTL
=============================================================================
