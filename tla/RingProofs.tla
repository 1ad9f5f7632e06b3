----------------------------- MODULE RingProofs -----------------------------
(***************************************************************************)
(* The ring buffer of a channel implements a bounded queue, for every      *)
(* capacity and every set of values.                                       *)
(***************************************************************************)
EXTENDS Ring, SequenceTheorems, TLAPS

\* What % does to the indices the ring computes: they exceed the capacity at
\* most once.
LEMMA Wraps ==
    ASSUME NEW c \in Nat \ {0}, NEW x \in 0..(2 * c - 1)
    PROVE  x % c = IF x < c THEN x ELSE x - c
<1>1. CASE x < c
  BY <1>1
<1>2. CASE x >= c
  BY <1>2
<1> QED
  BY <1>1, <1>2

\* The fields stay in range, so that no slot index is out of bounds.
THEOREM RingTypeCorrect == Spec => []TypeOK
<1>1. Init => TypeOK
  BY ZeroAssumption, CapacityAssumption DEF Init, TypeOK
<1>2. TypeOK /\ [Next]_vars => TypeOK'
  <2> SUFFICES ASSUME TypeOK, [Next]_vars PROVE TypeOK'
    OBVIOUS
  <2>1. ASSUME NEW v \in Values, PushBuffer(v) PROVE TypeOK'
    <3>1. capacity \in Nat /\ length' \in 0..capacity'
      BY <2>1, CapacityAssumption DEF PushBuffer, TypeOK
    <3>2. slots' \in [0..(capacity' - 1) -> Values]
      BY <2>1 DEF PushBuffer, TypeOK
    <3> QED
      BY <2>1, <3>1, <3>2 DEF PushBuffer, TypeOK
  <2>2. CASE PopBuffer
    <3>1. capacity \in Nat \ {0} /\ head \in 0..(capacity - 1)
      BY <2>2, CapacityAssumption DEF PopBuffer, TypeOK
    <3>2. (head + 1) % capacity \in 0..(capacity - 1)
      BY <3>1, Wraps
    <3> QED
      BY <2>2, <3>1, <3>2 DEF PopBuffer, NextHead, TypeOK
  <2>3. CASE UNCHANGED vars
    BY <2>3 DEF vars, TypeOK
  <2> QED
    BY <2>1, <2>2, <2>3 DEF Next
<1> QED
  BY <1>1, <1>2, PTL DEF Spec

\* Append and Tail as functions.
LEMMA AppendFunction ==
    ASSUME NEW S, NEW s \in Seq(S), NEW e \in S
    PROVE  Append(s, e) = [i \in 1..(Len(s) + 1) |-> IF i <= Len(s) THEN s[i] ELSE e]
<1>1. Append(s, e) \in Seq(S) /\ Len(Append(s, e)) = Len(s) + 1
  OBVIOUS
<1>2. \A i \in 1..(Len(s) + 1) : Append(s, e)[i] = IF i <= Len(s) THEN s[i] ELSE e
  OBVIOUS
<1>3. Append(s, e) \in [1..(Len(s) + 1) -> S]
  BY <1>1, LenProperties
<1> QED
  BY <1>2, <1>3

LEMMA TailFunction ==
    ASSUME NEW S, NEW s \in Seq(S), Len(s) > 0
    PROVE  /\ s # <<>> /\ Head(s) = s[1]
           /\ Tail(s) = [i \in 1..(Len(s) - 1) |-> s[i + 1]]
<1>1. s # <<>> /\ Head(s) = s[1]
  OBVIOUS
<1>2. /\ Tail(s) \in Seq(S) /\ Len(Tail(s)) = Len(s) - 1
      /\ \A i \in 1..(Len(s) - 1) : Tail(s)[i] = s[i + 1]
  BY <1>1, HeadTailProperties
<1>3. Tail(s) \in [1..(Len(s) - 1) -> S]
  BY <1>2, LenProperties
<1> QED
  BY <1>1, <1>2, <1>3

\* Contents is a sequence of length values.
LEMMA ContentsType ==
    ASSUME TypeOK
    PROVE  /\ Contents \in Seq(Values)
           /\ Len(Contents) = length
           /\ DOMAIN Contents = 1..length
           /\ capacity \in Nat /\ length \in Nat
<1>1. capacity \in Nat /\ length \in Nat /\ length <= capacity
  BY CapacityAssumption DEF TypeOK
<1>2. ASSUME NEW i \in 1..length PROVE slots[(head + i - 1) % capacity] \in Values
  <2>1. capacity \in Nat \ {0} /\ head \in 0..(capacity - 1) /\ i \in 1..capacity
    BY <1>1 DEF TypeOK
  <2>2. (head + i - 1) % capacity \in 0..(capacity - 1)
    BY <2>1, Wraps
  <2> QED
    BY <2>2 DEF TypeOK
<1>3. Contents \in [1..length -> Values]
  BY <1>2 DEF Contents
<1> QED
  BY <1>1, <1>3

\* A push appends to the contents: the slot written is none of those in use.
LEMMA PushAppends ==
    ASSUME TypeOK, NEW v \in Values, PushBuffer(v)
    PROVE  Contents' = Append(Contents, v)
<1>1. capacity \in Nat \ {0} /\ head \in 0..(capacity - 1) /\ length \in 0..(capacity - 1)
  BY CapacityAssumption DEF PushBuffer, TypeOK
<1>2. TailIndex \in 0..(capacity - 1)
  BY <1>1, Wraps DEF TailIndex
<1>3. ASSUME NEW i \in 1..length
      PROVE  slots'[(head + i - 1) % capacity] = slots[(head + i - 1) % capacity]
  <2>1. (head + i - 1) % capacity \in 0..(capacity - 1)
    BY <1>1, Wraps
  <2>2. (head + i - 1) % capacity # TailIndex
    BY <1>1, Wraps DEF TailIndex
  <2> QED
    BY <1>2, <2>1, <2>2 DEF PushBuffer, TypeOK
<1>4. slots'[(head + (length + 1) - 1) % capacity] = v
  <2>1. head + (length + 1) - 1 = head + length
    BY <1>1
  <2> QED
    BY <1>2, <2>1 DEF PushBuffer, TypeOK, TailIndex
<1>5. Contents' = [i \in 1..(length + 1) |-> slots'[(head + i - 1) % capacity]]
  BY DEF PushBuffer, Contents
<1>6. Append(Contents, v) = [i \in 1..(length + 1) |-> IF i <= length THEN Contents[i] ELSE v]
  BY ContentsType, AppendFunction
<1>7. ASSUME NEW i \in 1..(length + 1)
      PROVE  slots'[(head + i - 1) % capacity] = IF i <= length THEN Contents[i] ELSE v
  <2>1. CASE i \in 1..length
    <3>1. Contents[i] = slots[(head + i - 1) % capacity] /\ i <= length
      BY <1>1, <2>1 DEF Contents
    <3> QED
      BY <1>3, <2>1, <3>1
  <2>2. CASE i = length + 1
    BY <1>1, <1>4, <2>2
  <2> QED
    BY <1>1, <2>1, <2>2
<1> QED
  BY <1>5, <1>6, <1>7

\* A pop gives out the oldest value and leaves the others in their order.
LEMMA PopTakes ==
    ASSUME TypeOK, PopBuffer
    PROVE  /\ Contents # <<>>
           /\ target' = Head(Contents)
           /\ Contents' = Tail(Contents)
<1>1. capacity \in Nat \ {0} /\ head \in 0..(capacity - 1) /\ length \in 1..capacity
  BY CapacityAssumption DEF PopBuffer, TypeOK
<1>2. /\ Contents \in Seq(Values) /\ Len(Contents) = length
      /\ DOMAIN Contents = 1..length
  BY ContentsType
<1>3. Contents[1] = slots[head]
  <2>1. head + 1 - 1 = head /\ head % capacity = head
    BY <1>1, Wraps
  <2> QED
    BY <1>1, <2>1 DEF Contents
<1>4. Contents' = [i \in 1..(length - 1) |-> slots[(NextHead + i - 1) % capacity]]
  BY DEF PopBuffer, Contents
<1>5. ASSUME NEW i \in 1..(length - 1)
      PROVE  slots[(NextHead + i - 1) % capacity] = Contents[i + 1]
  <2>1. i + 1 \in 1..length
    BY <1>1
  <2>2. (NextHead + i - 1) % capacity = (head + (i + 1) - 1) % capacity
    <3>1. CASE head + 1 < capacity
      <4>1. head + 1 \in 0..(2 * capacity - 1)
        BY <1>1, <3>1
      <4>2. NextHead = head + 1
        BY <1>1, <3>1, <4>1, Wraps DEF NextHead
      <4> QED
        BY <1>1, <4>2
    <3>2. CASE head + 1 = capacity
      <4>1. NextHead = 0
        BY <1>1, <3>2, Wraps DEF NextHead
      <4>2. (i - 1) % capacity = i - 1
        BY <1>1, Wraps
      <4>3. head + i \in 0..(2 * capacity - 1) /\ head + i >= capacity
        BY <1>1, <3>2
      <4>4. (head + i) % capacity = (head + i) - capacity
        <5>1. ~(head + i < capacity)
          BY <1>1, <4>3
        <5> QED
          BY <1>1, <4>3, <5>1, Wraps
      <4> QED
        BY <1>1, <3>2, <4>1, <4>2, <4>4
    <3> QED
      BY <1>1, <3>1, <3>2
  <2> QED
    BY <2>1, <2>2 DEF Contents
<1>6. Tail(Contents) = [i \in 1..(length - 1) |-> Contents[i + 1]]
  BY <1>1, <1>2, TailFunction
<1>7. Contents # <<>> /\ Head(Contents) = Contents[1]
  BY <1>1, <1>2, TailFunction
<1> QED
  BY <1>3, <1>4, <1>5, <1>6, <1>7 DEF PopBuffer

\* pushBuffer and popBuffer on head, length and slots implement a bounded queue.
THEOREM RingImplementsFifo == Spec => ImplementsFifo
<1>1. Init => Queue!Init
  BY CapacityAssumption DEF Init, Queue!Init, Contents
<1>2. TypeOK /\ [Next]_vars => [Queue!Next]_(Queue!vars)
  <2> SUFFICES ASSUME TypeOK, [Next]_vars PROVE [Queue!Next]_(Queue!vars)
    OBVIOUS
  <2>1. ASSUME NEW v \in Values, PushBuffer(v) PROVE Queue!Next
    <3>1. Contents' = Append(Contents, v) /\ Len(Contents) < capacity
      BY <2>1, PushAppends, ContentsType DEF PushBuffer
    <3>2. Queue!Put(v)
      BY <2>1, <3>1 DEF PushBuffer, Queue!Put
    <3> QED
      BY <3>2 DEF Queue!Next
  <2>2. CASE PopBuffer
    BY <2>2, PopTakes DEF PopBuffer, Queue!Take, Queue!Next
  <2>3. CASE UNCHANGED vars
    BY <2>3 DEF vars, Contents, Queue!vars
  <2> QED
    BY <2>1, <2>2, <2>3 DEF Next
<1> QED
  BY <1>1, <1>2, RingTypeCorrect, PTL DEF Spec, ImplementsFifo, Queue!Spec
=============================================================================
