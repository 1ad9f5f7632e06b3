-------------------------------- MODULE Ring --------------------------------
(***************************************************************************)
(* The ring buffer inside a channel of x/runtime/serial: capacity slots,   *)
(* the index of the oldest value and the number of values.  Module Serial  *)
(* uses it as a sequence; this module shows that it is one.                *)
(*                                                                         *)
(* A slot holds one value whole: elementSize only scales the index.        *)
(***************************************************************************)
EXTENDS Integers, Sequences

CONSTANTS
    Values,       \* what a slot may hold
    Zero,         \* what a fresh slot and an unset target hold
    Capacities    \* the capacities a channel is made with

ASSUME ZeroAssumption == Zero \in Values
ASSUME CapacityAssumption == Capacities \subseteq Nat

VARIABLES
    capacity, head, length,   \* the fields of channel
    slots,                    \* channel.buffer
    target                    \* what the last popBuffer copied out

vars == <<capacity, head, length, slots, target>>

\* ChanCreate: make([]byte, capacity*elementSize).
Init ==
    /\ capacity \in Capacities
    /\ head = 0 /\ length = 0
    /\ slots = [i \in 0..(capacity - 1) |-> Zero]
    /\ target = Zero

TailFromStart == length

\* The slot behind the youngest value.
TailIndex == (head + length) % capacity

\* pushBuffer, and the copy of fillBufferFromSender.  ChanSend and selectApply
\* push, and fillBufferFromSender copies, only while there is room.
PushBuffer(v) ==
    /\ length < capacity
    /\ slots' = [slots EXCEPT ![TailIndex] = v]
    /\ length' = length + 1
    /\ UNCHANGED <<capacity, head, target>>

NextHead == (head + 1) % capacity

\* popBuffer of an empty buffer changes nothing.
PopBuffer ==
    /\ length # 0
    /\ target' = slots[head]
    /\ head' = NextHead
    /\ length' = length - 1
    /\ UNCHANGED <<capacity, slots>>

Next == (\E v \in Values : PushBuffer(v)) \/ PopBuffer

Spec == Init /\ [][Next]_vars

----------------------------------------------------------------------------
\* head and length are in range, so no slot index is out of bounds.
TypeOK ==
    /\ capacity \in Capacities
    /\ length \in 0..capacity
    /\ head \in 0..capacity
    /\ capacity > 0 => head < capacity
    /\ slots \in [0..(capacity - 1) -> Values]
    /\ target \in Values

\* The values from the head on, around the end of the slots.
Contents == [i \in 1..length |-> slots[(head + i - 1) % capacity]]

Queue == INSTANCE Fifo WITH contents <- Contents, given <- target

\* The ring buffer is a bounded queue: pushBuffer and popBuffer, in any order and
\* any number of times around the slots, neither lose, repeat nor reorder values.
ImplementsFifo == Queue!Spec
=============================================================================
