-------------------------------- MODULE Fifo --------------------------------
(***************************************************************************)
(* A bounded queue: what the buffer of a channel promises.                 *)
(***************************************************************************)
EXTENDS Naturals, Sequences

CONSTANT Values

VARIABLES
    capacity,   \* how many values it may hold
    contents,   \* the values it holds, oldest first
    given       \* the last value taken

vars == <<capacity, contents, given>>

Put(v) ==
    /\ Len(contents) < capacity
    /\ contents' = Append(contents, v)
    /\ UNCHANGED <<capacity, given>>

Take ==
    /\ contents # <<>>
    /\ given' = Head(contents)
    /\ contents' = Tail(contents)
    /\ UNCHANGED capacity

Init == capacity \in Nat /\ contents = <<>>

Next == (\E v \in Values : Put(v)) \/ Take

Spec == Init /\ [][Next]_vars
=============================================================================
