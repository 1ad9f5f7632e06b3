----------------------------- MODULE GoChannel -----------------------------
(***************************************************************************)
(* What Go promises of a channel, without waiters, schedulers or buffers:  *)
(* a channel is the sequence of values it has accepted and the sequence of *)
(* values it has given out.  It gives them out in order, runs ahead of its *)
(* receivers by at most its capacity, and accepts nothing once closed.     *)
(***************************************************************************)
EXTENDS Naturals, Sequences

CONSTANTS Channels, Capacities, Values

VARIABLES made, cap, closed, sent, given

vars == <<made, cap, closed, sent, given>>

Init ==
    /\ made = {}
    /\ cap = [c \in Channels |-> 0]
    /\ closed = [c \in Channels |-> FALSE]
    /\ sent = [c \in Channels |-> <<>>]
    /\ given = [c \in Channels |-> <<>>]

Held(c) == Len(sent[c]) - Len(given[c])

Accept(c, v) == sent' = [sent EXCEPT ![c] = Append(@, v)]
Give(c, v) == given' = [given EXCEPT ![c] = Append(@, v)]

Make(c, k) ==
    /\ c \notin made
    /\ made' = made \cup {c}
    /\ cap' = [cap EXCEPT ![c] = k]
    /\ UNCHANGED <<closed, sent, given>>

\* A send that finds room.
Put(c, v) ==
    /\ c \in made /\ ~closed[c]
    /\ Held(c) < cap[c]
    /\ Accept(c, v)
    /\ UNCHANGED <<made, cap, closed, given>>

\* A receive of the oldest value held.
Take(c) ==
    /\ Held(c) > 0
    /\ Give(c, sent[c][Len(given[c]) + 1])
    /\ UNCHANGED <<made, cap, closed, sent>>

\* A send and a receive that meet: nothing is held, and the value passes.
Handoff(c, v) ==
    /\ c \in made /\ ~closed[c]
    /\ Held(c) = 0
    /\ Accept(c, v)
    /\ Give(c, v)
    /\ UNCHANGED <<made, cap, closed>>

\* A receive from a full channel lets a waiting send go ahead.
TakeAndPut(c, v) ==
    /\ c \in made /\ ~closed[c]
    /\ Held(c) > 0 /\ Held(c) <= cap[c]
    /\ Accept(c, v)
    /\ Give(c, sent[c][Len(given[c]) + 1])
    /\ UNCHANGED <<made, cap, closed>>

Close(c) ==
    /\ c \in made /\ ~closed[c]
    /\ closed' = [closed EXCEPT ![c] = TRUE]
    /\ UNCHANGED <<made, cap, sent, given>>

Next ==
    \E c \in Channels :
        \/ \E k \in Capacities : Make(c, k)
        \/ \E v \in Values : Put(c, v) \/ Handoff(c, v) \/ TakeAndPut(c, v)
        \/ Take(c)
        \/ Close(c)

Spec == Init /\ [][Next]_vars
=============================================================================
