------------------------------ MODULE MCSerial ------------------------------
(* Small instances of Serial for TLC. *)
EXTENDS Serial, TLC

CONSTANTS a, b, g, h, m

RecvBoth == <<[chan |-> a, dir |-> "recv"], [chan |-> b, dir |-> "recv"]>>
SendOrRecv == <<[chan |-> a, dir |-> "send"], [chan |-> b, dir |-> "recv"]>>
SendAndRecvOne == <<[chan |-> a, dir |-> "send"], [chan |-> a, dir |-> "recv"]>>
SendTwice == <<[chan |-> a, dir |-> "send"], [chan |-> a, dir |-> "send"]>>
RecvOne == <<[chan |-> a, dir |-> "recv"]>>

TwoJobs == {g, h}
TwoChannels == {a, b}
OneChannel == {a}
BothShapes == {RecvBoth, SendOrRecv}
OneShapes == {SendAndRecvOne, SendTwice}
ZeroOrOne == {0, 1}
Unbuffered == {0}
OneJob == {g}
NoShapes == {RecvOne}

\* Programs that make their channels and start their goroutines before the first
\* operation; programs that do not are in the runs with one channel.
SetUpFirst == now > 0 => created = Channels /\ \A j \in Jobs : pc[j] # "none"

JobSymmetry == Permutations(TwoJobs)
=============================================================================
