------------------------------- MODULE MCTcp --------------------------------
(* Servers for the runs of Tcp, and initial sequence numbers: those of the  *)
(* first connection wrap around.                                            *)
EXTENDS Tcp

MCIss == <<30, 10>>

\* One client of the echo; its segments may be longer than what goes back.
EchoServer == [clients |-> {"a"}, slots |-> 1, streaming |-> FALSE,
               mss |-> 2, peerMss |-> 1, longest |-> 2,
               request |-> 2, response |-> 0, space |-> 0,
               windows |-> {0, 2}, maxUp |-> 2, maxDown |-> 1]

\* Two clients compete for a slot; a response takes two segments.
HttpServer == [clients |-> {"a", "b"}, slots |-> 1, streaming |-> TRUE,
               mss |-> 1, peerMss |-> 1, longest |-> 1,
               request |-> 1, response |-> 2, space |-> 1,
               windows |-> {1}, maxUp |-> 1, maxDown |-> 1]

EchoAndHttp == {EchoServer, HttpServer}
=============================================================================
