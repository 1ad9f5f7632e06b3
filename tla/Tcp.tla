-------------------------------- MODULE Tcp ---------------------------------
(***************************************************************************)
(* The bounded TCP endpoint, as an echo server (one slot, every byte sent  *)
(* back) and as the packet engine of the HTTP server (several slots, each  *)
(* with a request buffer and one response), over a network that loses,     *)
(* repeats and reorders segments.  Clients are external: they send any     *)
(* part of their stream again at any time.  A byte is a pair of the client *)
(* it belongs to and its position.  Sequence numbers wrap at Modulus.      *)
(* Elapsed time is a free choice: any timeout may have passed at a step.   *)
(***************************************************************************)
EXTENDS Integers, Sequences, FiniteSets

CONSTANTS Modulus, Iss, ClientIss,        \* initial sequence numbers
          MaxRetries,
          Servers                         \* servers and their clients to try

\* A server: whether it streams or echoes and how many slots it has; the
\* longest segment it takes, and answers with; the longest a client sends; the
\* lengths of a request, a response and the request buffer; windows; bounds on
\* the segments under way.
Server == [clients : (SUBSET STRING) \ {{}}, slots : Nat \ {0}, streaming : BOOLEAN,
           mss : Nat, peerMss : Nat, longest : Nat,
           request : Nat, response : Nat, space : Nat,
           windows : SUBSET Nat, maxUp : Nat, maxDown : Nat]

ASSUME TcpAssumption ==
    /\ Modulus \in Nat /\ ClientIss \in 0 .. Modulus - 1 /\ MaxRetries \in Nat
    /\ Iss \in Seq(0 .. Modulus - 1)
    /\ Servers \subseteq Server
    /\ \A s \in Servers : ~s.streaming => s.slots = 1

\* A connection uses less than half of the sequence numbers.
ASSUME StreamsShort ==
    \A s \in Servers : 2 * (s.request + 3) <= Modulus /\ 2 * (s.response + 3) <= Modulus

\* As TCP asks of its users, connections of which segments are under way start
\* so that their numbers do not meet: the code starts them 64000 apart for
\* each millisecond that lies between.
ASSUME NumbersApart ==
    \A s \in Servers :
       LET most == (IF s.streaming THEN s.response ELSE s.request) + 2 IN
       \A j, k \in DOMAIN Iss : \A x, y \in 0 .. most :
          Iss[j] # Iss[k] => (Iss[j] + x) % Modulus # (Iss[k] + y) % Modulus

VARIABLES server,
          slot,       \* the endpoints
          conns,      \* connections accepted so far
          client,     \* the clients
          up, down    \* segments under way to the endpoint, to the clients

vars == <<server, slot, conns, client, up, down>>

Clients == server.clients
Slots == server.slots
Streaming == server.streaming
Mss == server.mss
PeerMss == server.peerMss
Longest == server.longest
Request == server.request
Response == server.response
Space == server.space
Windows == server.windows
MaxUp == server.maxUp
MaxDown == server.maxDown

Plus(a, n) == (a + n) % Modulus
\* int32(a-b), the signed distance
Diff(a, b) == LET d == (a - b) % Modulus IN IF 2 * d < Modulus THEN d ELSE d - Modulus
Least(s) == CHOOSE x \in s : \A y \in s : x <= y
Bytes(c, lo, hi) == [i \in 1 .. hi - lo |-> <<c, lo + i>>]

Listening == [state |-> "listen", peer |-> CHOOSE c \in Clients : TRUE,
              recvNext |-> 0, sendNext |-> 0, window |-> 0,
              flags |-> {}, pseq |-> 0, data |-> <<>>, pend |-> 0, retries |-> 0,
              input |-> <<>>, pos |-> 0, responding |-> FALSE, eof |-> FALSE]
NoClient == [state |-> "idle", iss |-> 0, una |-> 0, nxt |-> 0, got |-> <<>>, fin |-> FALSE]

Init ==
    /\ server \in Servers
    /\ slot = [s \in 1 .. Slots |-> Listening] /\ conns = 0
    /\ client = [c \in Clients |-> NoClient]
    /\ up = {} /\ down = {}

-----------------------------------------------------------------------------
(* The endpoint.  An operation maps a slot to the slot it leaves and the   *)
(* segments, at most one, that it returns to be sent.                      *)

Segment(e, seq, flags, data) ==
    [peer |-> e.peer, seq |-> seq, ack |-> e.recvNext, flags |-> flags, data |-> data]
Quiet(e) == [e |-> e, out |-> {}]
Ack(e) == [e |-> e, out |-> {Segment(e, e.sendNext, {"ack"}, <<>>)}]
Resend(e) == [e |-> e, out |-> {Segment(e, e.pseq, e.flags, e.data)}]
\* The state and the pending segment are reset; the rest of the slot is dead
\* until a SYN sets it again.
Close == Listening

Length(flags, data) == Len(data) + (IF flags \cap {"syn", "fin"} = {} THEN 0 ELSE 1)
Queue(e, flags, data) ==
    LET end == Plus(e.sendNext, Length(flags, data)) IN
    Resend([e EXCEPT !.pseq = e.sendNext, !.flags = flags, !.data = data,
                     !.sendNext = end, !.pend = end, !.retries = 0])

AcceptKeepsStream(e, m, iss) ==
    Queue([e EXCEPT !.peer = m.peer, !.window = m.win, !.sendNext = iss,
                    !.recvNext = Plus(m.seq, 1), !.state = "synrcvd"],
          {"syn", "ack"}, <<>>)
\* A SYN takes a free slot, or one that only waits for old segments to die; a
\* stream is reset.
Accept(e, m, iss) ==
    Queue([e EXCEPT !.peer = m.peer, !.window = m.win, !.sendNext = iss,
                    !.recvNext = Plus(m.seq, 1), !.state = "synrcvd",
                    !.input = <<>>, !.pos = 0, !.responding = FALSE, !.eof = FALSE],
          {"syn", "ack"}, <<>>)

\* The next part of the response, with FIN on the last one.
StreamOutput(e) ==
    IF ~Streaming \/ ~e.responding \/ e.flags # {} \/ e.state # "established" \/ e.window = 0
    THEN Quiet(e)
    ELSE LET n == Least({Response - e.pos, Mss, PeerMss, e.window})
             last == e.pos + n = Response
         IN  Queue([e EXCEPT !.pos = @ + n, !.state = IF last THEN "finsent" ELSE @],
                   IF last THEN {"ack", "fin"} ELSE {"ack"}, Bytes(e.peer, e.pos, e.pos + n))

\* What the acknowledgement and the window of an acceptable segment do.
Acked(e, m) ==
    IF e.flags = {} \/ m.ack # e.pend THEN [e EXCEPT !.window = m.win]
    ELSE [e EXCEPT !.window = m.win, !.flags = {},
                   !.state = CASE @ = "synrcvd" -> "established"
                               [] @ = "finsent" -> IF Streaming /\ ~e.eof THEN "finwait2" ELSE "timewait"
                               [] OTHER -> @]

\* An in-order segment for a stream: what fits is stored.
Store(e, payload, fin, news) ==
    LET n == Least({Len(payload), Space - Len(e.input)})
        end == fin /\ n = Len(payload)
        e1 == [e EXCEPT !.input = @ \o SubSeq(payload, 1, n), !.eof = @ \/ end,
                        !.recvNext = Plus(@, IF end THEN n + 1 ELSE n)]
        r == StreamOutput(e1)
    IN  IF r.out # {} THEN r ELSE IF n > 0 \/ fin \/ news THEN Ack(e1) ELSE Quiet(e1)

\* An in-order segment for the echo: what the peer's window allows goes back.
Echo(e, payload, fin, news) ==
    LET n == Least({Len(payload), PeerMss, e.window})
        end == fin /\ n = Len(payload)
        e1 == [e EXCEPT !.recvNext = Plus(@, IF end THEN n + 1 ELSE n),
                        !.state = IF end THEN "finsent" ELSE @]
    IN  IF n = 0 /\ payload # <<>> THEN Ack(e)
        ELSE IF n > 0 \/ end
        THEN Queue(e1, IF end THEN {"ack", "fin"} ELSE {"ack"}, SubSeq(payload, 1, n))
        ELSE IF news THEN Ack(e) ELSE Quiet(e)

InOrder(e, m, payload, duplicate) ==
    LET fin == "fin" \in m.flags
        e1 == Acked(e, m)
        opened == e.flags # {} /\ e1.flags = {} /\ "syn" \notin e.flags
        empty == payload = <<>>
        news == opened \/ duplicate
    IN  IF e.state = "finsent" /\ e1.state = "timewait" THEN Quiet(e1)
        ELSE IF e1.flags # {} THEN (IF ~empty \/ fin \/ duplicate THEN Ack(e1) ELSE Quiet(e1))
        ELSE IF Len(payload) > Mss THEN Ack(e1)
        ELSE IF e1.state = "finwait2"
        THEN Ack(IF fin /\ empty
                 THEN [e1 EXCEPT !.recvNext = Plus(@, 1), !.eof = TRUE, !.state = "timewait"]
                 ELSE e1)
        ELSE IF Streaming THEN Store(e1, payload, fin, news)
        ELSE Echo(e1, payload, fin, news \/ (e.window = 0 /\ e1.window > 0))

\* The part of a segment that was taken before is cut off.
SkipNothing(e, m) == IF Diff(m.seq, e.recvNext) < 0 THEN 0 ELSE -Diff(m.seq, e.recvNext)
Skip(e, m) == -Diff(m.seq, e.recvNext)
OnData(e, m) ==
    LET skip == Skip(e, m) IN
    IF skip < 0 \/ skip > Len(m.data) THEN Ack(e)
    ELSE InOrder(e, m, SubSeq(m.data, skip + 1, Len(m.data)), skip > 0)

\* Handle, for a segment of the peer or a SYN that may open a connection.
Handle(e, m, iss) ==
    IF m.flags = {"syn"} /\ (e.state = "listen" \/ (e.state = "timewait" /\ e.peer # m.peer))
    THEN Accept(e, m, iss)
    ELSE IF e.state = "listen" \/ e.peer # m.peer THEN Quiet(e)
    ELSE IF "rst" \in m.flags THEN Quiet(IF m.seq = e.recvNext THEN Close ELSE e)
    ELSE IF "syn" \in m.flags
    THEN (IF e.state = "synrcvd" /\ Plus(m.seq, 1) = e.recvNext THEN Resend(e) ELSE Quiet(e))
    ELSE IF "ack" \notin m.flags THEN Quiet(e)
    ELSE IF Diff(m.ack, e.sendNext) > 0 THEN Ack(e)
    ELSE IF e.state = "timewait"
    THEN (IF "fin" \in m.flags /\ Plus(m.seq, Len(m.data) + 1) = e.recvNext THEN Ack(e) ELSE Quiet(e))
    ELSE IF e.state = "synrcvd" /\ (m.ack # e.sendNext \/ m.seq # e.recvNext) THEN Quiet(e)
    ELSE OnData(e, m)

-----------------------------------------------------------------------------
(* The HTTP server around it.                                              *)

Chosen(m) ==
    LET mine == {s \in 1 .. Slots : slot[s].state # "listen" /\ slot[s].peer = m.peer}
        free == {s \in 1 .. Slots : slot[s].state \in {"listen", "timewait"}}
    IN  IF mine # {} THEN {Least(mine)}
        ELSE IF m.flags = {"syn"} /\ free # {} THEN {Least(free)} ELSE {}

\* prepare: a whole request, a full buffer, the end of the stream or a
\* timeout makes the response.
Prepare(e, late) ==
    IF Streaming /\ e.state = "established" /\ ~e.responding
       /\ (Len(e.input) \in {Request, Space} \/ e.eof \/ late)
    THEN [e EXCEPT !.responding = TRUE] ELSE e

\* A segment stays under way, to arrive again, until it is lost; it is lost
\* at once when the network is full.
Put(net, segs, max) == IF Cardinality(net \cup segs) <= max THEN net \cup segs ELSE net

Receive(m) ==
    \E s \in Chosen(m), late \in BOOLEAN :
       LET opens == m.flags = {"syn"} /\ (slot[s].state = "listen" \/ slot[s].peer # m.peer)
           r == Handle(slot[s], m, Iss[conns + 1])
           o == StreamOutput(Prepare(r.e, late))
       IN  /\ opens => conns < Len(Iss)
           /\ conns' = IF opens THEN conns + 1 ELSE conns
           /\ slot' = [slot EXCEPT ![s] = o.e]
           /\ down' = Put(down, IF o.out # {} THEN o.out ELSE r.out, MaxDown)
           /\ UNCHANGED <<server, client, up>>

\* Poll, for one slot: expiry, the next part of the response, a retransmission.
Poll(s) ==
    /\ slot[s].state # "listen"
    /\ \E late \in BOOLEAN :
          LET e == Prepare(slot[s], late)
              r == IF e.flags = {} THEN StreamOutput(e)
                   ELSE IF e.retries >= MaxRetries THEN Quiet(Close)
                   ELSE Resend([e EXCEPT !.retries = @ + 1])
          IN  slot' = [slot EXCEPT ![s] = r.e] /\ down' = Put(down, r.out, MaxDown)
    /\ UNCHANGED <<server, conns, client, up>>

Expire(s) ==
    /\ slot[s].state # "listen"
    /\ slot' = [slot EXCEPT ![s] = Close]
    /\ UNCHANGED <<server, conns, client, up, down>>

-----------------------------------------------------------------------------
(* The clients (external).                                                 *)

ClientSegment(c, lo, hi, flags, win) ==
    LET me == client[c] IN
    [peer |-> c, seq |-> Plus(ClientIss, 1 + lo), flags |-> flags, win |-> win,
     ack |-> Plus(me.iss, 1 + Len(me.got) + (IF me.fin THEN 1 ELSE 0)),
     data |-> Bytes(c, lo, IF hi > Request THEN Request ELSE hi)]

Connect(c) ==
    /\ client[c].state \in {"idle", "syn"}
    /\ client' = [client EXCEPT ![c].state = "syn"]
    /\ \E w \in Windows \ {0} :
          up' = Put(up, {[peer |-> c, seq |-> ClientIss, flags |-> {"syn"}, win |-> w, ack |-> 0, data |-> <<>>]}, MaxUp)
    /\ UNCHANGED <<server, slot, conns, down>>

\* Units lo+1 .. hi of the stream, the last unit being the FIN.
ClientSend(c) ==
    /\ client[c].state = "open"
    /\ \E lo \in {client[c].una, client[c].nxt}, w \in Windows :
       \E hi \in lo .. Least({lo + Longest, Request + 1}) :
          /\ up' = Put(up, {ClientSegment(c, lo, hi, IF lo < hi /\ hi = Request + 1 THEN {"ack", "fin"} ELSE {"ack"}, w)}, MaxUp)
          /\ client' = [client EXCEPT ![c].nxt = IF hi > @ THEN hi ELSE @]
    /\ UNCHANGED <<server, slot, conns, down>>

ClientAbort(c) ==
    /\ client[c].state = "open"
    /\ client' = [client EXCEPT ![c].state = "gone"]
    /\ up' = Put(up, {ClientSegment(c, client[c].nxt, client[c].nxt, {"rst"}, 0)}, MaxUp)
    /\ UNCHANGED <<server, slot, conns, down>>

ClientOpen(m) ==
    /\ client[m.peer].state = "syn" /\ "syn" \in m.flags /\ m.ack = Plus(ClientIss, 1)
    /\ client' = [client EXCEPT ![m.peer].state = "open", ![m.peer].iss = m.seq]
    /\ UNCHANGED <<server, slot, conns, up, down>>

ClientReceive(m) ==
    LET me == client[m.peer]
        got == Diff(m.ack, Plus(ClientIss, 1))
        skip == Diff(Plus(me.iss, 1 + Len(me.got)), m.seq)
        fresh == ~me.fin /\ skip \in 0 .. Len(m.data)
    IN  /\ me.state = "open" /\ "syn" \notin m.flags /\ got <= me.nxt
        /\ client' = [client EXCEPT
              ![m.peer].una = IF got > @ THEN got ELSE @,
              ![m.peer].got = IF fresh THEN @ \o SubSeq(m.data, skip + 1, Len(m.data)) ELSE @,
              ![m.peer].fin = @ \/ (fresh /\ "fin" \in m.flags)]
        /\ UNCHANGED <<server, slot, conns, up, down>>

Lose ==
    /\ \/ \E m \in up : up' = up \ {m} /\ UNCHANGED down
       \/ \E m \in down : down' = down \ {m} /\ UNCHANGED up
    /\ UNCHANGED <<server, slot, conns, client>>

Next ==
    \/ \E m \in up : Receive(m)
    \/ \E s \in 1 .. Slots : Poll(s) \/ Expire(s)
    \/ \E c \in Clients : Connect(c) \/ ClientSend(c) \/ ClientAbort(c)
    \/ \E m \in down : ClientOpen(m) \/ ClientReceive(m)
    \/ Lose

Spec == Init /\ [][Next]_vars

-----------------------------------------------------------------------------
\* Whatever the network does, a client reads the bytes meant for it, in
\* order, once and with nothing left out, and the end of the stream only
\* after the last of them.
DeliveredInOrder ==
    \A c \in Clients :
       LET all == IF Streaming THEN Response ELSE Request
           got == client[c].got
       IN  /\ Len(got) <= all /\ got = Bytes(c, 0, Len(got))
           /\ client[c].fin => Len(got) = all

\* The request buffer of a slot holds the beginning of what its present
\* client sent and nothing of an earlier one, also when the slot was taken
\* over from TIME-WAIT with old segments still under way.
RequestsIntact ==
    \A s \in 1 .. Slots :
       LET input == slot[s].input IN
       Len(input) <= Request /\ input = Bytes(slot[s].peer, 0, Len(input))
=============================================================================
