------------------------------ MODULE TcpProofs ------------------------------
(***************************************************************************)
(* What a client reads, and what the request buffer holds, is a prefix of  *)
(* what was sent, for any servers, streams, windows, segment sizes and     *)
(* sequence numbers, over a network that loses, repeats and reorders.      *)
(***************************************************************************)
EXTENDS Tcp, SequenceTheorems, WellFoundedInduction, TLAPS

USE TcpAssumption

----------------------------------------------------------------------------
(* The inductive invariant *)

SlotFields == {"state", "peer", "recvNext", "sendNext", "window", "flags", "pseq", "data", "pend",
               "retries", "input", "pos", "responding", "eof"}
ClientFields == {"state", "iss", "una", "nxt", "got", "fin"}
States == {"listen", "synrcvd", "established", "finsent", "finwait2", "timewait"}

\* How much a client is to read.
All == IF Streaming THEN Response ELSE Request
One(b) == IF b THEN 1 ELSE 0
Closing(e) == e.state \in {"finsent", "finwait2", "timewait"}
Used == {Iss[k] : k \in 1 .. conns}

\* Bytes lo+1 .. hi of n that are sent to or by c, counted from the sequence
\* number iss of the SYN; an empty segment may lie behind the FIN.
Piece(c, seq, data, fin, iss, n, lo, hi) ==
    /\ lo <= hi /\ (hi <= n \/ lo = hi)
    /\ seq = Plus(iss, 1 + lo) /\ data = Bytes(c, lo, hi)
    /\ fin => hi = n
Part(c, seq, data, fin, iss, n) ==
    \E lo, hi \in 0 .. n + 1 : Piece(c, seq, data, fin, iss, n, lo, hi)

\* The receiving side of a slot.
Reading(e) ==
    /\ Len(e.input) \in Nat /\ Len(e.input) <= Request /\ Len(e.input) <= Space
    /\ e.input = Bytes(e.peer, 0, Len(e.input))
    /\ e.eof => Len(e.input) = Request /\ Streaming
    /\ ~Streaming => Len(e.input) = 0
    /\ e.state # "listen" /\ Streaming => e.recvNext = Plus(ClientIss, 1 + Len(e.input) + One(e.eof))
    /\ e.state = "finwait2" => ~e.eof /\ Streaming

\* The sending side: q bytes have been sent on a connection that started at
\* iss, and what waits for its acknowledgement is part of them.
Pending(e, iss) ==
    \/ e.flags = {}
    \/ e.flags = {"syn", "ack"} /\ e.pseq = iss
    \/ "syn" \notin e.flags /\ Part(e.peer, e.pseq, e.data, "fin" \in e.flags, iss, All)
Sending(e, iss, q) ==
    /\ e.sendNext = Plus(iss, 1 + q + One(Closing(e)))
    /\ Closing(e) => q = All
    /\ Streaming => e.pos = q
    /\ ~Streaming => e.recvNext = Plus(ClientIss, 1 + q + One(Closing(e)))
    /\ Pending(e, iss)

SlotOK(e, U) ==
    /\ DOMAIN e = SlotFields /\ e.peer \in Clients /\ e.state \in States /\ e.window \in Nat
    /\ e.recvNext \in Int /\ e.eof \in BOOLEAN
    /\ e.state \in {"synrcvd", "finsent"} => e.flags # {}
    /\ Reading(e)
    /\ e.state # "listen" => \E iss \in U, q \in 0 .. All : Sending(e, iss, q)

UpOK(m) ==
    /\ m.peer \in Clients /\ m.win \in Nat
    /\ \/ m.flags = {"syn"} /\ m.seq = ClientIss
       \/ "syn" \notin m.flags /\ Part(m.peer, m.seq, m.data, "fin" \in m.flags, ClientIss, Request)

DownOK(m, U) ==
    /\ m.peer \in Clients /\ m.ack \in Int
    /\ \E iss \in U :
          \/ "syn" \in m.flags /\ m.seq = iss
          \/ "syn" \notin m.flags /\ Part(m.peer, m.seq, m.data, "fin" \in m.flags, iss, All)

ClientOK(me) ==
    /\ DOMAIN me = ClientFields
    /\ me.una \in Nat /\ me.nxt \in Nat /\ me.una <= me.nxt /\ me.nxt <= Request + 1

TcpInductive ==
    /\ server \in Servers /\ conns \in 0 .. Len(Iss)
    /\ DOMAIN slot = 1 .. Slots /\ \A s \in 1 .. Slots : SlotOK(slot[s], Used)
    /\ DOMAIN client = Clients /\ \A c \in Clients : ClientOK(client[c])
    /\ \A m \in up : UpOK(m)
    /\ \A m \in down : DownOK(m, Used)

\* What a client has read.
HasRead(c, me, U) ==
    /\ me.state = "open" => me.iss \in U
    /\ Len(me.got) \in Nat /\ Len(me.got) <= All /\ me.got = Bytes(c, 0, Len(me.got))
    /\ me.fin \in BOOLEAN /\ (me.fin => Len(me.got) = All)

ReadInductive == \A c \in Clients : HasRead(c, client[c], Used)

----------------------------------------------------------------------------
(* Sequence numbers *)

Numbers == 0 .. Modulus - 1

LEMMA ServerType ==
    ASSUME NEW s \in Server
    PROVE  /\ s.clients # {} /\ s.slots \in Nat /\ s.streaming \in BOOLEAN
           /\ s.mss \in Nat /\ s.peerMss \in Nat /\ s.longest \in Nat
           /\ s.request \in Nat /\ s.response \in Nat /\ s.space \in Nat /\ s.windows \subseteq Nat
<1>1. PICK cs, sl, bs, ws : /\ cs = (SUBSET STRING) \ {{}} /\ sl = Nat \ {0} /\ bs = BOOLEAN /\ ws = SUBSET Nat
  OBVIOUS
<1>2. s \in [clients : cs, slots : sl, streaming : bs, mss : Nat, peerMss : Nat, longest : Nat,
             request : Nat, response : Nat, space : Nat, windows : ws, maxUp : Nat, maxDown : Nat]
  BY <1>1 DEF Server
<1>3. /\ s.clients \in cs /\ s.slots \in sl /\ s.streaming \in bs
      /\ s.mss \in Nat /\ s.peerMss \in Nat /\ s.longest \in Nat
      /\ s.request \in Nat /\ s.response \in Nat /\ s.space \in Nat /\ s.windows \in ws
  BY <1>2
<1>4. s.clients # {}
  BY <1>1, <1>3, Zenon
<1>5. s.slots \in Nat /\ s.streaming \in BOOLEAN /\ s.windows \subseteq Nat
  BY <1>1, <1>3
<1> QED
  BY <1>3, <1>4, <1>5

LEMMA ServerFacts ==
    ASSUME server \in Servers
    PROVE  /\ Clients # {} /\ Slots \in Nat /\ Streaming \in BOOLEAN
           /\ Mss \in Nat /\ PeerMss \in Nat /\ Longest \in Nat
           /\ Request \in Nat /\ Response \in Nat /\ Space \in Nat /\ Windows \subseteq Nat
           /\ 2 * (Request + 3) <= Modulus /\ 2 * (Response + 3) <= Modulus
           /\ All \in Nat /\ 2 * (All + 3) <= Modulus /\ All \in {Request, Response}
<1>1. server \in Server
  OBVIOUS
<1>2. /\ Clients # {} /\ Slots \in Nat /\ Streaming \in BOOLEAN
      /\ Mss \in Nat /\ PeerMss \in Nat /\ Longest \in Nat
      /\ Request \in Nat /\ Response \in Nat /\ Space \in Nat /\ Windows \subseteq Nat
  BY <1>1, ServerType DEF Clients, Slots, Streaming, Mss, PeerMss, Longest, Request, Response, Space, Windows
<1>3. 2 * (Request + 3) <= Modulus /\ 2 * (Response + 3) <= Modulus
  BY StreamsShort DEF Request, Response
<1>4. All \in {Request, Response}
  BY DEF All
<1> QED
  BY <1>2, <1>3, <1>4

LEMMA Remains ==
    ASSUME NEW x \in Int, NEW m \in Int, 0 <= x, x < m
    PROVE  x % m = x
  OBVIOUS

LEMMA Wraps ==
    ASSUME NEW x \in Int, 0 <= x, x < 2 * Modulus, Modulus > 0
    PROVE  x % Modulus = IF x < Modulus THEN x ELSE x - Modulus
<1>1. CASE x < Modulus
  <2>1. Modulus \in Int
    OBVIOUS
  <2>2. x % Modulus = x
    BY <1>1, <2>1, Remains, Zenon
  <2> QED
    BY <1>1, <2>2
<1>2. CASE x >= Modulus
  <2>1. PICK y \in Int : y = x - Modulus
    OBVIOUS
  <2>2. 0 <= y /\ y < Modulus /\ x = Modulus * 1 + y
    BY <1>2, <2>1
  <2>3. x % Modulus = y
    BY <2>2
  <2> QED
    BY <1>2, <2>1, <2>3
<1> QED
  BY <1>1, <1>2

LEMMA WrapsBelow ==
    ASSUME NEW x \in Int, 0 - Modulus < x, x < 0
    PROVE  x % Modulus = x + Modulus
<1>1. PICK z : z = x + Modulus
  OBVIOUS
<1>2. z \in 0 .. Modulus - 1 /\ x = Modulus * (0 - 1) + z
  BY <1>1
<1>3. x % Modulus = z
  BY <1>2
<1> QED
  BY <1>1, <1>3

LEMMA PlusIs ==
    ASSUME NEW a \in Numbers, NEW n \in Nat, n < Modulus
    PROVE  Plus(a, n) = (IF a + n < Modulus THEN a + n ELSE a + n - Modulus) /\ Plus(a, n) \in Numbers
  BY Wraps DEF Plus, Numbers

LEMMA PlusTwice ==
    ASSUME NEW a \in Numbers, NEW x \in Nat, NEW y \in Nat, x + y < Modulus
    PROVE  Plus(Plus(a, x), y) = Plus(a, x + y)
<1>1. /\ Plus(a, x) = (IF a + x < Modulus THEN a + x ELSE a + x - Modulus) /\ Plus(a, x) \in Numbers
      /\ Plus(a, x + y) = (IF a + (x + y) < Modulus THEN a + (x + y) ELSE a + (x + y) - Modulus)
  BY PlusIs
<1>2. Plus(Plus(a, x), y) = (IF Plus(a, x) + y < Modulus THEN Plus(a, x) + y ELSE Plus(a, x) + y - Modulus)
  BY <1>1, PlusIs
<1> QED
  BY <1>1, <1>2 DEF Numbers

\* The signed distance of numbers that are less than half of them apart.
LEMMA DiffIs ==
    ASSUME NEW a \in Numbers, NEW x \in Nat, NEW y \in Nat, 2 * x < Modulus, 2 * y < Modulus
    PROVE  Diff(Plus(a, x), Plus(a, y)) = x - y
<1>1. PICK u, v : u = Plus(a, x) /\ v = Plus(a, y)
  OBVIOUS
<1>2. /\ u = (IF a + x < Modulus THEN a + x ELSE a + x - Modulus) /\ u \in Numbers
      /\ v = (IF a + y < Modulus THEN a + y ELSE a + y - Modulus) /\ v \in Numbers
  BY <1>1, PlusIs
<1>3. (u - v) % Modulus = IF u >= v THEN u - v ELSE u - v + Modulus
  <2>1. CASE u >= v
    BY <1>2, <2>1, Wraps DEF Numbers
  <2>2. CASE u < v
    <3>a. u \in Int /\ v \in Int /\ 0 <= u /\ u < Modulus /\ 0 <= v /\ v < Modulus
      BY <1>2 DEF Numbers
    <3>b. u - v \in Int
      BY <3>a
    <3>1. PICK w \in Int : w = u - v
      BY <3>b
    <3>2. 0 - Modulus < w /\ w < 0
      BY <2>2, <3>a, <3>1
    <3>3. w % Modulus = w + Modulus
      BY <3>2, WrapsBelow
    <3>4. ~(u >= v)
      BY <1>2, <2>2 DEF Numbers
    <3> QED
      BY <3>1, <3>3, <3>4
  <2> QED
    BY <1>2, <2>1, <2>2 DEF Numbers
<1>4. Diff(u, v) = x - y
  <2>1. PICK d : d = (u - v) % Modulus
    OBVIOUS
  <2>2. d = IF u >= v THEN u - v ELSE u - v + Modulus
    BY <1>3, <2>1
  <2>3. Diff(u, v) = IF 2 * d < Modulus THEN d ELSE d - Modulus
    BY <2>1 DEF Diff
  <2>4. a \in Int /\ 0 <= a /\ a < Modulus
    BY DEF Numbers
  <2>5. CASE a + x < Modulus /\ a + y < Modulus
    <3>1. u = a + x /\ v = a + y
      BY <1>2, <2>5
    <3>2. d = IF x >= y THEN x - y ELSE x - y + Modulus
      BY <2>2, <2>4, <3>1
    <3> QED
      BY <2>3, <3>2
  <2>6. CASE a + x < Modulus /\ ~(a + y < Modulus)
    <3>1. u = a + x /\ v = a + y - Modulus
      BY <1>2, <2>6
    <3>2. d = x - y + Modulus /\ x < y
      BY <2>2, <2>4, <2>6, <3>1
    <3> QED
      BY <2>3, <3>2
  <2>7. CASE ~(a + x < Modulus) /\ a + y < Modulus
    <3>1. u = a + x - Modulus /\ v = a + y
      BY <1>2, <2>7
    <3>2. d = x - y /\ y < x
      BY <2>2, <2>4, <2>7, <3>1
    <3> QED
      BY <2>3, <3>2
  <2>8. CASE ~(a + x < Modulus) /\ ~(a + y < Modulus)
    <3>1. u = a + x - Modulus /\ v = a + y - Modulus
      BY <1>2, <2>8
    <3>2. d = IF x >= y THEN x - y ELSE x - y + Modulus
      BY <2>2, <2>4, <3>1
    <3> QED
      BY <2>3, <3>2
  <2> QED
    BY <2>5, <2>6, <2>7, <2>8
<1> QED
  BY <1>1, <1>4

\* A number that lies j ahead of another is the other plus j.
LEMMA DiffMeets ==
    ASSUME NEW u \in Numbers, NEW v \in Numbers, Diff(u, v) >= 0
    PROVE  Diff(u, v) \in Nat /\ Diff(u, v) < Modulus /\ u = Plus(v, Diff(u, v))
<1>1. (u - v) % Modulus = IF u >= v THEN u - v ELSE u - v + Modulus
  <2>1. CASE u >= v
    BY <2>1, Wraps DEF Numbers
  <2>2. CASE u < v
    <3>1. PICK w \in Int : w = u - v
      BY DEF Numbers
    <3>2. 0 - Modulus < w /\ w < 0 /\ ~(u >= v)
      BY <2>2, <3>1 DEF Numbers
    <3>3. w % Modulus = w + Modulus
      BY <3>2, WrapsBelow
    <3> QED
      BY <3>1, <3>2, <3>3
  <2> QED
    BY <2>1, <2>2 DEF Numbers
<1>2. PICK d : d = (u - v) % Modulus
  OBVIOUS
<1>3. d = (IF u >= v THEN u - v ELSE u - v + Modulus) /\ d \in Nat /\ d < Modulus
  BY <1>1, <1>2 DEF Numbers
<1>4. Diff(u, v) = IF 2 * d < Modulus THEN d ELSE d - Modulus
  BY <1>2 DEF Diff
<1>5. Diff(u, v) = d
  BY <1>3, <1>4
<1>6. Plus(v, d) = IF v + d < Modulus THEN v + d ELSE v + d - Modulus
  BY <1>3, PlusIs
<1> QED
  BY <1>3, <1>5, <1>6 DEF Numbers

LEMMA DiffType == ASSUME NEW u \in Int, NEW v \in Int, Modulus > 0 PROVE Diff(u, v) \in Int
<1>1. (u - v) % Modulus \in Int
  OBVIOUS
<1> QED
  BY <1>1 DEF Diff

LEMMA LeastOfTwo ==
    ASSUME NEW x \in Int, NEW y \in Int
    PROVE  Least({x, y}) \in {x, y} /\ Least({x, y}) <= x /\ Least({x, y}) <= y
<1>1. \E m \in {x, y} : \A z \in {x, y} : m <= z
  OBVIOUS
<1>2. Least({x, y}) \in {x, y} /\ \A z \in {x, y} : Least({x, y}) <= z
  BY <1>1 DEF Least
<1> QED
  BY <1>2

LEMMA LeastOfThree ==
    ASSUME NEW x \in Int, NEW y \in Int, NEW w \in Int
    PROVE  /\ Least({x, y, w}) \in {x, y, w}
           /\ Least({x, y, w}) <= x /\ Least({x, y, w}) <= y /\ Least({x, y, w}) <= w
<1>1. \E m \in {x, y, w} : \A z \in {x, y, w} : m <= z
  OBVIOUS
<1>2. Least({x, y, w}) \in {x, y, w} /\ \A z \in {x, y, w} : Least({x, y, w}) <= z
  BY <1>1 DEF Least
<1> QED
  BY <1>2

LEMMA LeastOfFour ==
    ASSUME NEW x \in Int, NEW y \in Int, NEW w \in Int, NEW v \in Int
    PROVE  /\ Least({x, y, w, v}) \in {x, y, w, v}
           /\ Least({x, y, w, v}) <= x
<1>1. \E m \in {x, y, w, v} : \A z \in {x, y, w, v} : m <= z
  <2>1. PICK m \in {x, y} : m <= x /\ m <= y
    OBVIOUS
  <2>2. PICK n \in {w, v} : n <= w /\ n <= v
    OBVIOUS
  <2>3. CASE m <= n
    BY <2>1, <2>2, <2>3
  <2>4. CASE n <= m
    BY <2>1, <2>2, <2>4
  <2> QED
    BY <2>1, <2>2, <2>3, <2>4
<1>2. Least({x, y, w, v}) \in {x, y, w, v} /\ \A z \in {x, y, w, v} : Least({x, y, w, v}) <= z
  BY <1>1 DEF Least
<1> QED
  BY <1>2

----------------------------------------------------------------------------
(* Bytes *)

LEMMA SeqOf ==
    ASSUME NEW S, NEW n \in Nat, NEW f \in [1 .. n -> S]
    PROVE  f \in Seq(S) /\ Len(f) = n
  OBVIOUS

LEMMA Joins ==
    ASSUME NEW S, NEW a \in Seq(S), NEW b \in Seq(S), NEW n \in Nat, NEW k \in Nat, Len(a) = n, Len(b) = k
    PROVE  a \o b = [i \in 1 .. n + k |-> IF i <= n THEN a[i] ELSE b[i - n]]
<1>1. a \o b \in Seq(S) /\ Len(a \o b) = n + k
  BY ConcatProperties
<1>2. DOMAIN (a \o b) = 1 .. n + k
  BY <1>1
<1>3. \A i \in 1 .. n + k : (a \o b)[i] = IF i <= n THEN a[i] ELSE b[i - n]
  BY ConcatProperties
<1>4. a \o b = [i \in DOMAIN (a \o b) |-> (a \o b)[i]]
  <2>1. \A f \in Seq(S) : f = [i \in DOMAIN f |-> f[i]]
    OBVIOUS
  <2> QED
    BY <1>1, <2>1
<1> QED
  BY <1>2, <1>3, <1>4

LEMMA BytesAre ==
    ASSUME NEW c, NEW lo \in Nat, NEW hi \in Nat, lo <= hi
    PROVE  /\ Len(Bytes(c, lo, hi)) = hi - lo /\ DOMAIN Bytes(c, lo, hi) = 1 .. hi - lo
           /\ Bytes(c, lo, hi) \in Seq({c} \X Nat)
           /\ \A i \in 1 .. hi - lo : Bytes(c, lo, hi)[i] = <<c, lo + i>>
<1>1. hi - lo \in Nat
  OBVIOUS
<1>2. \A i \in 1 .. hi - lo : <<c, lo + i>> \in {c} \X Nat
  OBVIOUS
<1>3. Bytes(c, lo, hi) \in [1 .. hi - lo -> {c} \X Nat]
  BY <1>2 DEF Bytes
<1>4. \A i \in 1 .. hi - lo : Bytes(c, lo, hi)[i] = <<c, lo + i>>
  BY DEF Bytes
<1>5. Bytes(c, lo, hi) \in Seq({c} \X Nat) /\ Len(Bytes(c, lo, hi)) = hi - lo
  BY <1>1, <1>3, SeqOf
<1> QED
  BY <1>3, <1>4, <1>5

LEMMA BytesJoin ==
    ASSUME NEW c, NEW lo \in Nat, NEW mid \in Nat, NEW hi \in Nat, lo <= mid, mid <= hi
    PROVE  Bytes(c, lo, mid) \o Bytes(c, mid, hi) = Bytes(c, lo, hi)
<1>a. PICK n \in Nat : n = mid - lo
  OBVIOUS
<1>b. PICK k \in Nat : k = hi - mid
  OBVIOUS
<1>c. PICK a, b : a = Bytes(c, lo, mid) /\ b = Bytes(c, mid, hi)
  OBVIOUS
<1>1. a = Bytes(c, lo, mid) /\ b = Bytes(c, mid, hi) /\ n = mid - lo /\ k = hi - mid
  BY <1>a, <1>b, <1>c
<1>2. /\ a \in Seq({c} \X Nat) /\ Len(a) = n /\ \A i \in 1 .. n : a[i] = <<c, lo + i>>
      /\ b \in Seq({c} \X Nat) /\ Len(b) = k /\ \A i \in 1 .. k : b[i] = <<c, mid + i>>
  <2>1. /\ Len(Bytes(c, mid, hi)) = hi - mid
        /\ Bytes(c, mid, hi) \in Seq({c} \X Nat)
        /\ \A i \in 1 .. hi - mid : Bytes(c, mid, hi)[i] = <<c, mid + i>>
    BY BytesAre
  <2>2. /\ Len(Bytes(c, lo, mid)) = mid - lo
        /\ Bytes(c, lo, mid) \in Seq({c} \X Nat)
        /\ \A i \in 1 .. mid - lo : Bytes(c, lo, mid)[i] = <<c, lo + i>>
    BY BytesAre
  <2> QED
    BY <1>1, <2>1, <2>2
<1>3. a \o b = [i \in 1 .. n + k |-> IF i <= n THEN a[i] ELSE b[i - n]]
  <2> DEFINE S == {c} \X Nat
  <2>1. a \in Seq(S) /\ b \in Seq(S)
    BY <1>2
  <2>2. Len(a) = n /\ Len(b) = k
    BY <1>2
  <2> HIDE DEF S
  <2> QED
    BY <2>1, <2>2, Joins
<1>4. ASSUME NEW i \in 1 .. n + k PROVE (IF i <= n THEN a[i] ELSE b[i - n]) = <<c, lo + i>>
  <2>1. CASE i <= n
    BY <1>2, <2>1
  <2>2. CASE ~(i <= n)
    <3>1. i - n \in 1 .. k /\ mid + (i - n) = lo + i
      BY <1>1, <1>2, <2>2
    <3>2. b[i - n] = <<c, mid + (i - n)>>
      BY <1>2, <3>1
    <3> QED
      BY <2>2, <3>1, <3>2
  <2> QED
    BY <2>1, <2>2
<1>5. Bytes(c, lo, hi) = [i \in 1 .. n + k |-> <<c, lo + i>>]
  <2>1. hi - lo = n + k
    BY <1>1
  <2> QED
    BY <2>1 DEF Bytes
<1>6. [i \in 1 .. n + k |-> IF i <= n THEN a[i] ELSE b[i - n]] = [i \in 1 .. n + k |-> <<c, lo + i>>]
  BY <1>4
<1> QED
  BY <1>1, <1>3, <1>5, <1>6

LEMMA BytesLen ==
    ASSUME NEW c, NEW lo \in Nat, NEW hi \in Nat, lo <= hi
    PROVE  Len(Bytes(c, lo, hi)) = hi - lo
  BY BytesAre

\* Named, so that the provers do not unfold SubSeq.
Front(s, n) == SubSeq(s, 1, n)
Drop(s, x) == SubSeq(s, x + 1, Len(s))

LEMMA BytesFront ==
    ASSUME NEW c, NEW lo \in Nat, NEW hi \in Nat, NEW n \in Nat, NEW y \in Nat, y = lo + n, y <= hi
    PROVE  Front(Bytes(c, lo, hi), n) = Bytes(c, lo, y)
<1>1. PICK b : b = Bytes(c, lo, hi)
  OBVIOUS
<1>2. Len(b) = hi - lo /\ \A i \in 1 .. hi - lo : b[i] = <<c, lo + i>>
  <2>1. lo <= hi
    OBVIOUS
  <2>2. Len(Bytes(c, lo, hi)) = hi - lo /\ \A i \in 1 .. hi - lo : Bytes(c, lo, hi)[i] = <<c, lo + i>>
    BY <2>1, BytesAre
  <2> QED
    BY <1>1, <2>2
<1>3. SubSeq(b, 1, n) = [i \in 1 .. n |-> b[i]]
  <2>1. n - 1 + 1 = n /\ \A i \in 1 .. n : 1 + i - 1 = i
    OBVIOUS
  <2>2. SubSeq(b, 1, n) = [i \in 1 .. n - 1 + 1 |-> b[1 + i - 1]]
    OBVIOUS
  <2> QED
    BY <2>1, <2>2
<1>4. \A i \in 1 .. n : b[i] = <<c, lo + i>>
  BY <1>2
<1>5. Bytes(c, lo, y) = [i \in 1 .. n |-> <<c, lo + i>>]
  <2>1. y - lo = n
    OBVIOUS
  <2> QED
    BY <2>1 DEF Bytes
<1> QED
  BY <1>1, <1>3, <1>4, <1>5 DEF Front, Drop

LEMMA BytesBack ==
    ASSUME NEW c, NEW lo \in Nat, NEW hi \in Nat, NEW x \in Nat, NEW from \in Nat,
           from <= lo + x, lo + x <= from, from <= hi
    PROVE  Drop(Bytes(c, lo, hi), x) = Bytes(c, from, hi)
<1>1. PICK b : b = Bytes(c, lo, hi)
  OBVIOUS
<1>2. Len(b) = hi - lo /\ \A i \in 1 .. hi - lo : b[i] = <<c, lo + i>>
  <2>1. lo <= hi
    OBVIOUS
  <2>2. Len(Bytes(c, lo, hi)) = hi - lo /\ \A i \in 1 .. hi - lo : Bytes(c, lo, hi)[i] = <<c, lo + i>>
    BY <2>1, BytesAre
  <2> QED
    BY <1>1, <2>2
<1>3. PICK n \in Nat : n = hi - from
  OBVIOUS
<1>4. SubSeq(b, x + 1, Len(b)) = [i \in 1 .. n |-> b[x + i]]
  <2>1. Len(b) - (x + 1) + 1 = n /\ \A i \in 1 .. n : (x + 1) + i - 1 = x + i
    BY <1>2, <1>3
  <2>2. SubSeq(b, x + 1, Len(b)) = [i \in 1 .. Len(b) - (x + 1) + 1 |-> b[(x + 1) + i - 1]]
    BY <1>2
  <2> QED
    BY <2>1, <2>2
<1>5. \A i \in 1 .. n : b[x + i] = <<c, from + i>>
  <2> TAKE i \in 1 .. n
  <2>1. x + i \in 1 .. hi - lo /\ lo + (x + i) = from + i
    BY <1>3
  <2>2. b[x + i] = <<c, lo + (x + i)>>
    BY <1>2, <2>1
  <2> QED
    BY <2>1, <2>2
<1>6. Bytes(c, from, hi) = [i \in 1 .. n |-> <<c, from + i>>]
  BY <1>3 DEF Bytes
<1> QED
  BY <1>1, <1>4, <1>5, <1>6 DEF Front, Drop

LEMMA BytesMore ==
    ASSUME NEW c, NEW mid \in Nat, NEW hi \in Nat, mid <= hi
    PROVE  Bytes(c, 0, mid) \o Bytes(c, mid, hi) = Bytes(c, 0, hi)
<1>1. 0 \in Nat /\ 0 <= mid
  OBVIOUS
<1> QED
  BY <1>1, BytesJoin

LEMMA BytesLenFrom0 == ASSUME NEW c, NEW n \in Nat PROVE Len(Bytes(c, 0, n)) = n
<1>1. 0 \in Nat /\ 0 <= n /\ n - 0 = n
  OBVIOUS
<1>2. Len(Bytes(c, 0, n)) = n - 0
  BY <1>1, BytesLen
<1> QED
  BY <1>1, <1>2

LEMMA BytesNone ==
    ASSUME NEW c, NEW lo \in Nat
    PROVE  Bytes(c, lo, lo) = <<>> /\ Len(Bytes(c, lo, lo)) = 0 /\ Bytes(c, lo + 1, lo) = <<>>
<1>1. 1 .. lo - lo = {} /\ 1 .. lo - (lo + 1) = {}
  OBVIOUS
<1>2. Bytes(c, lo, lo) = <<>> /\ Bytes(c, lo + 1, lo) = <<>>
  BY <1>1 DEF Bytes
<1> QED
  BY <1>2

----------------------------------------------------------------------------
(* The endpoint's operations *)

\* What an operation leaves and sends.
ResultOK(r, U) == SlotOK(r.e, U) /\ \A m \in r.out : DownOK(m, U)

Fields(e) ==
    /\ DOMAIN e = SlotFields /\ e.peer \in Clients /\ e.state \in States /\ e.window \in Nat
    /\ e.recvNext \in Int /\ e.eof \in BOOLEAN

LEMMA OneIs == ASSUME NEW b PROVE One(b) \in {0, 1} /\ (b => One(b) = 1) /\ (~b => One(b) = 0)
  BY DEF One

LEMMA QuietOK == ASSUME NEW U, NEW e, SlotOK(e, U) PROVE ResultOK(Quiet(e), U)
  BY DEF Quiet, ResultOK

LEMMA AckOK ==
    ASSUME server \in Servers, NEW U, NEW e, SlotOK(e, U), e.state # "listen"
    PROVE  ResultOK(Ack(e), U)
<1>1. PICK iss \in U, q \in 0 .. All : Sending(e, iss, q)
  BY DEF SlotOK
<1>2. PICK k : k = q + One(Closing(e))
  OBVIOUS
<1>3. k \in 0 .. All + 1 /\ e.sendNext = Plus(iss, 1 + k)
  <2>1. e.sendNext = Plus(iss, 1 + q + One(Closing(e))) /\ All \in Nat
    BY <1>1, ServerFacts DEF Sending
  <2>2. k \in 0 .. All + 1 /\ 1 + q + One(Closing(e)) = 1 + k
    BY <1>2, <2>1, OneIs
  <2> QED
    BY <2>1, <2>2
<1>4. Bytes(e.peer, k, k) = <<>>
  <2>1. k \in Nat
    BY <1>3, ServerFacts
  <2> QED
    BY <2>1, BytesNone
<1>5. Piece(e.peer, e.sendNext, <<>>, FALSE, iss, All, k, k)
  BY <1>3, <1>4, ServerFacts DEF Piece
<1>6. Part(e.peer, e.sendNext, <<>>, FALSE, iss, All)
  BY <1>3, <1>5 DEF Part
<1>7. PICK m : m = Segment(e, e.sendNext, {"ack"}, <<>>)
  OBVIOUS
<1>8. m.peer = e.peer /\ m.ack = e.recvNext /\ m.flags = {"ack"} /\ m.seq = e.sendNext /\ m.data = <<>>
  BY <1>7 DEF Segment
<1>9. ("fin" \in m.flags) = FALSE /\ "syn" \notin m.flags
  BY <1>8
<1>10. DownOK(m, U)
  BY <1>1, <1>6, <1>8, <1>9 DEF DownOK, SlotOK
<1> QED
  BY <1>7, <1>10 DEF Ack, ResultOK

LEMMA ResendOK ==
    ASSUME server \in Servers, NEW U, NEW e, SlotOK(e, U), e.state # "listen", e.flags # {}
    PROVE  ResultOK(Resend(e), U)
<1>1. PICK iss \in U, q \in 0 .. All : Sending(e, iss, q)
  BY DEF SlotOK
<1>2. PICK m : m = Segment(e, e.pseq, e.flags, e.data)
  OBVIOUS
<1>3. m.peer = e.peer /\ m.ack = e.recvNext /\ m.flags = e.flags /\ m.seq = e.pseq /\ m.data = e.data
  BY <1>2 DEF Segment
<1>4. Pending(e, iss)
  BY <1>1 DEF Sending
<1>5. DownOK(m, U)
  BY <1>1, <1>3, <1>4 DEF DownOK, SlotOK, Pending
<1> QED
  BY <1>2, <1>5 DEF Resend, ResultOK

\* Bytes lo+1 .. q are queued, with FIN if the slot is closing.
LEMMA QueueOK ==
    ASSUME server \in Servers, NEW U, U \subseteq Numbers, NEW e, Fields(e), Reading(e), e.state # "listen",
           NEW iss \in U, NEW q \in 0 .. All, NEW lo \in 0 .. q, NEW flags,
           e.sendNext = Plus(iss, 1 + lo),
           flags = IF Closing(e) THEN {"ack", "fin"} ELSE {"ack"},
           Closing(e) => q = All, Streaming => e.pos = q,
           ~Streaming => e.recvNext = Plus(ClientIss, 1 + q + One(Closing(e)))
    PROVE  ResultOK(Queue(e, flags, Bytes(e.peer, lo, q)), U)
<1>0. All \in Nat /\ q \in Nat /\ lo \in Nat /\ lo <= q /\ q <= All /\ iss \in Numbers /\ Modulus \in Nat
      /\ 2 * (All + 3) <= Modulus
  BY ServerFacts
<1>1. PICK data : data = Bytes(e.peer, lo, q)
  OBVIOUS
<1>2. Len(data) = q - lo
  BY <1>0, <1>1, BytesAre
<1>3. PICK one : one = One(Closing(e))
  OBVIOUS
<1>4. one \in {0, 1}
  BY <1>3, OneIs
<1>5. Length(flags, data) = (q - lo) + one
  BY <1>2, <1>3 DEF Length, One
<1>6. PICK end : end = Plus(e.sendNext, Length(flags, data))
  OBVIOUS
<1>7. end = Plus(iss, 1 + q + one)
  <2>1. 1 + lo \in Nat /\ (q - lo) + one \in Nat /\ (1 + lo) + ((q - lo) + one) = 1 + q + one /\ 1 + q + one < Modulus
    BY <1>0, <1>4
  <2>2. Plus(Plus(iss, 1 + lo), (q - lo) + one) = Plus(iss, (1 + lo) + ((q - lo) + one))
    BY <1>0, <2>1, PlusTwice
  <2> QED
    BY <1>5, <1>6, <2>1, <2>2
<1>8. PICK f : f = [e EXCEPT !.pseq = e.sendNext, !.flags = flags, !.data = data,
                            !.sendNext = end, !.pend = end, !.retries = 0]
  OBVIOUS
<1>9. /\ DOMAIN f = SlotFields /\ f.peer = e.peer /\ f.state = e.state /\ f.window = e.window
      /\ f.recvNext = e.recvNext /\ f.eof = e.eof /\ f.input = e.input /\ f.pos = e.pos
      /\ f.pseq = e.sendNext /\ f.flags = flags /\ f.data = data /\ f.sendNext = end
  BY <1>8 DEF Fields, SlotFields
<1>10. Part(f.peer, f.pseq, f.data, "fin" \in f.flags, iss, All)
  <2>1. "fin" \in f.flags => Closing(e)
    BY <1>9
  <2>2. Piece(f.peer, f.pseq, f.data, "fin" \in f.flags, iss, All, lo, q)
    BY <1>0, <1>1, <1>9, <2>1 DEF Piece
  <2>3. lo \in 0 .. All + 1 /\ q \in 0 .. All + 1
    BY <1>0
  <2> QED
    BY <2>2, <2>3 DEF Part
<1>11. "syn" \notin f.flags /\ f.flags # {} /\ Closing(f) = Closing(e)
  BY <1>9 DEF Closing
<1>12. Sending(f, iss, q)
  BY <1>3, <1>7, <1>9, <1>10, <1>11 DEF Sending, Pending
<1>13. Reading(f)
  BY <1>9 DEF Reading
<1>14. SlotOK(f, U)
  BY <1>9, <1>11, <1>12, <1>13 DEF SlotOK, Fields
<1>15. Queue(e, flags, data) = Resend(f)
  BY <1>6, <1>8 DEF Queue
<1> QED
  BY <1>1, <1>9, <1>11, <1>14, <1>15, ResendOK

\* The response goes on.
LEMMA StreamOutputOK ==
    ASSUME server \in Servers, NEW U, U \subseteq Numbers, NEW e, SlotOK(e, U)
    PROVE  ResultOK(StreamOutput(e), U)
<1>1. CASE ~Streaming \/ ~e.responding \/ e.flags # {} \/ e.state # "established" \/ e.window = 0
  BY <1>1, QuietOK DEF StreamOutput
<1>2. CASE ~(~Streaming \/ ~e.responding \/ e.flags # {} \/ e.state # "established" \/ e.window = 0)
  <2>1. PICK iss \in U, q \in 0 .. All : Sending(e, iss, q)
    BY <1>2 DEF SlotOK
  <2>2. PICK n : n = Least({Response - e.pos, Mss, PeerMss, e.window})
    OBVIOUS
  <2>3. /\ All = Response /\ Response \in Nat /\ Mss \in Nat /\ PeerMss \in Nat /\ q \in Nat /\ q <= All
        /\ e.pos = q /\ e.window \in Nat
    BY <1>2, <2>1, ServerFacts DEF All, Sending, SlotOK
  <2>4. n \in Nat /\ n <= Response - q
    <3>1. Response - e.pos \in Int /\ Mss \in Int /\ PeerMss \in Int /\ e.window \in Int
      BY <2>3
    <3>2. n \in {Response - e.pos, Mss, PeerMss, e.window} /\ n <= Response - e.pos
      BY <2>2, <3>1, LeastOfFour
    <3> QED
      BY <2>3, <3>2
  <2>5. PICK last : last = (e.pos + n = Response)
    OBVIOUS
  <2>6. PICK f : f = [e EXCEPT !.pos = @ + n, !.state = IF last THEN "finsent" ELSE @]
    OBVIOUS
  <2>7. /\ DOMAIN f = SlotFields /\ f.peer = e.peer /\ f.window = e.window /\ f.recvNext = e.recvNext
        /\ f.eof = e.eof /\ f.input = e.input /\ f.sendNext = e.sendNext
        /\ f.pos = q + n /\ f.state = IF last THEN "finsent" ELSE "established"
    BY <1>2, <2>3, <2>6 DEF SlotOK, SlotFields
  <2>8. (Closing(f) <=> last) /\ ~Closing(e) /\ (last <=> q + n = All)
    <3>1. last <=> q + n = All
      BY <2>3, <2>5
    <3>2. (Closing(f) <=> last) /\ ~Closing(e)
      BY <1>2, <2>7 DEF Closing
    <3> QED
      BY <3>1, <3>2
  <2>9. e.sendNext = Plus(iss, 1 + q)
    BY <2>1, <2>3, <2>8 DEF Sending, One
  <2>10. Fields(f)
    BY <2>7 DEF Fields, SlotOK, States
  <2>11. Reading(f)
    BY <1>2, <2>7 DEF Reading, SlotOK
  <2>12. q + n \in 0 .. All /\ q \in 0 .. q + n
    BY <2>3, <2>4
  <2>13. f.state # "listen"
    BY <2>7
  <2>14. PICK flags : flags = IF last THEN {"ack", "fin"} ELSE {"ack"}
    OBVIOUS
  <2>15. ResultOK(Queue(f, flags, Bytes(f.peer, q, q + n)), U)
    <3>1. f.sendNext = Plus(iss, 1 + q) /\ flags = (IF Closing(f) THEN {"ack", "fin"} ELSE {"ack"})
          /\ (Closing(f) => q + n = All) /\ f.pos = q + n
      BY <2>7, <2>8, <2>9, <2>14
    <3> QED
      BY <1>2, <2>10, <2>11, <2>12, <2>13, <3>1, QueueOK
  <2>16. StreamOutput(e) = Queue(f, flags, Bytes(e.peer, e.pos, e.pos + n))
    BY <1>2, <2>2, <2>5, <2>6, <2>14 DEF StreamOutput
  <2> QED
    BY <2>3, <2>7, <2>15, <2>16
<1> QED
  BY <1>1, <1>2

\* What an acknowledgement changes of a slot.
LEMMA AckedOK ==
    ASSUME server \in Servers, NEW U, NEW e, SlotOK(e, U), NEW m, m.win \in Nat, e.state # "listen"
    PROVE  /\ SlotOK(Acked(e, m), U) /\ Acked(e, m).state # "listen" /\ Acked(e, m).peer = e.peer
           /\ Acked(e, m).recvNext = e.recvNext /\ Acked(e, m).input = e.input /\ Acked(e, m).eof = e.eof
           /\ Acked(e, m).state = "timewait" => e.state \in {"timewait", "finsent"}
<1>1. PICK iss \in U, q \in 0 .. All : Sending(e, iss, q)
  BY DEF SlotOK
<1>2. PICK f : f = Acked(e, m)
  OBVIOUS
<1>3. /\ DOMAIN f = SlotFields /\ f.peer = e.peer /\ f.window = m.win /\ f.recvNext = e.recvNext
      /\ f.eof = e.eof /\ f.input = e.input /\ f.sendNext = e.sendNext /\ f.pos = e.pos
      /\ f.pseq = e.pseq /\ f.data = e.data
  BY <1>2 DEF Acked, SlotOK, SlotFields
<1>4. \/ f.flags = e.flags /\ f.state = e.state
      \/ f.flags = {} /\ f.state = "established" /\ e.state = "synrcvd"
      \/ f.flags = {} /\ f.state = "finwait2" /\ e.state = "finsent" /\ Streaming /\ ~e.eof
      \/ f.flags = {} /\ f.state = "timewait" /\ e.state = "finsent"
      \/ f.flags = {} /\ f.state = e.state /\ e.state \notin {"synrcvd", "finsent"}
  <2>1. CASE e.flags = {} \/ m.ack # e.pend
    BY <1>2, <2>1 DEF Acked, SlotOK, SlotFields
  <2>2. CASE ~(e.flags = {} \/ m.ack # e.pend)
    <3>1. f.flags = {} /\ f.state = CASE e.state = "synrcvd" -> "established"
                               [] e.state = "finsent" -> IF Streaming /\ ~e.eof THEN "finwait2" ELSE "timewait"
                               [] OTHER -> e.state
      BY <1>2, <2>2 DEF Acked, SlotOK, SlotFields
    <3> QED
      BY <3>1
  <2> QED
    BY <2>1, <2>2
<1>5. f.state \in States /\ f.state # "listen" /\ Closing(f) = Closing(e)
      /\ (f.state \in {"synrcvd", "finsent"} => f.flags # {})
  BY <1>4 DEF SlotOK, States, Closing
<1>6. Reading(f)
  BY <1>3, <1>4 DEF Reading, SlotOK
<1>7. Sending(f, iss, q)
  BY <1>1, <1>3, <1>4, <1>5 DEF Sending, Pending
<1>8. SlotOK(f, U)
  BY <1>3, <1>5, <1>6, <1>7 DEF SlotOK
<1> QED
  BY <1>2, <1>3, <1>4, <1>5, <1>8

\* How much of the client's stream has been taken, the FIN included.
Taken(e, p) ==
    /\ p \in 0 .. Request + 1 /\ e.recvNext = Plus(ClientIss, 1 + p)
    /\ Streaming => p = Len(e.input) + One(e.eof)

LEMMA TakenIs ==
    ASSUME server \in Servers, NEW U, NEW e, SlotOK(e, U), e.state # "listen"
    PROVE  \E p : Taken(e, p)
<1>1. CASE Streaming
  <2>1. PICK p : p = Len(e.input) + One(e.eof)
    OBVIOUS
  <2>2. /\ Len(e.input) \in Nat /\ Len(e.input) <= Request /\ Request \in Nat
        /\ e.recvNext = Plus(ClientIss, 1 + Len(e.input) + One(e.eof))
    BY <1>1, ServerFacts DEF SlotOK, Reading
  <2>3. p \in 0 .. Request + 1 /\ 1 + Len(e.input) + One(e.eof) = 1 + p
    BY <2>1, <2>2, OneIs
  <2> QED
    BY <2>1, <2>2, <2>3 DEF Taken
<1>2. CASE ~Streaming
  <2>1. PICK iss \in U, q \in 0 .. All : Sending(e, iss, q)
    BY DEF SlotOK
  <2>2. PICK p : p = q + One(Closing(e))
    OBVIOUS
  <2>3. All = Request /\ Request \in Nat /\ e.recvNext = Plus(ClientIss, 1 + q + One(Closing(e)))
    BY <1>2, <2>1, ServerFacts DEF Sending, All
  <2>4. p \in 0 .. Request + 1 /\ 1 + q + One(Closing(e)) = 1 + p
    BY <2>2, <2>3, OneIs
  <2> QED
    BY <1>2, <2>3, <2>4 DEF Taken
<1> QED
  BY <1>1, <1>2

\* The rest of a segment of which p bytes have been taken.
Rest(e, p, payload, fin, hi) ==
    /\ hi \in 0 .. Request + 1 /\ p <= hi /\ (hi <= Request \/ hi = p)
    /\ payload = Bytes(e.peer, p, hi)
    /\ fin => hi = Request

LEMMA StoreOK ==
    ASSUME server \in Servers, NEW U, U \subseteq Numbers, NEW e, SlotOK(e, U), Streaming,
           e.state = "established", NEW p, Taken(e, p), NEW hi, NEW payload, NEW fin, NEW news,
           Rest(e, p, payload, fin, hi)
    PROVE  ResultOK(Store(e, payload, fin, news), U)
<1>1. PICK k, one : k = Len(e.input) /\ one = One(e.eof)
  OBVIOUS
<1>3. /\ Request \in Nat /\ Space \in Nat /\ 2 * (Request + 3) <= Modulus
  BY ServerFacts
<1>a. /\ e.input = Bytes(e.peer, 0, k) /\ e.eof \in BOOLEAN /\ payload = Bytes(e.peer, p, hi)
      /\ e.recvNext = Plus(ClientIss, 1 + p)
  BY <1>1 DEF SlotOK, Reading, Taken, Rest
<1>b. one \in {0, 1} /\ (e.eof => one = 1) /\ (~e.eof => one = 0)
  BY <1>1, OneIs
<1>2. /\ k \in Nat /\ k <= Request /\ k <= Space /\ (e.eof => k = Request) /\ p = k + one
      /\ p \in Nat /\ p <= Request + 1 /\ hi \in Nat /\ p <= hi /\ (hi <= Request \/ hi = p)
  <2>1. k \in Nat /\ k <= Request /\ k <= Space /\ (e.eof => k = Request)
    BY <1>1 DEF SlotOK, Reading
  <2>2. p = k + one /\ p \in 0 .. Request + 1
    BY <1>1 DEF Taken
  <2>3. hi \in 0 .. Request + 1 /\ p <= hi /\ (hi <= Request \/ hi = p)
    BY DEF Rest
  <2> QED
    BY <1>3, <2>1, <2>2, <2>3
<1>4. Len(payload) = hi - p /\ Len(payload) \in Nat
  <2>1. Len(Bytes(e.peer, p, hi)) = hi - p
    BY <1>2, BytesLen
  <2> QED
    BY <1>2, <1>a, <2>1
<1>5. PICK n : n = Least({Len(payload), Space - Len(e.input)})
  OBVIOUS
<1>6. n \in Nat /\ n <= hi - p
  <2>1. Len(payload) \in Int /\ Space - Len(e.input) \in Int
    BY <1>1, <1>2, <1>3, <1>4
  <2>2. n \in {Len(payload), Space - Len(e.input)} /\ n <= Len(payload)
    BY <1>5, <2>1, LeastOfTwo
  <2> QED
    BY <1>1, <1>2, <1>3, <1>4, <2>2
<1>7. PICK end \in BOOLEAN : end <=> (fin /\ n = Len(payload))
  OBVIOUS
<1>8. end => ~e.eof /\ k + n = Request
  BY <1>2, <1>3, <1>4, <1>7, <1>b DEF Rest
<1>9. k + n \in Nat /\ k + n <= Request /\ k + n <= Space
  <2>1. n <= Space - k
    <3>1. Len(payload) \in Int /\ Space - Len(e.input) \in Int
      BY <1>1, <1>2, <1>3, <1>4
    <3> QED
      BY <1>1, <1>5, <3>1, LeastOfTwo
  <2> QED
    BY <1>2, <1>3, <1>6, <1>b, <2>1
<1>10. e.input \o SubSeq(payload, 1, n) = Bytes(e.peer, 0, k + n)
  <2>2. SubSeq(payload, 1, n) = Bytes(e.peer, p, p + n)
    <3>1. PICK y \in Nat : y = p + n
      BY <1>2, <1>6
    <3>2. y <= hi
      BY <1>2, <1>6, <3>1
    <3>3. Front(Bytes(e.peer, p, hi), n) = Bytes(e.peer, p, y)
      BY <1>2, <1>6, <3>1, <3>2, BytesFront
    <3> QED
      BY <1>a, <3>1, <3>3 DEF Front, Drop
  <2>3. CASE ~e.eof
    <3>1. p = k
      BY <1>2, <1>b, <2>3
    <3>2. Bytes(e.peer, 0, k) \o Bytes(e.peer, k, k + n) = Bytes(e.peer, 0, k + n)
      <4>1. k + n \in Nat /\ k <= k + n
        BY <1>2, <1>6
      <4> QED
        BY <1>2, <4>1, BytesMore
    <3> QED
      BY <1>a, <2>2, <3>1, <3>2
  <2>4. CASE e.eof
    <3>1. n = 0 /\ p = k + 1
      BY <1>2, <1>3, <1>6, <1>b, <2>4
    <3>2. SubSeq(payload, 1, n) = <<>>
      <4>1. p + n = p /\ Bytes(e.peer, p, p) = <<>>
        BY <1>2, <3>1, BytesNone
      <4> QED
        BY <2>2, <4>1
    <3>3. Bytes(e.peer, k, k) = <<>> /\ Bytes(e.peer, 0, k) \o Bytes(e.peer, k, k) = Bytes(e.peer, 0, k)
      BY <1>2, BytesNone, BytesMore
    <3>4. k + n = k
      BY <1>2, <3>1
    <3> QED
      BY <1>a, <3>2, <3>3, <3>4
  <2> QED
    BY <2>3, <2>4
<1>11. PICK f : f = [e EXCEPT !.input = @ \o SubSeq(payload, 1, n), !.eof = @ \/ end,
                             !.recvNext = Plus(@, IF end THEN n + 1 ELSE n)]
  OBVIOUS
<1>12. /\ DOMAIN f = SlotFields /\ f.peer = e.peer /\ f.state = e.state /\ f.window = e.window
       /\ f.flags = e.flags /\ f.pseq = e.pseq /\ f.data = e.data /\ f.sendNext = e.sendNext
       /\ f.pos = e.pos
  BY <1>11 DEF SlotOK, SlotFields
<1>13. /\ f.input = Bytes(e.peer, 0, k + n) /\ f.eof = (e.eof \/ end)
       /\ f.recvNext = Plus(e.recvNext, IF end THEN n + 1 ELSE n)
  BY <1>10, <1>11 DEF SlotOK, SlotFields
<1>14. Len(f.input) = k + n
  BY <1>9, <1>13, BytesLenFrom0
<1>15. f.eof \in BOOLEAN /\ (f.eof => k + n = Request)
  <2>1. e.eof => n = 0
    BY <1>2, <1>3, <1>6, <1>b
  <2> QED
    BY <1>2, <1>8, <1>13, <1>a, <2>1
<1>16. f.recvNext = Plus(ClientIss, 1 + (k + n) + One(f.eof))
  <2>1. PICK x, more : x = (IF end THEN n + 1 ELSE n) /\ more = One(f.eof)
    OBVIOUS
  <2>2. more \in {0, 1} /\ (f.eof => more = 1) /\ (~f.eof => more = 0)
    BY <2>1, OneIs
  <2>3. end => ~e.eof /\ f.eof
    BY <1>8, <1>13
  <2>4. ~end => (f.eof <=> e.eof)
    BY <1>13
  <2>5. x \in Nat /\ p + x = (k + n) + more
    <3>1. one \in Nat /\ more \in Nat /\ one <= 1 /\ more <= 1
      BY <1>b, <2>2
    <3>2. CASE end
      <4>1. one = 0 /\ more = 1 /\ x = n + 1
        BY <1>b, <2>1, <2>2, <2>3, <3>2
      <4> QED
        BY <1>2, <1>6, <4>1
    <3>3. CASE ~end
      <4>1. one = more /\ x = n
        BY <1>b, <2>1, <2>2, <2>4, <3>3
      <4> QED
        BY <1>2, <1>6, <3>1, <4>1
    <3> QED
      BY <3>2, <3>3
  <2>6. 1 + p \in Nat /\ (1 + p) + x < Modulus /\ (1 + p) + x = 1 + (k + n) + more
    <3>1. more \in Nat /\ more <= 1
      BY <2>2
    <3>2. p \in Nat /\ 1 + p \in Nat
      BY <1>2, <1>6
    <3>3. k + n \in Nat /\ k + n <= Request
      BY <1>2, <1>9
    <3>4. (1 + p) + x = 1 + (k + n) + more
      BY <2>5, <3>1, <3>2, <3>3
    <3>5. Request \in Nat /\ 2 * (Request + 3) <= Modulus
      BY <1>3
    <3> QED
      BY <3>1, <3>2, <3>3, <3>4, <3>5
  <2>7. ClientIss \in Numbers
    BY DEF Numbers
  <2>8. Plus(Plus(ClientIss, 1 + p), x) = Plus(ClientIss, (1 + p) + x)
    BY <2>5, <2>6, <2>7, PlusTwice
  <2> QED
    BY <1>13, <1>a, <2>1, <2>6, <2>8
<1>17. Reading(f)
  BY <1>9, <1>12, <1>13, <1>14, <1>15, <1>16 DEF Reading
<1>18. f.recvNext \in Int
  <2>1. 1 + (k + n) + One(f.eof) \in Nat
    BY <1>9, OneIs
  <2> QED
    BY <1>16, <2>1 DEF Plus
<1>19. \A iss, q : Sending(e, iss, q) => Sending(f, iss, q)
  BY <1>12 DEF Sending, Pending, Closing
<1>20. SlotOK(f, U)
  BY <1>12, <1>15, <1>17, <1>18, <1>19 DEF SlotOK
<1>21. ResultOK(StreamOutput(f), U) /\ ResultOK(Ack(f), U) /\ ResultOK(Quiet(f), U)
  BY <1>12, <1>20, StreamOutputOK, AckOK, QuietOK
<1>22. Store(e, payload, fin, news) \in {StreamOutput(f), Ack(f), Quiet(f)}
  <2>1. f = [e EXCEPT !.input = @ \o SubSeq(payload, 1, n), !.eof = @ \/ (fin /\ n = Len(payload)),
                             !.recvNext = Plus(@, IF fin /\ n = Len(payload) THEN n + 1 ELSE n)]
    BY <1>7, <1>11
  <2> QED
    BY <1>5, <2>1 DEF Store
<1> QED
  BY <1>21, <1>22

LEMMA EchoOK ==
    ASSUME server \in Servers, NEW U, U \subseteq Numbers, NEW e, SlotOK(e, U), ~Streaming,
           e.state = "established", NEW p, Taken(e, p), NEW hi, NEW payload, NEW fin, NEW news,
           Rest(e, p, payload, fin, hi)
    PROVE  ResultOK(Echo(e, payload, fin, news), U)
<1>1. PICK iss \in U, q \in 0 .. All : Sending(e, iss, q)
  BY DEF SlotOK
<1>2. /\ All = Request /\ Request \in Nat /\ PeerMss \in Nat /\ 2 * (Request + 3) <= Modulus
      /\ q \in Nat /\ q <= Request
  BY ServerFacts DEF All
<1>3. ~Closing(e) /\ e.sendNext = Plus(iss, 1 + q) /\ e.recvNext = Plus(ClientIss, 1 + q)
  <2>1. ~Closing(e)
    BY DEF Closing
  <2> QED
    BY <1>1, <1>2, <2>1 DEF Sending, One
<1>4. p = q /\ hi \in Nat /\ q <= hi /\ (hi <= Request \/ hi = q) /\ (fin => hi = Request)
      /\ payload = Bytes(e.peer, q, hi)
  <2>1. p \in 0 .. Request + 1 /\ Plus(ClientIss, 1 + p) = Plus(ClientIss, 1 + q)
    BY <1>3 DEF Taken
  <2>2. ClientIss \in Numbers /\ 1 + p \in Nat /\ 1 + q \in Nat /\ 2 * (1 + p) < Modulus /\ 2 * (1 + q) < Modulus
    BY <1>2, <2>1 DEF Numbers
  <2>3. Diff(Plus(ClientIss, 1 + p), Plus(ClientIss, 1 + q)) = (1 + p) - (1 + q)
    BY <2>2, DiffIs
  <2>4. Diff(Plus(ClientIss, 1 + q), Plus(ClientIss, 1 + q)) = (1 + q) - (1 + q)
    BY <2>2, DiffIs
  <2>5. p = q
    BY <1>2, <2>1, <2>3, <2>4
  <2> QED
    BY <1>2, <2>5 DEF Rest
<1>5. Len(payload) = hi - q /\ Len(payload) \in Nat
  <2>1. Len(Bytes(e.peer, q, hi)) = hi - q
    BY <1>2, <1>4, BytesLen
  <2> QED
    BY <1>2, <1>4, <2>1
<1>6. PICK n : n = Least({Len(payload), PeerMss, e.window})
  OBVIOUS
<1>7. n \in Nat /\ n <= hi - q
  <2>1. Len(payload) \in Int /\ PeerMss \in Int /\ e.window \in Int /\ e.window \in Nat
    BY <1>2, <1>5 DEF SlotOK
  <2>2. n \in {Len(payload), PeerMss, e.window} /\ n <= Len(payload)
    BY <1>6, <2>1, LeastOfThree
  <2> QED
    BY <1>2, <1>5, <2>1, <2>2
<1>8. PICK y \in Nat : y = q + n
  BY <1>2, <1>7
<1>9. y <= hi /\ y \in 0 .. All /\ q \in 0 .. y
  BY <1>2, <1>4, <1>7, <1>8
<1>10. PICK end \in BOOLEAN : end <=> (fin /\ n = Len(payload))
  OBVIOUS
<1>11. end => y = All
  BY <1>2, <1>4, <1>5, <1>8, <1>10
<1>12. PICK x : x = IF end THEN n + 1 ELSE n
  OBVIOUS
<1>13. PICK f : f = [e EXCEPT !.recvNext = Plus(@, x), !.state = IF end THEN "finsent" ELSE @]
  OBVIOUS
<1>14. /\ DOMAIN f = SlotFields /\ f.peer = e.peer /\ f.window = e.window
       /\ f.eof = e.eof /\ f.input = e.input /\ f.sendNext = e.sendNext /\ f.pos = e.pos
       /\ f.recvNext = Plus(e.recvNext, x) /\ f.state = IF end THEN "finsent" ELSE "established"
  BY <1>13 DEF SlotOK, SlotFields
<1>15. Closing(f) <=> end
  BY <1>14 DEF Closing
<1>16. f.recvNext = Plus(ClientIss, 1 + y + One(Closing(f))) /\ f.recvNext \in Int
  <2>1. PICK one : one = One(Closing(f))
    OBVIOUS
  <2>2. one \in Nat /\ one <= 1 /\ x = n + one /\ x \in Nat
    <3>1. CASE end
      <4>1. one = 1 /\ x = n + 1
        BY <1>12, <1>15, <2>1, <3>1 DEF One
      <4> QED
        BY <1>7, <4>1
    <3>2. CASE ~end
      <4>1. one = 0 /\ x = n
        BY <1>12, <1>15, <2>1, <3>2 DEF One
      <4> QED
        BY <1>7, <4>1
    <3> QED
      BY <3>1, <3>2
  <2>3. 1 + q \in Nat /\ (1 + q) + x = 1 + y + one /\ ClientIss \in Numbers /\ 1 + y + one \in Nat
    BY <1>2, <1>7, <1>8, <2>2 DEF Numbers
  <2>4. (1 + q) + x < Modulus
    BY <1>2, <1>9, <2>2, <2>3
  <2>5. Plus(Plus(ClientIss, 1 + q), x) = Plus(ClientIss, (1 + q) + x)
    BY <2>2, <2>3, <2>4, PlusTwice
  <2>6. Plus(ClientIss, 1 + y + one) \in Int
    BY <2>3, <2>4, PlusIs DEF Numbers
  <2> QED
    BY <1>3, <1>14, <2>1, <2>3, <2>5, <2>6
<1>17. Fields(f) /\ f.state # "listen"
  BY <1>14, <1>16 DEF Fields, SlotOK, States
<1>18. Reading(f)
  BY <1>14 DEF Reading, SlotOK
<1>19. PICK flags : flags = IF end THEN {"ack", "fin"} ELSE {"ack"}
  OBVIOUS
<1>20. ResultOK(Queue(f, flags, Bytes(f.peer, q, y)), U)
  <2>1. /\ f.sendNext = Plus(iss, 1 + q) /\ flags = (IF Closing(f) THEN {"ack", "fin"} ELSE {"ack"})
        /\ (Closing(f) => y = All)
    BY <1>3, <1>11, <1>14, <1>15, <1>19
  <2> QED
    BY <1>9, <1>16, <1>17, <1>18, <2>1, QueueOK
<1>21. SubSeq(payload, 1, n) = Bytes(f.peer, q, y)
  <2>1. SubSeq(Bytes(e.peer, q, hi), 1, n) = Bytes(e.peer, q, y)
    <3>1. q \in Nat /\ hi \in Nat /\ n \in Nat /\ y \in Nat /\ y = q + n /\ y <= hi
      BY <1>2, <1>4, <1>7, <1>8, <1>9
    <3>2. Front(Bytes(e.peer, q, hi), n) = Bytes(e.peer, q, y)
      BY <3>1, BytesFront
    <3> QED
      BY <3>2 DEF Front, Drop
  <2> QED
    BY <1>4, <1>14, <2>1
<1>22. ResultOK(Ack(e), U) /\ ResultOK(Quiet(e), U)
  BY AckOK, QuietOK
<1>23. Echo(e, payload, fin, news) \in {Ack(e), Quiet(e), Queue(f, flags, SubSeq(payload, 1, n))}
  <2>1. f = [e EXCEPT !.recvNext = Plus(@, IF fin /\ n = Len(payload) THEN n + 1 ELSE n),
                      !.state = IF fin /\ n = Len(payload) THEN "finsent" ELSE @]
    BY <1>10, <1>12, <1>13
  <2>2. flags = IF fin /\ n = Len(payload) THEN {"ack", "fin"} ELSE {"ack"}
    BY <1>10, <1>19
  <2> QED
    BY <1>6, <2>1, <2>2 DEF Echo
<1> QED
  BY <1>20, <1>21, <1>22, <1>23

LEMMA InOrderOK ==
    ASSUME server \in Servers, NEW U, U \subseteq Numbers, NEW e, SlotOK(e, U),
           e.state \notin {"listen", "timewait"}, NEW p, Taken(e, p), NEW m, m.win \in Nat,
           NEW hi, NEW payload, NEW duplicate, Rest(e, p, payload, "fin" \in m.flags, hi)
    PROVE  ResultOK(InOrder(e, m, payload, duplicate), U)
<1>1. PICK f : f = Acked(e, m)
  OBVIOUS
<1>2. /\ SlotOK(f, U) /\ f.state # "listen" /\ f.peer = e.peer
      /\ f.recvNext = e.recvNext /\ f.input = e.input /\ f.eof = e.eof
      /\ f.state = "timewait" => e.state = "finsent"
  BY <1>1, AckedOK
<1>3. Taken(f, p) /\ Rest(f, p, payload, "fin" \in m.flags, hi)
  BY <1>2 DEF Taken, Rest
<1>4. ResultOK(Quiet(f), U) /\ ResultOK(Ack(f), U)
  BY <1>2, QuietOK, AckOK
<1>5. PICK g : g = [f EXCEPT !.recvNext = Plus(@, 1), !.eof = TRUE, !.state = "timewait"]
  OBVIOUS
<1>6. ASSUME f.state = "finwait2", "fin" \in m.flags, payload = <<>>
      PROVE  ResultOK(Ack(g), U)
  <2>1. PICK iss \in U, q \in 0 .. All : Sending(f, iss, q)
    BY <1>2 DEF SlotOK
  <2>2. Streaming /\ ~f.eof
    BY <1>2, <1>6 DEF SlotOK, Reading
  <2>3. PICK k : k = Len(f.input)
    OBVIOUS
  <2>4. k \in Nat /\ Request \in Nat /\ 2 * (Request + 3) <= Modulus
    BY <1>2, <2>3, ServerFacts DEF SlotOK, Reading
  <2>5. p = k /\ f.recvNext = Plus(ClientIss, 1 + k)
    <3>1. One(f.eof) = 0
      BY <2>2, OneIs
    <3>2. p = Len(f.input) + One(f.eof) /\ f.recvNext = Plus(ClientIss, 1 + p)
      BY <1>3, <2>2 DEF Taken
    <3>3. p = k
      BY <2>3, <2>4, <3>1, <3>2
    <3> QED
      BY <3>2, <3>3
  <2>6. k = Request
    <3>1. hi = Request /\ k <= hi /\ payload = Bytes(f.peer, k, hi)
      BY <1>3, <1>6, <2>5 DEF Rest
    <3>2. Len(payload) = hi - k
      BY <2>4, <3>1, BytesLen
    <3> QED
      BY <1>6, <2>4, <3>1, <3>2
  <2>7. Plus(Plus(ClientIss, 1 + k), 1) = Plus(ClientIss, 1 + k + 1) /\ Plus(ClientIss, 1 + k + 1) \in Int
    <3>1. ClientIss \in Numbers /\ 1 + k \in Nat /\ (1 + k) + 1 < Modulus /\ 1 \in Nat /\ 1 + k + 1 \in Nat
      BY <2>4, <2>6 DEF Numbers
    <3>2. Plus(Plus(ClientIss, 1 + k), 1) = Plus(ClientIss, 1 + k + 1)
      BY <3>1, PlusTwice
    <3> QED
      BY <3>1, <3>2, PlusIs DEF Numbers
  <2>8. /\ DOMAIN g = SlotFields /\ g.peer = f.peer /\ g.window = f.window /\ g.input = f.input
        /\ g.flags = f.flags /\ g.pseq = f.pseq /\ g.data = f.data /\ g.sendNext = f.sendNext
        /\ g.pos = f.pos /\ g.recvNext = Plus(f.recvNext, 1) /\ g.eof = TRUE /\ g.state = "timewait"
    BY <1>2, <1>5 DEF SlotOK, SlotFields
  <2>9. g.recvNext = Plus(ClientIss, 1 + Len(g.input) + One(g.eof)) /\ g.recvNext \in Int
    <3>1. One(g.eof) = 1
      BY <2>8 DEF One
    <3> QED
      BY <2>3, <2>5, <2>7, <2>8, <3>1
  <2>10. Reading(g)
    BY <1>2, <2>2, <2>3, <2>6, <2>8, <2>9 DEF Reading, SlotOK
  <2>11. Sending(g, iss, q)
    <3>1. Closing(g) /\ Closing(f)
      BY <1>6, <2>8 DEF Closing
    <3> QED
      BY <2>1, <2>2, <2>8, <3>1 DEF Sending, Pending, One
  <2>12. SlotOK(g, U)
    BY <1>2, <2>8, <2>9, <2>10, <2>11 DEF SlotOK, States
  <2> QED
    BY <2>8, <2>12, AckOK
<1>7. ASSUME f.flags = {}, f.state \notin {"finwait2", "timewait"} PROVE f.state = "established"
  BY <1>2, <1>7 DEF SlotOK, States
<1>8. \/ InOrder(e, m, payload, duplicate) \in {Quiet(f), Ack(f)}
      \/ /\ f.state = "finwait2" /\ "fin" \in m.flags /\ payload = <<>>
         /\ InOrder(e, m, payload, duplicate) = Ack(g)
      \/ /\ f.flags = {} /\ f.state \notin {"finwait2", "timewait"} /\ Streaming
         /\ \E news : InOrder(e, m, payload, duplicate) = Store(f, payload, "fin" \in m.flags, news)
      \/ /\ f.flags = {} /\ f.state \notin {"finwait2", "timewait"} /\ ~Streaming
         /\ \E news : InOrder(e, m, payload, duplicate) = Echo(f, payload, "fin" \in m.flags, news)
  BY <1>1, <1>2, <1>5 DEF InOrder
<1>9. ASSUME f.flags = {}, f.state \notin {"finwait2", "timewait"}, Streaming, NEW news
      PROVE  ResultOK(Store(f, payload, "fin" \in m.flags, news), U)
  BY <1>2, <1>3, <1>7, <1>9, StoreOK
<1>10. ASSUME f.flags = {}, f.state \notin {"finwait2", "timewait"}, ~Streaming, NEW news
       PROVE  ResultOK(Echo(f, payload, "fin" \in m.flags, news), U)
  BY <1>2, <1>3, <1>7, <1>10, EchoOK
<1> QED
  BY <1>4, <1>6, <1>8, <1>9, <1>10

LEMMA OnDataOK ==
    ASSUME server \in Servers, NEW U, U \subseteq Numbers, NEW e, SlotOK(e, U),
           e.state \notin {"listen", "timewait"}, NEW m, UpOK(m), m.peer = e.peer, "syn" \notin m.flags
    PROVE  ResultOK(OnData(e, m), U)
<1>1. PICK p : Taken(e, p)
  BY TakenIs
<1>2. PICK lo \in 0 .. Request + 1, hi \in 0 .. Request + 1 :
         Piece(m.peer, m.seq, m.data, "fin" \in m.flags, ClientIss, Request, lo, hi)
  BY DEF UpOK, Part
<1>3. /\ Request \in Nat /\ 2 * (Request + 3) <= Modulus /\ lo \in Nat /\ hi \in Nat
      /\ lo <= Request + 1 /\ hi <= Request + 1 /\ p \in Nat /\ p <= Request + 1
  BY <1>1, ServerFacts DEF Taken
<1>4. /\ lo <= hi /\ (hi <= Request \/ lo = hi) /\ m.data = Bytes(e.peer, lo, hi)
      /\ m.seq = Plus(ClientIss, 1 + lo) /\ ("fin" \in m.flags => hi = Request)
  BY <1>2 DEF Piece
<1>5. Skip(e, m) = p - lo
  <2>1. /\ ClientIss \in Numbers /\ 1 + lo \in Nat /\ 1 + p \in Nat
        /\ 2 * (1 + lo) < Modulus /\ 2 * (1 + p) < Modulus
    BY <1>3 DEF Numbers
  <2>2. Diff(Plus(ClientIss, 1 + lo), Plus(ClientIss, 1 + p)) = (1 + lo) - (1 + p)
    BY <2>1, DiffIs
  <2>3. Skip(e, m) = -((1 + lo) - (1 + p))
    BY <1>1, <1>4, <2>2 DEF Skip, Taken
  <2> QED
    BY <1>3, <2>3
<1>6. CASE Skip(e, m) < 0 \/ Skip(e, m) > Len(m.data)
  BY <1>6, AckOK DEF OnData
<1>7. CASE ~(Skip(e, m) < 0 \/ Skip(e, m) > Len(m.data))
  <2>1. Len(m.data) = hi - lo
    <3>1. Len(Bytes(e.peer, lo, hi)) = hi - lo
      BY <1>3, <1>4, BytesLen
    <3> QED
      BY <1>4, <3>1
  <2>2. PICK x \in Nat : x = Skip(e, m)
    BY <1>3, <1>5, <1>7
  <2>3. p = lo + x /\ p <= hi
    BY <1>3, <1>5, <1>7, <2>1, <2>2
  <2>4. SubSeq(m.data, x + 1, Len(m.data)) = Bytes(e.peer, p, hi)
    <3>1. SubSeq(Bytes(e.peer, lo, hi), x + 1, Len(Bytes(e.peer, lo, hi))) = Bytes(e.peer, p, hi)
      <4>1. lo \in Nat /\ hi \in Nat /\ x \in Nat /\ p \in Nat /\ p <= lo + x /\ lo + x <= p /\ p <= hi
        BY <1>3, <2>2, <2>3
      <4>2. Drop(Bytes(e.peer, lo, hi), x) = Bytes(e.peer, p, hi)
        BY <4>1, BytesBack
      <4> QED
        BY <4>2 DEF Front, Drop
    <3> QED
      BY <1>4, <3>1
  <2>5. hi <= Request \/ hi = p
    BY <1>3, <1>4, <2>3
  <2>6. PICK payload : payload = SubSeq(m.data, x + 1, Len(m.data))
    OBVIOUS
  <2>7. Rest(e, p, payload, "fin" \in m.flags, hi)
    BY <1>4, <2>3, <2>4, <2>5, <2>6 DEF Rest
  <2>8. ResultOK(InOrder(e, m, payload, x > 0), U)
    BY <1>1, <2>7, InOrderOK DEF UpOK
  <2>9. OnData(e, m) = InOrder(e, m, payload, x > 0)
    BY <1>7, <2>2, <2>6 DEF OnData
  <2> QED
    BY <2>8, <2>9
<1> QED
  BY <1>6, <1>7

LEMMA ListeningOK == ASSUME server \in Servers, NEW U PROVE SlotOK(Listening, U) /\ Listening.state = "listen"
<1>1. (CHOOSE x \in Clients : TRUE) \in Clients
  BY ServerFacts
<1>2. PICK c \in Clients : c = CHOOSE x \in Clients : TRUE
  BY <1>1
<1>3. PICK e : e = Listening
  OBVIOUS
<1>4. /\ DOMAIN e = SlotFields /\ e.peer = c /\ e.state = "listen" /\ e.window = 0 /\ e.recvNext = 0
      /\ e.eof = FALSE /\ e.input = <<>>
  BY <1>2, <1>3 DEF Listening, SlotFields
<1>5. Bytes(c, 0, 0) = <<>>
  BY BytesNone
<1>6. Len(e.input) = 0
  BY <1>4
<1>7. Request \in Nat /\ Space \in Nat
  BY ServerFacts
<1>8. Reading(e)
  BY <1>4, <1>5, <1>6, <1>7 DEF Reading
<1>9. e.peer \in Clients /\ e.state \in States /\ e.window \in Nat /\ e.recvNext \in Int /\ e.eof \in BOOLEAN
  <2>1. e.peer \in Clients
    BY <1>2, <1>4
  <2>2. e.state \in States
    BY <1>4 DEF States
  <2>3. e.window \in Nat /\ e.recvNext \in Int
    BY <1>4
  <2>4. e.eof \in BOOLEAN
    BY <1>4
  <2> QED
    BY <2>1, <2>2, <2>3, <2>4
<1>10. SlotOK(e, U)
  BY <1>4, <1>8, <1>9 DEF SlotOK
<1> QED
  BY <1>3, <1>4, <1>10

LEMMA AcceptOK ==
    ASSUME server \in Servers, NEW U, U \subseteq Numbers, NEW e, SlotOK(e, U), NEW m, UpOK(m),
           m.flags = {"syn"}, NEW iss \in U
    PROVE  ResultOK(Accept(e, m, iss), U)
<1>1. m.seq = ClientIss /\ m.peer \in Clients /\ m.win \in Nat
  BY DEF UpOK
<1>2. /\ ClientIss \in Numbers /\ iss \in Numbers /\ 1 < Modulus /\ Modulus \in Nat /\ All \in Nat
      /\ Request \in Nat /\ Space \in Nat
  <2>1. All \in Nat /\ Request \in Nat /\ Space \in Nat /\ 2 * (Request + 3) <= Modulus
    BY ServerFacts
  <2>2. ClientIss \in Numbers /\ iss \in Numbers
    BY DEF Numbers
  <2> QED
    BY <2>1, <2>2
<1>3. Plus(ClientIss, 1) \in Int /\ Plus(iss, 1) \in Int
  <2>1. 1 \in Nat /\ \A x \in Numbers : x \in Int
    BY DEF Numbers
  <2>2. Plus(ClientIss, 1) \in Numbers
    BY <1>2, <2>1, PlusIs
  <2>3. Plus(iss, 1) \in Numbers
    BY <1>2, <2>1, PlusIs
  <2> QED
    BY <2>1, <2>2, <2>3
<1>4. PICK f : f = [e EXCEPT !.peer = m.peer, !.window = m.win, !.sendNext = iss,
                    !.recvNext = Plus(m.seq, 1), !.state = "synrcvd",
                    !.input = <<>>, !.pos = 0, !.responding = FALSE, !.eof = FALSE]
  OBVIOUS
<1>5. /\ DOMAIN f = SlotFields /\ f.peer = m.peer /\ f.window = m.win /\ f.sendNext = iss
      /\ f.recvNext = Plus(ClientIss, 1) /\ f.state = "synrcvd" /\ f.input = <<>> /\ f.pos = 0
      /\ f.eof = FALSE
  BY <1>1, <1>4 DEF SlotOK, SlotFields
<1>6. PICK end : end = Plus(f.sendNext, Length({"syn", "ack"}, <<>>))
  OBVIOUS
<1>7. end = Plus(iss, 1)
  BY <1>5, <1>6 DEF Length
<1>8. PICK g : g = [f EXCEPT !.pseq = f.sendNext, !.flags = {"syn", "ack"}, !.data = <<>>,
                            !.sendNext = end, !.pend = end, !.retries = 0]
  OBVIOUS
<1>9. /\ DOMAIN g = SlotFields /\ g.peer = m.peer /\ g.window = m.win /\ g.sendNext = Plus(iss, 1)
      /\ g.recvNext = Plus(ClientIss, 1) /\ g.state = "synrcvd" /\ g.input = <<>> /\ g.pos = 0
      /\ g.eof = FALSE /\ g.flags = {"syn", "ack"} /\ g.pseq = iss
  BY <1>5, <1>7, <1>8 DEF SlotFields
<1>10. Closing(g) = FALSE /\ One(Closing(g)) = 0 /\ One(g.eof) = 0 /\ Len(g.input) = 0
  BY <1>9 DEF Closing, One
<1>11. Reading(g)
  <2>1. Bytes(g.peer, 0, 0) = <<>>
    BY BytesNone
  <2> QED
    BY <1>2, <1>9, <1>10, <2>1 DEF Reading
<1>12. Sending(g, iss, 0)
  BY <1>2, <1>9, <1>10 DEF Sending, Pending
<1>13. SlotOK(g, U)
  <2>1. 0 \in 0 .. All
    BY <1>2
  <2> QED
    BY <1>1, <1>3, <1>9, <1>11, <1>12, <2>1 DEF SlotOK, States
<1>14. Accept(e, m, iss) = Resend(g)
  BY <1>4, <1>6, <1>8 DEF Accept, Queue
<1> QED
  BY <1>9, <1>13, <1>14, ResendOK

LEMMA HandleOK ==
    ASSUME server \in Servers, NEW U, U \subseteq Numbers, NEW e, SlotOK(e, U), NEW m, UpOK(m), NEW iss,
           m.flags = {"syn"} /\ (e.state = "listen" \/ e.peer # m.peer) => iss \in U
    PROVE  ResultOK(Handle(e, m, iss), U)
<1>1. CASE m.flags = {"syn"} /\ (e.state = "listen" \/ (e.state = "timewait" /\ e.peer # m.peer))
  BY <1>1, AcceptOK DEF Handle
<1>2. CASE ~(m.flags = {"syn"} /\ (e.state = "listen" \/ (e.state = "timewait" /\ e.peer # m.peer)))
  <2>1. CASE e.state = "listen" \/ e.peer # m.peer
    BY <1>2, <2>1, QuietOK DEF Handle
  <2>2. CASE ~(e.state = "listen" \/ e.peer # m.peer)
    <3>1. ResultOK(Quiet(e), U) /\ ResultOK(Quiet(Close), U) /\ ResultOK(Ack(e), U)
      BY <2>2, QuietOK, AckOK, ListeningOK DEF Close
    <3>2. e.state = "synrcvd" => ResultOK(Resend(e), U)
      BY ResendOK DEF SlotOK
    <3>3. e.state # "timewait" /\ "syn" \notin m.flags => ResultOK(OnData(e, m), U)
      BY <2>2, OnDataOK
    <3>4. \/ Handle(e, m, iss) \in {Quiet(e), Quiet(Close), Ack(e)}
          \/ Handle(e, m, iss) = Resend(e) /\ e.state = "synrcvd"
          \/ Handle(e, m, iss) = OnData(e, m) /\ e.state # "timewait" /\ "syn" \notin m.flags
      BY <1>2, <2>2 DEF Handle
    <3> QED
      BY <3>1, <3>2, <3>3, <3>4
  <2> QED
    BY <2>1, <2>2
<1> QED
  BY <1>1, <1>2

LEMMA PrepareOK ==
    ASSUME NEW U, NEW e, SlotOK(e, U), NEW late
    PROVE  SlotOK(Prepare(e, late), U) /\ Prepare(e, late).state = e.state /\ Prepare(e, late).flags = e.flags
<1>1. PICK f : f = Prepare(e, late)
  OBVIOUS
<1>2. /\ DOMAIN f = SlotFields /\ f.peer = e.peer /\ f.window = e.window /\ f.input = e.input
      /\ f.flags = e.flags /\ f.pseq = e.pseq /\ f.data = e.data /\ f.sendNext = e.sendNext
      /\ f.pos = e.pos /\ f.recvNext = e.recvNext /\ f.eof = e.eof /\ f.state = e.state
  BY <1>1 DEF Prepare, SlotOK, SlotFields
<1>3. Reading(f)
  BY <1>2 DEF Reading, SlotOK
<1>4. \A iss, q : Sending(e, iss, q) => Sending(f, iss, q)
  BY <1>2 DEF Sending, Pending, Closing
<1> QED
  BY <1>1, <1>2, <1>3, <1>4 DEF SlotOK

----------------------------------------------------------------------------
(* The steps *)

LEMMA UsedFacts ==
    ASSUME conns \in 0 .. Len(Iss)
    PROVE  Used \subseteq Numbers
<1>1. Iss \in Seq(Numbers)
  BY DEF Numbers
<1>2. \A k \in 1 .. Len(Iss) : Iss[k] \in Numbers
  <2> HIDE DEF Numbers
  <2> QED
    BY <1>1
<1>3. \A k \in 1 .. conns : k \in 1 .. Len(Iss)
  <2>1. Len(Iss) \in Nat
    BY <1>1
  <2> QED
    BY <2>1
<1> QED
  BY <1>2, <1>3 DEF Used

\* What is so for some initial numbers is so for more of them.
LEMMA MoreUsed ==
    ASSUME NEW U, NEW V, U \subseteq V
    PROVE  /\ \A e : SlotOK(e, U) => SlotOK(e, V)
           /\ \A m : DownOK(m, U) => DownOK(m, V)
           /\ \A c, me : HasRead(c, me, U) => HasRead(c, me, V)
<1>1. \A e : SlotOK(e, U) => SlotOK(e, V)
  BY DEF SlotOK
<1>2. \A m : DownOK(m, U) => DownOK(m, V)
  BY DEF DownOK
<1>3. \A c, me : HasRead(c, me, U) => HasRead(c, me, V)
  BY DEF HasRead
<1> QED
  BY <1>1, <1>2, <1>3

\* The server is the same after a step.
LEMMA SameServer ==
    ASSUME UNCHANGED server
    PROVE  /\ Clients' = Clients /\ Slots' = Slots /\ Streaming' = Streaming
           /\ \A e, U : SlotOK(e, U)' <=> SlotOK(e, U)
           /\ \A m, U : DownOK(m, U)' <=> DownOK(m, U)
           /\ \A m : UpOK(m)' <=> UpOK(m)
           /\ \A me : ClientOK(me)' <=> ClientOK(me)
           /\ \A c, me, U : HasRead(c, me, U)' <=> HasRead(c, me, U)
<1>1. Clients' = Clients /\ Slots' = Slots /\ Streaming' = Streaming /\ Request' = Request
      /\ Response' = Response /\ Space' = Space
  BY DEF Clients, Slots, Streaming, Request, Response, Space
<1>2. All' = All
  BY <1>1 DEF All
<1>3. \A e : Reading(e)' <=> Reading(e)
  BY <1>1 DEF Reading
<1>4. \A e, iss : Pending(e, iss)' <=> Pending(e, iss)
  BY <1>2 DEF Pending
<1>5. \A e, iss, q : Sending(e, iss, q)' <=> Sending(e, iss, q)
  BY <1>1, <1>2, <1>4 DEF Sending
<1>6. \A e, U : SlotOK(e, U)' <=> SlotOK(e, U)
  BY <1>1, <1>2, <1>3, <1>5 DEF SlotOK
<1>7. \A m, U : DownOK(m, U)' <=> DownOK(m, U)
  BY <1>1, <1>2 DEF DownOK
<1>8. \A m : UpOK(m)' <=> UpOK(m)
  BY <1>1 DEF UpOK
<1>9. \A me : ClientOK(me)' <=> ClientOK(me)
  BY <1>1 DEF ClientOK
<1>10. \A c, me, U : HasRead(c, me, U)' <=> HasRead(c, me, U)
  BY <1>2 DEF HasRead
<1> QED
  BY <1>1, <1>6, <1>7, <1>8, <1>9, <1>10

\* A step of the endpoint: one slot changes, and it may send.
LEMMA EndpointStep ==
    ASSUME TcpInductive, UNCHANGED <<server, client, up>>, conns' \in 0 .. Len(Iss), conns <= conns',
           NEW s \in 1 .. Slots, NEW e, SlotOK(e, Used'), slot' = [slot EXCEPT ![s] = e],
           \A m \in down' : m \in down \/ DownOK(m, Used')
    PROVE  TcpInductive'
<1>1. Used \subseteq Used'
  <2>1. \A k \in 1 .. conns : k \in 1 .. conns'
    BY DEF TcpInductive
  <2> QED
    BY <2>1 DEF Used
<1>2. DOMAIN slot' = 1 .. Slots /\ \A k \in 1 .. Slots : SlotOK(slot'[k], Used')
  BY <1>1, MoreUsed DEF TcpInductive
<1>3. \A m \in down' : DownOK(m, Used')
  BY <1>1, MoreUsed DEF TcpInductive
<1>4. server \in Servers /\ DOMAIN client = Clients /\ (\A c \in Clients : ClientOK(client[c])) /\ \A m \in up : UpOK(m)
  BY DEF TcpInductive
<1> QED
  BY <1>2, <1>3, <1>4, SameServer DEF TcpInductive

LEMMA ChosenIs ==
    ASSUME server \in Servers, NEW m
    PROVE  Chosen(m) \subseteq 1 .. Slots
<1>1. ASSUME NEW T, T \subseteq 1 .. Slots, T # {} PROVE Least(T) \in T
  <2>1. T \subseteq Nat
    BY <1>1, ServerFacts
  <2>2. \E x \in T : \A y \in T : ~(<<y, x>> \in OpToRel(<, Nat))
    BY <1>1, <2>1, NatLessThanWellFounded, WFMin
  <2>3. \E x \in T : \A y \in T : x <= y
    <3>1. PICK x \in T : \A y \in T : ~(<<y, x>> \in OpToRel(<, Nat))
      BY <2>2
    <3>2. \A y \in T : ~(y < x)
      BY <2>1, <3>1 DEF OpToRel
    <3>3. \A y \in T : x <= y
      BY <2>1, <3>2
    <3> QED
      BY <3>3
  <2> QED
    BY <2>3 DEF Least
<1>2. PICK mine : mine = {s \in 1 .. Slots : slot[s].state # "listen" /\ slot[s].peer = m.peer}
  OBVIOUS
<1>3. PICK free : free = {s \in 1 .. Slots : slot[s].state \in {"listen", "timewait"}}
  OBVIOUS
<1>4. Chosen(m) = IF mine # {} THEN {Least(mine)}
                  ELSE IF m.flags = {"syn"} /\ free # {} THEN {Least(free)} ELSE {}
  BY <1>2, <1>3 DEF Chosen
<1>5. mine \subseteq 1 .. Slots /\ free \subseteq 1 .. Slots
  BY <1>2, <1>3
<1>6. CASE mine # {}
  <2>1. Least(mine) \in mine
    BY <1>1, <1>5, <1>6
  <2> QED
    BY <1>4, <1>5, <1>6, <2>1
<1>7. CASE mine = {} /\ free # {}
  <2>1. Least(free) \in free
    BY <1>1, <1>5, <1>7
  <2> QED
    <3>1. Chosen(m) \subseteq {Least(free)}
      BY <1>4, <1>7
    <3> QED
      BY <1>5, <2>1, <3>1
<1> QED
  BY <1>4, <1>6, <1>7

LEMMA ReceiveStep ==
    ASSUME TcpInductive, NEW m \in up, Receive(m)
    PROVE  TcpInductive'
<1>1. PICK s \in Chosen(m), late \in BOOLEAN :
       LET opens == m.flags = {"syn"} /\ (slot[s].state = "listen" \/ slot[s].peer # m.peer)
           r == Handle(slot[s], m, Iss[conns + 1])
           o == StreamOutput(Prepare(r.e, late))
       IN  /\ opens => conns < Len(Iss)
           /\ conns' = IF opens THEN conns + 1 ELSE conns
           /\ slot' = [slot EXCEPT ![s] = o.e]
           /\ down' = Put(down, IF o.out # {} THEN o.out ELSE r.out, MaxDown)
           /\ UNCHANGED <<server, client, up>>
  BY DEF Receive
<1>2. server \in Servers /\ conns \in 0 .. Len(Iss) /\ UpOK(m)
  BY DEF TcpInductive
<1>3. s \in 1 .. Slots
  BY <1>2, ChosenIs
<1>4. PICK opens \in BOOLEAN : opens <=> m.flags = {"syn"} /\ (slot[s].state = "listen" \/ slot[s].peer # m.peer)
  OBVIOUS
<1>5. PICK r : r = Handle(slot[s], m, Iss[conns + 1])
  OBVIOUS
<1>6. PICK o : o = StreamOutput(Prepare(r.e, late))
  OBVIOUS
<1>7. /\ opens => conns < Len(Iss)
      /\ conns' = IF opens THEN conns + 1 ELSE conns
      /\ slot' = [slot EXCEPT ![s] = o.e]
      /\ down' = Put(down, IF o.out # {} THEN o.out ELSE r.out, MaxDown)
      /\ UNCHANGED <<server, client, up>>
  BY <1>1, <1>4, <1>5, <1>6
<1>8. Len(Iss) \in Nat
  OBVIOUS
<1>9. conns' \in 0 .. Len(Iss) /\ conns <= conns' /\ (opens => Iss[conns + 1] \in Used')
  <2>1. conns' \in 0 .. Len(Iss) /\ conns <= conns'
    BY <1>2, <1>7, <1>8
  <2>2. opens => conns + 1 \in 1 .. conns'
    BY <1>2, <1>7, <1>8
  <2> QED
    BY <2>1, <2>2 DEF Used
<1>10. PICK U : U = Used'
  OBVIOUS
<1>11. U \subseteq Numbers
  <2>1. \A k \in 1 .. conns' : k \in 1 .. Len(Iss)
    BY <1>8, <1>9
  <2>2. \A k \in 1 .. Len(Iss) : Iss[k] \in Numbers
    <3>1. Iss \in Seq(Numbers)
      BY DEF Numbers
    <3> HIDE DEF Numbers
    <3> QED
      BY <3>1
  <2> QED
    BY <1>10, <2>1, <2>2 DEF Used
<1>12. SlotOK(slot[s], U)
  <2>1. Used \subseteq U
    <3>1. \A k \in 1 .. conns : k \in 1 .. conns'
      BY <1>2, <1>9
    <3> QED
      BY <1>10, <3>1 DEF Used
  <2>2. SlotOK(slot[s], Used)
    BY <1>3 DEF TcpInductive
  <2> QED
    BY <2>1, <2>2, MoreUsed
<1>13. ResultOK(r, U)
  BY <1>2, <1>4, <1>5, <1>9, <1>10, <1>11, <1>12, HandleOK
<1>14. ResultOK(o, U)
  <2>1. SlotOK(Prepare(r.e, late), U)
    BY <1>13, PrepareOK DEF ResultOK
  <2> QED
    BY <1>2, <1>6, <1>11, <2>1, StreamOutputOK
<1>15. \A x \in down' : x \in down \/ DownOK(x, Used')
  BY <1>7, <1>10, <1>13, <1>14 DEF Put, ResultOK
<1>16. SlotOK(o.e, Used')
  BY <1>10, <1>14 DEF ResultOK
<1> QED
  BY <1>3, <1>7, <1>9, <1>15, <1>16, EndpointStep

LEMMA PollStep ==
    ASSUME TcpInductive, NEW s \in 1 .. Slots, Poll(s)
    PROVE  TcpInductive'
<1>1. PICK late \in BOOLEAN :
          LET e == Prepare(slot[s], late)
              r == IF e.flags = {} THEN StreamOutput(e)
                   ELSE IF e.retries >= MaxRetries THEN Quiet(Close)
                   ELSE Resend([e EXCEPT !.retries = @ + 1])
          IN  slot' = [slot EXCEPT ![s] = r.e] /\ down' = Put(down, r.out, MaxDown)
  BY DEF Poll
<1>2. PICK e : e = Prepare(slot[s], late)
  OBVIOUS
<1>3. PICK f : f = [e EXCEPT !.retries = @ + 1]
  OBVIOUS
<1>4. PICK r : r = IF e.flags = {} THEN StreamOutput(e)
                   ELSE IF e.retries >= MaxRetries THEN Quiet(Close) ELSE Resend(f)
  OBVIOUS
<1>5. slot' = [slot EXCEPT ![s] = r.e] /\ down' = Put(down, r.out, MaxDown)
  BY <1>1, <1>2, <1>3, <1>4
<1>6. UNCHANGED <<server, conns, client, up>> /\ slot[s].state # "listen"
  BY DEF Poll
<1>7. server \in Servers /\ conns \in 0 .. Len(Iss) /\ SlotOK(slot[s], Used)
  BY DEF TcpInductive
<1>8. Used \subseteq Numbers
  BY <1>7, UsedFacts
<1>9. SlotOK(e, Used) /\ e.state # "listen"
  BY <1>2, <1>6, <1>7, PrepareOK
<1>10. SlotOK(f, Used) /\ f.state # "listen" /\ f.flags = e.flags
  <2>1. /\ DOMAIN f = SlotFields /\ f.peer = e.peer /\ f.window = e.window /\ f.input = e.input
        /\ f.flags = e.flags /\ f.pseq = e.pseq /\ f.data = e.data /\ f.sendNext = e.sendNext
        /\ f.pos = e.pos /\ f.recvNext = e.recvNext /\ f.eof = e.eof /\ f.state = e.state
    BY <1>3, <1>9 DEF SlotOK, SlotFields
  <2>2. Reading(f)
    BY <1>9, <2>1 DEF Reading, SlotOK
  <2>3. \A iss, q : Sending(e, iss, q) => Sending(f, iss, q)
    BY <2>1 DEF Sending, Pending, Closing
  <2> QED
    BY <1>9, <2>1, <2>2, <2>3 DEF SlotOK
<1>11. ResultOK(r, Used)
  <2>1. CASE e.flags = {}
    BY <1>4, <1>7, <1>8, <1>9, <2>1, StreamOutputOK
  <2>2. CASE e.flags # {}
    <3>1. ResultOK(Resend(f), Used)
      BY <1>7, <1>10, <2>2, ResendOK
    <3>2. ResultOK(Quiet(Close), Used)
      BY <1>7, ListeningOK, QuietOK DEF Close
    <3> QED
      BY <1>4, <2>2, <3>1, <3>2
  <2> QED
    BY <2>1, <2>2
<1>12. Used' = Used
  BY <1>6 DEF Used
<1>13. SlotOK(r.e, Used') /\ \A m \in down' : m \in down \/ DownOK(m, Used')
  BY <1>5, <1>11, <1>12 DEF ResultOK, Put
<1>14. conns' \in 0 .. Len(Iss) /\ conns <= conns'
  BY <1>6, <1>7
<1> QED
  BY <1>5, <1>6, <1>13, <1>14, EndpointStep

LEMMA ExpireStep ==
    ASSUME TcpInductive, NEW s \in 1 .. Slots, Expire(s)
    PROVE  TcpInductive'
<1>1. server \in Servers /\ conns \in 0 .. Len(Iss) /\ UNCHANGED <<server, conns, client, up, down>>
      /\ slot' = [slot EXCEPT ![s] = Close]
  BY DEF Expire, TcpInductive
<1>2. SlotOK(Close, Used')
  BY <1>1, ListeningOK DEF Close
<1>3. conns' \in 0 .. Len(Iss) /\ conns <= conns'
  BY <1>1
<1> QED
  BY <1>1, <1>2, <1>3, EndpointStep

\* A step of a client: it may send, and counts what it sent and what was
\* acknowledged.
LEMMA ClientStep ==
    ASSUME TcpInductive, UNCHANGED <<server, slot, conns, down>>,
           NEW c \in Clients, NEW me, ClientOK(me), client' = [client EXCEPT ![c] = me],
           \A m \in up' : m \in up \/ UpOK(m)
    PROVE  TcpInductive'
<1>1. Used' = Used
  BY DEF Used
<1>2. DOMAIN client' = Clients /\ \A x \in Clients : ClientOK(client'[x])
  BY DEF TcpInductive
<1>3. \A m \in up' : UpOK(m)
  BY DEF TcpInductive
<1>4. /\ server \in Servers /\ conns \in 0 .. Len(Iss) /\ DOMAIN slot = 1 .. Slots
      /\ (\A s \in 1 .. Slots : SlotOK(slot[s], Used)) /\ \A m \in down : DownOK(m, Used)
  BY DEF TcpInductive
<1> QED
  BY <1>1, <1>2, <1>3, <1>4, SameServer DEF TcpInductive

\* What a client sends is a part of its stream.
LEMMA ClientSegmentOK ==
    ASSUME TcpInductive, NEW c \in Clients, NEW lo \in Nat, NEW hi \in Nat, lo <= hi, hi <= Request + 1,
           NEW flags, NEW win \in Nat, "syn" \notin flags,
           "fin" \in flags => lo < hi /\ hi = Request + 1
    PROVE  UpOK(ClientSegment(c, lo, hi, flags, win))
<1>1. server \in Servers /\ Request \in Nat
  BY ServerFacts DEF TcpInductive
<1>2. PICK m : m = ClientSegment(c, lo, hi, flags, win)
  OBVIOUS
<1>3. /\ m.peer = c /\ m.seq = Plus(ClientIss, 1 + lo) /\ m.flags = flags /\ m.win = win
      /\ m.data = Bytes(c, lo, IF hi > Request THEN Request ELSE hi)
  BY <1>2 DEF ClientSegment
<1>4. PICK y : y = IF hi <= Request THEN hi ELSE IF lo <= Request THEN Request ELSE lo
  OBVIOUS
<1>5. /\ y \in 0 .. Request + 1 /\ lo \in 0 .. Request + 1 /\ lo <= y /\ (y <= Request \/ lo = y)
      /\ ("fin" \in flags => y = Request)
  BY <1>1, <1>4
<1>6. m.data = Bytes(c, lo, y)
  <2>1. CASE hi <= Request
    <3>1. ~(hi > Request) /\ y = hi
      BY <1>1, <1>4, <2>1
    <3> QED
      BY <1>3, <3>1
  <2>2. CASE hi > Request /\ lo <= Request
    <3>1. y = Request
      BY <1>1, <1>4, <2>2
    <3> QED
      BY <1>3, <2>2, <3>1
  <2>3. CASE hi > Request /\ lo > Request
    <3>1. lo = Request + 1 /\ y = lo
      BY <1>1, <1>4, <2>3
    <3>2. Bytes(c, Request + 1, Request) = <<>>
      BY <1>1, BytesNone
    <3>3. Bytes(c, lo, lo) = <<>>
      BY BytesNone
    <3> QED
      BY <1>3, <2>3, <3>1, <3>2, <3>3
  <2> QED
    BY <1>1, <2>1, <2>2, <2>3
<1>7. Piece(m.peer, m.seq, m.data, "fin" \in m.flags, ClientIss, Request, lo, y)
  BY <1>3, <1>5, <1>6 DEF Piece
<1>8. Part(m.peer, m.seq, m.data, "fin" \in m.flags, ClientIss, Request)
  BY <1>5, <1>7 DEF Part
<1> QED
  BY <1>2, <1>3, <1>8 DEF UpOK

LEMMA ConnectStep == ASSUME TcpInductive, NEW c \in Clients, Connect(c) PROVE TcpInductive'
<1>1. PICK w \in Windows \ {0} :
          up' = Put(up, {[peer |-> c, seq |-> ClientIss, flags |-> {"syn"}, win |-> w, ack |-> 0, data |-> <<>>]}, MaxUp)
  BY DEF Connect
<1>2. PICK m : m = [peer |-> c, seq |-> ClientIss, flags |-> {"syn"}, win |-> w, ack |-> 0, data |-> <<>>]
  OBVIOUS
<1>3. UpOK(m)
  <2>1. w \in Nat
    BY ServerFacts DEF TcpInductive
  <2> QED
    BY <1>2, <2>1 DEF UpOK
<1>4. PICK me : me = [client[c] EXCEPT !.state = "syn"]
  OBVIOUS
<1>5. ClientOK(me) /\ client' = [client EXCEPT ![c] = me]
  <2>1. ClientOK(client[c])
    BY DEF TcpInductive
  <2>2. ClientOK(me)
    BY <1>4, <2>1 DEF ClientOK, ClientFields
  <2> QED
    BY <1>4, <2>2 DEF Connect
<1>6. \A x \in up' : x \in up \/ UpOK(x)
  BY <1>1, <1>2, <1>3 DEF Put
<1>7. UNCHANGED <<server, slot, conns, down>>
  BY DEF Connect
<1> QED
  BY <1>5, <1>6, <1>7, ClientStep

LEMMA ClientSendStep == ASSUME TcpInductive, NEW c \in Clients, ClientSend(c) PROVE TcpInductive'
<1>1. PICK lo \in {client[c].una, client[c].nxt}, w \in Windows :
       \E hi \in lo .. Least({lo + Longest, Request + 1}) :
          /\ up' = Put(up, {ClientSegment(c, lo, hi, IF lo < hi /\ hi = Request + 1 THEN {"ack", "fin"} ELSE {"ack"}, w)}, MaxUp)
          /\ client' = [client EXCEPT ![c].nxt = IF hi > @ THEN hi ELSE @]
  BY DEF ClientSend
<1>2. PICK hi \in lo .. Least({lo + Longest, Request + 1}) :
          /\ up' = Put(up, {ClientSegment(c, lo, hi, IF lo < hi /\ hi = Request + 1 THEN {"ack", "fin"} ELSE {"ack"}, w)}, MaxUp)
          /\ client' = [client EXCEPT ![c].nxt = IF hi > @ THEN hi ELSE @]
  BY <1>1
<1>3. ClientOK(client[c]) /\ Request \in Nat /\ Longest \in Nat /\ w \in Nat
  BY ServerFacts DEF TcpInductive
<1>4. lo \in Nat /\ client[c].nxt \in Nat /\ client[c].nxt <= Request + 1 /\ client[c].una \in Nat
      /\ client[c].una <= client[c].nxt
  BY <1>3 DEF ClientOK
<1>5. hi \in Nat /\ lo <= hi /\ hi <= Request + 1
  <2>1. Least({lo + Longest, Request + 1}) \in {lo + Longest, Request + 1}
        /\ Least({lo + Longest, Request + 1}) <= Request + 1
    <3>1. lo + Longest \in Int /\ Request + 1 \in Int
      BY <1>3, <1>4
    <3>2. PICK a, b : a = lo + Longest /\ b = Request + 1
      OBVIOUS
    <3>3. Least({a, b}) \in {a, b} /\ Least({a, b}) <= a /\ Least({a, b}) <= b
      BY <3>1, <3>2, LeastOfTwo
    <3> QED
      BY <3>2, <3>3
  <2>2. PICK k \in Nat : k = Least({lo + Longest, Request + 1})
    BY <1>3, <1>4, <2>1
  <2>3. hi \in lo .. k /\ k <= Request + 1
    BY <2>1, <2>2
  <2> QED
    BY <1>3, <1>4, <2>3
<1>6. PICK flags : flags = IF lo < hi /\ hi = Request + 1 THEN {"ack", "fin"} ELSE {"ack"}
  OBVIOUS
<1>7. UpOK(ClientSegment(c, lo, hi, flags, w))
  <2>1. "syn" \notin flags /\ ("fin" \in flags => lo < hi /\ hi = Request + 1)
    BY <1>6
  <2> QED
    BY <1>3, <1>4, <1>5, <2>1, ClientSegmentOK
<1>8. PICK me : me = [client[c] EXCEPT !.nxt = IF hi > @ THEN hi ELSE @]
  OBVIOUS
<1>9. ClientOK(me)
  <2>1. /\ DOMAIN me = ClientFields /\ me.una = client[c].una
        /\ me.nxt = IF hi > client[c].nxt THEN hi ELSE client[c].nxt
    BY <1>3, <1>8 DEF ClientOK, ClientFields
  <2>2. me.nxt \in Nat /\ me.una <= me.nxt /\ me.nxt <= Request + 1
    BY <1>3, <1>4, <1>5, <2>1
  <2> QED
    BY <1>4, <2>1, <2>2 DEF ClientOK
<1>10. client' = [client EXCEPT ![c] = me]
  BY <1>2, <1>8
<1>11. \A x \in up' : x \in up \/ UpOK(x)
  BY <1>2, <1>6, <1>7 DEF Put
<1>12. UNCHANGED <<server, slot, conns, down>>
  BY DEF ClientSend
<1> QED
  BY <1>9, <1>10, <1>11, <1>12, ClientStep

LEMMA ClientAbortStep == ASSUME TcpInductive, NEW c \in Clients, ClientAbort(c) PROVE TcpInductive'
<1>1. ClientOK(client[c]) /\ Request \in Nat
  BY ServerFacts DEF TcpInductive
<1>2. PICK n : n = client[c].nxt
  OBVIOUS
<1>3. n \in Nat /\ n <= Request + 1 /\ n <= n
  BY <1>1, <1>2 DEF ClientOK
<1>4. UpOK(ClientSegment(c, n, n, {"rst"}, 0))
  <2>1. "syn" \notin {"rst"} /\ "fin" \notin {"rst"} /\ 0 \in Nat
    OBVIOUS
  <2> QED
    BY <1>3, <2>1, ClientSegmentOK
<1>5. PICK me : me = [client[c] EXCEPT !.state = "gone"]
  OBVIOUS
<1>6. ClientOK(me) /\ client' = [client EXCEPT ![c] = me]
  <2>1. ClientOK(me)
    BY <1>1, <1>5 DEF ClientOK, ClientFields
  <2> QED
    BY <1>5, <2>1 DEF ClientAbort
<1>7. \A x \in up' : x \in up \/ UpOK(x)
  BY <1>2, <1>4 DEF ClientAbort, Put
<1>8. UNCHANGED <<server, slot, conns, down>>
  BY DEF ClientAbort
<1> QED
  BY <1>6, <1>7, <1>8, ClientStep

LEMMA ClientOpenStep == ASSUME TcpInductive, NEW m \in down, ClientOpen(m) PROVE TcpInductive'
<1>1. m.peer \in Clients
  BY DEF TcpInductive, DownOK
<1>2. ClientOK(client[m.peer])
  BY <1>1 DEF TcpInductive
<1>3. PICK me : me = [client[m.peer] EXCEPT !.state = "open", !.iss = m.seq]
  OBVIOUS
<1>4. ClientOK(me)
  BY <1>2, <1>3 DEF ClientOK, ClientFields
<1>5. client' = [client EXCEPT ![m.peer] = me]
  BY <1>1, <1>3 DEF ClientOpen, TcpInductive
<1>6. UNCHANGED <<server, slot, conns, up, down>>
  BY DEF ClientOpen
<1> QED
  BY <1>1, <1>4, <1>5, <1>6, ClientStep

LEMMA ClientReceiveStep == ASSUME TcpInductive, NEW m \in down, ClientReceive(m) PROVE TcpInductive'
<1>1. m.peer \in Clients /\ m.ack \in Int
  BY DEF TcpInductive, DownOK
<1>2. ClientOK(client[m.peer]) /\ 2 * (Request + 3) <= Modulus /\ Request \in Nat
  BY <1>1, ServerFacts DEF TcpInductive
<1>3. PICK got : got = Diff(m.ack, Plus(ClientIss, 1))
  OBVIOUS
<1>4. got \in Int
  <2>1. Plus(ClientIss, 1) \in Int /\ Modulus > 0
    <3>1. ClientIss \in Numbers /\ 1 \in Nat /\ 1 < Modulus
      BY <1>2 DEF Numbers
    <3> QED
      BY <3>1, PlusIs DEF Numbers
  <2> QED
    BY <1>1, <1>3, <2>1, DiffType
<1>5. PICK skip : skip = Diff(Plus(client[m.peer].iss, 1 + Len(client[m.peer].got)), m.seq)
  OBVIOUS
<1>6. PICK fresh : fresh = (~client[m.peer].fin /\ skip \in 0 .. Len(m.data))
  OBVIOUS
<1>7. PICK me : me = [client[m.peer] EXCEPT
              !.una = IF got > @ THEN got ELSE @,
              !.got = IF fresh THEN @ \o SubSeq(m.data, skip + 1, Len(m.data)) ELSE @,
              !.fin = @ \/ (fresh /\ "fin" \in m.flags)]
  OBVIOUS
<1>8. client' = [client EXCEPT ![m.peer] = me] /\ got <= client[m.peer].nxt
  BY <1>1, <1>3, <1>5, <1>6, <1>7 DEF ClientReceive, TcpInductive
<1>9. ClientOK(me)
  <2>1. /\ DOMAIN me = ClientFields /\ me.nxt = client[m.peer].nxt
        /\ me.una = IF got > client[m.peer].una THEN got ELSE client[m.peer].una
    BY <1>2, <1>7 DEF ClientOK, ClientFields
  <2> QED
    BY <1>2, <1>4, <1>8, <2>1 DEF ClientOK
<1>10. UNCHANGED <<server, slot, conns, up, down>>
  BY DEF ClientReceive
<1> QED
  BY <1>1, <1>8, <1>9, <1>10, ClientStep

LEMMA TcpInit == Init => TcpInductive
<1> SUFFICES ASSUME Init PROVE TcpInductive
  OBVIOUS
<1>1. server \in Servers /\ Request \in Nat
  BY ServerFacts DEF Init
<1>2. conns \in 0 .. Len(Iss)
  BY DEF Init
<1>3. DOMAIN slot = 1 .. Slots /\ \A s \in 1 .. Slots : SlotOK(slot[s], Used)
  BY <1>1, ListeningOK DEF Init
<1>4. DOMAIN client = Clients /\ \A c \in Clients : ClientOK(client[c])
  <2>1. ClientOK(NoClient)
    BY <1>1 DEF ClientOK, NoClient, ClientFields
  <2> QED
    BY <2>1 DEF Init
<1> QED
  BY <1>1, <1>2, <1>3, <1>4 DEF Init, TcpInductive

LEMMA TcpStep == TcpInductive /\ [Next]_vars => TcpInductive'
<1> SUFFICES ASSUME TcpInductive, [Next]_vars PROVE TcpInductive'
  OBVIOUS
<1>1. ASSUME UNCHANGED <<server, slot, conns, client>>, up' \subseteq up, down' \subseteq down
      PROVE  TcpInductive'
  <2>1. Used' = Used
    BY <1>1 DEF Used
  <2>2. /\ server \in Servers /\ conns \in 0 .. Len(Iss) /\ DOMAIN slot = 1 .. Slots
        /\ (\A s \in 1 .. Slots : SlotOK(slot[s], Used)) /\ (\A m \in down' : DownOK(m, Used))
        /\ DOMAIN client = Clients /\ (\A c \in Clients : ClientOK(client[c])) /\ (\A m \in up' : UpOK(m))
    BY <1>1 DEF TcpInductive
  <2> QED
    BY <1>1, <2>1, <2>2, SameServer DEF TcpInductive
<1>2. CASE UNCHANGED vars
  BY <1>1, <1>2 DEF vars
<1>3. CASE Lose
  BY <1>1, <1>3 DEF Lose
<1>4. CASE \E m \in up : Receive(m)
  BY <1>4, ReceiveStep
<1>5. CASE \E s \in 1 .. Slots : Poll(s) \/ Expire(s)
  BY <1>5, PollStep, ExpireStep
<1>6. CASE \E c \in Clients : Connect(c) \/ ClientSend(c) \/ ClientAbort(c)
  BY <1>6, ConnectStep, ClientSendStep, ClientAbortStep
<1>7. CASE \E m \in down : ClientOpen(m) \/ ClientReceive(m)
  BY <1>7, ClientOpenStep, ClientReceiveStep
<1> QED
  BY <1>2, <1>3, <1>4, <1>5, <1>6, <1>7 DEF Next

----------------------------------------------------------------------------
(* What a client reads *)

\* Numbers of one connection are never those of another.
LEMMA SameConnection ==
    ASSUME server \in Servers, conns \in 0 .. Len(Iss), NEW i \in Used, NEW j \in Used,
           NEW x \in 0 .. All + 2, NEW y \in 0 .. All + 2, Plus(i, x) = Plus(j, y)
    PROVE  i = j
<1>1. PICK a \in DOMAIN Iss, b \in DOMAIN Iss : i = Iss[a] /\ j = Iss[b]
  <2>1. DOMAIN Iss = 1 .. Len(Iss) /\ Len(Iss) \in Nat
    OBVIOUS
  <2>2. \A k \in 1 .. conns : k \in DOMAIN Iss
    BY <2>1
  <2> QED
    BY <2>2 DEF Used
<1>2. \A u, v \in 0 .. All + 2 : Iss[a] # Iss[b] => (Iss[a] + u) % Modulus # (Iss[b] + v) % Modulus
  BY NumbersApart DEF All, Streaming, Response, Request
<1> QED
  BY <1>1, <1>2 DEF Plus

LEMMA ReadInit == Init => ReadInductive
<1> SUFFICES ASSUME Init PROVE ReadInductive
  OBVIOUS
<1>1. All \in Nat
  BY ServerFacts DEF Init
<1>2. \A c : Bytes(c, 0, 0) = <<>>
  BY BytesNone
<1>3. PICK me : me = NoClient
  OBVIOUS
<1>4. me.got = <<>> /\ me.fin = FALSE /\ me.state = "idle" /\ Len(me.got) = 0
  BY <1>3 DEF NoClient
<1>5. \A c : HasRead(c, me, Used)
  <2>1. me.fin \in BOOLEAN /\ ~me.fin /\ me.state # "open"
    BY <1>4
  <2>2. Len(me.got) \in Nat /\ Len(me.got) <= All /\ \A c : me.got = Bytes(c, 0, Len(me.got))
    BY <1>1, <1>2, <1>4
  <2> QED
    BY <2>1, <2>2 DEF HasRead
<1> QED
  BY <1>3, <1>5 DEF Init, ReadInductive

\* One client changes, or none.
LEMMA ReadChange ==
    ASSUME TcpInductive, ReadInductive, UNCHANGED server, conns' \in Nat, conns <= conns',
           NEW c \in Clients, NEW me, HasRead(c, me, Used), client' = [client EXCEPT ![c] = me]
    PROVE  ReadInductive'
<1>1. Used \subseteq Used'
  <2>1. \A k \in 1 .. conns : k \in 1 .. conns'
    BY DEF TcpInductive
  <2> QED
    BY <2>1 DEF Used
<1>2. \A x \in Clients : HasRead(x, client'[x], Used)
  BY DEF TcpInductive, ReadInductive
<1>3. \A x \in Clients : HasRead(x, client'[x], Used')
  BY <1>1, <1>2, MoreUsed
<1> QED
  BY <1>3, SameServer DEF ReadInductive

LEMMA ReadReceive ==
    ASSUME TcpInductive, ReadInductive, NEW m \in down, ClientReceive(m)
    PROVE  ReadInductive'
<1>1. m.peer \in Clients /\ DownOK(m, Used) /\ server \in Servers /\ conns \in 0 .. Len(Iss)
  BY DEF TcpInductive, DownOK
<1>2. PICK old : old = client[m.peer]
  OBVIOUS
<1>3. ClientOK(old) /\ HasRead(m.peer, old, Used) /\ old.state = "open" /\ "syn" \notin m.flags
  BY <1>1, <1>2 DEF TcpInductive, ReadInductive, ClientReceive
<1>4. PICK got, skip : /\ got = Diff(m.ack, Plus(ClientIss, 1))
                       /\ skip = Diff(Plus(old.iss, 1 + Len(old.got)), m.seq)
  OBVIOUS
<1>5. PICK fresh \in BOOLEAN : fresh <=> (~old.fin /\ skip \in 0 .. Len(m.data))
  OBVIOUS
<1>6. PICK me : me = [old EXCEPT
              !.una = IF got > @ THEN got ELSE @,
              !.got = IF fresh THEN @ \o SubSeq(m.data, skip + 1, Len(m.data)) ELSE @,
              !.fin = @ \/ (fresh /\ "fin" \in m.flags)]
  OBVIOUS
<1>7. client' = [client EXCEPT ![m.peer] = me] /\ UNCHANGED <<server, conns>>
  <2>1. me = [client[m.peer] EXCEPT
              !.una = IF got > @ THEN got ELSE @,
              !.got = IF ~old.fin /\ skip \in 0 .. Len(m.data) THEN @ \o SubSeq(m.data, skip + 1, Len(m.data)) ELSE @,
              !.fin = @ \/ ((~old.fin /\ skip \in 0 .. Len(m.data)) /\ "fin" \in m.flags)]
    BY <1>2, <1>5, <1>6
  <2> QED
    BY <1>1, <1>2, <1>4, <2>1 DEF ClientReceive, TcpInductive
<1>8. /\ me.state = old.state /\ me.iss = old.iss
      /\ me.got = (IF fresh THEN old.got \o SubSeq(m.data, skip + 1, Len(m.data)) ELSE old.got)
      /\ me.fin = (old.fin \/ (fresh /\ "fin" \in m.flags))
  BY <1>3, <1>6 DEF ClientOK, ClientFields
<1>10. CASE fresh
  <2>1. PICK n : n = Len(old.got)
    OBVIOUS
  <2>2. /\ n \in Nat /\ n <= All /\ old.got = Bytes(m.peer, 0, n) /\ old.iss \in Used
        /\ old.fin = FALSE /\ All \in Nat /\ 2 * (All + 3) <= Modulus
    BY <1>1, <1>3, <1>5, <1>10, <2>1, ServerFacts DEF HasRead
  <2>3. PICK iss \in Used, lo \in 0 .. All + 1, hi \in 0 .. All + 1 :
           Piece(m.peer, m.seq, m.data, "fin" \in m.flags, iss, All, lo, hi)
    BY <1>1, <1>3 DEF DownOK, Part
  <2>4. /\ lo \in Nat /\ hi \in Nat /\ lo <= All + 1 /\ hi <= All + 1 /\ lo <= hi /\ (hi <= All \/ lo = hi)
        /\ m.seq = Plus(iss, 1 + lo) /\ m.data = Bytes(m.peer, lo, hi) /\ ("fin" \in m.flags => hi = All)
    BY <2>2, <2>3 DEF Piece
  <2>5. old.iss \in Numbers /\ iss \in Numbers
    BY <1>1, <2>2, UsedFacts
  <2>6. Len(m.data) = hi - lo
    <3>1. Len(Bytes(m.peer, lo, hi)) = hi - lo
      BY <2>4, BytesLen
    <3> QED
      BY <2>4, <3>1
  <2>7. skip \in Nat /\ skip <= hi - lo
    BY <1>5, <1>10, <2>4, <2>6
  <2>8. old.iss = iss
    <3>1. PICK u, v : u = Plus(old.iss, 1 + n) /\ v = Plus(iss, 1 + lo)
      OBVIOUS
    <3>2. 1 + n \in Nat /\ 1 + lo \in Nat /\ 1 + n < Modulus /\ 1 + lo < Modulus
      BY <2>2, <2>4
    <3>3. u \in Numbers /\ v \in Numbers
      BY <2>5, <3>1, <3>2, PlusIs
    <3>4. skip = Diff(u, v)
      BY <1>4, <2>1, <2>4, <3>1
    <3>5. u = Plus(v, skip)
      BY <2>7, <3>3, <3>4, DiffMeets
    <3>6. Plus(Plus(iss, 1 + lo), skip) = Plus(iss, (1 + lo) + skip)
      <4>1. (1 + lo) + skip < Modulus
        BY <2>2, <2>4, <2>7
      <4> QED
        BY <2>5, <2>7, <3>2, <4>1, PlusTwice
    <3>7. 1 + n \in 0 .. All + 2 /\ (1 + lo) + skip \in 0 .. All + 2
      BY <2>2, <2>4, <2>7
    <3>8. Plus(old.iss, 1 + n) = Plus(iss, (1 + lo) + skip)
      BY <3>1, <3>5, <3>6
    <3> QED
      BY <1>1, <2>2, <2>3, <3>7, <3>8, SameConnection
  <2>9. skip = n - lo
    <3>1. 1 + n \in Nat /\ 1 + lo \in Nat /\ 2 * (1 + n) < Modulus /\ 2 * (1 + lo) < Modulus
      BY <2>2, <2>4
    <3>2. Diff(Plus(iss, 1 + n), Plus(iss, 1 + lo)) = (1 + n) - (1 + lo)
      BY <2>5, <3>1, DiffIs
    <3>3. skip = (1 + n) - (1 + lo)
      BY <1>4, <2>1, <2>4, <2>8, <3>2
    <3> QED
      BY <2>2, <2>4, <3>3
  <2>10. n <= lo + skip /\ lo + skip <= n /\ n <= hi /\ hi <= All
    BY <2>2, <2>4, <2>7, <2>9
  <2>11. SubSeq(m.data, skip + 1, Len(m.data)) = Bytes(m.peer, n, hi)
    <3>1. lo \in Nat /\ hi \in Nat /\ skip \in Nat /\ n \in Nat
      BY <2>2, <2>4, <2>7
    <3>2. Drop(Bytes(m.peer, lo, hi), skip) = Bytes(m.peer, n, hi)
      BY <2>10, <3>1, BytesBack
    <3> QED
      BY <2>4, <3>2 DEF Drop
  <2>12. me.got = Bytes(m.peer, 0, hi)
    <3>1. Bytes(m.peer, 0, n) \o Bytes(m.peer, n, hi) = Bytes(m.peer, 0, hi)
      BY <2>2, <2>4, <2>10, BytesMore
    <3> QED
      BY <1>8, <1>10, <2>2, <2>11, <3>1
  <2>13. Len(me.got) = hi
    BY <2>4, <2>12, BytesLenFrom0
  <2>14. me.fin \in BOOLEAN /\ (me.fin => hi = All)
    BY <1>8, <1>10, <2>2, <2>4
  <2>15. HasRead(m.peer, me, Used)
    BY <1>8, <2>2, <2>4, <2>10, <2>12, <2>13, <2>14 DEF HasRead
  <2>16. conns' \in Nat /\ conns <= conns'
    BY <1>1, <1>7
  <2> QED
    BY <1>1, <1>7, <2>15, <2>16, ReadChange
<1>11. ASSUME ~fresh PROVE ReadInductive'
  <2>1. HasRead(m.peer, me, Used)
    BY <1>3, <1>8, <1>11 DEF HasRead
  <2>2. conns' \in Nat /\ conns <= conns'
    BY <1>1, <1>7
  <2> QED
    BY <1>1, <1>7, <2>1, <2>2, ReadChange
<1> QED
  BY <1>10, <1>11

LEMMA ReadStep == TcpInductive /\ ReadInductive /\ [Next]_vars => ReadInductive'
<1> SUFFICES ASSUME TcpInductive, ReadInductive, [Next]_vars PROVE ReadInductive'
  OBVIOUS
<1>1. ASSUME UNCHANGED <<server, client>>, conns' \in Nat, conns <= conns' PROVE ReadInductive'
  <2>1. Used \subseteq Used'
    <3>1. \A k \in 1 .. conns : k \in 1 .. conns'
      BY <1>1 DEF TcpInductive
    <3> QED
      BY <3>1 DEF Used
  <2>2. \A c \in Clients : HasRead(c, client[c], Used')
    BY <2>1, MoreUsed DEF ReadInductive
  <2> QED
    BY <1>1, <2>2, SameServer DEF ReadInductive
<1>2. conns \in Nat /\ conns <= conns
  BY DEF TcpInductive
<1>3. CASE UNCHANGED vars \/ Lose \/ \E s \in 1 .. Slots : Poll(s) \/ Expire(s)
  <2>1. UNCHANGED <<server, client, conns>>
    BY <1>3 DEF vars, Lose, Poll, Expire
  <2> QED
    BY <1>1, <1>2, <2>1
<1>4. CASE \E m \in up : Receive(m)
  <2>1. UNCHANGED <<server, client>> /\ conns' \in {conns, conns + 1}
    BY <1>4 DEF Receive
  <2>2. conns' \in Nat /\ conns <= conns'
    BY <1>2, <2>1
  <2> QED
    BY <1>1, <2>1, <2>2
<1>5. ASSUME NEW c \in Clients, Connect(c) \/ ClientSend(c) \/ ClientAbort(c) PROVE ReadInductive'
  <2>1. UNCHANGED <<server, conns>>
    BY <1>5 DEF Connect, ClientSend, ClientAbort
  <2>2. ClientOK(client[c]) /\ HasRead(c, client[c], Used)
    BY DEF TcpInductive, ReadInductive
  <2>3. PICK old : old = client[c]
    OBVIOUS
  <2>4. \E me : /\ client' = [client EXCEPT ![c] = me] /\ me.got = old.got /\ me.fin = old.fin
                /\ (me.state = "open" => old.state = "open" /\ me.iss = old.iss)
    <3>1. CASE Connect(c)
      <4>1. PICK me : me = [old EXCEPT !.state = "syn"]
        OBVIOUS
      <4>2. client' = [client EXCEPT ![c] = me]
        BY <2>3, <3>1, <4>1 DEF Connect
      <4>3. me.got = old.got /\ me.fin = old.fin /\ me.state # "open"
        BY <2>2, <2>3, <4>1 DEF ClientOK, ClientFields
      <4> QED
        BY <4>2, <4>3
    <3>2. CASE ClientSend(c)
      <4>1. PICK hi : client' = [client EXCEPT ![c].nxt = IF hi > @ THEN hi ELSE @]
        BY <3>2 DEF ClientSend
      <4>2. PICK me : me = [old EXCEPT !.nxt = IF hi > @ THEN hi ELSE @]
        OBVIOUS
      <4>3. client' = [client EXCEPT ![c] = me]
        BY <2>3, <4>1, <4>2
      <4>4. me.got = old.got /\ me.fin = old.fin /\ me.state = old.state /\ me.iss = old.iss
        BY <2>2, <2>3, <4>2 DEF ClientOK, ClientFields
      <4> QED
        BY <4>3, <4>4
    <3>3. CASE ClientAbort(c)
      <4>1. PICK me : me = [old EXCEPT !.state = "gone"]
        OBVIOUS
      <4>2. client' = [client EXCEPT ![c] = me]
        BY <2>3, <3>3, <4>1 DEF ClientAbort
      <4>3. me.got = old.got /\ me.fin = old.fin /\ me.state # "open"
        BY <2>2, <2>3, <4>1 DEF ClientOK, ClientFields
      <4> QED
        BY <4>2, <4>3
    <3> QED
      BY <1>5, <3>1, <3>2, <3>3
  <2>5. PICK me : /\ client' = [client EXCEPT ![c] = me] /\ me.got = old.got /\ me.fin = old.fin
                  /\ (me.state = "open" => old.state = "open" /\ me.iss = old.iss)
    BY <2>4
  <2>6. HasRead(c, me, Used)
    BY <2>2, <2>3, <2>5 DEF HasRead
  <2> QED
    BY <1>2, <2>1, <2>5, <2>6, ReadChange
<1>6. ASSUME NEW m \in down, ClientOpen(m) PROVE ReadInductive'
  <2>1. m.peer \in Clients /\ DownOK(m, Used)
    BY DEF TcpInductive, DownOK
  <2>2. UNCHANGED <<server, conns>> /\ "syn" \in m.flags
    BY <1>6 DEF ClientOpen
  <2>3. m.seq \in Used
    BY <2>1, <2>2 DEF DownOK
  <2>4. PICK me : me = [client[m.peer] EXCEPT !.state = "open", !.iss = m.seq]
    OBVIOUS
  <2>5. client' = [client EXCEPT ![m.peer] = me]
    BY <1>6, <2>1, <2>4 DEF ClientOpen, TcpInductive
  <2>6. ClientOK(client[m.peer]) /\ HasRead(m.peer, client[m.peer], Used)
    BY <2>1 DEF TcpInductive, ReadInductive
  <2>7. me.got = client[m.peer].got /\ me.fin = client[m.peer].fin /\ me.iss = m.seq
    BY <2>4, <2>6 DEF ClientOK, ClientFields
  <2>8. HasRead(m.peer, me, Used)
    BY <2>3, <2>6, <2>7 DEF HasRead
  <2> QED
    BY <1>2, <2>1, <2>2, <2>5, <2>8, ReadChange
<1>7. CASE \E m \in down : ClientReceive(m)
  BY <1>7, ReadReceive
<1> QED
  BY <1>3, <1>4, <1>5, <1>6, <1>7 DEF Next

----------------------------------------------------------------------------
\* Whatever is lost, repeated or overtaken, and however often a slot is taken
\* over, its request buffer holds the beginning of what its present client
\* sent: for any number of slots and clients, streams, windows and segment
\* sizes, also when the sequence numbers wrap.
THEOREM RequestBufferIntact == Spec => []RequestsIntact
<1>1. TcpInductive => RequestsIntact
  BY DEF TcpInductive, SlotOK, Reading, RequestsIntact
<1> QED
  BY <1>1, TcpInit, TcpStep, PTL DEF Spec

\* A client reads the bytes meant for it once, in order and without a gap, and
\* the end only after the last of them, although every segment may be lost,
\* come again or be overtaken, old connections' segments included.
THEOREM StreamDelivered == Spec => []DeliveredInOrder
<1>1. TcpInductive /\ ReadInductive => DeliveredInOrder
  BY DEF TcpInductive, ReadInductive, HasRead, DeliveredInOrder, All
<1> QED
  BY <1>1, TcpInit, TcpStep, ReadInit, ReadStep, PTL DEF Spec
=============================================================================
