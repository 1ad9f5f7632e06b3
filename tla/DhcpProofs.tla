----------------------------- MODULE DhcpProofs -----------------------------
(***************************************************************************)
(* How long the DHCP client uses an address, proved for every link: any    *)
(* lease times, pacing, losses, repetitions, conflicts and bounds.         *)
(*                                                                         *)
(* The client counts a lease from its last REQUEST, the server from the    *)
(* ACK it sends.  The argument keeps, for every message under way and for  *)
(* the lease in use, how far these two moments can lie apart.              *)
(***************************************************************************)
EXTENDS Dhcp, TLAPS

USE DhcpAssumption

\* How far leaseStart may lie behind the server's own count: an answer to an
\* earlier REQUEST may have been under way when the client asked again.
Slack == IF Overlap THEN Delay ELSE 0

\* The server has granted the address for s ticks from t on.
Covers(t, s) == IF s = Infinite THEN MaxTime < expiry ELSE t + s <= expiry

\* Every ACK arrives before the lease it carries has run out.
LongEnough == \A s \in Secs : s > 2 * Delay

Holding == state \in InUse \cup {"probing"}

Clocks ==
    /\ link \in Links
    /\ {now, lastClock, requestStart, leaseStart, expiry} \subseteq Nat
    /\ lastClock <= now /\ requestStart <= now /\ now <= MaxTime

Letters == \A m \in net : m.at \in Nat /\ m.at <= now /\ now <= m.at + Delay

Requests ==
    \A m \in net : m.kind = "request" =>
        m.at <= requestStart /\ (~Overlap => requestStart <= m.at)

Acks ==
    \A m \in net : m.kind = "ack" =>
        /\ m.lease.secs \in Secs
        /\ m.at <= requestStart + Delay
        /\ ~Overlap => requestStart <= m.at
        /\ Covers(m.at, m.lease.secs)

Leased == Holding => lease.secs \in Secs /\ Covers(leaseStart - Slack, lease.secs)

\* A client that has looked at the clock gave an expired address up.
Checked == LongEnough /\ Ready /\ lastClock = now => ~Expired

LeaseInductive == Clocks /\ Letters /\ Requests /\ Acks /\ Leased /\ Checked

-----------------------------------------------------------------------------
LEMMA LinkType ==
    ASSUME link \in Links
    PROVE  /\ (\A s \in Secs : s \in Nat /\ s # 0) /\ MaxTime \in Nat /\ Overlap \in BOOLEAN
           /\ Slack \in Nat /\ Slack <= Delay /\ Delay \in Nat /\ Infinite \in Nat
           /\ ~Overlap => Slack = 0
<1>1. link \in Link /\ Delay \in Nat /\ Infinite \in Nat
  OBVIOUS
<1>2. (\A s \in Secs : s \in Nat /\ s # 0) /\ MaxTime \in Nat /\ Overlap \in BOOLEAN
  BY <1>1 DEF Link, Secs, MaxTime, Overlap
<1> QED
  BY <1>1, <1>2 DEF Slack

LEMMA LeaseInit == Init => LeaseInductive
<1> SUFFICES ASSUME Init PROVE LeaseInductive
  OBVIOUS
<1>1. link \in Links /\ MaxTime \in Nat
  BY LinkType DEF Init
<1>2. Clocks /\ Letters /\ Requests /\ Acks
  BY <1>1 DEF Init, Clocks, Letters, Requests, Acks
<1>3. Leased /\ Checked
  BY DEF Init, Leased, Checked, Holding, Ready, InUse
<1> QED
  BY <1>2, <1>3 DEF LeaseInductive

\* A grant stays what it was while the server only grants more.
LEMMA CoversGrows ==
    ASSUME NEW t \in Int, NEW s \in Nat, MaxTime \in Int, expiry \in Nat, expiry' \in Nat,
           expiry <= expiry', UNCHANGED link, Covers(t, s)
    PROVE  Covers(t, s)'
  BY DEF Covers, MaxTime

\* The client has the processor and sends at most one message: nothing it
\* holds changes but its state, and a REQUEST sets requestStart.
LEMMA ClientKeeps ==
    ASSUME LeaseInductive, UNCHANGED <<link, now, expiry>>, lastClock' \in {lastClock, now},
           requestStart' \in {requestStart, now},
           \A m \in net' : \/ m \in net
                           \/ m.at = now /\ m.kind \notin {"request", "ack"}
                           \/ m.at = now /\ m.kind = "request" /\ requestStart' = now,
           ~Overlap /\ requestStart' # requestStart =>
               \A m \in net' : m.kind # "ack" /\ (m.kind = "request" => m.at = now),
           UNCHANGED leaseStart,
           Holding' => Holding /\ UNCHANGED lease,
           Ready' => ~Expired
    PROVE  LeaseInductive'
<1> USE DEF LeaseInductive
<1>0. link \in Links
  BY DEF Clocks
<1>1. /\ now \in Nat /\ requestStart \in Nat /\ leaseStart \in Nat /\ Delay \in Nat
      /\ requestStart <= now /\ lastClock \in Nat
      /\ Overlap' = Overlap /\ MaxTime' = MaxTime /\ Secs' = Secs /\ Slack' = Slack
      /\ LongEnough' = LongEnough
  BY <1>0, LinkType DEF Clocks, Overlap, MaxTime, Secs, Slack, LongEnough
<1>2. Clocks'
  BY <1>1 DEF Clocks
<1>3. Letters'
  BY <1>1 DEF Letters
<1>4. Requests'
  BY <1>1 DEF Requests, Letters
<1>5. Acks'
  <2> SUFFICES ASSUME NEW m \in net', m.kind = "ack"
               PROVE  /\ m.lease.secs \in Secs
                      /\ m.at <= requestStart' + Delay
                      /\ ~Overlap => requestStart' <= m.at
                      /\ Covers(m.at, m.lease.secs)'
    BY <1>1 DEF Acks
  <2>1. m \in net
    OBVIOUS
  <2>2. /\ m.lease.secs \in Secs /\ m.at \in Nat
        /\ m.at <= requestStart + Delay /\ (~Overlap => requestStart <= m.at)
        /\ Covers(m.at, m.lease.secs)
    BY <2>1 DEF Acks, Letters
  <2>3. Covers(m.at, m.lease.secs)'
    BY <2>2, <1>1 DEF Covers
  <2> QED
    BY <1>1, <2>1, <2>2, <2>3
<1>6. Leased'
  BY <1>1 DEF Leased, Covers
<1>7. Checked'
  BY <1>1 DEF Checked, Expired, Ready, Holding, InUse
<1> QED
  BY <1>2, <1>3, <1>4, <1>5, <1>6, <1>7

\* Send, as ClientKeeps needs it.
LEMMA Sends ==
    ASSUME NEW msgs \in SUBSET net, NEW kind, NEW x, kind # "ack", Send(msgs, kind, x),
           IF kind = "request" THEN requestStart' = now ELSE UNCHANGED requestStart
    PROVE  /\ \A m \in net' : \/ m \in net
                              \/ m.at = now /\ m.kind \notin {"request", "ack"}
                              \/ m.at = now /\ m.kind = "request" /\ requestStart' = now
           /\ ~Overlap /\ requestStart' # requestStart =>
               \A m \in net' : m.kind # "ack" /\ (m.kind = "request" => m.at = now)
  BY DEF Send, Message

LEMMA PollKeeps == LeaseInductive /\ Poll => LeaseInductive'
<1> SUFFICES ASSUME LeaseInductive, Poll PROVE LeaseInductive'
  OBVIOUS
<1> DEFINE Sent ==
      /\ \A m \in net' : \/ m \in net
                         \/ m.at = now /\ m.kind \notin {"request", "ack"}
                         \/ m.at = now /\ m.kind = "request" /\ requestStart' = now
      /\ ~Overlap /\ requestStart' # requestStart =>
            \A m \in net' : m.kind # "ack" /\ (m.kind = "request" => m.at = now)
<1>1. UNCHANGED <<link, now, expiry>> /\ lastClock' \in {lastClock, now}
  BY DEF Poll, world
<1>2. ASSUME Begin, UNCHANGED net PROVE LeaseInductive'
  BY <1>1, <1>2, ClientKeeps DEF Begin, Holding, Ready, InUse
<1>3. ASSUME UNCHANGED <<client, net>>, state = "off" \/ ~Expired PROVE LeaseInductive'
  BY <1>1, <1>3, ClientKeeps DEF client, Holding, Ready, InUse
<1>4. ASSUME NEW s, NEW x, NEW route, Renew(s, x, route), ~Expired, Ready PROVE LeaseInductive'
  <2>1. /\ state' = s /\ s \in InUse /\ UNCHANGED <<lease, leaseStart>>
        /\ \/ Send(net, "arp", x) /\ UNCHANGED requestStart
           \/ Send(net, "request", x) /\ requestStart' = now
           \/ UNCHANGED <<net, requestStart>>
    BY <1>4 DEF Renew, InUse
  <2>2. Sent /\ requestStart' \in {requestStart, now}
    <3>1. ASSUME UNCHANGED <<net, requestStart>> PROVE Sent
      BY <3>1
    <3> QED
      BY <2>1, <3>1, Sends
  <2> QED
    BY <1>1, <1>4, <2>1, <2>2, ClientKeeps DEF Holding, Ready
<1>5. Due # state => Ready
  BY DEF Due
<1>6. ASSUME ~Expired, Select \/ Request PROVE LeaseInductive'
  <2>1. /\ UNCHANGED <<state, lease, leaseStart>>
        /\ \/ Send(net, "discover", xid) /\ UNCHANGED requestStart
           \/ Send(net, "request", xid) /\ requestStart' = now
    BY <1>6 DEF Select, Request
  <2>2. Sent /\ requestStart' \in {requestStart, now}
    BY <2>1, Sends
  <2> QED
    BY <1>1, <1>6, <2>1, <2>2, ClientKeeps DEF Holding, Ready
<1>7. ASSUME ~Expired, Probe \/ Announce PROVE LeaseInductive'
  <2>1. /\ Holding /\ UNCHANGED <<lease, leaseStart, requestStart, net>>
    BY <1>7 DEF Probe, Announce, Holding, InUse
  <2> QED
    BY <1>1, <1>7, <2>1, ClientKeeps
<1>8. ASSUME ~Expired, Renew(state, xid, routeReady) PROVE LeaseInductive'
  <2>1. Ready
    BY <1>8 DEF Renew, Ready, InUse
  <2> QED
    BY <1>4, <1>8, <2>1
<1> QED
  BY <1>2, <1>3, <1>4, <1>5, <1>6, <1>7, <1>8 DEF Poll, GiveUp

LEMMA ReceiveShrinks == \A m : Receive(m) => net' \subseteq net
  BY DEF Receive, Left

\* Handle, for a frame that carries no new lease.
LEMMA HandleKeeps ==
    ASSUME LeaseInductive, NEW m,
           \/ HandleExpired \/ HandleConflict
           \/ HandleOffer(m) \/ HandleNak(m) \/ HandleRoute(m) \/ HandleOther(m)
    PROVE  LeaseInductive'
<1>1. UNCHANGED <<link, now, expiry>> /\ lastClock' = now
  BY DEF HandleExpired, HandleConflict, HandleOffer, HandleNak, HandleRoute, HandleOther, world
<1>2. ASSUME ~Holding', UNCHANGED <<leaseStart, requestStart>>, net' \subseteq net PROVE LeaseInductive'
  BY <1>1, <1>2, ClientKeeps DEF Holding, Ready
<1>3. CASE HandleExpired
  BY <1>2, <1>3, ReceiveShrinks DEF HandleExpired, Begin, Holding, InUse
<1>4. CASE HandleConflict
  BY <1>2, <1>4 DEF HandleConflict, ToBackoff, Holding, InUse
<1>5. CASE HandleNak(m)
  BY <1>2, <1>5, ReceiveShrinks DEF HandleNak, ToBackoff, Holding, InUse
<1>6. CASE HandleOther(m)
  <2>1. ~Expired /\ UNCHANGED <<state, lease, leaseStart, requestStart>> /\ net' \subseteq net
    BY <1>6 DEF HandleOther, client
  <2> QED
    BY <1>1, <2>1, ClientKeeps DEF Holding
<1>7. CASE HandleOffer(m)
  <2>1. PICK msgs \in Left(m) : Send(msgs, "request", xid)
    BY <1>7 DEF HandleOffer
  <2>2. msgs \in SUBSET net
    BY DEF Left
  <2>3. /\ state' = "requesting" /\ requestStart' = now /\ UNCHANGED leaseStart
    BY <1>7 DEF HandleOffer
  <2> QED
    BY <1>1, <2>1, <2>2, <2>3, Sends, ClientKeeps DEF Holding, Ready, InUse
<1>8. CASE HandleRoute(m)
  <2>1. PICK msgs \in Left(m) : Send(msgs, "request", xid)
    BY <1>8 DEF HandleRoute
  <2>2. msgs \in SUBSET net
    BY DEF Left
  <2>3. /\ state = "renewing" /\ ~Expired /\ requestStart' = now /\ UNCHANGED <<lease, leaseStart>>
    BY <1>8 DEF HandleRoute
  <2> QED
    BY <1>1, <2>1, <2>2, <2>3, Sends, ClientKeeps DEF Holding, InUse
<1> QED
  BY <1>3, <1>4, <1>5, <1>6, <1>7, <1>8

\* An ACK: the lease counts from the last REQUEST, which lies at most Slack
\* behind the ACK and, the ACK and the REQUEST it answers having taken at most
\* Delay each, at most twice that behind the present.
LEMMA AckKeeps ==
    ASSUME LeaseInductive, NEW m \in net, HandleAck(m)
    PROVE  LeaseInductive'
<1> USE DEF LeaseInductive
<1>1. /\ UNCHANGED <<link, now, expiry, requestStart>> /\ lastClock' = now /\ m.kind = "ack"
      /\ lease' = m.lease /\ leaseStart' = requestStart /\ net' \subseteq net
  BY ReceiveShrinks DEF HandleAck, StartedOn, world, Current
<1>2. /\ now \in Nat /\ requestStart \in Nat /\ Delay \in Nat /\ requestStart <= now /\ Infinite \in Nat
      /\ Slack \in Nat /\ Slack <= Delay /\ (~Overlap => Slack = 0) /\ Overlap \in BOOLEAN
      /\ (\A s \in Secs : s \in Nat) /\ MaxTime \in Nat /\ expiry \in Nat /\ (Overlap => Slack = Delay)
  BY LinkType DEF Clocks, Slack
<1>3. /\ Overlap' = Overlap /\ MaxTime' = MaxTime /\ Secs' = Secs /\ Slack' = Slack
      /\ LongEnough' = LongEnough
  BY <1>1 DEF Overlap, MaxTime, Secs, Slack, LongEnough
<1>4. /\ m.lease.secs \in Secs /\ m.at \in Nat /\ m.at <= now /\ now <= m.at + Delay
      /\ m.at <= requestStart + Delay /\ (~Overlap => requestStart <= m.at)
      /\ Covers(m.at, m.lease.secs)
  BY <1>1 DEF Acks, Letters
<1>5. Clocks' /\ Letters' /\ Requests'
  BY <1>1, <1>2, <1>3 DEF Clocks, Letters, Requests
<1>6. Acks'
  BY <1>1, <1>3 DEF Acks, Covers
<1>7. Leased'
  <2>1. requestStart - Slack <= m.at /\ requestStart - Slack \in Int /\ m.lease.secs \in Nat
    BY <1>2, <1>4
  <2>2. Covers(requestStart - Slack, m.lease.secs)
    BY <1>2, <1>4, <2>1 DEF Covers
  <2> QED
    BY <1>1, <1>3, <1>4, <2>2 DEF Leased, Covers
<1>8. Checked'
  <2>1. now - requestStart <= 2 * Delay /\ m.lease.secs \in Nat
    BY <1>2, <1>4
  <2>2. ASSUME LongEnough PROVE ~(now - requestStart >= m.lease.secs)
    <3>1. m.lease.secs > 2 * Delay
      BY <1>4, <2>2 DEF LongEnough
    <3> QED
      BY <1>2, <2>1, <3>1
  <2> QED
    BY <1>1, <1>3, <2>2 DEF Checked, Expired
<1> QED
  BY <1>5, <1>6, <1>7, <1>8

LEMMA GrantKeeps ==
    ASSUME LeaseInductive, NEW m \in net, Grant(m)
    PROVE  LeaseInductive'
<1> USE DEF LeaseInductive
<1>1. PICK secs \in Secs, t1 \in RenewTimes, t2 \in RebindTimes :
          /\ Answer(m, [Message("ack", m.xid) EXCEPT !.lease = Terms(secs, t1, t2)])
          /\ expiry' = Max2(expiry, IF secs = Infinite THEN MaxTime + 1 ELSE now + secs)
  BY DEF Grant
<1> DEFINE a == [Message("ack", m.xid) EXCEPT !.lease = Terms(secs, t1, t2)]
<1>2. a.kind = "ack" /\ a.at = now /\ a.lease.secs = secs /\ net' = (net \ {m}) \cup {a}
  BY <1>1 DEF Message, Terms, Answer
<1> HIDE DEF a
<1>3. /\ now \in Nat /\ requestStart \in Nat /\ Delay \in Nat /\ requestStart <= now /\ Infinite \in Nat
      /\ (\A s \in Secs : s \in Nat /\ s # 0) /\ MaxTime \in Nat /\ expiry \in Nat /\ now <= MaxTime
      /\ leaseStart \in Nat /\ Slack \in Nat
  BY LinkType DEF Clocks
<1>4. /\ UNCHANGED <<link, now, lastClock, state, lease, requestStart, leaseStart>> /\ m.kind = "request"
      /\ Overlap' = Overlap /\ MaxTime' = MaxTime /\ Secs' = Secs /\ Slack' = Slack
      /\ LongEnough' = LongEnough
  BY DEF Grant, client, Overlap, MaxTime, Secs, Slack, LongEnough
<1>5. expiry' \in Nat /\ expiry <= expiry' /\ Covers(now, secs)'
  BY <1>1, <1>3, <1>4 DEF Max2, Covers
<1>6. Clocks'
  BY <1>3, <1>4, <1>5 DEF Clocks
<1>7. Letters' /\ Requests'
  BY <1>2, <1>3, <1>4 DEF Letters, Requests
<1>8. Acks'
  <2>1. ASSUME NEW x \in net, x.kind = "ack" PROVE Covers(x.at, x.lease.secs)'
    BY <1>3, <1>4, <1>5, <2>1, CoversGrows DEF Acks, Letters
  <2>2. now <= requestStart + Delay /\ (~Overlap => requestStart <= now)
    BY <1>3, <1>4 DEF Requests, Letters
  <2>3. ASSUME NEW x \in net', x.kind = "ack"
        PROVE  /\ x.lease.secs \in Secs /\ x.at <= requestStart + Delay
               /\ ~Overlap => requestStart <= x.at
               /\ Covers(x.at, x.lease.secs)'
    <3>1. CASE x = a
      <4>1. x.at = now /\ x.lease.secs = secs
        BY <1>2, <3>1
      <4>2. Covers(x.at, x.lease.secs)'
        BY <1>4, <1>5, <4>1 DEF Covers
      <4> QED
        BY <2>2, <4>1, <4>2
    <3>2. CASE x \in net
      BY <2>1, <2>3, <3>2 DEF Acks
    <3> QED
      BY <1>2, <3>1, <3>2
  <2> QED
    BY <1>4, <2>3 DEF Acks
<1>9. Leased'
  <2>1. ASSUME Holding PROVE Covers(leaseStart - Slack, lease.secs)'
    <3>1. /\ leaseStart - Slack \in Int /\ lease.secs \in Nat /\ MaxTime \in Int
          /\ Covers(leaseStart - Slack, lease.secs)
      BY <1>3, <2>1 DEF Leased
    <3> QED
      BY <1>3, <1>4, <1>5, <3>1 DEF Covers
  <2> QED
    BY <1>4, <2>1 DEF Leased, Holding, Covers
<1>10. Checked'
  BY <1>4 DEF Checked, Ready, Expired
<1> QED
  BY <1>6, <1>7, <1>8, <1>9, <1>10

\* The other answers, and the passing of time.
LEMMA ServerKeeps ==
    ASSUME LeaseInductive, (\E m \in net : Offer(m) \/ Refuse(m) \/ ArpReply(m)) \/ Start \/ Stop
    PROVE  LeaseInductive'
<1>1. ASSUME NEW m \in net, Offer(m) \/ Refuse(m) \/ ArpReply(m) PROVE LeaseInductive'
  <2>1. /\ UNCHANGED <<link, now, expiry, lastClock, state, lease, leaseStart, requestStart>>
        /\ \A x \in net' : x \in net \/ (x.at = now /\ x.kind \notin {"request", "ack"})
    BY <1>1 DEF Offer, Refuse, ArpReply, Answer, Message, client, world
  <2>2. UNCHANGED <<Secs, Overlap, MaxTime, Slack, LongEnough, Holding, Ready, Expired>>
    BY <2>1 DEF Secs, Overlap, MaxTime, Slack, LongEnough, Holding, Ready, Expired
  <2> USE DEF LeaseInductive
  <2>3. Clocks' /\ Letters' /\ Requests' /\ Leased' /\ Checked'
    BY <2>1, <2>2 DEF Clocks, Letters, Requests, Leased, Covers, Checked
  <2>4. Acks'
    BY <2>1, <2>2 DEF Acks, Covers
  <2> QED
    BY <2>3, <2>4
<1>2. CASE Start \/ Stop
  <2>1. /\ UNCHANGED <<link, now, expiry, lastClock, leaseStart, requestStart, net>>
        /\ state' \in {"selecting", "off"}
    BY <1>2 DEF Start, Stop, Begin, world
  <2> QED
    BY <2>1, ClientKeeps DEF Holding, Ready, InUse
<1> QED
  BY <1>1, <1>2

LEMMA TickKeeps == LeaseInductive /\ Tick => LeaseInductive'
<1> SUFFICES ASSUME LeaseInductive, Tick PROVE LeaseInductive'
  OBVIOUS
<1> USE DEF LeaseInductive
<1>1. /\ now' = now + 1 /\ now < MaxTime /\ net' = {m \in net : now' - m.at <= Delay}
      /\ UNCHANGED <<link, expiry, lastClock, state, lease, leaseStart, requestStart>>
  BY DEF Tick, client
<1>2. UNCHANGED <<Secs, Overlap, MaxTime, Slack, LongEnough, Holding, Ready>>
  BY <1>1 DEF Secs, Overlap, MaxTime, Slack, LongEnough, Holding, Ready
<1>3. now \in Nat /\ MaxTime \in Nat /\ lastClock \in Nat /\ Delay \in Nat /\ lastClock <= now
      /\ requestStart \in Nat /\ requestStart <= now
  BY LinkType DEF Clocks
<1>4. Clocks'
  BY <1>1, <1>2, <1>3 DEF Clocks
<1>5. Letters'
  BY <1>1, <1>3 DEF Letters
<1>6. Requests' /\ Acks'
  BY <1>1, <1>2, <1>3 DEF Requests, Acks, Covers
<1>7. Leased'
  BY <1>1, <1>2 DEF Leased, Covers
<1>8. Checked'
  BY <1>1, <1>3 DEF Checked
<1> QED
  BY <1>4, <1>5, <1>6, <1>7, <1>8

LEMMA LeaseStep == LeaseInductive /\ [Next]_vars => LeaseInductive'
<1> SUFFICES ASSUME LeaseInductive, [Next]_vars PROVE LeaseInductive'
  OBVIOUS
<1>1. CASE UNCHANGED vars
  <2>1. UNCHANGED <<link, now, expiry, lastClock, state, lease, leaseStart, requestStart, net>>
    BY <1>1 DEF vars
  <2>2. UNCHANGED <<Secs, Overlap, MaxTime, Slack, LongEnough, Holding, Ready, Expired>>
    BY <2>1 DEF Secs, Overlap, MaxTime, Slack, LongEnough, Holding, Ready, Expired
  <2> QED
    BY <2>1, <2>2 DEF LeaseInductive, Clocks, Letters, Requests, Acks, Leased, Checked, Covers
<1>2. CASE Next
  BY <1>2, PollKeeps, HandleKeeps, AckKeeps, GrantKeeps, ServerKeeps, TickKeeps DEF Next
<1> QED
  BY <1>1, <1>2

LEMMA LeaseInvariant == Spec => []LeaseInductive
  BY LeaseInit, LeaseStep, PTL DEF Spec

\* The links on which no ACK is late: none is under way when the client asks
\* again, and none takes as long as the lease it carries.
Punctual == ~Overlap /\ LongEnough

\* On a punctual link the client never uses an address beyond the time for
\* which the server granted it: requestStart, from which HandleAck counts, is
\* never later than the ACK, and Poll and Handle give an expired lease up.
THEOREM AddressInTime == Spec => [](Punctual => NeverUsesExpired)
<1>1. LeaseInductive => (Punctual => NeverUsesExpired)
  <2> SUFFICES ASSUME LeaseInductive, Punctual, Ready, lastClock = now PROVE now < expiry
    BY DEF NeverUsesExpired
  <2>1. /\ now \in Nat /\ leaseStart \in Nat /\ expiry \in Nat /\ now <= MaxTime /\ MaxTime \in Nat
        /\ Slack = 0 /\ (\A s \in Secs : s \in Nat)
    BY LinkType DEF LeaseInductive, Clocks, Punctual
  <2>2. Holding /\ ~Expired
    BY DEF LeaseInductive, Checked, Punctual, Holding, Ready
  <2>3. lease.secs \in Secs /\ Covers(leaseStart - Slack, lease.secs)
    BY <2>2 DEF LeaseInductive, Leased
  <2>4. lease.secs \in Nat /\ now - leaseStart \in Int
    BY <2>1, <2>3
  <2>5. lease.secs = Infinite \/ now - leaseStart < lease.secs
    BY <2>2, <2>4 DEF Expired, Holding
  <2> QED
    BY <2>1, <2>3, <2>4, <2>5 DEF Covers
<1> QED
  BY <1>1, LeaseInvariant, PTL

\* On any other link too the client stops using the address less than Delay
\* after the server's count has run out: an ACK answering an earlier REQUEST
\* than the one HandleAck counts from is at most as old as the network lets it.
THEOREM OverrunBounded ==
    Spec => [](LongEnough /\ Ready /\ lastClock = now => now < expiry + Delay)
<1>1. LeaseInductive => (LongEnough /\ Ready /\ lastClock = now => now < expiry + Delay)
  <2> SUFFICES ASSUME LeaseInductive, LongEnough, Ready, lastClock = now PROVE now < expiry + Delay
    OBVIOUS
  <2>1. /\ now \in Nat /\ leaseStart \in Nat /\ expiry \in Nat /\ now <= MaxTime /\ MaxTime \in Nat
        /\ Slack \in Nat /\ Slack <= Delay /\ Delay \in Nat /\ (\A s \in Secs : s \in Nat)
    BY LinkType DEF LeaseInductive, Clocks
  <2>2. Holding /\ ~Expired
    BY DEF LeaseInductive, Checked, Holding, Ready
  <2>3. lease.secs \in Secs /\ Covers(leaseStart - Slack, lease.secs)
    BY <2>2 DEF LeaseInductive, Leased
  <2>4. lease.secs \in Nat /\ now - leaseStart \in Int
    BY <2>1, <2>3
  <2>5. lease.secs = Infinite \/ now - leaseStart < lease.secs
    BY <2>2, <2>4 DEF Expired, Holding
  <2> QED
    BY <2>1, <2>3, <2>4, <2>5 DEF Covers
<1> QED
  BY <1>1, LeaseInvariant, PTL
-----------------------------------------------------------------------------
(* Renewal in time.                                                        *)

\* The longest pause rand adds while probing, and how old a lease can be when
\* the last probe has passed.
Longest == CHOOSE j \in Jitter : \A i \in Jitter : i <= j
Pause == Longest + 1
Proven == 2 * Delay + (Probes + 1) * Pause

\* The age at which the client first asks for a renewal, and by which it has:
\* without a next hop to the server only the broadcast of rebinding asks.
AskAt(l) == IF Routed THEN l.renew ELSE l.rebind
RenewBy(l) == Max2(Proven + 1, AskAt(l))
Roomy(l) == l.secs # Infinite => RenewBy(l) + 4 * Delay < l.secs

\* The reliable links a client can live with: nothing is lost to an overlap,
\* nobody else uses the address, pauses are bounded, and a lease leaves time
\* for the probes and, from the time the client asks, for the four messages
\* of a renewal (route, answer, REQUEST, ACK).
Suitable ==
    Reliable =>
        /\ Overlap /\ MaxConflicts = 0
        /\ \E j \in Jitter : \A i \in Jitter : i <= j
        /\ \A secs \in Secs, t1 \in RenewTimes, t2 \in RebindTimes : Roomy(Terms(secs, t1, t2))

Good(l) == {l.secs, l.renew, l.rebind} \subseteq Nat /\ Roomy(l)

Answers == \A m \in net : m.kind # "nak" /\ (m.kind = "ack" => Good(m.lease))

Probing ==
    state = "probing" =>
        /\ probes <= Probes
        /\ lastAction <= leaseStart + 2 * Delay + probes * Pause
        /\ now <= lastAction + Pause
        /\ polled => now < lastAction + Pause
        /\ delay \in Nat /\ delay <= Pause

Deadline == leaseStart + RenewBy(lease)

\* The message that will bring the renewal, or the one before it.
Coming(m) ==
    \/ state = "renewing" /\ m.kind = "arp" /\ m.at <= Deadline
    \/ state = "renewing" /\ m.kind = "arpreply" /\ m.at <= Deadline + Delay
    \/ m.kind = "request" /\ m.xid = xid /\ m.at <= Deadline + 2 * Delay
    \/ m.kind = "ack" /\ m.xid = xid /\ m.at <= Deadline + 3 * Delay

Patient == state = "bound" \/ (state = "renewing" /\ ~Routed)
Asking == (state = "renewing" /\ Routed) \/ state = "rebinding"

Renewal ==
    /\ Patient /\ lease.secs # Infinite =>
          /\ now <= Deadline
          /\ polled => now < leaseStart + AskAt(lease) \/ now <= leaseStart + Proven
    /\ Asking => \E m \in net : Coming(m)

Counters == {conflicts, probes, lastAction} \subseteq Nat

KeepInductive ==
    /\ Counters /\ Answers /\ Probing /\ Renewal
    /\ Holding => Good(lease)

Lasting == LeaseInductive /\ Reliable /\ Suitable /\ KeepInductive

-----------------------------------------------------------------------------
LEMMA LinkFacts ==
    ASSUME link \in Links, Reliable, Suitable
    PROVE  /\ Pause \in Nat /\ Pause >= 1 /\ Delay \in Nat /\ Probes \in Nat /\ Proven \in Nat
           /\ Overlap /\ MaxConflicts = 0
           /\ \A j \in Jitter : j \in Nat /\ j + 1 <= Pause
<1>1. Jitter \subseteq Nat
  BY DEF Link, Jitter
<1>2. Overlap /\ MaxConflicts = 0 /\ \E j \in Jitter : \A i \in Jitter : i <= j
  BY DEF Suitable
<1>3. Longest \in Jitter /\ \A i \in Jitter : i <= Longest
  BY <1>2 DEF Longest
<1>4. Pause \in Nat /\ Pause >= 1 /\ \A j \in Jitter : j \in Nat /\ j + 1 <= Pause
  BY <1>1, <1>3 DEF Pause
<1>5. Delay \in Nat /\ Probes \in Nat
  OBVIOUS
<1>6. \A p \in Nat, q \in Nat : (p + 1) * q \in Nat
  OBVIOUS
<1>7. Proven \in Nat
  BY <1>4, <1>5, <1>6 DEF Proven
<1> QED
  BY <1>2, <1>4, <1>5, <1>7

\* The pauses of p probes and of the one after them.
LEMMA Pauses ==
    ASSUME NEW p \in Nat, NEW q \in Nat, NEW n \in Nat, p <= n
    PROVE  /\ p * q \in Nat /\ (p + 1) * q = p * q + q
           /\ p * q + q <= (n + 1) * q
<1>1. /\ p * q \in Nat /\ (p + 1) * q = p * q + q
  OBVIOUS
<1>2. PICK d \in Nat : n = p + d
  <2>1. n - p \in Nat /\ n = p + (n - p)
    OBVIOUS
  <2> QED
    BY <2>1
<1>3. d * q \in Nat
  OBVIOUS
<1>4. (n + 1) * q = (p + 1) * q + d * q
  BY <1>2
<1>5. (p + 1) * q \in Nat
  OBVIOUS
<1> QED
  BY <1>1, <1>3, <1>4, <1>5

\* What the rest uses of the invariants, in one place.
LEMMA Facts ==
    ASSUME Lasting
    PROVE  /\ link \in Links /\ {now, leaseStart, requestStart, probes, lastAction, conflicts} \subseteq Nat
           /\ Pause \in Nat /\ Pause >= 1 /\ Delay \in Nat /\ Probes \in Nat /\ Proven \in Nat
           /\ Proven = 2 * Delay + (Probes + 1) * Pause
           /\ Overlap /\ MaxConflicts = 0
           /\ \A j \in Jitter : j \in Nat /\ j + 1 <= Pause
           /\ \A m \in net : m.at \in Nat /\ m.at <= now /\ now <= m.at + Delay /\ m.kind # "nak"
<1>1. link \in Links /\ {now, leaseStart, requestStart} \subseteq Nat
  BY DEF Lasting, LeaseInductive, Clocks
<1>2. {probes, lastAction, conflicts} \subseteq Nat
  BY DEF Lasting, KeepInductive, Counters
<1>3. \A m \in net : m.at \in Nat /\ m.at <= now /\ now <= m.at + Delay /\ m.kind # "nak"
  BY DEF Lasting, LeaseInductive, Letters, KeepInductive, Answers
<1>4. Reliable /\ Suitable
  BY DEF Lasting
<1> QED
  BY <1>1, <1>2, <1>3, <1>4, LinkFacts DEF Proven

\* The renewal of a lease is due within it, with room for four messages.
LEMMA LeaseFacts ==
    ASSUME Proven \in Nat, NEW l, Good(l)
    PROVE  /\ l.secs \in Nat /\ AskAt(l) \in Nat /\ RenewBy(l) \in Nat
           /\ RenewBy(l) >= Proven + 1 /\ RenewBy(l) >= AskAt(l)
           /\ RenewBy(l) = Proven + 1 \/ RenewBy(l) = AskAt(l)
           /\ l.secs # Infinite => RenewBy(l) + 4 * Delay < l.secs
  BY DEF Good, RenewBy, AskAt, Max2, Roomy, Routed

\* While a renewal is under way, little time has passed since it was due.
LEMMA ComingSoon ==
    ASSUME Lasting, Asking
    PROVE  /\ Deadline \in Nat /\ now <= Deadline + 4 * Delay
           /\ \A m \in net : Coming(m) /\ m.kind = "arp" => now <= Deadline + Delay
           /\ \A m \in net : Coming(m) /\ m.kind = "arpreply" => now <= Deadline + 2 * Delay
<1>1. Holding /\ Good(lease) /\ \E m \in net : Coming(m)
  BY DEF Lasting, KeepInductive, Holding, InUse, Renewal, Patient, Asking, Routed
<1>2. leaseStart \in Nat /\ now \in Nat /\ Delay \in Nat /\ Proven \in Nat
  BY Facts
<1>3. RenewBy(lease) \in Nat
  BY <1>1, <1>2, LeaseFacts
<1>4. Deadline \in Nat
  BY <1>2, <1>3 DEF Deadline
<1>5. \A m \in net : m.at \in Nat /\ now <= m.at + Delay
  BY Facts
<1>6. ASSUME NEW m \in net, Coming(m)
      PROVE  /\ now <= Deadline + 4 * Delay
             /\ m.kind = "arp" => now <= Deadline + Delay
             /\ m.kind = "arpreply" => now <= Deadline + 2 * Delay
  <2>1. m.at \in Nat /\ now <= m.at + Delay
    BY <1>5
  <2>2. /\ m.at <= Deadline + 3 * Delay
        /\ m.kind = "arp" => m.at <= Deadline
        /\ m.kind = "arpreply" => m.at <= Deadline + Delay
    BY <1>2, <1>4, <1>6, <2>1 DEF Coming
  <2> QED
    BY <1>2, <1>4, <2>1, <2>2
<1> QED
  BY <1>1, <1>4, <1>6

\* The age of a lease under test.
LEMMA ProbingYoung ==
    ASSUME Lasting, state = "probing"
    PROVE  /\ now <= leaseStart + 2 * Delay + (probes * Pause + Pause) /\ now <= leaseStart + Proven
           /\ probes * Pause \in Nat /\ (probes + 1) * Pause = probes * Pause + Pause
<1>1. /\ now \in Nat /\ leaseStart \in Nat /\ probes \in Nat /\ lastAction \in Nat
      /\ Pause \in Nat /\ Delay \in Nat /\ Probes \in Nat /\ Proven = 2 * Delay + (Probes + 1) * Pause
  BY Facts
<1>2. /\ probes <= Probes /\ now <= lastAction + Pause
      /\ lastAction <= leaseStart + 2 * Delay + probes * Pause
  BY DEF Lasting, KeepInductive, Probing
<1>3. /\ probes * Pause \in Nat /\ (probes + 1) * Pause = probes * Pause + Pause
      /\ probes * Pause + Pause <= (Probes + 1) * Pause /\ (Probes + 1) * Pause \in Int
  BY <1>1, <1>2, Pauses
<1>4. now <= leaseStart + 2 * Delay + (probes * Pause + Pause)
  BY <1>1, <1>2, <1>3
<1> QED
  BY <1>1, <1>3, <1>4

\* A lease in use, or under test, has not run out.
LEMMA Young == Lasting /\ Holding => ~Expired
<1> SUFFICES ASSUME Lasting, Holding, lease.secs # Infinite PROVE ~(now - leaseStart >= lease.secs)
  BY DEF Expired
<1>1. Good(lease)
  BY DEF Lasting, KeepInductive
<1>2. leaseStart \in Nat /\ now \in Nat /\ Delay \in Nat /\ Proven \in Nat
  BY Facts
<1>3. /\ lease.secs \in Nat /\ RenewBy(lease) \in Nat /\ RenewBy(lease) >= Proven + 1
      /\ RenewBy(lease) + 4 * Delay < lease.secs
  BY <1>1, <1>2, LeaseFacts
<1>4. CASE state = "probing"
  <2>1. now <= leaseStart + Proven
    BY <1>4, ProbingYoung
  <2> QED
    BY <1>2, <1>3, <2>1
<1>5. CASE Patient
  <2>1. now <= leaseStart + RenewBy(lease)
    BY <1>5 DEF Lasting, KeepInductive, Renewal, Deadline, Patient, Asking, Routed
  <2> QED
    BY <1>2, <1>3, <2>1
<1>6. CASE Asking
  <2>1. now <= (leaseStart + RenewBy(lease)) + 4 * Delay
    BY <1>6, ComingSoon DEF Deadline
  <2> QED
    BY <1>2, <1>3, <2>1
<1> QED
  BY <1>4, <1>5, <1>6 DEF Holding, InUse, Patient, Asking, Routed

-----------------------------------------------------------------------------
(* The steps.                                                              *)

\* A step that brings no answer of the server and lets no time pass.
LEMMA KeepParts ==
    ASSUME Lasting, UNCHANGED <<link, now>>, {conflicts, probes, lastAction}' \subseteq Nat,
           \A m \in net' : m \in net \/ m.kind \notin {"nak", "ack"},
           Holding' => Good(lease'), Probing', Renewal'
    PROVE  KeepInductive'
<1>2. \A l : Good(l) <=> Good(l)'
  BY DEF Good, Roomy, RenewBy, Proven, Pause, Longest, Jitter, AskAt, Routed
<1>3. Answers'
  <2>1. \A m \in net : m.kind # "nak" /\ (m.kind = "ack" => Good(m.lease))
    BY DEF Lasting, KeepInductive, Answers
  <2> QED
    BY <1>2, <2>1 DEF Answers
<1>4. Counters'
  BY DEF Counters
<1>5. (Holding => Good(lease))'
  BY DEF Good, Roomy, RenewBy, Proven, Pause, Longest, Jitter, AskAt, Routed
<1> QED
  BY <1>3, <1>4, <1>5 DEF KeepInductive

\* A client that holds no address has nothing to renew.
LEMMA KeepsNothing ==
    ASSUME Lasting, UNCHANGED <<link, now>>, {conflicts, probes, lastAction}' \subseteq Nat,
           \A m \in net' : m \in net \/ m.kind \notin {"nak", "ack"}, ~Holding'
    PROVE  KeepInductive'
<1>1. Probing' /\ Renewal'
  BY DEF Probing, Renewal, Holding, InUse, Patient, Asking, Routed
<1> QED
  BY <1>1, KeepParts

\* The client's side is left alone, and so is whatever brings the renewal.
LEMMA KeepsAll ==
    ASSUME Lasting, UNCHANGED <<link, now, conflicts, client, polled>>,
           \A m \in net' : m \in net \/ m.kind \notin {"nak", "ack"},
           Asking => \E m \in net' : Coming(m)
    PROVE  KeepInductive'
<1>1. /\ UNCHANGED <<state, xid, lease, leaseStart, lastAction, delay, probes>>
      /\ {conflicts, probes, lastAction} \subseteq Nat
  BY Facts DEF client
<1>2. UNCHANGED <<Pause, Proven, AskAt(lease), RenewBy(lease), Deadline, Holding>>
  BY <1>1 DEF Pause, Longest, Jitter, Proven, RenewBy, Deadline, Holding, AskAt, Routed
<1>3. Probing' /\ (Holding => Good(lease))
  BY <1>1, <1>2 DEF Lasting, KeepInductive, Probing
<1>4. \A m : Coming(m)' <=> Coming(m)
  BY <1>1, <1>2 DEF Coming
<1>5. Renewal'
  BY <1>1, <1>2, <1>4 DEF Lasting, KeepInductive, Renewal, Patient, Asking, Routed
<1> QED
  BY <1>1, <1>2, <1>3, <1>5, KeepParts

\* An address in use, with nothing under way.
LEMMA KeepsPatient ==
    ASSUME Lasting, UNCHANGED <<link, now>>, {conflicts, probes, lastAction}' \subseteq Nat,
           \A m \in net' : m \in net \/ m.kind \notin {"nak", "ack"},
           Patient', Good(lease'), leaseStart' \in Nat,
           lease'.secs # Infinite => now <= leaseStart' + Proven \/ now < leaseStart' + AskAt(lease')
    PROVE  KeepInductive'
<1>1. now \in Nat /\ Proven \in Nat /\ Proven' = Proven
  BY Facts DEF Pause, Longest, Jitter, Proven
<1>2. /\ RenewBy(lease') \in Nat /\ RenewBy(lease') >= Proven + 1 /\ RenewBy(lease') >= AskAt(lease')
      /\ AskAt(lease') \in Nat
  BY <1>1, LeaseFacts
<1>3. Deadline' = leaseStart' + RenewBy(lease') /\ AskAt(lease)' = AskAt(lease')
  BY <1>1 DEF Deadline, RenewBy, AskAt, Routed
<1>4. /\ lease'.secs # Infinite => now <= leaseStart' + RenewBy(lease')
      /\ lease'.secs # Infinite => now < leaseStart' + AskAt(lease') \/ now <= leaseStart' + Proven
  <2>1. PICK t, r, k : t = leaseStart' /\ r = AskAt(lease') /\ k = RenewBy(lease')
    OBVIOUS
  <2>2. now <= t + Proven \/ now < t + r => now <= t + k
    BY <1>1, <1>2, <2>1
  <2> QED
    BY <2>1, <2>2
<1>5. Renewal'
  BY <1>1, <1>3, <1>4 DEF Renewal, Patient, Asking, Routed
<1>6. Probing'
  BY DEF Probing, Patient, Routed
<1> QED
  BY <1>5, <1>6, KeepParts

\* A renewal under way, with a message that will bring it.
LEMMA KeepsRenewing ==
    ASSUME Lasting, UNCHANGED <<link, now>>, {conflicts, probes, lastAction}' \subseteq Nat,
           \A m \in net' : m \in net \/ m.kind \notin {"nak", "ack"},
           Asking', UNCHANGED lease, Holding,
           \E m \in net' : Coming(m)'
    PROVE  KeepInductive'
<1>1. Good(lease')
  BY DEF Lasting, KeepInductive
<1>2. Probing' /\ Renewal'
  BY DEF Probing, Renewal, Patient, Asking, Routed
<1> QED
  BY <1>1, <1>2, KeepParts

\* Renew: whether it asks for the route or sends the REQUEST, a message due in
\* time is under way.
LEMMA RenewLasts ==
    ASSUME Lasting, UNCHANGED <<link, now, conflicts>>, NEW s, NEW x, NEW route, Renew(s, x, route),
           Ready, Patient => (lease.secs # Infinite => now <= Deadline),
           Patient => (lease.secs = Infinite => s = "renewing" /\ ~Routed),
           state = "renewing" => x = xid,
           state = "rebinding" => s = state /\ x = xid,
           s = "renewing" /\ lease.secs # Infinite => ~(now - leaseStart >= lease.rebind)
    PROVE  KeepInductive'
<1>1. /\ s \in {"renewing", "rebinding"} /\ state' = s /\ xid' = x /\ lastAction' = now
      /\ UNCHANGED <<lease, leaseStart, probes>>
      /\ \/ s = "renewing" /\ Routed /\ Send(net, "arp", x)
         \/ s = "renewing" /\ ~Routed /\ net' = net
         \/ Send(net, "request", x)
  BY DEF Renew
<1>2. /\ now \in Nat /\ Overlap /\ probes \in Nat /\ conflicts \in Nat /\ Proven \in Nat /\ Delay \in Nat
      /\ leaseStart \in Nat
  BY Facts
<1>3. Holding /\ Good(lease) /\ RenewBy(lease) \in Nat /\ Deadline \in Nat
  <2>1. Holding /\ Good(lease)
    BY DEF Ready, Holding, Lasting, KeepInductive
  <2> QED
    BY <1>2, <2>1, LeaseFacts DEF Deadline
<1>4. UNCHANGED <<Proven, Deadline>>
  BY <1>1 DEF Proven, Pause, Longest, Jitter, Deadline, RenewBy, AskAt, Routed
<1>0. PICK arp, request : arp = Message("arp", x) /\ request = Message("request", x)
  OBVIOUS
<1>5. /\ arp.kind = "arp" /\ arp.at = now
      /\ request.kind = "request" /\ request.at = now /\ request.xid = x
  BY <1>0 DEF Message
<1>6. /\ net' = net \cup {arp} \/ net' = net \cup {request} \/ net' = net
      /\ s = "renewing" /\ Routed => net' = net \cup {arp} \/ net' = net \cup {request}
      /\ s # "renewing" => net' = net \cup {request}
  BY <1>0, <1>1, <1>2 DEF Send
<1>7. \A m \in net' : m \in net \/ m.kind \notin {"nak", "ack"}
  BY <1>5, <1>6
<1>8. CASE Patient'
  <2>1. s = "renewing" /\ ~Routed
    BY <1>1, <1>8 DEF Patient, Routed
  <2>2. lease.rebind \in Nat /\ AskAt(lease) = lease.rebind
    BY <1>3, <2>1 DEF Good, AskAt, Routed
  <2>3. lease.secs # Infinite => now < leaseStart + AskAt(lease)
    BY <1>2, <2>1, <2>2
  <2>4. Good(lease') /\ leaseStart' = leaseStart /\ lease' = lease
    BY <1>1, <1>3
  <2> QED
    BY <1>1, <1>2, <1>7, <1>8, <2>3, <2>4, KeepsPatient
<1>9. CASE Asking'
  <2>1. s = "rebinding" \/ (s = "renewing" /\ Routed)
    BY <1>1, <1>9 DEF Asking, Routed
  <2>2. CASE Patient
    <3>0. now <= Deadline
      BY <2>1, <2>2
    <3>1. now <= Deadline + 2 * Delay
      BY <1>2, <1>3, <3>0
    <3>2. (arp \in net' /\ s = "renewing") \/ request \in net'
      BY <1>6, <2>1
    <3>3. s = "renewing" => Coming(arp)'
      BY <1>1, <1>4, <1>5, <3>0, <3>1 DEF Coming
    <3>4. Coming(request)'
      BY <1>1, <1>4, <1>5, <3>0, <3>1 DEF Coming
    <3>5. \E m \in net' : Coming(m)'
      BY <3>2, <3>3, <3>4
    <3> QED
      BY <1>1, <1>2, <1>3, <1>7, <1>9, <3>5, KeepsRenewing
  <2>3. CASE Asking
    <3>1. PICK m \in net : Coming(m)
      BY <2>3 DEF Lasting, KeepInductive, Renewal, Patient, Asking, Routed
    <3>2. m.kind \in {"request", "ack", "arp", "arpreply"} /\ m \in net'
      BY <1>6, <3>1 DEF Coming
    <3>3. x = xid /\ (state = "rebinding" => s = state)
      BY <2>3 DEF Asking
    <3>4. CASE m.kind \in {"request", "ack"} \/ s = state
      <4>1. Coming(m)'
        BY <1>1, <1>4, <3>1, <3>3, <3>4 DEF Coming
      <4> QED
        BY <1>1, <1>2, <1>3, <1>7, <1>9, <3>2, <4>1, KeepsRenewing
    <3>5. CASE m.kind \in {"arp", "arpreply"} /\ s # state
      <4>1. s = "rebinding"
        BY <2>1, <2>3, <3>3, <3>5 DEF Asking
      <4>2. now <= Deadline + 2 * Delay
        BY <1>2, <1>3, <2>3, <3>1, <3>5, ComingSoon
      <4>3. request \in net' /\ Coming(request)'
        BY <1>1, <1>4, <1>5, <1>6, <4>1, <4>2 DEF Coming
      <4> QED
        BY <1>1, <1>2, <1>3, <1>7, <1>9, <4>3, KeepsRenewing
    <3> QED
      BY <3>2, <3>4, <3>5
  <2> QED
    BY <2>2, <2>3 DEF Ready, InUse, Patient, Asking, Routed
<1> QED
  BY <1>1, <1>8, <1>9 DEF Patient, Asking, Routed

\* The steps of Poll that wait, or that change nothing but the pacing.
LEMMA PollWaits ==
    ASSUME Lasting, Poll, UNCHANGED <<client, net>>, state = "off" \/ (Due = state /\ Waiting)
    PROVE  KeepInductive'
<1>1. /\ UNCHANGED <<link, now, conflicts, state, xid, lease, leaseStart, lastAction, delay, probes, net>>
      /\ polled'
  BY DEF Poll, world, client
<1>2. /\ {now, leaseStart, lastAction, probes, conflicts} \subseteq Nat /\ Pause \in Nat /\ Proven \in Nat
  BY Facts
<1>3. UNCHANGED <<Pause, Proven, Deadline, Holding>>
  BY <1>1 DEF Proven, Pause, Longest, Jitter, Deadline, RenewBy, Holding, AskAt, Routed
<1>4. Holding => Good(lease)
  BY DEF Lasting, KeepInductive
<1>5. Probing'
  <2> SUFFICES ASSUME state = "probing" PROVE Probing'
    BY <1>1 DEF Probing
  <2>1. /\ probes <= Probes /\ lastAction <= leaseStart + 2 * Delay + probes * Pause
        /\ now <= lastAction + Pause /\ delay \in Nat /\ delay <= Pause
    BY DEF Lasting, KeepInductive, Probing
  <2>2. now < lastAction + Pause
    BY <1>2, <2>1 DEF Waiting
  <2> QED
    BY <1>1, <1>3, <2>1, <2>2 DEF Probing
<1>6. Renewal'
  <2>1. CASE Patient
    <3>1. AskAt(lease) \in Nat
      BY <1>4, <2>1 DEF Holding, InUse, Good, AskAt, Patient, Routed
    <3>2. ASSUME lease.secs # Infinite PROVE now < leaseStart + AskAt(lease) /\ now <= Deadline
      <4>1. ~(now - leaseStart >= AskAt(lease))
        BY <2>1, <3>2 DEF Due, Ready, InUse, Patient, AskAt, Routed
      <4>2. now <= Deadline
        BY <2>1, <3>2 DEF Lasting, KeepInductive, Renewal, Patient, Asking, Routed
      <4> QED
        BY <1>2, <3>1, <4>1, <4>2
    <3>3. AskAt(lease)' = AskAt(lease) /\ ~Asking'
      BY <1>1, <2>1 DEF AskAt, Routed, Patient, Asking
    <3> QED
      BY <1>1, <1>3, <2>1, <3>2, <3>3 DEF Renewal, Patient, Asking, Routed
  <2>2. CASE Asking
    <3>1. \E m \in net : Coming(m)
      BY <2>2 DEF Lasting, KeepInductive, Renewal, Patient, Asking, Routed
    <3>2. \A m : Coming(m) => Coming(m)'
      BY <1>1, <1>3 DEF Coming
    <3> QED
      BY <1>1, <2>2, <3>1, <3>2 DEF Renewal, Patient, Asking, Routed
  <2>3. CASE ~Patient /\ ~Asking
    BY <1>1, <2>3 DEF Renewal, Patient, Asking, Routed
  <2> QED
    BY <2>1, <2>2, <2>3
<1> QED
  BY <1>1, <1>2, <1>3, <1>4, <1>5, <1>6, KeepParts

\* The last probe that nobody answers binds the address.
LEMMA ProbeLasts ==
    ASSUME Lasting, UNCHANGED <<link, now, conflicts>>, Probe
    PROVE  KeepInductive'
<1>1. /\ state = "probing" /\ lastAction' = now /\ UNCHANGED <<lease, leaseStart, net>>
      /\ \/ /\ probes < Probes /\ probes' = probes + 1 /\ state' = state
            /\ \E j \in Jitter : delay' = 1 + j
         \/ ~(probes < Probes) /\ state' = "bound" /\ probes' = probes
  BY DEF Probe
<1>2. /\ {now, leaseStart, lastAction, probes, conflicts} \subseteq Nat /\ Pause \in Nat /\ Pause >= 1
      /\ Probes \in Nat /\ Proven \in Nat /\ Delay \in Nat
      /\ \A j \in Jitter : j \in Nat /\ j + 1 <= Pause
  BY Facts
<1>3. /\ now <= leaseStart + 2 * Delay + (probes * Pause + Pause) /\ now <= leaseStart + Proven
      /\ (probes + 1) * Pause = probes * Pause + Pause
  BY <1>1, ProbingYoung
<1>4. Good(lease)
  BY <1>1 DEF Lasting, KeepInductive, Holding
<1>5. CASE state' = "bound"
  BY <1>1, <1>2, <1>3, <1>4, <1>5, KeepsPatient DEF Patient, Routed
<1>6. CASE state' = "probing"
  <2>1. probes' = probes + 1 /\ probes' <= Probes /\ probes' \in Nat
    BY <1>1, <1>2, <1>6
  <2>2. delay' \in Nat /\ delay' <= Pause
    BY <1>1, <1>2, <1>6
  <2>3. Pause' = Pause
    BY DEF Pause, Longest, Jitter
  <2>4. lastAction' <= leaseStart + 2 * Delay + probes' * Pause
    BY <1>1, <1>3, <2>1
  <2>5. Probing'
    BY <1>1, <1>2, <2>1, <2>2, <2>3, <2>4 DEF Probing
  <2>6. Renewal'
    BY <1>6 DEF Renewal, Patient, Asking, Routed
  <2> QED
    BY <1>1, <1>2, <1>4, <2>1, <2>5, <2>6, KeepParts
<1> QED
  BY <1>1, <1>5, <1>6

LEMMA PollLasts ==
    ASSUME Lasting, Poll
    PROVE  KeepInductive' /\ (Ready => Ready')
<1>1. UNCHANGED <<link, now, conflicts>>
  BY DEF Poll, world
<1>2. /\ {now, leaseStart, lastAction, probes, conflicts} \subseteq Nat /\ Proven \in Nat /\ Overlap
  BY Facts
<1>3. Holding => Good(lease) /\ ~Expired
  BY Young DEF Lasting, KeepInductive
<1>4. ASSUME ~Holding, ~Holding', {probes, lastAction}' \subseteq Nat,
             \A m \in net' : m \in net \/ m.kind \notin {"nak", "ack"}
      PROVE  KeepInductive' /\ (Ready => Ready')
  BY <1>1, <1>2, <1>4, KeepsNothing DEF Holding, Ready
<1>5. ASSUME UNCHANGED <<client, net>>, state = "off" \/ (Due = state /\ Waiting)
      PROVE  KeepInductive' /\ (Ready => Ready')
  <2>1. state' = state
    BY <1>5 DEF client
  <2> QED
    BY <1>5, <2>1, PollWaits DEF Ready
<1>6. ASSUME NEW s, NEW x, NEW route, Renew(s, x, route),
             \/ s = Due /\ Due # state /\ (x = xid \/ Due = "renewing")
             \/ s = state /\ Due = state /\ x = xid
      PROVE  KeepInductive' /\ (Ready => Ready')
  <2>1. s \in {"renewing", "rebinding"} /\ state' = s
    BY <1>6 DEF Renew
  <2>2. Ready
    BY <1>6, <2>1 DEF Due, Ready, InUse
  <2>3. Patient => (lease.secs # Infinite => now <= Deadline)
    BY DEF Lasting, KeepInductive, Renewal, Patient, Asking, Routed
  <2>4. Patient => (lease.secs = Infinite => s = "renewing" /\ ~Routed)
    BY <1>6, <2>1 DEF Due, Patient, Routed
  <2>5. state = "renewing" => x = xid
    BY <1>6, <2>1 DEF Due
  <2>6. state = "rebinding" => s = state /\ x = xid
    BY <1>6, <2>1 DEF Due
  <2>7. s = "renewing" /\ lease.secs # Infinite => ~(now - leaseStart >= lease.rebind)
    BY <1>6, <2>1, <2>2 DEF Due
  <2>8. KeepInductive'
    BY <1>1, <1>6, <2>2, <2>3, <2>4, <2>5, <2>6, <2>7, RenewLasts
  <2> QED
    BY <2>1, <2>8 DEF Ready, InUse
<1>7. ASSUME Select \/ Request PROVE KeepInductive' /\ (Ready => Ready')
  <2>1. /\ ~Holding /\ ~Holding' /\ lastAction' = now /\ probes' = probes
    BY <1>7 DEF Select, Request, Again, Holding, InUse
  <2>2. \A m \in net' : m \in net \/ m.kind \notin {"nak", "ack"}
    BY <1>7 DEF Select, Request, Send, Message
  <2> QED
    BY <1>2, <1>4, <2>1, <2>2
<1>8. ASSUME Begin, UNCHANGED net, ~Holding PROVE KeepInductive' /\ (Ready => Ready')
  BY <1>2, <1>4, <1>8 DEF Begin, Holding, InUse
<1>9. ASSUME Announce, Due = state PROVE KeepInductive' /\ (Ready => Ready')
  <2>1. /\ state = "bound" /\ state' = "bound" /\ UNCHANGED <<lease, leaseStart, lastAction, probes, net>>
    BY <1>9 DEF Announce
  <2>2. Good(lease) /\ AskAt(lease) \in Nat
    BY <1>3, <2>1 DEF Holding, InUse, Good, AskAt, Routed
  <2>3. lease.secs # Infinite => now < leaseStart + AskAt(lease)
    <3>1. lease.secs # Infinite => ~(now - leaseStart >= AskAt(lease))
      BY <1>9, <2>1 DEF Due, Ready, InUse, AskAt, Routed
    <3> QED
      BY <1>2, <2>2, <3>1
  <2> QED
    BY <1>1, <1>2, <2>1, <2>2, <2>3, KeepsPatient DEF Ready, Patient, Routed
<1>10. ASSUME Probe PROVE KeepInductive' /\ (Ready => Ready')
  BY <1>1, <1>10, ProbeLasts DEF Probe, Ready, InUse
<1>11. ASSUME GiveUp PROVE KeepInductive' /\ (Ready => Ready')
  BY <1>8, <1>11 DEF GiveUp, Holding, InUse
<1>12. Expired => Holding
  BY DEF Expired, Holding
<1>13. \/ state = "off" /\ UNCHANGED <<client, net>>
       \/ Due # state /\ Due = "rebinding" /\ Renew(Due, xid, routeReady)
       \/ Due # state /\ Due = "renewing" /\ Renew(Due, xid + 1, FALSE)
       \/ Due = state /\ Waiting /\ UNCHANGED <<client, net>>
       \/ Due = state /\ (Select \/ Request \/ GiveUp \/ Probe \/ Announce \/ Renew(state, xid, routeReady))
  BY <1>3, <1>12 DEF Poll
<1>14. CASE Due # state
  <2>1. ASSUME Renew(Due, xid, routeReady) PROVE KeepInductive' /\ (Ready => Ready')
    BY <1>6, <1>14, <2>1
  <2>2. ASSUME Due = "renewing", Renew(Due, xid + 1, FALSE) PROVE KeepInductive' /\ (Ready => Ready')
    BY <1>6, <1>14, <2>2
  <2> QED
    BY <1>5, <1>13, <1>14, <2>1, <2>2
<1>15. CASE Due = state
  <2>1. ASSUME Renew(state, xid, routeReady) PROVE KeepInductive' /\ (Ready => Ready')
    BY <1>6, <1>15, <2>1
  <2> QED
    BY <1>5, <1>7, <1>9, <1>10, <1>11, <1>13, <1>15, <2>1
<1> QED
  BY <1>14, <1>15

LEMMA HandleLasts ==
    ASSUME Lasting, NEW m,
           \/ HandleExpired \/ HandleConflict
           \/ m \in net /\ (HandleOffer(m) \/ HandleNak(m) \/ HandleRoute(m) \/ HandleOther(m))
    PROVE  KeepInductive' /\ (Ready => Ready')
<1>1. /\ {now, leaseStart, lastAction, probes, conflicts} \subseteq Nat /\ Proven \in Nat /\ Overlap
      /\ MaxConflicts = 0 /\ Delay \in Nat /\ \A x \in net : x.kind # "nak"
  BY Facts
<1>2. ~HandleExpired
  BY Young DEF HandleExpired, Expired, Holding
<1>3. ~HandleConflict
  BY <1>1 DEF HandleConflict
<1>4. m \in net => ~HandleNak(m)
  BY <1>1 DEF HandleNak, Current
<1>5. CASE m \in net /\ HandleOther(m)
  <2>1. UNCHANGED <<link, now, conflicts, client, polled, state>> /\ net' = net \ {m}
    BY <1>5 DEF HandleOther, world, client
  <2>2. ASSUME Asking PROVE \E n \in net' : Coming(n)
    <3>1. PICK n \in net : Coming(n)
      BY <2>2 DEF Lasting, KeepInductive, Renewal, Patient, Asking, Routed
    <3>2. n # m
      BY <1>5, <2>2, <3>1 DEF HandleOther, Coming, Asking
    <3> QED
      BY <2>1, <3>1, <3>2
  <2> QED
    BY <2>1, <2>2, KeepsAll DEF Ready
<1>6. CASE m \in net /\ HandleOffer(m)
  <2>1. PICK msgs \in Left(m) : Send(msgs, "request", xid)
    BY <1>6 DEF HandleOffer
  <2>2. \A x \in net' : x \in net \/ x.kind \notin {"nak", "ack"}
    BY <2>1 DEF Left, Send, Message
  <2>3. /\ state = "selecting" /\ state' = "requesting" /\ lastAction' = now
        /\ UNCHANGED <<link, now, conflicts, probes>>
    BY <1>6 DEF HandleOffer, world
  <2> QED
    BY <1>1, <2>2, <2>3, KeepsNothing DEF Holding, Ready, InUse
<1>7. CASE m \in net /\ HandleRoute(m)
  <2>1. PICK msgs \in Left(m) : Send(msgs, "request", xid)
    BY <1>7 DEF HandleRoute
  <2>2. /\ state = "renewing" /\ state' = Due /\ lastAction' = now
        /\ UNCHANGED <<link, now, conflicts, probes, xid, lease, leaseStart>>
    BY <1>7 DEF HandleRoute, world
  <2>3. state' \in {"renewing", "rebinding"} /\ Holding
    BY <2>2 DEF Due, Holding, InUse
  <2>4. \A x \in net' : x \in net \/ x.kind \notin {"nak", "ack"}
    BY <2>1 DEF Left, Send, Message
  <2>5. PICK request : request.kind = "request" /\ request.at = now /\ request.xid = xid /\ request \in net'
    <3>1. PICK r : r = Message("request", xid)
      OBVIOUS
    <3>2. r.kind = "request" /\ r.at = now /\ r.xid = xid /\ r \in net'
      BY <2>1, <3>1 DEF Send, Message
    <3> QED
      BY <3>2
  <2>6. UNCHANGED Deadline
    BY <2>2 DEF Deadline, RenewBy, Proven, Pause, Longest, Jitter, AskAt, Routed
  <2>7. CASE Patient'
    <3>1. ~Routed /\ Patient /\ Due = "renewing"
      BY <2>2 , <2>3, <2>7 DEF Patient, Routed, Due
    <3>2. Good(lease) /\ lease.rebind \in Nat /\ AskAt(lease) = lease.rebind
      BY <2>3, <3>1 DEF Lasting, KeepInductive, Good, AskAt, Routed
    <3>3. lease.secs # Infinite => ~(now - leaseStart >= lease.rebind)
      BY <2>2, <3>1 DEF Due, Ready, InUse
    <3>4. lease.secs # Infinite => now < leaseStart + AskAt(lease)
      BY <1>1, <3>2, <3>3
    <3>5. lease' = lease /\ leaseStart' = leaseStart /\ {conflicts, probes, lastAction}' \subseteq Nat
      BY <1>1, <2>2
    <3> QED
      BY <1>1, <2>2, <2>3, <2>4, <2>7, <3>2, <3>4, <3>5, KeepsPatient DEF Ready, InUse
  <2>8. CASE Asking'
    <3>1. CASE Patient
      <4>1. now <= Deadline + 2 * Delay
        <5>1. lease.secs # Infinite
          BY <2>2, <2>8, <3>1 DEF Patient, Asking, Routed, Due
        <5>2. now <= Deadline
          BY <3>1, <5>1 DEF Lasting, KeepInductive, Renewal, Patient, Asking, Routed
        <5>3. Deadline \in Nat
          BY <1>1, <2>3, LeaseFacts DEF Lasting, KeepInductive, Deadline
        <5> QED
          BY <1>1, <5>2, <5>3
      <4>2. Coming(request)'
        BY <2>2, <2>5, <2>6, <4>1 DEF Coming
      <4> QED
        BY <1>1, <2>2, <2>3, <2>4, <2>5, <2>8, <4>2, KeepsRenewing DEF Ready, InUse
    <3>2. CASE Asking
      <4>1. PICK n \in net : Coming(n)
        BY <3>2 DEF Lasting, KeepInductive, Renewal, Patient, Asking, Routed
      <4>2. CASE n.kind \in {"arp", "arpreply"}
        <5>1. Deadline \in Nat /\ now <= Deadline + 2 * Delay
          BY <1>1, <3>2, <4>1, <4>2, ComingSoon
        <5>2. Coming(request)'
          BY <2>2, <2>5, <2>6, <5>1 DEF Coming
        <5> QED
          BY <1>1, <2>2, <2>3, <2>4, <2>5, <2>8, <5>2, KeepsRenewing DEF Ready, InUse
      <4>3. CASE n.kind \notin {"arp", "arpreply"}
        <5>1. n \in net'
          <6>1. n # m
            BY <1>7, <4>3 DEF HandleRoute
          <6> QED
            BY <1>1, <2>1, <6>1 DEF Left, Send
        <5>2. Coming(n)'
          BY <2>2, <2>6, <4>1, <4>3 DEF Coming
        <5> QED
          BY <1>1, <2>2, <2>3, <2>4, <2>8, <5>1, <5>2, KeepsRenewing DEF Ready, InUse
      <4> QED
        BY <4>2, <4>3
    <3> QED
      BY <2>2, <3>1, <3>2 DEF Patient, Asking, Routed
  <2> QED
    BY <2>3, <2>7, <2>8 DEF Patient, Asking, Routed
<1> QED
  BY <1>2, <1>3, <1>4, <1>5, <1>6, <1>7

\* An ACK starts the lease anew, at most two messages ago.
LEMMA AckLasts ==
    ASSUME Lasting, NEW m \in net, HandleAck(m)
    PROVE  KeepInductive' /\ (Ready => Ready')
<1>1. /\ {now, requestStart, probes, conflicts} \subseteq Nat /\ Proven \in Nat /\ Delay \in Nat
      /\ Pause \in Nat /\ Pause >= 1 /\ Probes \in Nat /\ Proven = 2 * Delay + (Probes + 1) * Pause
      /\ (\A j \in Jitter : j \in Nat /\ j + 1 <= Pause) /\ m.at \in Nat /\ now <= m.at + Delay
  BY Facts
<1>2. /\ UNCHANGED <<link, now, conflicts>> /\ m.kind = "ack" /\ net' \subseteq net /\ lastAction' = now
      /\ lease' = m.lease /\ leaseStart' = requestStart /\ delay' \in Jitter
      /\ \/ Ready /\ state' = "bound" /\ probes' = probes
         \/ ~Ready /\ state' = "probing" /\ probes' = 0
  BY ReceiveShrinks DEF HandleAck, StartedOn, world, Current
<1>3. m.at <= requestStart + Delay
  BY <1>2 DEF Lasting, LeaseInductive, Acks
<1>4. now <= leaseStart' + 2 * Delay /\ leaseStart' \in Nat
  BY <1>1, <1>2, <1>3
<1>5. Good(lease')
  BY <1>2 DEF Lasting, KeepInductive, Answers
<1>6. (Probes + 1) * Pause \in Nat
  BY <1>1
<1>7. now <= leaseStart' + Proven
  BY <1>1, <1>4, <1>6
<1>8. CASE Ready
  BY <1>1, <1>2, <1>4, <1>5, <1>7, <1>8, KeepsPatient DEF Ready, InUse, Patient, Routed
<1>9. CASE ~Ready
  <2>1. state' = "probing" /\ probes' = 0
    BY <1>2, <1>9
  <2>2. Pause' = Pause /\ 0 * Pause = 0
    BY <1>1, <1>2 DEF Pause, Longest, Jitter
  <2>3. delay' \in Nat /\ delay' <= Pause
    BY <1>1, <1>2
  <2>4. lastAction' <= leaseStart' + 2 * Delay + probes' * Pause
    BY <1>1, <1>2, <1>4, <2>1, <2>2
  <2>5. Probing'
    BY <1>1, <1>2, <2>1, <2>2, <2>3, <2>4 DEF Probing
  <2>6. Renewal'
    BY <2>1 DEF Renewal, Patient, Asking, Routed
  <2> QED
    BY <1>1, <1>2, <1>5, <1>9, <2>1, <2>5, <2>6, KeepParts
<1> QED
  BY <1>8, <1>9

\* The answers of the server and of the neighbours take the place of what they
\* answer.
LEMMA AnswerLasts ==
    ASSUME Lasting, NEW m \in net, Offer(m) \/ Grant(m) \/ ArpReply(m)
    PROVE  KeepInductive' /\ (Ready => Ready')
<1>1. /\ {now, leaseStart, lastAction, probes, conflicts} \subseteq Nat /\ Proven \in Nat /\ Delay \in Nat
      /\ link \in Links /\ \A n \in net : n.at \in Nat /\ now <= n.at + Delay
  BY Facts
<1>2. UNCHANGED <<link, now, conflicts, client, polled, state, xid, lease, leaseStart, lastAction, delay, probes>>
  BY DEF Offer, Grant, ArpReply, world, client
<1>3. UNCHANGED <<Pause, Proven, Deadline, Holding>>
  BY <1>2 DEF Proven, Pause, Longest, Jitter, Deadline, RenewBy, Holding, AskAt, Routed
<1>4. PICK a : /\ net' = (net \ {m}) \cup {a} /\ a.at = now /\ a.xid = m.xid
               /\ \/ m.kind = "discover" /\ a.kind = "offer"
                  \/ m.kind = "arp" /\ a.kind = "arpreply"
                  \/ m.kind = "request" /\ a.kind = "ack" /\ Good(a.lease)
  <2>1. CASE Offer(m)
    <3>1. PICK a : a = Message("offer", m.xid)
      OBVIOUS
    <3>2. a.at = now /\ a.xid = m.xid /\ a.kind = "offer"
      BY <3>1 DEF Message
    <3> QED
      BY <2>1, <3>1, <3>2 DEF Offer, Answer
  <2>2. CASE ArpReply(m)
    <3>1. PICK a : a = Message("arpreply", m.xid)
      OBVIOUS
    <3>2. a.at = now /\ a.xid = m.xid /\ a.kind = "arpreply"
      BY <3>1 DEF Message
    <3> QED
      BY <2>2, <3>1, <3>2 DEF ArpReply, Answer
  <2>3. CASE Grant(m)
    <3>1. PICK secs \in Secs, t1 \in RenewTimes, t2 \in RebindTimes :
              Answer(m, [Message("ack", m.xid) EXCEPT !.lease = Terms(secs, t1, t2)])
      BY <2>3 DEF Grant
    <3>2. Roomy(Terms(secs, t1, t2))
      BY DEF Lasting, Suitable
    <3>3. secs \in Nat /\ secs > 0 /\ t1 \in Nat /\ t2 \in Nat
      BY <1>1 DEF Link, Secs, RenewTimes, RebindTimes
    <3>4. LET l == Terms(secs, t1, t2) IN {l.secs, l.renew, l.rebind} \subseteq Nat
      BY <3>3 DEF Terms
    <3>5. Good(Terms(secs, t1, t2))
      BY <3>2, <3>4 DEF Good
    <3>6. PICK a : a = [Message("ack", m.xid) EXCEPT !.lease = Terms(secs, t1, t2)]
      OBVIOUS
    <3>7. a.at = now /\ a.xid = m.xid /\ a.kind = "ack" /\ a.lease = Terms(secs, t1, t2)
      BY <3>6 DEF Message
    <3> QED
      BY <2>3, <3>1, <3>5, <3>6, <3>7 DEF Grant, Answer
  <2> QED
    BY <2>1, <2>2, <2>3
<1>5. \A l : Good(l) => Good(l)'
  BY <1>2, <1>3 DEF Good, Roomy, RenewBy, AskAt, Routed
<1>6. Answers'
  <2>1. \A n \in net : n.kind # "nak" /\ (n.kind = "ack" => Good(n.lease))
    BY DEF Lasting, KeepInductive, Answers
  <2> QED
    BY <1>4, <1>5, <2>1 DEF Answers
<1>7. Counters' /\ Probing' /\ (Holding => Good(lease))'
  BY <1>2, <1>3, <1>5 DEF Lasting, KeepInductive, Counters, Probing, Good, Roomy, RenewBy, AskAt, Routed
<1>8. \A n : Coming(n)' <=> Coming(n)
  BY <1>2, <1>3 DEF Coming
<1>9. ASSUME Asking PROVE \E n \in net' : Coming(n)
  <2>1. PICK n \in net : Coming(n)
    BY <1>9 DEF Lasting, KeepInductive, Renewal, Patient, Asking, Routed
  <2>2. CASE n = m
    <3>1. Deadline \in Nat
      BY <1>9, ComingSoon
    <3>2. m.at \in Nat /\ now <= m.at + Delay
      BY <1>1
    <3>3. Coming(a)
      BY <1>1, <1>4, <2>1, <2>2, <3>1, <3>2 DEF Coming
    <3> QED
      BY <1>4, <3>3
  <2>3. CASE n # m
    BY <1>4, <2>1, <2>3
  <2> QED
    BY <2>2, <2>3
<1>10. Renewal'
  BY <1>2, <1>3, <1>8, <1>9 DEF Lasting, KeepInductive, Renewal, Patient, Asking, AskAt, Routed
<1> QED
  BY <1>2, <1>6, <1>7, <1>10 DEF KeepInductive, Ready

\* Time passes only once the client has been polled, and loses no message.
LEMMA TickLasts ==
    ASSUME Lasting, Tick
    PROVE  KeepInductive' /\ (Ready => Ready')
<1>1. /\ {now, leaseStart, lastAction, probes, conflicts} \subseteq Nat /\ Proven \in Nat /\ Delay \in Nat
      /\ Pause \in Nat /\ \A n \in net : n.at \in Nat
  BY Facts
<1>2. /\ UNCHANGED <<link, conflicts, state, xid, lease, leaseStart, lastAction, delay, probes>>
      /\ polled /\ ~polled' /\ now' = now + 1
  BY DEF Tick, client
<1>3. net' = net
  <2>1. \A n \in net : now - n.at < Delay
    BY DEF Tick, Lasting
  <2>2. \A n \in net : now' - n.at <= Delay
    BY <1>1, <1>2, <2>1
  <2> QED
    BY <2>2 DEF Tick
<1>4. UNCHANGED <<Pause, Proven, Deadline, Holding>>
  BY <1>2 DEF Proven, Pause, Longest, Jitter, Deadline, RenewBy, Holding, AskAt, Routed
<1>5. Answers' /\ Counters' /\ (Holding => Good(lease))'
  <2>1. Answers /\ Counters /\ (Holding => Good(lease))
    BY DEF Lasting, KeepInductive
  <2>2. \A l : Good(l) => Good(l)'
    BY <1>2, <1>4 DEF Good, Roomy, RenewBy, AskAt, Routed
  <2>3. Answers'
    BY <1>3, <2>1, <2>2 DEF Answers
  <2>4. (Holding => Good(lease))'
    BY <1>2, <1>4, <2>1 DEF Good, Roomy, RenewBy, AskAt, Routed
  <2> QED
    BY <1>2, <2>1, <2>3, <2>4 DEF Counters
<1>6. Probing'
  <2> SUFFICES ASSUME state = "probing" PROVE Probing'
    BY <1>2 DEF Probing
  <2>1. /\ probes <= Probes /\ lastAction <= leaseStart + 2 * Delay + probes * Pause
        /\ now < lastAction + Pause /\ delay \in Nat /\ delay <= Pause
    BY <1>2 DEF Lasting, KeepInductive, Probing
  <2>2. now' <= lastAction + Pause
    BY <1>1, <1>2, <2>1
  <2> QED
    BY <1>2, <1>4, <2>1, <2>2 DEF Probing
<1>7. Renewal'
  <2>1. CASE Patient
    <3>1. Good(lease)
      BY <2>1 DEF Lasting, KeepInductive, Holding, InUse, Patient, Routed
    <3>2. RenewBy(lease) \in Nat /\ RenewBy(lease) >= Proven + 1 /\ RenewBy(lease) >= AskAt(lease) /\ AskAt(lease) \in Nat
      BY <1>1, <3>1, LeaseFacts
    <3>3. lease.secs # Infinite => now < leaseStart + AskAt(lease) \/ now <= leaseStart + Proven
      BY <1>2, <2>1 DEF Lasting, KeepInductive, Renewal, Patient, Asking, Routed
    <3>4. lease.secs # Infinite => now' <= leaseStart + RenewBy(lease)
      BY <1>1, <1>2, <3>2, <3>3
    <3> QED
      BY <1>2, <1>4, <2>1, <3>4 DEF Renewal, Deadline, Patient, Asking, Routed
  <2>2. CASE Asking
    <3>1. \E m \in net : Coming(m)
      BY <2>2 DEF Lasting, KeepInductive, Renewal, Patient, Asking, Routed
    <3>2. \A m : Coming(m) => Coming(m)'
      BY <1>2, <1>4 DEF Coming
    <3> QED
      BY <1>2, <1>3, <2>2, <3>1, <3>2 DEF Renewal, Patient, Asking, Routed
  <2>3. CASE ~Patient /\ ~Asking
    BY <1>2, <2>3 DEF Renewal, Patient, Asking, Routed
  <2> QED
    BY <2>1, <2>2, <2>3
<1> QED
  BY <1>2, <1>5, <1>6, <1>7 DEF KeepInductive, Ready

LEMMA LastingStep ==
    ASSUME Lasting, [Next]_vars
    PROVE  KeepInductive' /\ (Ready => Ready')
<1>1. ASSUME UNCHANGED vars PROVE KeepInductive' /\ (Ready => Ready')
  <2>1. UNCHANGED <<link, now, conflicts, client, polled, net, state>>
    BY <1>1 DEF vars, client
  <2>2. Asking => \E m \in net' : Coming(m)
    BY <2>1 DEF Lasting, KeepInductive, Renewal, Patient, Asking, Routed
  <2> QED
    BY <2>1, <2>2, KeepsAll DEF Ready
<1>2. ASSUME Start PROVE KeepInductive' /\ (Ready => Ready')
  <2>1. /\ state = "off" /\ state' = "selecting" /\ lastAction' = now /\ probes' = 0
        /\ UNCHANGED <<link, now, conflicts, net>>
    BY <1>2 DEF Start, Begin, world
  <2>2. {conflicts, now} \subseteq Nat
    BY Facts
  <2> QED
    BY <2>1, <2>2, KeepsNothing DEF Holding, Ready, InUse
<1>3. ~Stop
  BY DEF Stop, Lasting
<1>4. \A m : ~Refuse(m)
  BY DEF Refuse, Lasting
<1>5. ASSUME Next PROVE KeepInductive' /\ (Ready => Ready')
  BY <1>2, <1>3, <1>4, <1>5, PollLasts, HandleLasts, AckLasts, AnswerLasts, TickLasts DEF Next
<1> QED
  BY <1>1, <1>5

\* On a suitable link, an address once bound stays in use: the client asks for
\* the renewal by the time it is due, the ACK comes within four message times
\* of that, and until then neither Poll nor Handle gives the address up.
THEOREM AddressKept == Spec /\ Suitable => KeepsAddress
<1> DEFINE Kept == Reliable => Suitable /\ KeepInductive
<1>1. Init /\ Suitable => Kept
  <2> SUFFICES ASSUME Init PROVE KeepInductive
    OBVIOUS
  <2>1. Counters /\ Answers
    BY DEF Init, Counters, Answers
  <2>2. Probing /\ Renewal /\ ~Holding
    BY DEF Init, Probing, Renewal, Holding, InUse, Patient, Asking, Routed
  <2> QED
    BY <2>1, <2>2 DEF KeepInductive
<1>2. [Next]_vars => UNCHANGED link
  BY DEF Next, vars, Start, Stop, Poll, HandleExpired, HandleConflict, Tick, HandleOffer, HandleAck,
         HandleNak, HandleRoute, HandleOther, Offer, Grant, Refuse, ArpReply, world
<1>3. ASSUME UNCHANGED link PROVE UNCHANGED <<Reliable, Suitable>>
  BY <1>3 DEF Reliable, Suitable, Overlap, MaxConflicts, Jitter, Secs, RenewTimes, RebindTimes, Roomy,
         RenewBy, AskAt, Routed, Proven, Pause, Longest
<1>4. LeaseInductive /\ Kept /\ [Next]_vars => Kept' /\ (Reliable /\ Ready => Ready')
  BY <1>2, <1>3, LastingStep DEF Lasting
<1> HIDE DEF Kept
<1> QED
  BY <1>1, <1>4, LeaseInvariant, PTL DEF Spec, KeepsAddress
=============================================================================
