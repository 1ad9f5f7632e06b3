-------------------------------- MODULE Dhcp --------------------------------
(***************************************************************************)
(* The polling DHCPv4 client, one server and one address, over a network   *)
(* that delays, loses and repeats messages.  Time is counted in ticks, and *)
(* the client is polled at least once in each.  The server and the         *)
(* neighbours on the link are external.                                    *)
(***************************************************************************)
EXTENDS Integers, FiniteSets

CONSTANTS Infinite,                        \* 0xffffffff
          Retry, MaxShift, MaxRetries,     \* pacing of DISCOVER and REQUEST
          Probes,                          \* ARP probes before use
          MinWait, MaxWait,                \* pause between renewals
          Backoff,                         \* pause after a NAK or a conflict
          Delay,                           \* ticks a message may take
          Links                            \* networks and servers to try

\* A link: what an ACK may carry; what rand may add to a pause; whether every
\* message arrives, once; whether an answer may still be under way when the
\* client asks again; whether the lease gives a next hop to the server; bounds.
Link == [secs : SUBSET (Nat \ {0}), renew : SUBSET Nat, rebind : SUBSET Nat,
         jitter : (SUBSET Nat) \ {{}}, reliable : BOOLEAN, overlap : BOOLEAN,
         routed : BOOLEAN, maxConflicts : Nat, maxTime : Nat, maxXid : Nat]

ASSUME DhcpAssumption ==
    /\ {Infinite, Retry, MaxShift, MaxRetries, Probes, MinWait, MaxWait, Backoff, Delay} \subseteq Nat
    /\ Links \subseteq Link

VARIABLES link, now, polled, lastClock,
          state, xid, lease, leaseStart, requestStart, lastAction, delay,
          retries, probes, announcements, routeReady,
          net, expiry, conflicts

client == <<state, xid, lease, leaseStart, requestStart, lastAction, delay,
            retries, probes, announcements, routeReady>>
world == <<link, now, expiry, conflicts>>
vars == <<link, now, polled, lastClock, state, xid, lease, leaseStart, requestStart, lastAction, delay,
          retries, probes, announcements, routeReady, net, expiry, conflicts>>

Secs == link.secs
RenewTimes == link.renew
RebindTimes == link.rebind
Jitter == link.jitter
Reliable == link.reliable
Overlap == link.overlap
Routed == link.routed
MaxConflicts == link.maxConflicts
MaxTime == link.maxTime
MaxXid == link.maxXid

NoLease == [secs |-> 0, renew |-> 0, rebind |-> 0]
Min2(a, b) == IF a < b THEN a ELSE b
Max2(a, b) == IF a < b THEN b ELSE a
Message(kind, x) == [kind |-> kind, xid |-> x, at |-> now, lease |-> NoLease]

InUse == {"bound", "renewing", "rebinding"}
Ready == state \in InUse
Expired == state \in InUse \cup {"probing"} /\ lease.secs # Infinite /\ now - leaseStart >= lease.secs

\* The terms of an ACK; unusable renewal times are replaced by the defaults.
Terms(secs, t1, t2) ==
    IF secs = Infinite \/ (t1 # 0 /\ t1 < t2 /\ t2 < secs)
    THEN [secs |-> secs, renew |-> t1, rebind |-> t2]
    ELSE [secs |-> secs, renew |-> secs \div 2,
          rebind |-> IF secs \div 8 = 0 THEN secs - 1 ELSE secs - (secs \div 8)]

-----------------------------------------------------------------------------
\* begin: a fresh acquisition.
Begin ==
    /\ lease' = NoLease /\ state' = "selecting" /\ xid' = xid + 1
    /\ retries' = 0 /\ lastAction' = now /\ delay' \in Jitter
    /\ probes' = 0 /\ announcements' = 0 /\ routeReady' = FALSE
    /\ UNCHANGED <<leaseStart, requestStart>>

Init ==
    /\ link \in Links /\ now = 0 /\ polled = FALSE /\ lastClock = 0
    /\ state = "off" /\ xid = 0 /\ lease = NoLease
    /\ leaseStart = 0 /\ requestStart = 0 /\ lastAction = 0 /\ delay = 0
    /\ retries = 0 /\ probes = 0 /\ announcements = 0 /\ routeReady = FALSE
    /\ net = {} /\ expiry = 0 /\ conflicts = 0

Start ==
    /\ state = "off" /\ xid < MaxXid
    /\ Begin
    /\ UNCHANGED <<world, polled, lastClock, net>>

\* Stop, on the loss of the link.
Stop ==
    /\ state # "off" /\ ~Reliable
    /\ state' = "off" /\ lease' = NoLease
    /\ UNCHANGED <<world, polled, lastClock, net, xid, leaseStart, requestStart, lastAction, delay,
                   retries, probes, announcements, routeReady>>

\* retry: the pause doubles up to a limit.
Pace == Retry * 2 ^ Min2(retries, MaxShift)
Again ==
    /\ delay' \in {Pace + j : j \in Jitter}
    /\ retries' = Min2(retries + 1, MaxRetries + 1)
    /\ lastAction' = now
Send(msgs, kind, x) ==
    net' = {m \in msgs : kind = "request" /\ ~Overlap => m.kind \notin {"request", "ack", "nak"}}
             \cup {Message(kind, x)}

DueAtRebind == IF Ready /\ lease.secs # Infinite /\ now - leaseStart >= lease.rebind THEN "rebinding" ELSE state
\* The timers of a lease: the state Poll moves to before it acts.
Due ==
    LET age == now - leaseStart IN
    IF ~Ready \/ lease.secs = Infinite THEN state
    ELSE IF age >= lease.rebind THEN "rebinding"
    ELSE IF age >= lease.renew /\ state = "bound" THEN "renewing"
    ELSE state

Wait(s) ==
    LET until == IF s = "renewing" THEN lease.rebind ELSE lease.secs
    IN  Min2(Max2((until - (now - leaseStart)) \div 2, MinWait), MaxWait)

Select ==
    /\ state = "selecting"
    /\ Again /\ Send(net, "discover", xid)
    /\ UNCHANGED <<state, xid, lease, leaseStart, requestStart, probes, announcements, routeReady>>
Request ==
    /\ state = "requesting" /\ retries < MaxRetries
    /\ Again /\ Send(net, "request", xid) /\ requestStart' = now
    /\ UNCHANGED <<state, xid, lease, leaseStart, probes, announcements, routeReady>>
GiveUp ==
    /\ (state = "requesting" /\ retries >= MaxRetries) \/ state = "backoff"
    /\ xid < MaxXid /\ Begin
    /\ UNCHANGED net
Probe ==
    /\ state = "probing" /\ lastAction' = now
    /\ IF probes < Probes
       THEN /\ probes' = probes + 1 /\ delay' \in {1 + j : j \in Jitter}
            /\ UNCHANGED <<state, announcements>>
       ELSE /\ state' = "bound" /\ announcements' = 1 /\ delay' = 1
            /\ UNCHANGED probes
    /\ UNCHANGED <<xid, lease, leaseStart, requestStart, retries, routeReady, net>>
Announce ==
    /\ state = "bound"
    /\ announcements' = IF announcements = 1 THEN 2 ELSE announcements
    /\ UNCHANGED <<state, xid, lease, leaseStart, requestStart, lastAction, delay, retries, probes,
                   routeReady, net>>

\* The renewal of a lease: the route to the server first, then the request.
\* Without a next hop nothing is sent until the lease is due for rebinding.
Renew(s, x, route) ==
    /\ s \in {"renewing", "rebinding"}
    /\ state' = s /\ xid' = x /\ routeReady' = route /\ lastAction' = now
    /\ IF s = "renewing" /\ ~route
       THEN /\ delay' = Retry /\ UNCHANGED requestStart
            /\ IF Routed THEN Send(net, "arp", x) ELSE UNCHANGED net
       ELSE delay' = Wait(s) /\ Send(net, "request", x) /\ requestStart' = now
    /\ UNCHANGED <<lease, leaseStart, retries, probes, announcements>>

Waiting == now - lastAction < delay
Poll ==
    /\ polled' = TRUE /\ lastClock' = now
    /\ UNCHANGED world
    /\ \/ state = "off" /\ UNCHANGED <<client, net>>
       \/ Expired /\ xid < MaxXid /\ Begin /\ UNCHANGED net
       \/ ~Expired /\ Due # state /\ Due = "rebinding" /\ Renew(Due, xid, routeReady)
       \/ ~Expired /\ Due # state /\ Due = "renewing" /\ xid < MaxXid /\ Renew(Due, xid + 1, FALSE)
       \/ state # "off" /\ ~Expired /\ Due = state /\ Waiting /\ UNCHANGED <<client, net>>
       \/ /\ ~Expired /\ Due = state /\ ~Waiting
          /\ Select \/ Request \/ GiveUp \/ Probe \/ Announce \/ Renew(state, xid, routeReady)

-----------------------------------------------------------------------------
(* Handle.  A frame that arrives at the deadline finds the lease expired.  *)

Left(m) == IF Reliable THEN {net \ {m}} ELSE {net, net \ {m}}
Receive(m) == m \in net /\ net' \in Left(m)

ToBackoff ==
    /\ lease' = NoLease /\ state' = "backoff" /\ lastAction' = now /\ delay' = Backoff
    /\ UNCHANGED <<xid, leaseStart, requestStart, retries, probes, announcements, routeReady>>

HandleExpired ==
    /\ Expired /\ xid < MaxXid
    /\ \E m \in net : Receive(m)
    /\ Begin
    /\ lastClock' = now
    /\ UNCHANGED <<world, polled>>

Current(kind) == {m \in net : m.kind = kind /\ m.xid = xid}

HandleOffer(m) ==
    /\ state = "selecting" /\ m \in Current("offer")
    /\ state' = "requesting"
    /\ delay' \in {Retry + j : j \in Jitter} /\ retries' = 1 /\ lastAction' = now
    /\ requestStart' = now
    /\ \E msgs \in Left(m) : Send(msgs, "request", xid)
    /\ lastClock' = now
    /\ UNCHANGED <<world, polled, xid, lease, leaseStart, probes, announcements, routeReady>>

StartedNow(m) == now
StartedOn(m) == requestStart
HandleAck(m) ==
    /\ state \in {"requesting", "renewing", "rebinding"} /\ ~Expired /\ m \in Current("ack")
    /\ Receive(m)
    /\ lease' = m.lease
    /\ leaseStart' = StartedOn(m)
    /\ lastAction' = now /\ delay' \in Jitter
    /\ IF Ready THEN state' = "bound" /\ announcements' = 2 /\ UNCHANGED probes
       ELSE state' = "probing" /\ probes' = 0 /\ UNCHANGED announcements
    /\ lastClock' = now
    /\ UNCHANGED <<world, polled, xid, requestStart, retries, routeReady>>

HandleNak(m) ==
    /\ state \in {"requesting", "renewing", "rebinding"} /\ ~Expired /\ m \in Current("nak")
    /\ Receive(m)
    /\ ToBackoff
    /\ lastClock' = now
    /\ UNCHANGED <<world, polled>>

\* Anything else is ignored.
HandleOther(m) ==
    /\ m.kind \in {"offer", "ack", "nak", "arpreply"} /\ ~Expired
    /\ net' = net \ {m}
    /\ \/ m.kind # "arpreply" /\ m.xid # xid
       \/ m.kind = "offer" /\ state # "selecting"
       \/ m.kind \in {"ack", "nak"} /\ state \notin {"requesting", "renewing", "rebinding"}
       \/ m.kind = "arpreply" /\ state # "renewing"
    /\ lastClock' = now
    /\ UNCHANGED <<client, world, polled>>

\* handleARP: the answer for the route to the server lets Poll send at once.
HandleRoute(m) ==
    /\ state = "renewing" /\ ~Expired /\ m.kind = "arpreply" /\ m \in net
    /\ state' = Due /\ routeReady' = TRUE
    /\ lastAction' = now /\ delay' = Wait(Due) /\ requestStart' = now
    /\ \E msgs \in Left(m) : Send(msgs, "request", xid)
    /\ lastClock' = now /\ polled' = TRUE
    /\ UNCHANGED <<world, xid, lease, leaseStart, retries, probes, announcements>>

\* handleARP: somebody else uses the address.
HandleConflict ==
    /\ conflicts < MaxConflicts
    /\ state \in InUse \cup {"probing"} /\ ~Expired
    /\ conflicts' = conflicts + 1
    /\ ToBackoff
    /\ lastClock' = now
    /\ UNCHANGED <<link, now, expiry, polled, net>>

-----------------------------------------------------------------------------
(* The server and the clock (external).                                    *)

Answer(m, reply) == net' = (net \ {m}) \cup {reply}
Offer(m) ==
    /\ m \in net /\ m.kind = "discover"
    /\ Answer(m, Message("offer", m.xid))
    /\ UNCHANGED <<client, world, polled, lastClock>>

Grant(m) ==
    /\ m \in net /\ m.kind = "request"
    /\ \E secs \in Secs, t1 \in RenewTimes, t2 \in RebindTimes :
          /\ Answer(m, [Message("ack", m.xid) EXCEPT !.lease = Terms(secs, t1, t2)])
          /\ expiry' = Max2(expiry, IF secs = Infinite THEN MaxTime + 1 ELSE now + secs)
    /\ UNCHANGED <<link, client, now, conflicts, polled, lastClock>>

Refuse(m) ==
    /\ m \in net /\ m.kind = "request" /\ now >= expiry /\ ~Reliable
    /\ Answer(m, Message("nak", m.xid))
    /\ UNCHANGED <<client, world, polled, lastClock>>

ArpReply(m) ==
    /\ m \in net /\ m.kind = "arp"
    /\ Answer(m, Message("arpreply", m.xid))
    /\ UNCHANGED <<client, world, polled, lastClock>>

Tick ==
    /\ polled /\ now < MaxTime
    /\ Reliable => \A m \in net : now - m.at < Delay
    /\ now' = now + 1 /\ polled' = FALSE
    /\ net' = {m \in net : now' - m.at <= Delay}
    /\ UNCHANGED <<link, client, lastClock, expiry, conflicts>>

Next ==
    \/ Start \/ Stop \/ Poll \/ HandleExpired \/ HandleConflict \/ Tick
    \/ \E m \in net : \/ HandleOffer(m) \/ HandleAck(m) \/ HandleNak(m) \/ HandleRoute(m) \/ HandleOther(m)
                      \/ Offer(m) \/ Grant(m) \/ Refuse(m) \/ ArpReply(m)

Spec == Init /\ [][Next]_vars

-----------------------------------------------------------------------------
\* The client never takes an address for its own beyond the time for which
\* the server has granted it, at any moment it has looked at the clock.
NeverUsesExpired == (Ready /\ lastClock = now) => now < expiry

\* While the server answers in time and nobody else uses the address, an
\* address once bound is renewed before it runs out and stays in use.
KeepsAddress == [][Reliable /\ Ready => Ready']_vars
=============================================================================
