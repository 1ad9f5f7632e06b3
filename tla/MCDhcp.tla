------------------------------- MODULE MCDhcp -------------------------------
(* Links for the runs of Dhcp. *)
EXTENDS Dhcp

\* Messages are lost and repeated; a lease has room for renewing and rebinding.
Lossy == [secs |-> {6}, renew |-> {0, 2}, rebind |-> {4}, jitter |-> {0},
          reliable |-> FALSE, overlap |-> FALSE, routed |-> TRUE,
          maxConflicts |-> 1, maxTime |-> 12, maxXid |-> 3]

\* A server that answers, finite and infinite leases.
Steady == [secs |-> {16, 99}, renew |-> {0, 9}, rebind |-> {14}, jitter |-> {0, 1},
           reliable |-> TRUE, overlap |-> TRUE, routed |-> TRUE,
           maxConflicts |-> 0, maxTime |-> 30, maxXid |-> 5]

\* The server lies beyond a router that the lease does not name.
Unrouted == [Steady EXCEPT !.routed = FALSE, !.secs = {16}, !.renew = {9}, !.rebind = {11}]

AllLinks == {Lossy, Steady, Unrouted}
Late == {[Lossy EXCEPT !.overlap = TRUE, !.maxConflicts = 0, !.maxTime = 9]}
=============================================================================
