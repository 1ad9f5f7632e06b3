------------------------------- MODULE Serial -------------------------------
(***************************************************************************)
(* The serialized goroutine handler of x/runtime/serial: one scheduler, one *)
(* table of channels, and blocked operations as the only points where       *)
(* another goroutine runs.                                                  *)
(*                                                                          *)
(* The handler runs in one of two ways.  With StackSupported every          *)
(* goroutine owns a stack: a blocked goroutine switches back to the         *)
(* scheduler, which is the main program inside its own blocked operation.   *)
(* Without it a blocked operation runs the next queued goroutine as a       *)
(* nested call, on top of the blocked one.                                  *)
(*                                                                          *)
(* Abstractions.  Operations carry a ticket, taken in the order they start, *)
(* that stands for the identity of a waiter or of a select group and, for a *)
(* send, for the value sent.  The lists c.senders and c.receivers only grow *)
(* at their end, by the operation that is starting, so they are the set     *)
(* `queue' ordered by ticket (and by case, within one select).  The ring    *)
(* buffer of a channel is the sequence of its values; module Ring refines   *)
(* that sequence to head, length and slots.                                 *)
(***************************************************************************)
EXTENDS Integers, Sequences, FiniteSets, Functions

CONSTANTS
    Jobs,            \* the goroutines a program may spawn
    Main,            \* the main program, which is no job of the handler
    Channels,        \* the channels a program may make
    Capacities,      \* the capacities it may make them with
    SelectShapes,    \* the select statements: sequences of [chan, dir] cases
    StackSupported,  \* runtime.StackSupported()
    MaxOps,          \* bound: the operations of one behaviour
    IntMax           \* the largest value of the target's int

Contexts == Jobs \cup {Main}
Dirs == {"send", "recv"}
Case == [chan : Channels, dir : Dirs]

ASSUME MainAssumption == Main \notin Jobs
ASSUME CapacityAssumption == Capacities \subseteq Nat
ASSUME ShapeAssumption == SelectShapes \subseteq Seq(Case)
ASSUME StackAssumption == StackSupported \in BOOLEAN
ASSUME BoundAssumption == MaxOps \in Nat /\ IntMax \in Nat

VARIABLES
    jobs,        \* Handler.jobs from jobHead on
    stack,       \* the contexts under way, innermost last
    pc,          \* what each context is doing
    created,     \* the channels in Handler.channels
    cap,         \* channel.capacity
    closed,      \* channel.closed
    buffer,      \* the values in channel.buffer, oldest first
    queue,       \* every waiter in a channel's senders or receivers
    bindings,    \* every waiter named by a binding in a channel's selects
    wait,        \* the last channel operation of each context
    now,         \* the operations started so far: the last ticket
    selectNext,  \* Handler.selectNext
    sent,        \* history: the values each channel accepted
    rcvd         \* history: the values each channel gave out, and to whom

sched == <<jobs, stack, pc>>
chans == <<created, cap, closed, buffer, queue, bindings>>
hist == <<sent, rcvd>>
vars == <<sched, chans, wait, now, selectNext, hist>>

Waiter == [task : Contexts, ticket : Nat, index : Nat, chan : Channels,
           dir : Dirs, select : BOOLEAN]

\* The last channel operation of a context: its ticket, whether it is done, the
\* case it committed (at most one, none for a default or a close), the index it
\* returned, and ok: StatusOK for a send or a close, `open' for a receive.
Outcome == [ticket : Nat, done : BOOLEAN, index : Int, did : SUBSET Case,
            ok : BOOLEAN]

DefaultIndex == -1
PanicIndex == -2     \* not an index: ready[...] was out of range

PC == {"none", "new", "running", "waiting", "forever", "drain", "done"}

----------------------------------------------------------------------------
(* Waiters *)

Waiting(c, d) == {w \in queue : w.chan = c /\ w.dir = d}

\* The order of a waiter list: append order.
Before(v, w) == \/ v.ticket < w.ticket
                \/ v.ticket = w.ticket /\ v.index < w.index

OldestIsNewest(c, d) == {w \in Waiting(c, d) : \A v \in Waiting(c, d) : ~Before(w, v)}

\* popWaiter's choice, as a set of at most one waiter.
Oldest(c, d) == {w \in Waiting(c, d) : \A v \in Waiting(c, d) : ~Before(v, w)}

GroupWithoutSiblings(w) == {v \in bindings : v = w}

\* The registrations of the select group w belongs to (none for a plain one).
Group(w) == {v \in bindings : v.ticket = w.ticket}

\* Whether `complete' goes through.  It gives up on a select waiter with no
\* binding; a group that has selected a case has no bindings left.
Completes(w) == w.select => w \in bindings

Result(n, i, did, ok) ==
    [ticket |-> n, done |-> TRUE, index |-> i, did |-> did, ok |-> ok]

Pending(n) == [ticket |-> n, done |-> FALSE, index |-> 0, did |-> {}, ok |-> FALSE]

CommittedAlwaysOK(w, ok) ==
    Result(w.ticket, w.index, {[chan |-> w.chan, dir |-> w.dir]}, TRUE)
Committed(w, ok) == Result(w.ticket, w.index, {[chan |-> w.chan, dir |-> w.dir]}, ok)

----------------------------------------------------------------------------
(* The scheduler *)

Init ==
    /\ jobs = <<>>
    /\ stack = <<Main>>
    /\ pc = [t \in Contexts |-> IF t = Main THEN "running" ELSE "none"]
    /\ created = {}
    /\ cap = [c \in Channels |-> 0]
    /\ closed = [c \in Channels |-> FALSE]
    /\ buffer = [c \in Channels |-> <<>>]
    /\ queue = {}
    /\ bindings = {}
    /\ wait = [t \in Contexts |-> Result(0, 0, {}, FALSE)]
    /\ now = 0
    /\ selectNext = 0
    /\ sent = [c \in Channels |-> <<>>]
    /\ rcvd = [c \in Channels |-> <<>>]

Top == stack[Len(stack)]
Pop == SubSeq(stack, 1, Len(stack) - 1)
Running(t) == t = Top /\ pc[t] = "running"

Queued(t) == \E k \in 1..Len(jobs) : jobs[k] = t

EnqueuesNoTask(t) == FALSE
EnqueuesAnyMode(t) == t # Main /\ pc[t] # "done" /\ ~Queued(t)

\* Whether waking the waiter of context t puts a job in the queue: its task is
\* h.current at registration, which is nil outside a goroutine's own stack, and
\* enqueue skips a job that is done or queued.
Enqueues(t) == StackSupported /\ t # Main /\ pc[t] # "done" /\ ~Queued(t)

Woken(t) == IF Enqueues(t) THEN Append(jobs, t) ELSE jobs

SuspendMainToo(t, at) == pc' = [pc EXCEPT ![t] = at] /\ stack' = Pop

\* A goroutine with its own stack switches back to the scheduler; any other
\* context stays on top and becomes the scheduler.
Suspend(t, at) ==
    /\ pc' = [pc EXCEPT ![t] = at]
    /\ stack' = IF StackSupported /\ t # Main THEN Pop ELSE stack

Spawn(t, j) ==
    /\ Running(t)
    /\ j \in Jobs
    /\ pc[j] = "none"
    /\ pc' = [pc EXCEPT ![j] = "new"]
    /\ jobs' = Append(jobs, j)
    /\ UNCHANGED <<stack, chans, wait, now, selectNext, hist>>

\* The contexts that call runOne: a blocked operation that is not done, the loop
\* of blockForever, and Drain.
Scheduling(t) ==
    /\ t = Top
    /\ \/ pc[t] = "waiting" /\ ~wait[t].done
       \/ pc[t] \in {"forever", "drain"}

\* Position k holds the first job that is not done.
FirstLive(k) == /\ k \in 1..Len(jobs)
                /\ pc[jobs[k]] # "done"
                /\ \A i \in 1..(k - 1) : pc[jobs[i]] = "done"

\* runOne takes the job: it starts, or it goes on after the switch it blocked in
\* and, if its wait is still not done, switches straight back.
RunOne(t) ==
    /\ Scheduling(t)
    /\ \E k \in 1..Len(jobs) :
        /\ FirstLive(k)
        /\ jobs' = SubSeq(jobs, k + 1, Len(jobs))
        /\ LET j == jobs[k] IN
           \/ /\ pc[j] = "new" \/ (pc[j] = "waiting" /\ wait[j].done)
              /\ pc' = [pc EXCEPT ![j] = "running"]
              /\ stack' = Append(stack, j)
           \/ /\ ~(pc[j] = "new" \/ (pc[j] = "waiting" /\ wait[j].done))
              /\ UNCHANGED <<pc, stack>>
    /\ UNCHANGED <<chans, wait, now, selectNext, hist>>

\* runOne finds no live job and clears the queue.  Drain returns; a blocked
\* operation enters blockForever, whose loop goes on for good.
RunNone(t) ==
    /\ Scheduling(t)
    /\ pc[t] # "forever"
    /\ \A k \in 1..Len(jobs) : ~FirstLive(k)
    /\ jobs' = <<>>
    /\ pc' = [pc EXCEPT ![t] = IF pc[t] = "drain" THEN "running" ELSE "forever"]
    /\ UNCHANGED <<stack, chans, wait, now, selectNext, hist>>

\* The loop of a blocked operation on top of the stack sees that it is done.
Resume(t) ==
    /\ t = Top
    /\ pc[t] = "waiting"
    /\ wait[t].done
    /\ pc' = [pc EXCEPT ![t] = "running"]
    /\ UNCHANGED <<jobs, stack, chans, wait, now, selectNext, hist>>

\* Drain, called by the main program or (without stacks) by a nested goroutine.
\* With stacks runOne saves its caller in h.scheduler: called by a goroutine it
\* would overwrite the main program saved there.  No such call is modelled.
Drain(t) ==
    /\ Running(t)
    /\ StackSupported => t = Main
    /\ pc' = [pc EXCEPT ![t] = "drain"]
    /\ UNCHANGED <<jobs, stack, chans, wait, now, selectNext, hist>>

\* The entry of a goroutine returns, to the scheduler or to its caller; the main
\* program returns, and with it the process ends.
Finish(t) ==
    /\ Running(t)
    /\ pc' = [pc EXCEPT ![t] = "done"]
    /\ stack' = IF t = Main THEN stack ELSE Pop
    /\ UNCHANGED <<jobs, chans, wait, now, selectNext, hist>>

----------------------------------------------------------------------------
(* Channel operations.  Each takes the next ticket, n. *)

Starts(t) == Running(t) /\ now < MaxOps /\ now' = now + 1

ChanCreate(t, c, k) ==
    /\ Running(t)
    /\ c \notin created
    /\ created' = created \cup {c}
    /\ cap' = [cap EXCEPT ![c] = k]
    /\ UNCHANGED <<sched, closed, buffer, queue, bindings, wait, now, selectNext, hist>>

\* Waiter w is popped and completed while context t's own operation returns own.
\* Siblings of a select leave every list before the task is made runnable.
Complete(t, own, w, ok) ==
    IF Completes(w)
    THEN /\ queue' = queue \ ({w} \cup Group(w))
         /\ bindings' = bindings \ Group(w)
         /\ wait' = [wait EXCEPT ![w.task] = Committed(w, ok), ![t] = own]
         /\ jobs' = Woken(w.task)
    ELSE /\ queue' = queue \ {w}
         /\ wait' = [wait EXCEPT ![t] = own]
         /\ UNCHANGED <<bindings, jobs>>

Accept(c, v) == sent' = [sent EXCEPT ![c] = Append(@, v)]
Give(c, v, n) == rcvd' = [rcvd EXCEPT ![c] = Append(@, [value |-> v, by |-> n])]

SendReadyOffByOne(c) ==
    closed[c] \/ Waiting(c, "recv") # {} \/ Len(buffer[c]) <= cap[c]
RecvReadyIgnoresSenders(c) == buffer[c] # <<>> \/ closed[c]
SendReady(c) == closed[c] \/ Waiting(c, "recv") # {} \/ Len(buffer[c]) < cap[c]
RecvReady(c) == buffer[c] # <<>> \/ Waiting(c, "send") # {} \/ closed[c]

\* The part of a send that does not block, as case i of t's operation: it fails
\* on a closed channel, else serves the oldest receiver, else fills the buffer.
SendNow(t, c, i) ==
    LET n == now + 1
        own(ok) == Result(n, i, {[chan |-> c, dir |-> "send"]}, ok)
    IN  /\ SendReady(c)
        /\ \/ /\ closed[c]
              /\ wait' = [wait EXCEPT ![t] = own(FALSE)]
              /\ UNCHANGED <<jobs, buffer, queue, bindings, hist>>
           \/ /\ ~closed[c]
              /\ \E w \in Oldest(c, "recv") :
                    /\ Complete(t, own(TRUE), w, TRUE)
                    /\ Accept(c, n)
                    /\ IF Completes(w) THEN Give(c, n, w.ticket) ELSE UNCHANGED rcvd
              /\ UNCHANGED buffer
           \/ /\ ~closed[c]
              /\ Waiting(c, "recv") = {}
              /\ buffer' = [buffer EXCEPT ![c] = Append(@, n)]
              /\ Accept(c, n)
              /\ wait' = [wait EXCEPT ![t] = own(TRUE)]
              /\ UNCHANGED <<jobs, queue, bindings, rcvd>>
        /\ UNCHANGED <<stack, pc, created, cap, closed>>

\* fillBufferFromSender: the slot freed by a receive takes a blocked send's value.
RefillDropsValue(b, v) == Tail(b)
Refill(b, v) == Append(Tail(b), v)

\* The part of a receive that does not block: it pops the buffer, whose free slot
\* the oldest sender fills; else it takes the value of the
\* oldest sender; else the channel is closed.
RecvNow(t, c, i) ==
    LET n == now + 1
        own(ok) == Result(n, i, {[chan |-> c, dir |-> "recv"]}, ok)
    IN  /\ RecvReady(c)
        /\ \/ /\ buffer[c] # <<>>
              /\ Give(c, Head(buffer[c]), n)
              /\ \/ /\ Waiting(c, "send") = {}
                    /\ buffer' = [buffer EXCEPT ![c] = Tail(@)]
                    /\ wait' = [wait EXCEPT ![t] = own(TRUE)]
                    /\ UNCHANGED <<jobs, queue, bindings, sent>>
                 \/ \E w \in Oldest(c, "send") :
                    /\ buffer' = [buffer EXCEPT ![c] = Refill(@, w.ticket)]
                    /\ Accept(c, w.ticket)
                    /\ Complete(t, own(TRUE), w, TRUE)
           \/ /\ buffer[c] = <<>>
              /\ \E w \in Oldest(c, "send") :
                    /\ Accept(c, w.ticket)
                    /\ Give(c, w.ticket, n)
                    /\ Complete(t, own(TRUE), w, TRUE)
              /\ UNCHANGED buffer
           \/ /\ buffer[c] = <<>>
              /\ Waiting(c, "send") = {}
              /\ wait' = [wait EXCEPT ![t] = own(FALSE)]
              /\ UNCHANGED <<jobs, buffer, queue, bindings, hist>>
        /\ UNCHANGED <<stack, pc, created, cap, closed>>

\* An operation on a nil channel, or on a handle that names no channel.
BlockForever(t, c) ==
    /\ Starts(t)
    /\ c \notin created
    /\ Suspend(t, "forever")
    /\ wait' = [wait EXCEPT ![t] = Pending(now + 1)]
    /\ UNCHANGED <<jobs, chans, selectNext, hist>>

\* A plain operation that cannot go ahead joins the list of its channel.
Block(t, c, d) ==
    /\ Suspend(t, "waiting")
    /\ wait' = [wait EXCEPT ![t] = Pending(now + 1)]
    /\ queue' = queue \cup {[task |-> t, ticket |-> now + 1, index |-> 0, chan |-> c,
                             dir |-> d, select |-> FALSE]}
    /\ UNCHANGED <<jobs, created, cap, closed, buffer, bindings, hist>>

ChanSend(t, c) ==
    /\ Starts(t)
    /\ c \in created
    /\ \/ SendNow(t, c, 0)
       \/ ~SendReady(c) /\ Block(t, c, "send")
    /\ UNCHANGED selectNext

ChanReceive(t, c) ==
    /\ Starts(t)
    /\ c \in created
    /\ \/ RecvNow(t, c, 0)
       \/ ~RecvReady(c) /\ Block(t, c, "recv")
    /\ UNCHANGED selectNext

\* The cases of a select that could go ahead; a nil channel never could.
Ready(cases) ==
    {i \in 1..Len(cases) :
        /\ cases[i].chan \in created
        /\ IF cases[i].dir = "send" THEN SendReady(cases[i].chan)
                                    ELSE RecvReady(cases[i].chan)}

\* Case i stands at position selectNext % len(ready) of the ready list.  Go's %
\* takes the sign of its dividend, so a negative selectNext that is no multiple
\* of the length is out of range and panics.
Remainder(a, n) == IF a >= 0 THEN a % n ELSE -((-a) % n)
Position(i, ready) == Cardinality({j \in ready : j < i})
SelectPosition(ready) == Remainder(selectNext, Cardinality(ready))

\* h.selectNext++, in the target's int.
Increment(a) == IF a = IntMax THEN -IntMax - 1 ELSE a + 1

SelectReady(t, cases) ==
    /\ selectNext' = Increment(selectNext)
    /\ \E i \in Ready(cases) :
        /\ Position(i, Ready(cases)) = SelectPosition(Ready(cases))
        /\ IF cases[i].dir = "send" THEN SendNow(t, cases[i].chan, i)
                                    ELSE RecvNow(t, cases[i].chan, i)

\* No position is negative: the expression ready[...] panics in the caller.
SelectPanic(t, cases) ==
    /\ Ready(cases) # {}
    /\ SelectPosition(Ready(cases)) < 0
    /\ wait' = [wait EXCEPT ![t] = Result(now + 1, PanicIndex, {}, FALSE)]
    /\ UNCHANGED <<sched, chans, selectNext, hist>>

SelectDefault(t, cases) ==
    /\ Ready(cases) = {}
    /\ wait' = [wait EXCEPT ![t] = Result(now + 1, DefaultIndex, {}, TRUE)]
    /\ UNCHANGED <<sched, chans, selectNext, hist>>

\* waitSelect registers every case on a channel that exists, and binds it.
CaseWaiters(t, cases) ==
    {[task |-> t, ticket |-> now + 1, index |-> i, chan |-> cases[i].chan,
      dir |-> cases[i].dir, select |-> TRUE] :
        i \in {j \in 1..Len(cases) : cases[j].chan \in created}}

WaitSelect(t, cases) ==
    /\ Ready(cases) = {}
    /\ Suspend(t, "waiting")
    /\ wait' = [wait EXCEPT ![t] = Pending(now + 1)]
    /\ queue' = queue \cup CaseWaiters(t, cases)
    /\ bindings' = bindings \cup CaseWaiters(t, cases)
    /\ UNCHANGED <<jobs, created, cap, closed, buffer, selectNext, hist>>

ChanSelect(t, cases, hasDefault) ==
    /\ Starts(t)
    /\ \/ SelectReady(t, cases)
       \/ SelectPanic(t, cases)
       \/ hasDefault /\ SelectDefault(t, cases)
       \/ ~hasDefault /\ WaitSelect(t, cases)

\* The order in which ChanClose empties the lists of its channel.
Sooner(v, w) == \/ v.dir = "send" /\ w.dir = "recv"
                \/ v.dir = w.dir /\ Before(v, w)

\* Of the waiters of one operation the loops complete the first; it takes its
\* siblings out of the lists.
Completed(c) ==
    {w \in queue : /\ w.chan = c
                   /\ Completes(w)
                   /\ \A v \in queue : v.chan = c /\ v.ticket = w.ticket => ~Sooner(v, w)}

\* The orderings of a set of waiters by Sooner (there is one).
Orderings(S) ==
    {s \in Bijection(1..Cardinality(S), S) :
        \A i, j \in 1..Cardinality(S) : i < j => Sooner(s[i], s[j])}

\* The three loops of ChanClose, with the completed receivers in order r and the
\* waiters to make runnable in order q: senders fail, receivers take what is
\* buffered, and the others learn that the channel is closed.
CloseWith(t, c, r, q) ==
    LET W == Completed(c)
        drained == IF Len(r) < Len(buffer[c]) THEN Len(r) ELSE Len(buffer[c])
        open(w) == \E k \in 1..drained : r[k] = w
    IN  /\ closed' = [closed EXCEPT ![c] = TRUE]
        /\ queue' = {v \in queue : v.chan # c /\ \A w \in W : v \notin Group(w)}
        /\ bindings' = {v \in bindings : \A w \in W : v \notin Group(w)}
        /\ buffer' = [buffer EXCEPT ![c] = SubSeq(@, drained + 1, Len(@))]
        /\ rcvd' = [rcvd EXCEPT ![c] = @ \o [k \in 1..drained |->
                       [value |-> buffer[c][k], by |-> r[k].ticket]]]
        /\ jobs' = jobs \o [k \in 1..Len(q) |-> q[k].task]
        /\ wait' = [x \in Contexts |->
                       IF x = t THEN Result(now + 1, 0, {}, TRUE)
                       ELSE IF \E w \in W : w.task = x
                       THEN LET w == CHOOSE w \in W : w.task = x
                            IN  Committed(w, open(w))
                       ELSE wait[x]]
        /\ UNCHANGED sent

CloseOpen(t, c) ==
    \E r \in Orderings({w \in Completed(c) : w.dir = "recv"}),
       q \in Orderings({w \in Completed(c) : Enqueues(w.task)}) : CloseWith(t, c, r, q)

\* ChanClose: StatusInvalid on no channel, StatusClosed on a closed one.
ChanClose(t, c) ==
    /\ Starts(t)
    /\ \/ /\ c \in created
          /\ ~closed[c]
          /\ CloseOpen(t, c)
       \/ /\ c \in created => closed[c]
          /\ wait' = [wait EXCEPT ![t] = Result(now + 1, 0, {}, FALSE)]
          /\ UNCHANGED <<jobs, closed, buffer, queue, bindings, hist>>
    /\ UNCHANGED <<stack, pc, created, cap, selectNext>>

----------------------------------------------------------------------------
Schedule(t) == RunOne(t) \/ RunNone(t) \/ Resume(t)

Program(t) ==
    \/ \E j \in Jobs : Spawn(t, j)
    \/ \E c \in Channels :
        \/ \E k \in Capacities : ChanCreate(t, c, k)
        \/ BlockForever(t, c)
        \/ ChanSend(t, c)
        \/ ChanReceive(t, c)
        \/ ChanClose(t, c)
    \/ \E cases \in SelectShapes, hasDefault \in BOOLEAN : ChanSelect(t, cases, hasDefault)
    \/ Drain(t)
    \/ Finish(t)

Next == \E t \in Contexts : Schedule(t) \/ Program(t)

Spec == Init /\ [][Next]_vars

\* The assumptions a cooperative scheduler makes: the scheduler's own loops go
\* on, and a goroutine that has control comes to its next runtime call.  There
\* is no preemption in the code, so nothing weaker would let others run.
Fairness == \A t \in Contexts : WF_vars(Schedule(t)) /\ WF_vars(Program(t))

FairSpec == Spec /\ Fairness

----------------------------------------------------------------------------
(* Properties *)

\* The state has its type: ids, lists and outcomes range over what the handler's
\* fields can hold.
TypeOK ==
    /\ jobs \in Seq(Jobs)
    /\ stack \in Seq(Contexts) /\ Len(stack) > 0 /\ stack[1] = Main
    /\ pc \in [Contexts -> PC]
    /\ created \subseteq Channels
    /\ cap \in [Channels -> Nat]
    /\ closed \in [Channels -> BOOLEAN]
    /\ buffer \in [Channels -> Seq(Nat)]
    /\ queue \subseteq Waiter /\ IsFiniteSet(queue)
    /\ bindings \subseteq Waiter
    /\ wait \in [Contexts -> Outcome]
    /\ now \in Nat
    /\ selectNext \in Int
    /\ sent \in [Channels -> Seq(Nat)]
    /\ rcvd \in [Channels -> Seq([value : Nat, by : Nat])]

\* An operation waits only while it cannot go ahead.  No receiver waits on a
\* channel that holds a value, is closed, or has a sender of another operation;
\* no sender waits on one with a free slot.  ChanSend, ChanReceive, selectApply,
\* fillBufferFromSender and ChanClose each keep this from their own side.
NoMissedRendezvous ==
    \A w \in queue :
        /\ w.chan \in created
        /\ ~closed[w.chan]
        /\ w.dir = "recv" => /\ buffer[w.chan] = <<>>
                             /\ \A v \in Waiting(w.chan, "send") : v.ticket = w.ticket
        /\ w.dir = "send" => Len(buffer[w.chan]) = cap[w.chan]

\* The lists hold the registrations of operations that are still blocked and
\* nothing else: when `complete' ends one case of a select, no sibling is left in
\* any channel, and each select waiter has the binding `complete' looks for.
Registered ==
    /\ \A w \in queue : /\ pc[w.task] \in {"waiting", "forever"}
                        /\ ~wait[w.task].done
                        /\ w.ticket = wait[w.task].ticket
    /\ bindings = {w \in queue : w.select}

\* What the two invariants above rest on: tickets tell operations apart, only the
\* cases of one select share one, and no buffer holds more than its capacity.
Tickets ==
    /\ \A t \in Contexts : wait[t].ticket <= now
    /\ \A v, w \in queue : v.ticket = w.ticket => v = w \/ (v.select /\ w.select)

Bounded ==
    \A c \in Channels : /\ Len(buffer[c]) <= cap[c]
                        /\ c \notin created => buffer[c] = <<>>

Inductive == TypeOK /\ NoMissedRendezvous /\ Registered /\ Tickets /\ Bounded

\* With stacks, the queue holds each runnable goroutine once and no other: a
\* goroutine whose wait is done is queued (no wakeup is lost), and none is
\* queued that is running, finished or still waiting (none is spurious).
NoLostWakeup ==
    \A j \in Jobs :
        /\ Queued(j) <=> \/ pc[j] = "new"
                         \/ StackSupported /\ pc[j] = "waiting" /\ wait[j].done
        /\ \A i, k \in 1..Len(jobs) : jobs[i] = j /\ jobs[k] = j => i = k

\* A channel loses, repeats and reorders nothing: what it accepted is what it
\* gave out followed by what it holds, through every path a value can take (the
\* buffer, a rendezvous, the refill of a freed slot, the drain of a close).
Conservation ==
    \A c \in Channels :
        sent[c] = [k \in 1..Len(rcvd[c]) |-> rcvd[c][k].value] \o buffer[c]

\* Blocked senders, and blocked receivers, are served in the order they came.
ServedInOrder ==
    \A c \in Channels :
        /\ \A i, k \in 1..Len(sent[c]) : i < k => sent[c][i] < sent[c][k]
        /\ \A i, k \in 1..Len(rcvd[c]) : i < k => rcvd[c][i].by < rcvd[c][k].by

Transfers(n) ==
    {<<c, "send">> : c \in {x \in Channels : \E k \in 1..Len(sent[x]) : sent[x][k] = n}}
    \cup
    {<<c, "recv">> : c \in {x \in Channels : \E k \in 1..Len(rcvd[x]) : rcvd[x][k].by = n}}

\* What an operation reports is what happened: a blocked one has transferred
\* nothing, one that reports success has made the transfer of the one case it
\* reports, one that reports a closed channel (or a default) has made none.
OutcomeAgrees ==
    \A t \in Contexts :
        wait[t].ticket # 0 =>
            Transfers(wait[t].ticket) =
                IF wait[t].done /\ wait[t].ok
                THEN {<<k.chan, k.dir>> : k \in wait[t].did}
                ELSE {}

Go == INSTANCE GoChannel WITH
    made <- created,
    given <- [c \in Channels |-> [k \in 1..Len(rcvd[c]) |-> rcvd[c][k].value]],
    Values <- 1..MaxOps

\* The handler's channels are Go's: every step of the handler, however many
\* waiters it completes, is one step of GoChannel or none.  So a channel never
\* holds more than its capacity, a close is for good, and a closed channel
\* accepts nothing more but still gives out what it holds.
ImplementsGoChannel == Go!Spec

\* Ready choices rotate: a select with a ready case never fails to take one.
SelectNeverPanics == \A t \in Contexts : wait[t].index # PanicIndex

\* A goroutine that is spawned, or whose wait is done, runs in the end, and so
\* does the main program, unless the program ends first.
EventuallyRuns ==
    \A t \in Contexts :
        (pc[t] = "new" \/ (pc[t] = "waiting" /\ wait[t].done))
            ~> (pc[t] = "running" \/ pc[Main] = "done")
=============================================================================
