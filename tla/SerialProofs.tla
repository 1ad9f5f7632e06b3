---------------------------- MODULE SerialProofs ----------------------------
(***************************************************************************)
(* Proofs about Serial, for any goroutines, channels, capacities, select   *)
(* statements and bounds, and for both ways of running goroutines: first   *)
(* how operations block and wake, then what channels do with values and    *)
(* that the handler implements GoChannel.                                  *)
(***************************************************************************)
EXTENDS Serial, FiniteSetTheorems, SequenceTheorems, WellFoundedInduction, TLAPS

USE DEF Dirs

----------------------------------------------------------------------------
(* Facts about the operators *)

\* Leaving a nested context keeps the ones below it.
LEMMA PopSeq ==
    ASSUME NEW S, NEW s \in Seq(S), Len(s) > 1
    PROVE  /\ SubSeq(s, 1, Len(s) - 1) \in Seq(S)
           /\ Len(SubSeq(s, 1, Len(s) - 1)) = Len(s) - 1
           /\ \A i \in 1..(Len(s) - 1) : SubSeq(s, 1, Len(s) - 1)[i] = s[i]
<1>1. Len(s) - 1 \in Nat
  OBVIOUS
<1> QED
  BY <1>1

\* Dropping the first n values of a sequence.
LEMMA DropLength ==
    ASSUME NEW s \in Seq(Nat), NEW n \in 0..Len(s)
    PROVE  Len(SubSeq(s, n + 1, Len(s))) = Len(s) - n
<1>1. Len(s) \in Nat /\ n \in Nat /\ n <= Len(s)
  OBVIOUS
<1> QED
  BY <1>1

\* A function on 1..n is a sequence of length n.
LEMMA FunctionSeq ==
    ASSUME NEW S, NEW n \in Nat, NEW f \in [1..n -> S]
    PROVE  f \in Seq(S) /\ Len(f) = n
  OBVIOUS

\* The results the operations build are outcomes.
LEMMA ResultType ==
    ASSUME NEW n \in Nat, NEW i \in Int, NEW did \in SUBSET Case, NEW ok \in BOOLEAN
    PROVE  Result(n, i, did, ok) \in Outcome
  BY DEF Result, Outcome

LEMMA PendingType == \A n \in Nat : Pending(n) \in Outcome
  BY DEF Pending, Outcome

LEMMA CommittedType ==
    ASSUME NEW w \in Waiter, NEW ok \in BOOLEAN
    PROVE  Committed(w, ok) \in Outcome
  BY DEF Committed, Result, Waiter, Outcome, Case

LEMMA CaseResultType ==
    ASSUME NEW n \in Nat, NEW i \in Int, NEW c \in Channels, NEW d \in Dirs,
           NEW ok \in BOOLEAN
    PROVE  Result(n, i, {[chan |-> c, dir |-> d]}, ok) \in Outcome
  BY DEF Result, Outcome, Case

\* A subset of the waiter lists is finite.
LEMMA SubQueueFinite ==
    ASSUME TypeOK, NEW S \in SUBSET queue
    PROVE  IsFiniteSet(S) /\ Cardinality(S) \in Nat
  BY FS_Subset, FS_CardinalityType DEF TypeOK

\* A select registers finitely many waiters, all on channels that exist.
LEMMA CaseWaitersType ==
    ASSUME TypeOK, NEW t \in Contexts, NEW cases \in Seq(Case)
    PROVE  CaseWaiters(t, cases) \subseteq Waiter /\ IsFiniteSet(CaseWaiters(t, cases))
<1> DEFINE D == {j \in 1..Len(cases) : cases[j].chan \in created}
           W(i) == [task |-> t, ticket |-> now + 1, index |-> i, chan |-> cases[i].chan,
                    dir |-> cases[i].dir, select |-> TRUE]
           f == [i \in D |-> W(i)]
<1>1. CaseWaiters(t, cases) = {W(i) : i \in D}
  BY DEF CaseWaiters
<1>2. \A i \in D : cases[i] \in Case /\ i \in Nat
  OBVIOUS
<1>3. \A i \in D : W(i) \in Waiter
  <2>1. now + 1 \in Nat
    BY DEF TypeOK
  <2> QED
    BY <1>2, <2>1 DEF Waiter, Case
<1>4. IsFiniteSet(D)
  <2>1. IsFiniteSet(1..Len(cases))
    BY FS_Interval
  <2> QED
    BY <2>1, FS_Subset
<1>5. f \in Surjection(D, CaseWaiters(t, cases))
  BY <1>1 DEF Surjection
<1>6. IsFiniteSet(CaseWaiters(t, cases))
  BY <1>4, <1>5, FS_Surjection
<1> QED
  BY <1>1, <1>3, <1>6

----------------------------------------------------------------------------
(* Type correctness *)

LEMMA TypeInit == Init => TypeOK
<1> SUFFICES ASSUME Init PROVE TypeOK
  OBVIOUS
<1>1. wait \in [Contexts -> Outcome]
  BY DEF Init, Result, Outcome
<1>2. IsFiniteSet(queue) /\ queue \subseteq Waiter /\ bindings \subseteq Waiter
  BY FS_EmptySet DEF Init
<1>3. stack \in Seq(Contexts) /\ Len(stack) > 0 /\ stack[1] = Main
  BY DEF Init, Contexts
<1>4. pc \in [Contexts -> PC]
  BY DEF Init, PC
<1>5. jobs \in Seq(Jobs) /\ buffer \in [Channels -> Seq(Nat)]
  BY DEF Init
<1>6. sent \in [Channels -> Seq(Nat)] /\ rcvd \in [Channels -> Seq([value : Nat, by : Nat])]
  BY DEF Init
<1>7. /\ created \subseteq Channels
      /\ cap \in [Channels -> Nat]
      /\ closed \in [Channels -> BOOLEAN]
      /\ now \in Nat
      /\ selectNext \in Int
  BY DEF Init
<1> QED
  BY <1>1, <1>2, <1>3, <1>4, <1>5, <1>6, <1>7 DEF TypeOK

\* The histories keep their types.
LEMMA AcceptType ==
    ASSUME TypeOK, NEW c \in Channels, NEW v \in Nat, Accept(c, v)
    PROVE  sent' \in [Channels -> Seq(Nat)]
  BY DEF TypeOK, Accept

LEMMA GiveType ==
    ASSUME TypeOK, NEW c \in Channels, NEW v \in Nat, NEW n \in Nat, Give(c, v, n)
    PROVE  rcvd' \in [Channels -> Seq([value : Nat, by : Nat])]
<1> DEFINE E == [value : Nat, by : Nat]
           e == [value |-> v, by |-> n]
<1>1. e \in E
  OBVIOUS
<1>2. rcvd \in [Channels -> Seq(E)] /\ rcvd' = [rcvd EXCEPT ![c] = Append(@, e)]
  BY DEF TypeOK, Give
<1> HIDE DEF E, e
<1>3. rcvd' \in [Channels -> Seq(E)]
  BY <1>1, <1>2
<1> QED
  BY <1>3 DEF E

\* Completing a waiter keeps the types of what `complete' writes.
LEMMA CompleteType ==
    ASSUME TypeOK, NEW t \in Contexts, NEW own \in Outcome, NEW w \in queue,
           NEW ok \in BOOLEAN, Complete(t, own, w, ok)
    PROVE  /\ queue' \subseteq Waiter /\ IsFiniteSet(queue')
           /\ bindings' \subseteq Waiter
           /\ wait' \in [Contexts -> Outcome]
           /\ jobs' \in Seq(Jobs)
<1>1. w \in Waiter /\ w.task \in Contexts
  BY DEF TypeOK, Waiter
<1>2. Committed(w, ok) \in Outcome
  BY <1>1, CommittedType
<1>3. queue' \in SUBSET queue /\ bindings' \in SUBSET bindings
  BY DEF Complete
<1>4. IsFiniteSet(queue')
  BY <1>3, SubQueueFinite
<1>5. wait' \in [Contexts -> Outcome]
  BY <1>1, <1>2 DEF Complete, TypeOK
<1>6. jobs' \in Seq(Jobs)
  <2>1. jobs \in Seq(Jobs) /\ (w.task # Main => w.task \in Jobs)
    BY <1>1 DEF TypeOK, Contexts
  <2>2. jobs' = jobs \/ (w.task # Main /\ jobs' = Append(jobs, w.task))
    BY DEF Complete, Woken, Enqueues
  <2> QED
    BY <2>1, <2>2
<1> QED
  BY <1>3, <1>4, <1>5, <1>6 DEF TypeOK

LEMMA SendNowType ==
    ASSUME TypeOK, NEW t \in Contexts, NEW c \in Channels, NEW i \in Int,
           SendNow(t, c, i), now' = now + 1, selectNext' \in Int
    PROVE  TypeOK'
<1> DEFINE own(ok) == Result(now + 1, i, {[chan |-> c, dir |-> "send"]}, ok)
<1>1. own(TRUE) \in Outcome /\ own(FALSE) \in Outcome
  BY DEF Result, Outcome, Case, TypeOK
<1>2. now' \in Nat /\ UNCHANGED <<stack, pc, created, cap, closed>>
  BY DEF TypeOK, SendNow
<1> HIDE DEF own
<1>3. CASE /\ closed[c]
           /\ wait' = [wait EXCEPT ![t] = own(FALSE)]
           /\ UNCHANGED <<jobs, buffer, queue, bindings, hist>>
  BY <1>1, <1>2, <1>3 DEF TypeOK, hist
<1>4. ASSUME NEW w \in Oldest(c, "recv"),
             Complete(t, own(TRUE), w, TRUE),
             Accept(c, now + 1),
             IF Completes(w) THEN Give(c, now + 1, w.ticket) ELSE UNCHANGED rcvd,
             UNCHANGED buffer
      PROVE  TypeOK'
  <2>1. w \in queue /\ w.ticket \in Nat
    BY DEF Oldest, Waiting, TypeOK, Waiter
  <2>2. /\ queue' \subseteq Waiter /\ IsFiniteSet(queue')
        /\ bindings' \subseteq Waiter
        /\ wait' \in [Contexts -> Outcome]
        /\ jobs' \in Seq(Jobs)
    BY <1>1, <1>4, <2>1, CompleteType
  <2>3. rcvd' \in [Channels -> Seq([value : Nat, by : Nat])]
    <3>1. CASE Completes(w)
      BY <1>4, <2>1, <3>1, <1>2, GiveType
    <3>2. CASE ~Completes(w)
      BY <1>4, <3>2 DEF TypeOK
    <3> QED
      BY <3>1, <3>2
  <2>4. sent' \in [Channels -> Seq(Nat)]
    BY <1>2, <1>4, AcceptType
  <2> QED
    BY <1>2, <1>4, <2>2, <2>3, <2>4 DEF TypeOK
<1>5. CASE /\ buffer' = [buffer EXCEPT ![c] = Append(@, now + 1)]
           /\ Accept(c, now + 1)
           /\ wait' = [wait EXCEPT ![t] = own(TRUE)]
           /\ UNCHANGED <<jobs, queue, bindings, rcvd>>
  <2>1. sent' \in [Channels -> Seq(Nat)]
    BY <1>2, <1>5, AcceptType
  <2>2. buffer' \in [Channels -> Seq(Nat)]
    BY <1>2, <1>5 DEF TypeOK
  <2> QED
    BY <1>1, <1>2, <1>5, <2>1, <2>2 DEF TypeOK
<1> QED
  BY <1>3, <1>4, <1>5 DEF SendNow, own

LEMMA RecvNowType ==
    ASSUME TypeOK, NEW t \in Contexts, NEW c \in Channels, NEW i \in Int,
           RecvNow(t, c, i), now' = now + 1, selectNext' \in Int
    PROVE  TypeOK'
<1> DEFINE own(ok) == Result(now + 1, i, {[chan |-> c, dir |-> "recv"]}, ok)
<1>1. own(TRUE) \in Outcome /\ own(FALSE) \in Outcome
  BY DEF Result, Outcome, Case, TypeOK
<1>2. now' \in Nat /\ UNCHANGED <<stack, pc, created, cap, closed>>
  BY DEF TypeOK, RecvNow
<1> HIDE DEF own
<1>3. ASSUME NEW w \in Oldest(c, "send"), Complete(t, own(TRUE), w, TRUE)
      PROVE  /\ queue' \subseteq Waiter /\ IsFiniteSet(queue')
             /\ bindings' \subseteq Waiter
             /\ wait' \in [Contexts -> Outcome]
             /\ jobs' \in Seq(Jobs)
             /\ w.ticket \in Nat
  <2>1. w \in queue /\ w.ticket \in Nat
    BY DEF Oldest, Waiting, TypeOK, Waiter
  <2> QED
    BY <1>1, <1>3, <2>1, CompleteType
<1>4. ASSUME buffer[c] # <<>>, Give(c, Head(buffer[c]), now + 1)
      PROVE  /\ rcvd' \in [Channels -> Seq([value : Nat, by : Nat])]
             /\ Tail(buffer[c]) \in Seq(Nat)
  <2>1. buffer[c] \in Seq(Nat)
    BY DEF TypeOK
  <2>2. Head(buffer[c]) \in Nat /\ Tail(buffer[c]) \in Seq(Nat)
    BY <2>1, <1>4
  <2> QED
    BY <1>2, <1>4, <2>2, GiveType
<1>5. CASE /\ buffer[c] # <<>>
           /\ Give(c, Head(buffer[c]), now + 1)
           /\ buffer' = [buffer EXCEPT ![c] = Tail(@)]
           /\ wait' = [wait EXCEPT ![t] = own(TRUE)]
           /\ UNCHANGED <<jobs, queue, bindings, sent>>
  <2>1. buffer' \in [Channels -> Seq(Nat)]
    BY <1>4, <1>5 DEF TypeOK
  <2> QED
    BY <1>1, <1>2, <1>4, <1>5, <2>1 DEF TypeOK
<1>6. ASSUME buffer[c] # <<>>,
             Give(c, Head(buffer[c]), now + 1),
             NEW w \in Oldest(c, "send"),
             buffer' = [buffer EXCEPT ![c] = Refill(@, w.ticket)],
             Accept(c, w.ticket),
             Complete(t, own(TRUE), w, TRUE)
      PROVE  TypeOK'
  <2>1. Refill(buffer[c], w.ticket) \in Seq(Nat)
    <3>1. w.ticket \in Nat
      BY <1>3, <1>6
    <3>2. Tail(buffer[c]) \in Seq(Nat)
      BY <1>4, <1>6
    <3> QED
      BY <3>1, <3>2 DEF Refill
  <2>2. buffer' \in [Channels -> Seq(Nat)]
    BY <1>6, <2>1 DEF TypeOK
  <2>3. sent' \in [Channels -> Seq(Nat)]
    BY <1>3, <1>6, AcceptType
  <2> QED
    BY <1>2, <1>3, <1>4, <1>6, <2>2, <2>3 DEF TypeOK
<1>7. ASSUME NEW w \in Oldest(c, "send"),
             Accept(c, w.ticket),
             Give(c, w.ticket, now + 1),
             Complete(t, own(TRUE), w, TRUE),
             UNCHANGED buffer
      PROVE  TypeOK'
  <2>1. sent' \in [Channels -> Seq(Nat)]
    BY <1>3, <1>7, AcceptType
  <2>2. rcvd' \in [Channels -> Seq([value : Nat, by : Nat])]
    BY <1>2, <1>3, <1>7, GiveType
  <2> QED
    BY <1>2, <1>3, <1>7, <2>1, <2>2 DEF TypeOK
<1>8. CASE /\ wait' = [wait EXCEPT ![t] = own(FALSE)]
           /\ UNCHANGED <<jobs, buffer, queue, bindings, hist>>
  BY <1>1, <1>2, <1>8 DEF TypeOK, hist
<1> QED
  BY <1>5, <1>6, <1>7, <1>8 DEF RecvNow, own

LEMMA PopType ==
    ASSUME TypeOK, Top # Main
    PROVE  /\ Pop \in Seq(Contexts)
           /\ Len(Pop) = Len(stack) - 1 /\ Len(Pop) > 0
           /\ Pop[1] = Main
<1>1. stack \in Seq(Contexts) /\ Len(stack) > 0 /\ stack[1] = Main
  BY DEF TypeOK
<1>2. Len(stack) # 1
  BY <1>1 DEF Top
<1>3. Len(stack) > 1
  BY <1>1, <1>2
<1>4. /\ Pop \in Seq(Contexts)
      /\ Len(Pop) = Len(stack) - 1
      /\ \A i \in 1..(Len(stack) - 1) : Pop[i] = stack[i]
  BY <1>1, <1>3, PopSeq DEF Pop
<1> QED
  BY <1>1, <1>3, <1>4

\* A context that suspends leaves the main program at the bottom of the stack.
LEMMA SuspendType ==
    ASSUME TypeOK, NEW t \in Contexts, t = Top, NEW at \in PC, Suspend(t, at)
    PROVE  /\ pc' \in [Contexts -> PC]
           /\ stack' \in Seq(Contexts) /\ Len(stack') > 0 /\ stack'[1] = Main
<1>1. pc' \in [Contexts -> PC]
  BY DEF Suspend, TypeOK
<1>2. stack \in Seq(Contexts) /\ Len(stack) > 0 /\ stack[1] = Main
  BY DEF TypeOK
<1>3. CASE stack' = stack
  BY <1>1, <1>2, <1>3
<1>4. CASE t # Main /\ stack' = Pop
  BY <1>1, <1>4, PopType
<1> QED
  BY <1>3, <1>4 DEF Suspend

LEMMA CloseType ==
    ASSUME TypeOK, NEW t \in Contexts, NEW c \in Channels, CloseOpen(t, c),
           now' = now + 1, UNCHANGED <<stack, pc, created, cap, selectNext>>
    PROVE  TypeOK'
<1> DEFINE W == Completed(c)
           R == {w \in W : w.dir = "recv"}
           J == {w \in W : Enqueues(w.task)}
<1>1. PICK r \in Orderings(R), q \in Orderings(J) : CloseWith(t, c, r, q)
  BY DEF CloseOpen
<1>2. W \subseteq queue /\ W \subseteq Waiter
  BY DEF Completed, TypeOK
<1>3. R \in SUBSET queue /\ J \in SUBSET queue
  BY <1>2
<1>4. Cardinality(R) \in Nat /\ Cardinality(J) \in Nat
  BY <1>3, SubQueueFinite
<1>5. r \in [1..Cardinality(R) -> R] /\ q \in [1..Cardinality(J) -> J]
  BY DEF Orderings, Bijection, Injection
<1>6. r \in Seq(R) /\ Len(r) = Cardinality(R) /\ q \in Seq(J) /\ Len(q) = Cardinality(J)
  BY <1>4, <1>5, FunctionSeq
<1>7. R \subseteq Waiter /\ J \subseteq Waiter /\ \A w \in J : w.task \in Jobs
  BY <1>2 DEF Enqueues, Waiter, Contexts
<1> HIDE DEF W, R, J
<1> DEFINE drained == IF Len(r) < Len(buffer[c]) THEN Len(r) ELSE Len(buffer[c])
           E == [value : Nat, by : Nat]
           given == [k \in 1..drained |-> [value |-> buffer[c][k], by |-> r[k].ticket]]
           ran == [k \in 1..Len(q) |-> q[k].task]
<1>8. buffer[c] \in Seq(Nat) /\ drained \in 0..Len(buffer[c]) /\ drained <= Len(r)
  BY <1>4, <1>6 DEF TypeOK
<1>9. /\ queue' \subseteq Waiter /\ IsFiniteSet(queue')
      /\ bindings' \subseteq Waiter
  <2>1. queue' \in SUBSET queue /\ bindings' \subseteq bindings
    BY <1>1 DEF CloseWith
  <2> QED
    BY <2>1, SubQueueFinite DEF TypeOK
<1>10. rcvd' \in [Channels -> Seq(E)]
  <2>1. given \in [1..drained -> E]
    <3>1. ASSUME NEW k \in 1..drained
          PROVE  buffer[c][k] \in Nat /\ r[k].ticket \in Nat
      <4>1. k \in 1..Len(buffer[c]) /\ k \in 1..Len(r)
        BY <1>6, <1>8, <1>4
      <4>2. r[k] \in Waiter
        BY <1>6, <1>7, <4>1
      <4> QED
        BY <1>8, <4>1, <4>2 DEF Waiter
    <3> QED
      BY <3>1
  <2>2. given \in Seq(E)
    BY <1>8, <2>1, FunctionSeq
  <2>3. rcvd' = [rcvd EXCEPT ![c] = @ \o given]
    BY <1>1 DEF CloseWith
  <2>4. rcvd \in [Channels -> Seq(E)]
    BY DEF TypeOK
  <2> HIDE DEF given, E
  <2> QED
    BY <2>2, <2>3, <2>4
<1>11. jobs' \in Seq(Jobs)
  <2>1. ran \in [1..Len(q) -> Jobs]
    BY <1>6, <1>7
  <2>2. ran \in Seq(Jobs)
    BY <1>6, <2>1, FunctionSeq
  <2>3. jobs' = jobs \o ran
    BY <1>1 DEF CloseWith
  <2> HIDE DEF ran
  <2> QED
    BY <2>2, <2>3 DEF TypeOK
<1>12. wait' \in [Contexts -> Outcome]
  <2> DEFINE open(w) == \E k \in 1..drained : r[k] = w
             now1 == Result(now + 1, 0, {}, TRUE)
             done(x) == LET w == CHOOSE w \in W : w.task = x IN Committed(w, open(w))
  <2>1. now1 \in Outcome
    BY DEF Result, Outcome, TypeOK
  <2>2. ASSUME NEW x \in Contexts, \E w \in W : w.task = x
        PROVE  done(x) \in Outcome
    <3> DEFINE w == CHOOSE w \in W : w.task = x
    <3>1. w \in Waiter
      BY <1>2, <2>2 DEF W
    <3> HIDE DEF w
    <3>2. Committed(w, open(w)) \in Outcome
      BY <3>1 DEF Committed, Result, Waiter, Outcome, Case
    <3> QED
      BY <3>2 DEF w
  <2>3. wait' = [x \in Contexts |-> IF x = t THEN now1
                                   ELSE IF \E w \in W : w.task = x THEN done(x)
                                   ELSE wait[x]]
    BY <1>1 DEF CloseWith, W
  <2> HIDE DEF done, now1
  <2> QED
    BY <2>1, <2>2, <2>3 DEF TypeOK
<1>13. buffer' \in [Channels -> Seq(Nat)]
  <2>1. buffer' = [buffer EXCEPT ![c] = SubSeq(@, drained + 1, Len(@))]
    BY <1>1 DEF CloseWith
  <2>2. SubSeq(buffer[c], drained + 1, Len(buffer[c])) \in Seq(Nat)
    BY <1>8
  <2> HIDE DEF drained
  <2> QED
    BY <2>1, <2>2 DEF TypeOK
<1>14. closed' \in [Channels -> BOOLEAN] /\ sent' = sent
  BY <1>1 DEF CloseWith, TypeOK
<1> QED
  BY <1>9, <1>10, <1>11, <1>12, <1>13, <1>14 DEF TypeOK

LEMMA TypeStep == TypeOK /\ [Next]_vars => TypeOK'
<1> SUFFICES ASSUME TypeOK, [Next]_vars PROVE TypeOK'
  OBVIOUS
<1>1. CASE UNCHANGED vars
  BY <1>1 DEF TypeOK, vars, sched, chans, hist
<1>2. ASSUME NEW t \in Contexts, NEW j \in Jobs, Spawn(t, j)
      PROVE  TypeOK'
  BY <1>2 DEF TypeOK, Spawn, chans, hist, PC, Contexts
<1>3. ASSUME NEW t \in Contexts, RunOne(t)
      PROVE  TypeOK'
  <2>1. PICK k \in 1..Len(jobs) :
          /\ jobs' = SubSeq(jobs, k + 1, Len(jobs))
          /\ \/ pc' = [pc EXCEPT ![jobs[k]] = "running"] /\ stack' = Append(stack, jobs[k])
             \/ UNCHANGED <<pc, stack>>
    BY <1>3 DEF RunOne
  <2>2. UNCHANGED <<chans, wait, now, selectNext, hist>>
    BY <1>3 DEF RunOne
  <2>3. jobs \in Seq(Jobs) /\ jobs[k] \in Contexts
    BY DEF TypeOK, Contexts
  <2>4. jobs' \in Seq(Jobs)
    BY <2>1, <2>3
  <2>5. stack' \in Seq(Contexts) /\ Len(stack') > 0 /\ stack'[1] = Main
    <3>1. stack \in Seq(Contexts) /\ Len(stack) > 0 /\ stack[1] = Main
      BY DEF TypeOK
    <3>2. CASE stack' = Append(stack, jobs[k])
      BY <2>3, <3>1, <3>2
    <3>3. CASE stack' = stack
      BY <3>1, <3>3
    <3> QED
      BY <2>1, <3>2, <3>3
  <2>6. pc' \in [Contexts -> PC]
    BY <2>1, <2>3 DEF TypeOK, PC
  <2> QED
    BY <2>2, <2>4, <2>5, <2>6 DEF TypeOK, chans, hist
<1>4. ASSUME NEW t \in Contexts, RunNone(t)
      PROVE  TypeOK'
  <2>1. jobs' \in Seq(Jobs)
    BY <1>4 DEF RunNone
  <2>2. pc' \in [Contexts -> PC]
    BY <1>4 DEF RunNone, TypeOK, PC
  <2> QED
    BY <1>4, <2>1, <2>2 DEF TypeOK, RunNone, chans, hist
<1>5. ASSUME NEW t \in Contexts, Resume(t)
      PROVE  TypeOK'
  BY <1>5 DEF TypeOK, Resume, chans, hist, PC
<1>6. ASSUME NEW t \in Contexts, Drain(t)
      PROVE  TypeOK'
  BY <1>6 DEF TypeOK, Drain, chans, hist, PC
<1>7. ASSUME NEW t \in Contexts, Finish(t)
      PROVE  TypeOK'
  <2>1. stack' \in Seq(Contexts) /\ Len(stack') > 0 /\ stack'[1] = Main
    <3>1. CASE t = Main
      BY <1>7, <3>1 DEF Finish, TypeOK
    <3>2. CASE t # Main
      BY <1>7, <3>2, PopType DEF Finish, Running
    <3> QED
      BY <3>1, <3>2
  <2>2. pc' \in [Contexts -> PC]
    BY <1>7 DEF Finish, TypeOK, PC
  <2> QED
    BY <1>7, <2>1, <2>2 DEF Finish, TypeOK, chans, hist
<1>8. ASSUME NEW t \in Contexts, NEW c \in Channels, NEW k \in Capacities,
             ChanCreate(t, c, k)
      PROVE  TypeOK'
  BY <1>8, CapacityAssumption DEF TypeOK, ChanCreate, sched, hist
<1>9. ASSUME NEW t \in Contexts, Starts(t)
      PROVE  now + 1 \in Nat /\ now' = now + 1 /\ t = Top
  BY <1>9 DEF Starts, Running, TypeOK
<1>10. ASSUME NEW t \in Contexts, NEW c \in Channels, BlockForever(t, c)
       PROVE  TypeOK'
  <2>1. now + 1 \in Nat /\ now' = now + 1 /\ t = Top
    BY <1>9, <1>10 DEF BlockForever
  <2>2. /\ pc' \in [Contexts -> PC]
        /\ stack' \in Seq(Contexts) /\ Len(stack') > 0 /\ stack'[1] = Main
    BY <1>10, <2>1, SuspendType DEF BlockForever, PC
  <2>3. wait' \in [Contexts -> Outcome]
    BY <1>10, <2>1, PendingType DEF BlockForever, TypeOK
  <2> QED
    BY <1>10, <2>1, <2>2, <2>3 DEF BlockForever, TypeOK, chans, hist
<1>11. ASSUME NEW t \in Contexts, NEW c \in Channels, NEW d \in Dirs,
              Starts(t), Block(t, c, d), UNCHANGED selectNext
       PROVE  TypeOK'
  <2>1. now + 1 \in Nat /\ now' = now + 1 /\ t = Top
    BY <1>9, <1>11
  <2>2. /\ pc' \in [Contexts -> PC]
        /\ stack' \in Seq(Contexts) /\ Len(stack') > 0 /\ stack'[1] = Main
    BY <1>11, <2>1, SuspendType DEF Block, PC
  <2>3. wait' \in [Contexts -> Outcome]
    BY <1>11, <2>1, PendingType DEF Block, TypeOK
  <2>4. queue' \subseteq Waiter /\ IsFiniteSet(queue')
    <3> DEFINE w == [task |-> t, ticket |-> now + 1, index |-> 0, chan |-> c,
                     dir |-> d, select |-> FALSE]
    <3>1. w \in Waiter
      BY <2>1 DEF Waiter
    <3>2. queue' = queue \cup {w}
      BY <1>11 DEF Block
    <3> HIDE DEF w
    <3> QED
      BY <3>1, <3>2, FS_AddElement DEF TypeOK
  <2> QED
    BY <1>11, <2>1, <2>2, <2>3, <2>4 DEF Block, TypeOK, hist
<1>12. ASSUME NEW t \in Contexts, NEW c \in Channels, ChanSend(t, c)
       PROVE  TypeOK'
  <2>1. Starts(t) /\ UNCHANGED selectNext /\ now' = now + 1 /\ selectNext' \in Int
    BY <1>12 DEF ChanSend, Starts, TypeOK
  <2>2. CASE SendNow(t, c, 0)
    BY <2>1, <2>2, SendNowType
  <2>3. CASE Block(t, c, "send")
    BY <1>11, <2>1, <2>3
  <2> QED
    BY <1>12, <2>2, <2>3 DEF ChanSend
<1>13. ASSUME NEW t \in Contexts, NEW c \in Channels, ChanReceive(t, c)
       PROVE  TypeOK'
  <2>1. Starts(t) /\ UNCHANGED selectNext /\ now' = now + 1 /\ selectNext' \in Int
    BY <1>13 DEF ChanReceive, Starts, TypeOK
  <2>2. CASE RecvNow(t, c, 0)
    BY <2>1, <2>2, RecvNowType
  <2>3. CASE Block(t, c, "recv")
    BY <1>11, <2>1, <2>3
  <2> QED
    BY <1>13, <2>2, <2>3 DEF ChanReceive
<1>14. ASSUME NEW t \in Contexts, NEW c \in Channels, ChanClose(t, c)
       PROVE  TypeOK'
  <2>1. now' = now + 1 /\ UNCHANGED <<stack, pc, created, cap, selectNext>>
    BY <1>14 DEF ChanClose, Starts
  <2>2. CASE CloseOpen(t, c)
    BY <2>1, <2>2, CloseType
  <2>3. CASE /\ wait' = [wait EXCEPT ![t] = Result(now + 1, 0, {}, FALSE)]
             /\ UNCHANGED <<jobs, closed, buffer, queue, bindings, hist>>
    <3>1. Result(now + 1, 0, {}, FALSE) \in Outcome /\ now + 1 \in Nat
      BY DEF Result, Outcome, TypeOK
    <3>2. wait' \in [Contexts -> Outcome]
      BY <2>3, <3>1 DEF TypeOK
    <3> QED
      BY <2>1, <2>3, <3>1, <3>2 DEF TypeOK, hist
  <2> QED
    BY <1>14, <2>2, <2>3 DEF ChanClose
<1>15. ASSUME NEW t \in Contexts, NEW cases \in SelectShapes, NEW hasDefault \in BOOLEAN,
              ChanSelect(t, cases, hasDefault)
       PROVE  TypeOK'
  <2>1. now + 1 \in Nat /\ now' = now + 1 /\ t = Top /\ cases \in Seq(Case)
    BY <1>9, <1>15, ShapeAssumption DEF ChanSelect
  <2>2. CASE SelectReady(t, cases)
    <3>1. PICK i \in Ready(cases) : IF cases[i].dir = "send" THEN SendNow(t, cases[i].chan, i)
                                                            ELSE RecvNow(t, cases[i].chan, i)
      BY <2>2 DEF SelectReady
    <3>2. i \in Int /\ cases[i].chan \in Channels
      <4>1. i \in 1..Len(cases)
        BY DEF Ready
      <4>2. cases[i] \in Case
        BY <2>1, <4>1
      <4> QED
        BY <4>1, <4>2 DEF Case
    <3>3. selectNext' \in Int
      BY <2>2, BoundAssumption DEF SelectReady, Increment, TypeOK
    <3> QED
      BY <2>1, <3>1, <3>2, <3>3, SendNowType, RecvNowType
  <2>3. CASE SelectPanic(t, cases)
    <3>1. Result(now + 1, PanicIndex, {}, FALSE) \in Outcome
      BY <2>1 DEF Result, Outcome, PanicIndex
    <3> QED
      BY <2>1, <2>3, <3>1 DEF SelectPanic, TypeOK, sched, chans, hist
  <2>4. CASE SelectDefault(t, cases)
    <3>1. Result(now + 1, DefaultIndex, {}, TRUE) \in Outcome
      BY <2>1 DEF Result, Outcome, DefaultIndex
    <3> QED
      BY <2>1, <2>4, <3>1 DEF SelectDefault, TypeOK, sched, chans, hist
  <2>5. CASE WaitSelect(t, cases)
    <3>1. /\ pc' \in [Contexts -> PC]
          /\ stack' \in Seq(Contexts) /\ Len(stack') > 0 /\ stack'[1] = Main
      BY <2>1, <2>5, SuspendType DEF WaitSelect, PC
    <3>2. wait' \in [Contexts -> Outcome]
      BY <2>1, <2>5, PendingType DEF WaitSelect, TypeOK
    <3>3. queue' \subseteq Waiter /\ IsFiniteSet(queue') /\ bindings' \subseteq Waiter
      BY <2>1, <2>5, CaseWaitersType, FS_Union DEF WaitSelect, TypeOK
    <3> QED
      BY <2>1, <2>5, <3>1, <3>2, <3>3 DEF WaitSelect, TypeOK, hist
  <2> QED
    BY <1>15, <2>2, <2>3, <2>4, <2>5 DEF ChanSelect
<1> QED
  BY <1>1, <1>2, <1>3, <1>4, <1>5, <1>6, <1>7, <1>8, <1>10, <1>12, <1>13, <1>14, <1>15
     DEF Next, Schedule, Program

\* Every field of the handler keeps its type, and the main program stays at the
\* bottom of the stack of contexts: a blocked goroutine never switches away from
\* the last one.
THEOREM TypeCorrect == Spec => []TypeOK
  BY TypeInit, TypeStep, PTL DEF Spec

----------------------------------------------------------------------------
(* Registrations and rendezvous *)

\* An operation that is starting has no registration left over.
LEMMA RunningUnregistered ==
    ASSUME Inductive, NEW t \in Contexts, pc[t] = "running"
    PROVE  \A w \in queue : w.task # t
  BY DEF Inductive, Registered

\* The oldest waiter is in the list it is taken from.
LEMMA OldestIsWaiting ==
    ASSUME NEW c, NEW d, NEW w \in Oldest(c, d)
    PROVE  w \in queue /\ w.chan = c /\ w.dir = d /\ w \in Waiting(c, d)
  BY DEF Oldest, Waiting

\* `complete' always goes through, leaves no registration of the operation it
\* completes, and touches no other.
LEMMA CompleteKeeps ==
    ASSUME Inductive, NEW t \in Contexts, pc[t] = "running",
           NEW n, n = now + 1, NEW own, own.ticket = n,
           NEW w \in queue, NEW ok \in BOOLEAN, Complete(t, own, w, ok),
           UNCHANGED pc, now' = n
    PROVE  queue' \subseteq queue \ {w} /\ Registered' /\ Tickets'
<1> USE DEF Inductive
<1>1. Completes(w)
  BY DEF Completes, Registered
<1>2. /\ queue' = queue \ ({w} \cup Group(w))
      /\ bindings' = bindings \ Group(w)
      /\ wait' = [wait EXCEPT ![w.task] = Committed(w, ok), ![t] = own]
  BY <1>1 DEF Complete
<1>3. w.task \in Contexts /\ w.task # t /\ w.ticket = wait[w.task].ticket
  BY RunningUnregistered DEF TypeOK, Waiter, Registered
<1>4. ASSUME NEW v \in queue'
      PROVE  v.task # w.task /\ v.task # t /\ v.task \in Contexts
  <2>1. v \in queue /\ v # w /\ v \notin Group(w)
    BY <1>2
  <2>2. v.task \in Contexts /\ v.task # t
    BY <2>1, RunningUnregistered DEF TypeOK, Waiter
  <2>3. SUFFICES ASSUME v.task = w.task PROVE FALSE
    BY <2>2
  <2>4. v.ticket = w.ticket
    BY <2>1, <2>3 DEF Registered
  <2>5. v.select
    BY <2>1, <2>4 DEF Tickets
  <2> QED
    BY <2>1, <2>4, <2>5 DEF Registered, Group
<1>5. \A v \in queue' : wait'[v.task] = wait[v.task]
  BY <1>2, <1>4 DEF TypeOK
<1>6. bindings' = {v \in queue' : v.select}
  <2>1. ASSUME w \in bindings \ Group(w) PROVE FALSE
    BY <2>1 DEF Group
  <2> QED
    BY <1>2, <2>1 DEF Registered
<1>7. Registered'
  BY <1>2, <1>4, <1>5, <1>6 DEF Registered
<1>8. Tickets'
  <2>1. Committed(w, ok).ticket = w.ticket
    BY DEF Committed, Result
  <2>2. \A x \in Contexts : wait'[x].ticket \in {wait[x].ticket, now + 1}
    BY <1>2, <1>3, <2>1 DEF TypeOK
  <2>3. \A x \in Contexts : wait'[x].ticket <= now'
    <3> TAKE x \in Contexts
    <3>1. wait[x].ticket \in Nat /\ wait[x].ticket <= now /\ now \in Nat
      BY DEF Tickets, TypeOK, Outcome
    <3> QED
      BY <2>2, <3>1
  <2> QED
    BY <1>2, <2>3 DEF Tickets
<1> QED
  BY <1>2, <1>7, <1>8

\* Waiters stay blocked for cause when waiters leave the lists and the channels
\* of those that stay are as they were.
LEMMA RendezvousShrinks ==
    ASSUME NoMissedRendezvous, queue' \subseteq queue, created \subseteq created',
           \A w \in queue' : /\ closed'[w.chan] = closed[w.chan]
                             /\ cap'[w.chan] = cap[w.chan]
                             /\ buffer[w.chan] = <<>> => buffer'[w.chan] = <<>>
                             /\ Len(buffer'[w.chan]) = Len(buffer[w.chan])
    PROVE  NoMissedRendezvous'
  BY DEF NoMissedRendezvous, Waiting

\* An operation that returns without blocking and touches no waiter.
LEMMA ReturnKeeps ==
    ASSUME Inductive, NEW t \in Contexts, pc[t] = "running", NEW own, own.ticket = now + 1,
           wait' = [wait EXCEPT ![t] = own], now' = now + 1,
           UNCHANGED <<pc, queue, bindings>>
    PROVE  Registered' /\ Tickets'
<1> USE DEF Inductive
<1>1. \A w \in queue : w.task \in Contexts /\ w.task # t
  BY RunningUnregistered DEF TypeOK, Waiter
<1>2. \A w \in queue : wait'[w.task] = wait[w.task]
  BY <1>1 DEF TypeOK
<1>3. Registered'
  BY <1>2 DEF Registered
<1>4. \A x \in Contexts : wait'[x].ticket <= now'
  <2> TAKE x \in Contexts
  <2>1. wait[x].ticket \in Nat /\ wait[x].ticket <= now /\ now \in Nat
    BY DEF Tickets, TypeOK, Outcome
  <2>2. wait'[x].ticket \in {wait[x].ticket, now + 1}
    BY DEF TypeOK
  <2> QED
    BY <2>1, <2>2
<1> QED
  BY <1>3, <1>4 DEF Tickets

LEMMA SendNowKeeps ==
    ASSUME Inductive, NEW t \in Contexts, pc[t] = "running", NEW c \in created, NEW i \in Int,
           SendNow(t, c, i), now' = now + 1, TypeOK'
    PROVE  Inductive'
<1> USE DEF Inductive
<1> DEFINE own(ok) == Result(now + 1, i, {[chan |-> c, dir |-> "send"]}, ok)
<1>1. own(TRUE).ticket = now + 1 /\ own(FALSE).ticket = now + 1
  BY DEF Result
<1>2. UNCHANGED <<stack, pc, created, cap, closed>> /\ c \in Channels
  BY DEF SendNow, TypeOK
<1> HIDE DEF own
<1>3. CASE /\ wait' = [wait EXCEPT ![t] = own(FALSE)]
           /\ UNCHANGED <<jobs, buffer, queue, bindings, hist>>
  <2>1. Registered' /\ Tickets'
    BY <1>1, <1>2, <1>3, ReturnKeeps
  <2>2. NoMissedRendezvous'
    BY <1>2, <1>3, RendezvousShrinks
  <2> QED
    BY <1>2, <1>3, <2>1, <2>2 DEF Bounded
<1>4. ASSUME NEW w \in Oldest(c, "recv"), Complete(t, own(TRUE), w, TRUE), UNCHANGED buffer
      PROVE  Inductive'
  <2>1. queue' \subseteq queue /\ Registered' /\ Tickets'
    BY <1>1, <1>2, <1>4, OldestIsWaiting, CompleteKeeps
  <2>2. NoMissedRendezvous'
    BY <1>2, <1>4, <2>1, RendezvousShrinks
  <2> QED
    BY <1>2, <1>4, <2>1, <2>2 DEF Bounded
<1>5. CASE /\ ~closed[c]
           /\ Waiting(c, "recv") = {}
           /\ buffer' = [buffer EXCEPT ![c] = Append(@, now + 1)]
           /\ wait' = [wait EXCEPT ![t] = own(TRUE)]
           /\ UNCHANGED <<jobs, queue, bindings, rcvd>>
  <2>1. Registered' /\ Tickets'
    BY <1>1, <1>2, <1>5, ReturnKeeps
  <2>2. Len(buffer[c]) < cap[c]
    BY <1>5 DEF SendNow, SendReady
  <2>3. \A w \in queue : w.chan # c
    <3> TAKE w \in queue
    <3>1. w \in Waiter
      BY DEF TypeOK
    <3>2. SUFFICES ASSUME w.chan = c PROVE FALSE
      OBVIOUS
    <3>3. w.dir = "send"
      BY <1>5, <3>1, <3>2 DEF Waiting, Waiter
    <3>4. Len(buffer[c]) = cap[c]
      BY <3>2, <3>3 DEF NoMissedRendezvous
    <3>5. cap[c] \in Nat
      BY <1>2 DEF TypeOK
    <3> QED
      BY <2>2, <3>4, <3>5
  <2>4. \A w \in queue : buffer'[w.chan] = buffer[w.chan]
    BY <1>5, <2>3 DEF TypeOK, Waiter
  <2>5. NoMissedRendezvous'
    BY <1>2, <1>5, <2>4, RendezvousShrinks
  <2>6. Bounded'
    <3>1. buffer[c] \in Seq(Nat) /\ cap[c] \in Nat /\ now + 1 \in Nat
      BY <1>2 DEF TypeOK
    <3>2. Len(Append(buffer[c], now + 1)) <= cap[c]
      BY <2>2, <3>1
    <3>3. \A x \in Channels : buffer'[x] = IF x = c THEN Append(buffer[c], now + 1)
                                                    ELSE buffer[x]
      BY <1>2, <1>5 DEF TypeOK
    <3> QED
      BY <1>2, <3>2, <3>3 DEF Bounded
  <2> QED
    BY <2>1, <2>5, <2>6
<1> QED
  BY <1>3, <1>4, <1>5 DEF SendNow, own

\* While a channel holds a value no receiver waits on it.
LEMMA HoldsNoReceiver ==
    ASSUME Inductive, NEW c, buffer[c] # <<>>, NEW w \in queue, w.chan = c
    PROVE  w.dir = "send" /\ Len(buffer[c]) = cap[c]
<1> USE DEF Inductive
<1>1. w.dir \in Dirs
  BY DEF TypeOK, Waiter
<1> QED
  BY <1>1 DEF NoMissedRendezvous

LEMMA RecvNowKeeps ==
    ASSUME Inductive, NEW t \in Contexts, pc[t] = "running", NEW c \in created, NEW i \in Int,
           RecvNow(t, c, i), now' = now + 1, TypeOK'
    PROVE  Inductive'
<1> USE DEF Inductive
<1> DEFINE own(ok) == Result(now + 1, i, {[chan |-> c, dir |-> "recv"]}, ok)
<1>1. own(TRUE).ticket = now + 1 /\ own(FALSE).ticket = now + 1
  BY DEF Result
<1>2. /\ UNCHANGED <<stack, pc, created, cap, closed>>
      /\ c \in Channels /\ buffer[c] \in Seq(Nat) /\ cap[c] \in Nat
      /\ buffer \in [Channels -> Seq(Nat)]
  BY DEF RecvNow, TypeOK
<1> HIDE DEF own
<1>3. ASSUME NEW w \in Oldest(c, "send"), Complete(t, own(TRUE), w, TRUE)
      PROVE  /\ w \in queue /\ w.chan = c /\ w.ticket \in Nat
             /\ queue' \subseteq queue /\ Registered' /\ Tickets'
  <2>1. w \in queue /\ w.chan = c
    BY <1>3, OldestIsWaiting
  <2> QED
    BY <1>1, <1>2, <1>3, <2>1, CompleteKeeps DEF TypeOK, Waiter
<1>4. CASE /\ buffer[c] # <<>>
           /\ Waiting(c, "send") = {}
           /\ buffer' = [buffer EXCEPT ![c] = Tail(@)]
           /\ wait' = [wait EXCEPT ![t] = own(TRUE)]
           /\ UNCHANGED <<jobs, queue, bindings, sent>>
  <2>1. Registered' /\ Tickets'
    BY <1>1, <1>2, <1>4, ReturnKeeps
  <2>2. \A w \in queue : w.chan # c
    BY <1>4, HoldsNoReceiver DEF Waiting
  <2>3. \A w \in queue : buffer'[w.chan] = buffer[w.chan]
    BY <1>4, <2>2 DEF TypeOK, Waiter
  <2>4. NoMissedRendezvous'
    BY <1>2, <1>4, <2>3, RendezvousShrinks
  <2>5. Bounded'
    <3>1. Len(Tail(buffer[c])) <= cap[c]
      BY <1>2, <1>4 DEF Bounded
    <3>2. \A x \in Channels : buffer'[x] = IF x = c THEN Tail(buffer[c]) ELSE buffer[x]
      BY <1>2, <1>4
    <3> QED
      BY <1>2, <3>1, <3>2 DEF Bounded
  <2> QED
    BY <2>1, <2>4, <2>5
<1>5. ASSUME buffer[c] # <<>>, NEW w \in Oldest(c, "send"),
             buffer' = [buffer EXCEPT ![c] = Refill(@, w.ticket)],
             Complete(t, own(TRUE), w, TRUE)
      PROVE  Inductive'
  <2>1. w \in queue /\ w.chan = c /\ w.ticket \in Nat /\ queue' \subseteq queue /\ Registered' /\ Tickets'
    BY <1>3, <1>5
  <2>2. Len(Refill(buffer[c], w.ticket)) = Len(buffer[c])
    BY <1>2, <1>5, <2>1 DEF Refill
  <2>3. \A x \in Channels : buffer'[x] = IF x = c THEN Refill(buffer[c], w.ticket) ELSE buffer[x]
    BY <1>2, <1>5
  <2>4. ASSUME NEW v \in queue'
        PROVE  /\ buffer[v.chan] = <<>> => buffer'[v.chan] = <<>>
               /\ Len(buffer'[v.chan]) = Len(buffer[v.chan])
    <3>1. v.chan \in Channels
      BY <2>1 DEF TypeOK, Waiter
    <3> QED
      BY <1>5, <2>2, <2>3, <3>1
  <2>5. NoMissedRendezvous'
    BY <1>2, <2>1, <2>4, RendezvousShrinks
  <2>6. Bounded'
    BY <1>2, <2>2, <2>3 DEF Bounded
  <2> QED
    BY <2>1, <2>5, <2>6
<1>6. ASSUME NEW w \in Oldest(c, "send"), Complete(t, own(TRUE), w, TRUE), UNCHANGED buffer
      PROVE  Inductive'
  <2>1. queue' \subseteq queue /\ Registered' /\ Tickets'
    BY <1>3, <1>6
  <2>2. NoMissedRendezvous'
    BY <1>2, <1>6, <2>1, RendezvousShrinks
  <2> QED
    BY <1>2, <1>6, <2>1, <2>2 DEF Bounded
<1>7. CASE /\ wait' = [wait EXCEPT ![t] = own(FALSE)]
           /\ UNCHANGED <<jobs, buffer, queue, bindings, hist>>
  <2>1. Registered' /\ Tickets'
    BY <1>1, <1>2, <1>7, ReturnKeeps
  <2>2. NoMissedRendezvous'
    BY <1>2, <1>7, RendezvousShrinks
  <2> QED
    BY <1>2, <1>7, <2>1, <2>2 DEF Bounded
<1> QED
  BY <1>4, <1>5, <1>6, <1>7 DEF RecvNow, own

\* New waiters W of t's operation: none of them could go ahead, and they carry
\* a ticket no other waiter has.
LEMMA RegisterKeeps ==
    ASSUME Inductive, NEW t \in Contexts, pc[t] = "running", NEW W, NEW bound \in BOOLEAN,
           \A w \in W : /\ w \in Waiter /\ w.task = t /\ w.ticket = now + 1
                        /\ w.select = bound
                        /\ w.chan \in created
                        /\ w.dir = "send" => ~SendReady(w.chan)
                        /\ w.dir = "recv" => ~RecvReady(w.chan),
           bound \/ \A v, w \in W : v = w,
           pc' = [pc EXCEPT ![t] = "waiting"],
           wait' = [wait EXCEPT ![t] = Pending(now + 1)],
           queue' = queue \cup W,
           bindings' = IF bound THEN bindings \cup W ELSE bindings,
           now' = now + 1, UNCHANGED <<created, cap, closed, buffer>>, TypeOK'
    PROVE  Inductive'
<1> USE DEF Inductive
<1>1. \A w \in queue : w.task \in Contexts /\ w.task # t /\ w \in Waiter
  BY RunningUnregistered DEF TypeOK, Waiter
<1>2. \A w \in queue : wait'[w.task] = wait[w.task] /\ pc'[w.task] = pc[w.task]
  BY <1>1 DEF TypeOK
<1>3. wait'[t] = Pending(now + 1) /\ pc'[t] = "waiting"
  BY DEF TypeOK
<1>4. \A x \in Contexts : wait[x].ticket \in Nat /\ wait[x].ticket <= now /\ now \in Nat
  BY DEF Tickets, TypeOK, Outcome
<1>5. \A w \in queue : w.ticket \in Nat /\ w.ticket <= now
  BY <1>1, <1>4 DEF Registered
<1>6. Registered'
  <2>1. ASSUME NEW w \in queue'
        PROVE  /\ pc'[w.task] \in {"waiting", "forever"}
               /\ ~wait'[w.task].done
               /\ w.ticket = wait'[w.task].ticket
    BY <1>2, <1>3, <2>1 DEF Registered, Pending
  <2>2. bindings' = {w \in queue' : w.select}
    BY DEF Registered
  <2> QED
    BY <2>1, <2>2 DEF Registered
<1>7. Tickets'
  <2>1. \A x \in Contexts : wait'[x].ticket <= now'
    <3> TAKE x \in Contexts
    <3>1. wait'[x].ticket \in {wait[x].ticket, now + 1}
      BY DEF TypeOK, Pending
    <3> QED
      BY <1>4, <3>1
  <2>2. ASSUME NEW v \in queue', NEW w \in queue', v.ticket = w.ticket
        PROVE  v = w \/ (v.select /\ w.select)
    <3>1. CASE v \in queue /\ w \in queue
      BY <2>2, <3>1 DEF Tickets
    <3>2. CASE v \in W /\ w \in W
      BY <3>2
    <3>3. CASE v \in queue /\ w \in W
      BY <1>4, <1>5, <2>2, <3>3
    <3>4. CASE v \in W /\ w \in queue
      BY <1>4, <1>5, <2>2, <3>4
    <3> QED
      BY <3>1, <3>2, <3>3, <3>4
  <2> QED
    BY <2>1, <2>2 DEF Tickets
<1>8. NoMissedRendezvous'
  <2>1. ASSUME NEW w \in queue' PROVE w.chan \in created' /\ ~closed'[w.chan]
    BY <2>1 DEF NoMissedRendezvous, SendReady, RecvReady, Waiter
  <2>2. ASSUME NEW w \in queue', w.dir = "recv" PROVE buffer'[w.chan] = <<>>
    BY <2>2 DEF NoMissedRendezvous, RecvReady
  <2>3. ASSUME NEW w \in queue', w.dir = "send" PROVE Len(buffer'[w.chan]) = cap'[w.chan]
    <3>1. CASE w \in queue
      BY <2>3, <3>1 DEF NoMissedRendezvous
    <3>2. CASE w \in W
      <4>1. w.chan \in Channels /\ ~(Len(buffer[w.chan]) < cap[w.chan])
        BY <2>3, <3>2 DEF SendReady, Waiter
      <4>2. cap[w.chan] \in Nat /\ buffer[w.chan] \in Seq(Nat) /\ Len(buffer[w.chan]) <= cap[w.chan]
        BY <4>1 DEF TypeOK, Bounded
      <4> QED
        BY <4>1, <4>2
    <3> QED
      BY <3>1, <3>2
  <2>4. ASSUME NEW w \in queue', w.dir = "recv", NEW v \in queue', v.dir = "send",
               v.chan = w.chan
        PROVE  v.ticket = w.ticket
    <3>1. CASE v \in queue /\ w \in queue
      BY <2>4, <3>1 DEF NoMissedRendezvous, Waiting
    <3>2. CASE v \in W /\ w \in W
      BY <3>2
    <3>3. CASE v \in queue /\ w \in W
      BY <2>4, <3>3 DEF RecvReady, Waiting
    <3>4. CASE v \in W /\ w \in queue
      BY <2>4, <3>4 DEF SendReady, Waiting
    <3> QED
      BY <3>1, <3>2, <3>3, <3>4
  <2> QED
    BY <2>1, <2>2, <2>3, <2>4 DEF NoMissedRendezvous, Waiting
<1> QED
  BY <1>6, <1>7, <1>8 DEF Bounded

LEMMA SmallestIndex ==
    ASSUME NEW T, T \subseteq Nat, T # {}
    PROVE  \E x \in T : \A y \in T : ~(y < x)
<1>1. \E x \in T : \A y \in T : ~(<<y, x>> \in OpToRel(<, Nat))
  BY NatLessThanWellFounded, WFMin
<1> QED
  BY <1>1 DEF OpToRel

\* The loops of ChanClose complete one waiter of every operation they find.
LEMMA FirstIsCompleted ==
    ASSUME Inductive, NEW c, NEW v \in queue, v.chan = c
    PROVE  \E w \in Completed(c) : w.ticket = v.ticket
<1> USE DEF Inductive
<1> DEFINE G(d) == {w \in queue : w.chan = c /\ w.ticket = v.ticket /\ w.dir = d}
<1>1. \A w \in queue : w \in Waiter /\ w.index \in Nat /\ w.dir \in Dirs /\ w.ticket \in Nat
  BY DEF TypeOK, Waiter
<1>2. \A w \in queue : Completes(w)
  BY DEF Completes, Registered
<1>3. ASSUME NEW d \in Dirs, G(d) # {}, d = "recv" => G("send") = {}
      PROVE  \E w \in Completed(c) : w.ticket = v.ticket
  <2>1. {w.index : w \in G(d)} \subseteq Nat /\ {w.index : w \in G(d)} # {}
    BY <1>1, <1>3
  <2>2. PICK x \in {w.index : w \in G(d)} : \A y \in {w.index : w \in G(d)} : ~(y < x)
    BY <2>1, SmallestIndex
  <2>3. PICK w \in G(d) : w.index = x
    OBVIOUS
  <2>4. ASSUME NEW u \in queue, u.chan = c, u.ticket = w.ticket PROVE ~Sooner(u, w)
    <3>1. u \in G(u.dir) /\ w.dir = d /\ w.ticket = v.ticket /\ w.ticket \in Nat
      BY <1>1, <2>4
    <3>2. ~(u.dir = "send" /\ w.dir = "recv")
      BY <1>3, <3>1
    <3>3. u.dir = w.dir => ~(u.index < w.index)
      BY <2>2, <2>3, <3>1
    <3> QED
      BY <2>4, <3>1, <3>2, <3>3 DEF Sooner, Before
  <2>5. w \in Completed(c)
    BY <1>2, <2>4 DEF Completed
  <2> QED
    BY <2>5
<1>4. v \in G(v.dir) /\ v.dir \in Dirs
  BY <1>1
<1> QED
  BY <1>3, <1>4

LEMMA CloseKeeps ==
    ASSUME Inductive, NEW t \in Contexts, pc[t] = "running", NEW c \in created,
           CloseOpen(t, c), now' = now + 1, UNCHANGED <<stack, pc, created, cap>>, TypeOK'
    PROVE  Inductive'
<1> USE DEF Inductive
<1> DEFINE W == Completed(c)
<1>1. PICK r \in Orderings({w \in W : w.dir = "recv"}),
           q \in Orderings({w \in W : Enqueues(w.task)}) : CloseWith(t, c, r, q)
  BY DEF CloseOpen
<1>2. /\ closed' = [closed EXCEPT ![c] = TRUE]
      /\ queue' = {v \in queue : v.chan # c /\ \A w \in W : v \notin Group(w)}
      /\ bindings' = {v \in bindings : \A w \in W : v \notin Group(w)}
  BY <1>1 DEF CloseWith
<1>3. ASSUME NEW x \in Contexts
      PROVE  \/ x = t /\ wait'[x].ticket = now + 1
             \/ \E w \in W : w.task = x /\ wait'[x].ticket = w.ticket
             \/ x # t /\ (\A w \in W : w.task # x) /\ wait'[x] = wait[x]
  BY <1>1, <1>3 DEF CloseWith, Result, Committed
<1>4. W \subseteq queue /\ \A w \in W : w.chan = c
  BY DEF Completed
<1> HIDE DEF W
<1>5. ASSUME NEW v \in queue'
      PROVE  v \in queue /\ v.chan \in Channels /\ v.chan # c /\ wait'[v.task] = wait[v.task]
  <2>1. v \in queue /\ v.chan # c /\ v.task \in Contexts /\ v.task # t /\ v.chan \in Channels
    BY <1>2, RunningUnregistered DEF TypeOK, Waiter
  <2>2. ASSUME NEW w \in W, v.task = w.task PROVE FALSE
    <3>1. v.ticket = w.ticket /\ v # w
      BY <1>4, <2>1, <2>2 DEF Registered
    <3>2. v.select
      BY <1>4, <2>1, <3>1 DEF Tickets
    <3> QED
      BY <1>2, <2>1, <3>1, <3>2 DEF Registered, Group
  <2> QED
    BY <1>3, <2>1, <2>2
<1>6. bindings' = {v \in queue' : v.select}
  <2>1. ASSUME NEW v \in bindings' PROVE v \in queue' /\ v.select
    <3>1. v \in queue /\ v.select /\ v \in bindings /\ \A w \in W : v \notin Group(w)
      BY <1>2 DEF Registered
    <3>2. v.chan # c
      BY <3>1, FirstIsCompleted DEF Group, W
    <3> QED
      BY <1>2, <3>1, <3>2
  <2>2. ASSUME NEW v \in queue', v.select PROVE v \in bindings'
    BY <1>2, <2>2 DEF Registered
  <2> QED
    BY <2>1, <2>2
<1>7. Registered'
  BY <1>5, <1>6 DEF Registered
<1>8. Tickets'
  <2>1. \A x \in Contexts : wait[x].ticket \in Nat /\ wait[x].ticket <= now /\ now \in Nat
    BY DEF Tickets, TypeOK, Outcome
  <2>2. \A w \in W : w.ticket \in Nat /\ w.ticket <= now
    BY <1>4, <2>1 DEF Registered, TypeOK, Waiter
  <2>3. \A x \in Contexts : wait'[x].ticket <= now'
    BY <1>3, <2>1, <2>2
  <2> QED
    BY <1>2, <2>3 DEF Tickets
<1>9. \A x \in Channels : x # c => closed'[x] = closed[x] /\ buffer'[x] = buffer[x]
  BY <1>1 DEF CloseWith, TypeOK
<1>10. NoMissedRendezvous'
  BY <1>2, <1>5, <1>9, RendezvousShrinks
<1>11. Bounded'
  <2>1. c \in Channels /\ buffer[c] \in Seq(Nat) /\ cap[c] \in Nat /\ Len(buffer[c]) <= cap[c]
    BY DEF TypeOK, Bounded
  <2> DEFINE n == IF Len(r) < Len(buffer[c]) THEN Len(r) ELSE Len(buffer[c])
  <2>2. buffer'[c] = SubSeq(buffer[c], n + 1, Len(buffer[c]))
    BY <1>1, <2>1 DEF CloseWith, TypeOK
  <2>3. n \in 0..Len(buffer[c])
    <3>1. {w \in W : w.dir = "recv"} \in SUBSET queue
      BY <1>4
    <3>2. Cardinality({w \in W : w.dir = "recv"}) \in Nat
      BY <3>1, SubQueueFinite
    <3>3. r \in [1..Cardinality({w \in W : w.dir = "recv"}) -> {w \in W : w.dir = "recv"}]
      BY DEF Orderings, Bijection, Injection
    <3>4. Len(r) \in Nat
      BY <3>2, <3>3, FunctionSeq
    <3> QED
      BY <2>1, <3>4
  <2> HIDE DEF n
  <2>4. Len(SubSeq(buffer[c], n + 1, Len(buffer[c]))) = Len(buffer[c]) - n
    BY <2>1, <2>3, DropLength
  <2>5. Len(buffer'[c]) <= cap[c]
    BY <2>1, <2>2, <2>3, <2>4
  <2> QED
    BY <1>9, <2>1, <2>5 DEF Bounded
<1> QED
  BY <1>7, <1>8, <1>10, <1>11

LEMMA InductiveInit == Init => Inductive
<1> SUFFICES ASSUME Init PROVE Inductive
  OBVIOUS
<1>1. TypeOK
  BY TypeInit
<1>2. NoMissedRendezvous /\ Registered
  BY DEF Init, NoMissedRendezvous, Registered
<1>3. Tickets /\ Bounded
  BY DEF Init, Tickets, Bounded, Result
<1> QED
  BY <1>1, <1>2, <1>3 DEF Inductive

\* A step that only moves contexts about: no context with a registration leaves
\* its blocked operation.
LEMMA SchedulingKeeps ==
    ASSUME Inductive, TypeOK', UNCHANGED <<chans, wait, now>>,
           \A x \in Contexts : /\ pc[x] \in {"waiting", "forever"}
                               /\ ~wait[x].done
                               => pc'[x] \in {"waiting", "forever"}
    PROVE  Inductive'
<1> USE DEF Inductive, chans
<1>1. Registered'
  BY DEF Registered, TypeOK, Waiter
<1>2. NoMissedRendezvous'
  BY DEF NoMissedRendezvous, Waiting
<1> QED
  BY <1>1, <1>2 DEF Tickets, Bounded

LEMMA InductiveStep == Inductive /\ [Next]_vars => Inductive'
<1> SUFFICES ASSUME Inductive, [Next]_vars PROVE Inductive'
  OBVIOUS
<1>0. TypeOK'
  BY TypeStep DEF Inductive
<1>1. CASE UNCHANGED vars
  BY <1>0, <1>1, SchedulingKeeps DEF vars, sched
<1>2. ASSUME NEW t \in Contexts, \/ \E j \in Jobs : Spawn(t, j)
                                \/ Schedule(t) \/ Drain(t) \/ Finish(t)
      PROVE  Inductive'
  <2>1. UNCHANGED <<chans, wait, now>>
    BY <1>2 DEF Spawn, Schedule, RunOne, RunNone, Resume, Drain, Finish
  <2>2. ASSUME NEW x \in Contexts, pc[x] \in {"waiting", "forever"}, ~wait[x].done
        PROVE  pc'[x] \in {"waiting", "forever"}
    <3> USE DEF Inductive
    <3>1. pc \in [Contexts -> PC]
      BY DEF TypeOK
    <3>2. CASE \E j \in Jobs : Spawn(t, j)
      BY <2>2, <3>1, <3>2 DEF Spawn
    <3>3. CASE RunOne(t)
      BY <2>2, <3>1, <3>3 DEF RunOne
    <3>4. CASE RunNone(t)
      BY <2>2, <3>1, <3>4 DEF RunNone
    <3>5. CASE Resume(t)
      BY <2>2, <3>1, <3>5 DEF Resume
    <3>6. CASE Drain(t) \/ Finish(t)
      BY <2>2, <3>1, <3>6 DEF Drain, Finish, Running
    <3> QED
      BY <1>2, <3>2, <3>3, <3>4, <3>5, <3>6 DEF Schedule
  <2> QED
    BY <1>0, <2>1, <2>2, SchedulingKeeps
<1>3. ASSUME NEW t \in Contexts, NEW c \in Channels, NEW k \in Capacities,
             ChanCreate(t, c, k)
      PROVE  Inductive'
  <2> USE DEF Inductive
  <2>1. /\ c \notin created /\ created' = created \cup {c}
        /\ cap' = [cap EXCEPT ![c] = k]
        /\ UNCHANGED <<pc, closed, buffer, queue, bindings, wait, now>>
    BY <1>3 DEF ChanCreate, sched
  <2>2. \A w \in queue : w.chan # c /\ w.chan \in Channels
    BY <2>1 DEF NoMissedRendezvous, TypeOK, Waiter
  <2>3. NoMissedRendezvous'
    BY <2>1, <2>2, RendezvousShrinks DEF TypeOK
  <2>4. Bounded'
    <3>1. k \in Nat /\ buffer[c] = <<>>
      BY <2>1, CapacityAssumption DEF Bounded
    <3> QED
      BY <2>1, <3>1 DEF Bounded, TypeOK
  <2> QED
    BY <1>0, <2>1, <2>3, <2>4 DEF Registered, Tickets
<1>4. ASSUME NEW t \in Contexts, Starts(t)
      PROVE  pc[t] = "running" /\ now' = now + 1 /\ now + 1 \in Nat
  BY <1>4 DEF Starts, Running, Inductive, TypeOK
<1>5. ASSUME NEW t \in Contexts, NEW c \in Channels, BlockForever(t, c)
      PROVE  Inductive'
  <2> USE DEF Inductive
  <2>1. pc[t] = "running" /\ now' = now + 1 /\ now + 1 \in Nat
    BY <1>4, <1>5 DEF BlockForever
  <2>2. /\ pc' = [pc EXCEPT ![t] = "forever"]
        /\ wait' = [wait EXCEPT ![t] = Pending(now + 1)]
        /\ UNCHANGED <<created, cap, closed, buffer, queue, bindings>>
    BY <1>5 DEF BlockForever, Suspend, chans
  <2>3. \A w \in queue : w.task \in Contexts /\ w.task # t
    BY <2>1, RunningUnregistered DEF TypeOK, Waiter
  <2>4. Registered'
    BY <2>2, <2>3 DEF Registered, TypeOK
  <2>5. NoMissedRendezvous'
    BY <2>2, RendezvousShrinks
  <2>6. \A x \in Contexts : wait'[x].ticket <= now'
    <3> TAKE x \in Contexts
    <3>1. wait[x].ticket \in Nat /\ wait[x].ticket <= now /\ now \in Nat
      BY DEF Tickets, TypeOK, Outcome
    <3>2. wait'[x].ticket \in {wait[x].ticket, now + 1}
      BY <2>2 DEF TypeOK, Pending
    <3> QED
      BY <2>1, <3>1, <3>2
  <2> QED
    BY <1>0, <2>2, <2>4, <2>5, <2>6 DEF Tickets, Bounded
<1>6. ASSUME NEW t \in Contexts, NEW c \in created, NEW d \in Dirs, Starts(t), Block(t, c, d),
             d = "send" => ~SendReady(c), d = "recv" => ~RecvReady(c)
      PROVE  Inductive'
  <2> DEFINE w == [task |-> t, ticket |-> now + 1, index |-> 0, chan |-> c, dir |-> d,
                   select |-> FALSE]
             W == {w}
  <2>1. pc[t] = "running" /\ now' = now + 1 /\ now + 1 \in Nat
    BY <1>4, <1>6
  <2>2. w \in Waiter
    BY <2>1 DEF Waiter, Inductive, TypeOK
  <2>3. /\ pc' = [pc EXCEPT ![t] = "waiting"]
        /\ wait' = [wait EXCEPT ![t] = Pending(now + 1)]
        /\ queue' = queue \cup W
        /\ UNCHANGED <<created, cap, closed, buffer, bindings>>
    BY <1>6 DEF Block, Suspend
  <2>4. \A v \in W : /\ v \in Waiter /\ v.task = t /\ v.ticket = now + 1
                     /\ v.select = FALSE
                     /\ v.chan \in created
                     /\ v.dir = "send" => ~SendReady(v.chan)
                     /\ v.dir = "recv" => ~RecvReady(v.chan)
    <3>1. /\ w.task = t /\ w.ticket = now + 1 /\ w.select = FALSE
          /\ w.chan = c /\ w.dir = d
      OBVIOUS
    <3>2. \A v \in W : v = w
      OBVIOUS
    <3> HIDE DEF w
    <3> QED
      BY <1>6, <2>2, <3>1, <3>2
  <2>5. \A u, v \in W : u = v
    OBVIOUS
  <2> HIDE DEF W
  <2> QED
    BY <1>0, <2>1, <2>3, <2>4, <2>5, RegisterKeeps
<1>7. ASSUME NEW t \in Contexts, NEW c \in Channels, ChanSend(t, c)
      PROVE  Inductive'
  <2>1. Starts(t) /\ c \in created
    BY <1>7 DEF ChanSend
  <2>2. CASE SendNow(t, c, 0)
    BY <1>0, <1>4, <2>1, <2>2, SendNowKeeps
  <2>3. CASE ~SendReady(c) /\ Block(t, c, "send")
    BY <1>6, <2>1, <2>3
  <2> QED
    BY <1>7, <2>2, <2>3 DEF ChanSend
<1>8. ASSUME NEW t \in Contexts, NEW c \in Channels, ChanReceive(t, c)
      PROVE  Inductive'
  <2>1. Starts(t) /\ c \in created
    BY <1>8 DEF ChanReceive
  <2>2. CASE RecvNow(t, c, 0)
    BY <1>0, <1>4, <2>1, <2>2, RecvNowKeeps
  <2>3. CASE ~RecvReady(c) /\ Block(t, c, "recv")
    BY <1>6, <2>1, <2>3
  <2> QED
    BY <1>8, <2>2, <2>3 DEF ChanReceive
<1>9. ASSUME NEW t \in Contexts, Starts(t), NEW own, own.ticket = now + 1,
             wait' = [wait EXCEPT ![t] = own], UNCHANGED <<pc, chans>>
      PROVE  Inductive'
  <2>1. Registered' /\ Tickets'
    BY <1>4, <1>9, ReturnKeeps DEF chans
  <2>2. NoMissedRendezvous'
    BY <1>9, RendezvousShrinks DEF chans, Inductive
  <2> QED
    BY <1>0, <1>9, <2>1, <2>2 DEF Inductive, Bounded, chans
<1>10. ASSUME NEW t \in Contexts, NEW c \in Channels, ChanClose(t, c)
       PROVE  Inductive'
  <2>1. Starts(t) /\ UNCHANGED <<stack, pc, created, cap>>
    BY <1>10 DEF ChanClose
  <2>2. CASE c \in created /\ CloseOpen(t, c)
    BY <1>0, <1>4, <2>1, <2>2, CloseKeeps
  <2>3. CASE /\ wait' = [wait EXCEPT ![t] = Result(now + 1, 0, {}, FALSE)]
             /\ UNCHANGED <<jobs, closed, buffer, queue, bindings, hist>>
    <3>1. Result(now + 1, 0, {}, FALSE).ticket = now + 1
      BY DEF Result
    <3> QED
      BY <1>9, <2>1, <2>3, <3>1 DEF chans
  <2> QED
    BY <1>10, <2>2, <2>3 DEF ChanClose
<1>11. ASSUME NEW t \in Contexts, NEW cases \in SelectShapes, NEW hasDefault \in BOOLEAN,
              ChanSelect(t, cases, hasDefault)
       PROVE  Inductive'
  <2>1. Starts(t) /\ cases \in Seq(Case)
    BY <1>11, ShapeAssumption DEF ChanSelect
  <2>2. CASE SelectReady(t, cases)
    <3>1. PICK i \in Ready(cases) : IF cases[i].dir = "send" THEN SendNow(t, cases[i].chan, i)
                                                            ELSE RecvNow(t, cases[i].chan, i)
      BY <2>2 DEF SelectReady
    <3>2. i \in Int /\ cases[i].chan \in created
      BY DEF Ready
    <3> QED
      BY <1>0, <1>4, <2>1, <3>1, <3>2, SendNowKeeps, RecvNowKeeps
  <2>3. CASE SelectPanic(t, cases) \/ SelectDefault(t, cases)
    <3>1. PICK own : /\ own.ticket = now + 1
                     /\ wait' = [wait EXCEPT ![t] = own]
                     /\ UNCHANGED <<pc, chans>>
      BY <2>3 DEF SelectPanic, SelectDefault, Result, sched
    <3> QED
      BY <1>9, <2>1, <3>1
  <2>4. CASE WaitSelect(t, cases)
    <3> DEFINE W == CaseWaiters(t, cases)
    <3>1. /\ pc' = [pc EXCEPT ![t] = "waiting"]
          /\ wait' = [wait EXCEPT ![t] = Pending(now + 1)]
          /\ queue' = queue \cup W /\ bindings' = bindings \cup W
          /\ UNCHANGED <<created, cap, closed, buffer>>
      BY <2>4 DEF WaitSelect, Suspend
    <3>2. W \subseteq Waiter
      BY <2>1, CaseWaitersType DEF Inductive
    <3>3. \A w \in W : /\ w.task = t /\ w.ticket = now + 1
                       /\ w.select = TRUE
                       /\ w.chan \in created
                       /\ w.dir = "send" => ~SendReady(w.chan)
                       /\ w.dir = "recv" => ~RecvReady(w.chan)
      BY <2>4 DEF CaseWaiters, WaitSelect, Ready
    <3> HIDE DEF W
    <3> QED
      BY <1>0, <1>4, <2>1, <3>1, <3>2, <3>3, RegisterKeeps
  <2> QED
    BY <1>11, <2>2, <2>3, <2>4 DEF ChanSelect
<1> QED
  BY <1>1, <1>2, <1>3, <1>5, <1>7, <1>8, <1>10, <1>11 DEF Next, Program

LEMMA InductiveInvariant == Spec => []Inductive
  BY InductiveInit, InductiveStep, PTL DEF Spec

\* No operation stays blocked beside one that could serve it, whatever the order
\* of sends, receives, selects and closes, with or without stacks.
THEOREM RendezvousCorrect == Spec => []NoMissedRendezvous
<1>1. Inductive => NoMissedRendezvous
  BY DEF Inductive
<1> QED
  BY <1>1, InductiveInvariant, PTL

\* The waiter lists and select bindings hold blocked operations only: a select
\* that has committed a case is registered nowhere, so it commits no second one.
THEOREM RegistrationCorrect == Spec => []Registered
<1>1. Inductive => Registered
  BY DEF Inductive
<1> QED
  BY <1>1, InductiveInvariant, PTL

----------------------------------------------------------------------------
(* The run queue *)

Members(s) == {s[k] : k \in 1..Len(s)}
Distinct(s) == \A i, k \in 1..Len(s) : s[i] = s[k] => i = k

\* A goroutine that would go on if it had the processor.
Runnable(j) == pc[j] = "new" \/ (StackSupported /\ pc[j] = "waiting" /\ wait[j].done)

\* With stacks, a goroutine runs directly on top of the main program, and one
\* that is registered anywhere has switched back and waits.
StackShape ==
    StackSupported =>
        \/ Len(stack) = 1
        \/ Len(stack) = 2 /\ stack[2] \in Jobs /\ pc[stack[2]] = "running"
WaitersSwitched ==
    StackSupported => \A w \in queue : w.task # Main => pc[w.task] = "waiting"

RunQueue == (\A j \in Jobs : j \in Members(jobs) <=> Runnable(j)) /\ Distinct(jobs)

WakeInductive == RunQueue /\ StackShape /\ WaitersSwitched

LEMMA RunQueueIs == ASSUME TypeOK PROVE NoLostWakeup <=> RunQueue
<1>1. \A k \in 1..Len(jobs) : jobs[k] \in Jobs
  BY DEF TypeOK
<1>2. \A j : Queued(j) <=> j \in Members(jobs)
  BY DEF Queued, Members
<1>3. Distinct(jobs) <=> \A j \in Jobs : \A i, k \in 1..Len(jobs) : jobs[i] = j /\ jobs[k] = j => i = k
  BY <1>1 DEF Distinct
<1> QED
  BY <1>2, <1>3 DEF NoLostWakeup, RunQueue, Runnable

\* With stacks, the context on top is the main program or a running goroutine.
LEMMA TopIs ==
    ASSUME TypeOK, StackShape, StackSupported
    PROVE  /\ Top \in Jobs => Len(stack) = 2 /\ stack[2] = Top /\ pc[Top] = "running"
           /\ Top = Main => Len(stack) = 1
           /\ Top \in Jobs \/ Top = Main
  BY MainAssumption DEF TypeOK, StackShape, Top

\* New goroutines join the run queue.
LEMMA JobsJoin ==
    ASSUME NEW s \in Seq(Jobs), NEW r \in Seq(Jobs), Distinct(s), Distinct(r),
           Members(s) \cap Members(r) = {}
    PROVE  Members(s \o r) = Members(s) \cup Members(r) /\ Distinct(s \o r)
<1> DEFINE m == Len(s)
           n == Len(r)
<1>1. /\ m \in Nat /\ n \in Nat /\ Len(s \o r) = m + n
      /\ \A i \in 1..(m + n) : (s \o r)[i] = IF i <= m THEN s[i] ELSE r[i - m]
  BY ConcatProperties, LenProperties
<1> HIDE DEF m, n
<1>2. \A i \in 1..(m + n) : \/ i \in 1..m /\ (s \o r)[i] = s[i]
                            \/ i - m \in 1..n /\ ~(i <= m) /\ (s \o r)[i] = r[i - m]
  BY <1>1
<1>3. Members(s \o r) \subseteq Members(s) \cup Members(r)
  BY <1>1, <1>2 DEF Members, m, n
<1>4. Members(s) \subseteq Members(s \o r)
  <2> SUFFICES ASSUME NEW i \in 1..m PROVE s[i] \in Members(s \o r)
    BY DEF Members, m
  <2>1. i \in 1..(m + n) /\ (s \o r)[i] = s[i]
    BY <1>1
  <2> QED
    BY <1>1, <2>1 DEF Members
<1>5. Members(r) \subseteq Members(s \o r)
  <2> SUFFICES ASSUME NEW i \in 1..n PROVE r[i] \in Members(s \o r)
    BY DEF Members, n
  <2>1. m + i \in 1..(m + n) /\ ~(m + i <= m) /\ (m + i) - m = i
    BY <1>1
  <2>2. (s \o r)[m + i] = r[i]
    BY <1>1, <2>1
  <2> QED
    BY <1>1, <2>1, <2>2 DEF Members
<1>6. Distinct(s \o r)
  <2> SUFFICES ASSUME NEW i \in 1..(m + n), NEW k \in 1..(m + n), (s \o r)[i] = (s \o r)[k]
               PROVE  i = k
    BY <1>1 DEF Distinct
  <2>1. CASE i \in 1..m /\ k \in 1..m
    BY <1>1, <2>1 DEF Distinct, m
  <2>2. CASE i - m \in 1..n /\ k - m \in 1..n
    <3>1. ~(i <= m) /\ ~(k <= m)
      BY <1>1, <2>2
    <3>2. r[i - m] = r[k - m]
      BY <1>1, <3>1
    <3>3. i - m = k - m
      BY <2>2, <3>2 DEF Distinct, n
    <3> QED
      BY <1>1, <3>3
  <2>3. ASSUME NEW a \in 1..m, NEW b \in 1..n, s[a] = r[b] PROVE FALSE
    BY <2>3 DEF Members, m, n
  <2> QED
    BY <1>2, <2>1, <2>2, <2>3
<1> QED
  BY <1>3, <1>4, <1>5, <1>6

LEMMA JobJoins ==
    ASSUME TypeOK, Distinct(jobs), NEW j \in Jobs, j \notin Members(jobs), jobs' = Append(jobs, j)
    PROVE  Members(jobs)' = Members(jobs) \cup {j} /\ Distinct(jobs)'
<1>1. jobs \in Seq(Jobs) /\ <<j>> \in Seq(Jobs) /\ jobs' = jobs \o <<j>>
  BY AppendIsConcat DEF TypeOK
<1>2. Members(<<j>>) = {j} /\ Distinct(<<j>>)
  BY DEF Members, Distinct
<1>3. Members(jobs \o <<j>>) = Members(jobs) \cup Members(<<j>>) /\ Distinct(jobs \o <<j>>)
  BY <1>1, <1>2, JobsJoin
<1>4. Members(jobs)' = Members(jobs') /\ Distinct(jobs)' = Distinct(jobs')
  BY DEF Members, Distinct
<1> QED
  BY <1>1, <1>2, <1>3, <1>4

\* runOne takes the first goroutine from the queue.
LEMMA JobLeaves ==
    ASSUME TypeOK, Distinct(jobs), 1 \in 1..Len(jobs), jobs' = SubSeq(jobs, 1 + 1, Len(jobs))
    PROVE  Members(jobs)' = Members(jobs) \ {jobs[1]} /\ Distinct(jobs)'
<1> DEFINE l == Len(jobs)
<1>1. jobs \in Seq(Jobs) /\ l \in Nat /\ l > 0 /\ 1 + 1 \in Int
  BY DEF TypeOK
<1>2. \A i \in (1 + 1)..l : jobs[i] \in Jobs
  BY <1>1
<1>3. Len(jobs') = l - 1 /\ \A i \in 1..(l - 1) : jobs'[i] = jobs[i + 1]
  <2>1. /\ Len(jobs') = IF 1 + 1 <= l THEN l - (1 + 1) + 1 ELSE 0
        /\ \A i \in 1..(l - (1 + 1) + 1) : jobs'[i] = jobs[(1 + 1) + i - 1]
    BY <1>1, <1>2, SubSeqProperties
  <2>2. l - (1 + 1) + 1 = l - 1 /\ \A i \in 1..(l - 1) : (1 + 1) + i - 1 = i + 1
    BY <1>1
  <2> QED
    BY <1>1, <2>1, <2>2
<1> HIDE DEF l
<1>4. Distinct(jobs')
  <2> SUFFICES ASSUME NEW i \in 1..(l - 1), NEW k \in 1..(l - 1), jobs'[i] = jobs'[k] PROVE i = k
    BY <1>3 DEF Distinct
  <2>1. i + 1 \in 1..l /\ k + 1 \in 1..l /\ jobs[i + 1] = jobs[k + 1]
    BY <1>1, <1>3
  <2>2. i + 1 = k + 1
    BY <2>1 DEF Distinct, l
  <2> QED
    BY <1>1, <2>2
<1>5. Members(jobs') = Members(jobs) \ {jobs[1]}
  <2>1. ASSUME NEW i \in 1..(l - 1) PROVE jobs'[i] \in Members(jobs) \ {jobs[1]}
    <3>1. i + 1 \in 1..l /\ jobs'[i] = jobs[i + 1] /\ i + 1 # 1 /\ 1 \in 1..l
      BY <1>1, <1>3
    <3> QED
      BY <3>1 DEF Members, Distinct, l
  <2>2. ASSUME NEW i \in 1..l, jobs[i] # jobs[1] PROVE jobs[i] \in Members(jobs')
    <3>1. i - 1 \in 1..(l - 1) /\ (i - 1) + 1 = i
      BY <1>1, <2>2
    <3>2. jobs'[i - 1] = jobs[i]
      BY <1>3, <3>1
    <3> QED
      BY <1>3, <3>1, <3>2 DEF Members
  <2> QED
    BY <1>3, <2>1, <2>2 DEF Members, l
<1>6. Members(jobs)' = Members(jobs') /\ Distinct(jobs)' = Distinct(jobs')
  BY DEF Members, Distinct
<1> QED
  BY <1>4, <1>5, <1>6

\* Context t, which was not runnable, goes from one state to another.
LEMMA MovesOne ==
    ASSUME Inductive, RunQueue, NEW t \in Contexts, NEW p \in PC,
           pc' = [pc EXCEPT ![t] = p], UNCHANGED jobs,
           \A x \in Contexts : x # t => wait'[x] = wait[x],
           ~Runnable(t), p # "new", p = "waiting" => ~wait'[t].done
    PROVE  RunQueue'
<1>1. \A x \in Contexts : pc'[x] = IF x = t THEN p ELSE pc[x]
  BY DEF Inductive, TypeOK
<1>2. \A j \in Jobs : Runnable(j)' <=> Runnable(j)
  BY <1>1 DEF Runnable, Contexts
<1>3. Members(jobs)' = Members(jobs) /\ Distinct(jobs)' = Distinct(jobs)
  BY DEF Members, Distinct
<1> QED
  BY <1>2, <1>3 DEF RunQueue

LEMMA ScheduleWakes ==
    ASSUME Inductive, WakeInductive, NEW t \in Contexts,
           Schedule(t) \/ (\E j \in Jobs : Spawn(t, j)) \/ Drain(t) \/ Finish(t)
    PROVE  WakeInductive'
<1> USE DEF WakeInductive, Inductive
<1>1. /\ pc \in [Contexts -> PC] /\ Jobs \subseteq Contexts /\ Main \in Contexts
      /\ stack \in Seq(Contexts) /\ stack[1] = Main /\ Len(stack) \in Nat /\ Len(stack) > 0
      /\ \A w \in queue : w.task \in Contexts /\ ~wait[w.task].done
                          /\ pc[w.task] \in {"waiting", "forever"}
      /\ StackSupported \in BOOLEAN
  BY StackAssumption DEF TypeOK, Contexts, Registered, Waiter
<1>2. ASSUME NEW j \in Jobs, Spawn(t, j) PROVE WakeInductive'
  <2>1. /\ pc[j] = "none" /\ pc' = [pc EXCEPT ![j] = "new"] /\ jobs' = Append(jobs, j)
        /\ UNCHANGED <<stack, queue, wait>>
    BY <1>2 DEF Spawn, chans
  <2>2. j \notin Members(jobs)
    BY <2>1 DEF RunQueue, Runnable
  <2>3. Members(jobs)' = Members(jobs) \cup {j} /\ Distinct(jobs)'
    BY <2>1, <2>2, JobJoins DEF RunQueue
  <2>4. \A x \in Jobs : Runnable(x)' <=> Runnable(x) \/ x = j
    BY <1>1, <2>1 DEF Runnable
  <2>5. RunQueue'
    BY <2>3, <2>4 DEF RunQueue
  <2>6. StackShape' /\ WaitersSwitched'
    BY <1>1, <2>1 DEF StackShape, WaitersSwitched
  <2> QED
    BY <2>5, <2>6
<1>3. ASSUME RunOne(t) PROVE WakeInductive'
  <2>1. PICK k \in 1..Len(jobs) :
            /\ FirstLive(k)
            /\ jobs' = SubSeq(jobs, k + 1, Len(jobs))
            /\ LET j == jobs[k] IN
               \/ /\ pc[j] = "new" \/ (pc[j] = "waiting" /\ wait[j].done)
                  /\ pc' = [pc EXCEPT ![j] = "running"]
                  /\ stack' = Append(stack, j)
               \/ /\ ~(pc[j] = "new" \/ (pc[j] = "waiting" /\ wait[j].done))
                  /\ UNCHANGED <<pc, stack>>
    BY <1>3 DEF RunOne
  <2>2. Scheduling(t) /\ UNCHANGED <<queue, wait>>
    BY <1>3 DEF RunOne, chans
  <2>3. \A i \in 1..Len(jobs) : jobs[i] \in Jobs /\ Runnable(jobs[i])
    BY DEF TypeOK, RunQueue, Members
  <2>4. k = 1 /\ 1 \in 1..Len(jobs)
    <3>1. \A i \in 1..Len(jobs) : pc[jobs[i]] # "done"
      BY <2>3 DEF Runnable
    <3>2. 1 \in 1..Len(jobs)
      OBVIOUS
    <3>3. ~(1 \in 1..(k - 1))
      BY <2>1, <3>1, <3>2 DEF FirstLive
    <3> QED
      BY <3>2, <3>3
  <2> DEFINE j == jobs[1]
  <2>5. /\ j \in Jobs /\ Runnable(j) /\ jobs' = SubSeq(jobs, 1 + 1, Len(jobs))
        /\ pc' = [pc EXCEPT ![j] = "running"] /\ stack' = Append(stack, j)
    BY <2>1, <2>3, <2>4 DEF Runnable
  <2>6. Members(jobs)' = Members(jobs) \ {j} /\ Distinct(jobs)'
    BY <2>4, <2>5, JobLeaves DEF RunQueue
  <2> HIDE DEF j
  <2>7. RunQueue'
    <3>1. \A x \in Jobs : Runnable(x)' <=> Runnable(x) /\ x # j
      BY <1>1, <2>2, <2>5 DEF Runnable
    <3> QED
      BY <2>6, <3>1 DEF RunQueue
  <2>8. StackShape'
    <3> SUFFICES ASSUME StackSupported
                 PROVE  Len(stack') = 2 /\ stack'[2] \in Jobs /\ pc'[stack'[2]] = "running"
      BY DEF StackShape
    <3>1. Len(stack) = 1
      BY <2>2, TopIs DEF Scheduling
    <3>2. Len(stack') = 2 /\ stack'[2] = j
      <4>1. j \in Contexts
        BY <1>1, <2>5
      <4>2. Len(stack') = Len(stack) + 1 /\ stack'[Len(stack) + 1] = j
        BY <1>1, <2>5, <4>1, AppendProperties
      <4> QED
        BY <3>1, <4>2
    <3> QED
      BY <1>1, <2>5, <3>2
  <2>9. WaitersSwitched'
    BY <1>1, <2>2, <2>5 DEF WaitersSwitched, Runnable
  <2> QED
    BY <2>7, <2>8, <2>9
<1>4. ASSUME RunNone(t) PROVE WakeInductive'
  <2> DEFINE p == IF pc[t] = "drain" THEN "running" ELSE "forever"
  <2>1. /\ Scheduling(t) /\ pc[t] # "forever" /\ jobs' = <<>> /\ pc' = [pc EXCEPT ![t] = p]
        /\ \A k \in 1..Len(jobs) : ~FirstLive(k)
        /\ UNCHANGED <<stack, queue, wait>>
    BY <1>4 DEF RunNone, chans
  <2>2. Len(jobs) = 0
    <3> SUFFICES ASSUME Len(jobs) # 0 PROVE FALSE
      OBVIOUS
    <3>1. 1 \in 1..Len(jobs)
      BY DEF TypeOK
    <3>2. pc[jobs[1]] # "done"
      <4>1. jobs[1] \in Jobs /\ jobs[1] \in Members(jobs)
        BY <3>1 DEF TypeOK, Members
      <4> QED
        BY <4>1 DEF RunQueue, Runnable
    <3>3. FirstLive(1)
      BY <3>1, <3>2 DEF FirstLive
    <3> QED
      BY <2>1, <3>1, <3>3
  <2>3. jobs' = jobs
    BY <2>1, <2>2 DEF TypeOK
  <2>4. RunQueue'
    BY <2>1, <2>3, MovesOne DEF Scheduling, Runnable, PC
  <2>5. StackSupported => t = Main /\ Len(stack) = 1
    BY <2>1, TopIs DEF Scheduling
  <2>6. StackShape' /\ WaitersSwitched'
    BY <1>1, <2>1, <2>5 DEF StackShape, WaitersSwitched
  <2> QED
    BY <2>4, <2>6
<1>5. ASSUME Resume(t) PROVE WakeInductive'
  <2>1. /\ t = Top /\ pc[t] = "waiting" /\ pc' = [pc EXCEPT ![t] = "running"]
        /\ UNCHANGED <<jobs, stack, queue, wait>>
    BY <1>5 DEF Resume, chans
  <2>2. StackSupported => t = Main /\ Len(stack) = 1
    BY <2>1, TopIs
  <2>3. RunQueue'
    <3>1. \A x \in Jobs : Runnable(x)' <=> Runnable(x)
      BY <1>1, <2>1, <2>2, MainAssumption DEF Runnable
    <3>2. Members(jobs)' = Members(jobs) /\ Distinct(jobs)' = Distinct(jobs)
      BY <2>1 DEF Members, Distinct
    <3> QED
      BY <3>1, <3>2 DEF RunQueue
  <2>4. StackShape' /\ WaitersSwitched'
    BY <1>1, <2>1, <2>2 DEF StackShape, WaitersSwitched
  <2> QED
    BY <2>3, <2>4
<1>6. ASSUME Drain(t) PROVE WakeInductive'
  <2>1. /\ t = Top /\ pc[t] = "running" /\ pc' = [pc EXCEPT ![t] = "drain"]
        /\ StackSupported => t = Main
        /\ UNCHANGED <<jobs, stack, queue, wait>>
    BY <1>6 DEF Drain, Running, chans
  <2>2. StackSupported => Len(stack) = 1
    BY <2>1, TopIs
  <2>3. RunQueue'
    BY <2>1, MovesOne DEF Runnable, PC
  <2>4. StackShape' /\ WaitersSwitched'
    BY <1>1, <2>1, <2>2 DEF StackShape, WaitersSwitched
  <2> QED
    BY <2>3, <2>4
<1>7. ASSUME Finish(t) PROVE WakeInductive'
  <2>1. /\ t = Top /\ pc[t] = "running" /\ pc' = [pc EXCEPT ![t] = "done"]
        /\ stack' = IF t = Main THEN stack ELSE Pop
        /\ UNCHANGED <<jobs, queue, wait>>
    BY <1>7 DEF Finish, Running, chans
  <2>2. RunQueue'
    BY <2>1, MovesOne DEF Runnable, PC
  <2>3. StackSupported => Len(stack') = 1
    <3> SUFFICES ASSUME StackSupported PROVE Len(stack') = 1
      OBVIOUS
    <3>1. CASE t = Main
      BY <2>1, <3>1, TopIs
    <3>2. CASE t # Main
      <4>1. Len(stack) = 2 /\ Top # Main
        BY <2>1, <3>2, TopIs
      <4>2. Len(Pop) = Len(stack) - 1
        BY <4>1, PopType
      <4> QED
        BY <2>1, <3>2, <4>1, <4>2
    <3> QED
      BY <3>1, <3>2
  <2>4. StackShape' /\ WaitersSwitched'
    BY <1>1, <2>1, <2>3 DEF StackShape, WaitersSwitched
  <2> QED
    BY <2>2, <2>4
<1> QED
  BY <1>2, <1>3, <1>4, <1>5, <1>6, <1>7 DEF Schedule

\* An operation that blocks.
LEMMA BlockWakes ==
    ASSUME Inductive, WakeInductive, NEW t \in Contexts, Running(t), NEW at \in {"waiting", "forever"},
           Suspend(t, at), UNCHANGED jobs, wait' = [wait EXCEPT ![t] = Pending(now + 1)],
           \A v \in queue' : v \in queue \/ (v.task = t /\ at = "waiting")
    PROVE  WakeInductive'
<1> USE DEF WakeInductive, Inductive
<1>1. /\ t = Top /\ pc[t] = "running" /\ pc' = [pc EXCEPT ![t] = at]
      /\ stack' = IF StackSupported /\ t # Main THEN Pop ELSE stack
      /\ pc \in [Contexts -> PC] /\ Jobs \subseteq Contexts
      /\ \A w \in queue : w.task \in Contexts
      /\ at \in PC
  BY DEF Running, Suspend, TypeOK, Contexts, Waiter, PC
<1>2. ~wait'[t].done /\ \A x \in Contexts : x # t => wait'[x] = wait[x]
  BY DEF TypeOK, Pending
<1>3. RunQueue'
  BY <1>1, <1>2, MovesOne DEF Runnable
<1>4. StackSupported => Len(stack') = 1
  <2> SUFFICES ASSUME StackSupported PROVE Len(stack') = 1
    OBVIOUS
  <2>1. CASE t = Main
    BY <1>1, <2>1, TopIs
  <2>2. CASE t # Main
    <3>1. Len(stack) = 2 /\ Top # Main
      BY <1>1, <2>2, TopIs
    <3>2. Len(Pop) = Len(stack) - 1
      BY <3>1, PopType
    <3> QED
      BY <1>1, <2>2, <3>1, <3>2
  <2> QED
    BY <2>1, <2>2
<1>5. StackShape'
  BY <1>4 DEF StackShape
<1>6. WaitersSwitched'
  BY <1>1, RunningUnregistered DEF WaitersSwitched
<1> QED
  BY <1>3, <1>5, <1>6

\* An operation that returns without waking anybody.
LEMMA ReturnWakes ==
    ASSUME Inductive, WakeInductive, NEW t \in Contexts, pc[t] = "running",
           \A x \in Contexts : x # t => wait'[x] = wait[x],
           queue' \subseteq queue, UNCHANGED <<jobs, stack, pc>>
    PROVE  WakeInductive'
<1> USE DEF WakeInductive, Inductive
<1>1. \A j \in Jobs : Runnable(j)' <=> Runnable(j)
  BY DEF Runnable, Contexts
<1>2. RunQueue'
  BY <1>1 DEF RunQueue, Members, Distinct
<1>3. StackShape' /\ WaitersSwitched'
  BY DEF StackShape, WaitersSwitched
<1> QED
  BY <1>2, <1>3

\* The waiters of W have their waits done, and the goroutines among them that the
\* handler may enqueue join the run queue.
LEMMA WakesAll ==
    ASSUME Inductive, WakeInductive, NEW t \in Contexts, pc[t] = "running", NEW W \in SUBSET queue,
           \A w \in W : wait'[w.task].done,
           \A x \in Contexts : x # t /\ (\A w \in W : w.task # x) => wait'[x] = wait[x],
           Members(jobs)' = Members(jobs) \cup {w.task : w \in {v \in W : Enqueues(v.task)}},
           Distinct(jobs)', queue' \subseteq queue, UNCHANGED <<stack, pc>>
    PROVE  WakeInductive'
<1> USE DEF WakeInductive, Inductive
<1>1. \A w \in W : /\ w.task \in Contexts /\ w.task # t /\ ~wait[w.task].done
                   /\ pc[w.task] \in {"waiting", "forever"}
                   /\ StackSupported /\ w.task # Main => pc[w.task] = "waiting"
  BY RunningUnregistered DEF TypeOK, Waiter, Registered, WaitersSwitched
<1>2. ASSUME NEW j \in Jobs
      PROVE  (j \in Members(jobs) \/ \E w \in W : w.task = j /\ Enqueues(j)) <=> Runnable(j)'
  <2>1. j # Main /\ j \in Contexts /\ (j \in Members(jobs) <=> Runnable(j)) /\ (Queued(j) <=> j \in Members(jobs))
    BY MainAssumption DEF Contexts, RunQueue, Queued, Members
  <2>2. ASSUME NEW w \in W, w.task = j
        PROVE  (j \in Members(jobs) \/ Enqueues(j)) <=> Runnable(j)'
    BY <1>1, <2>1, <2>2 DEF Enqueues, Runnable
  <2>3. ASSUME \A w \in W : w.task # j PROVE Runnable(j)' <=> Runnable(j)
    BY <2>1, <2>3 DEF Runnable
  <2> QED
    BY <2>1, <2>2, <2>3
<1>3. RunQueue'
  BY <1>2 DEF RunQueue
<1>4. StackShape' /\ WaitersSwitched'
  BY DEF StackShape, WaitersSwitched
<1> QED
  BY <1>3, <1>4

LEMMA CompleteWakes ==
    ASSUME Inductive, WakeInductive, NEW t \in Contexts, pc[t] = "running", NEW own,
           NEW w \in queue, Complete(t, own, w, TRUE), UNCHANGED <<stack, pc>>
    PROVE  WakeInductive'
<1> USE DEF WakeInductive, Inductive
<1>1. Completes(w) /\ w.task \in Contexts /\ w.task # t
  BY RunningUnregistered DEF Completes, Registered, TypeOK, Waiter
<1>2. /\ queue' \subseteq queue /\ jobs' = Woken(w.task)
      /\ wait' = [wait EXCEPT ![w.task] = Committed(w, TRUE), ![t] = own]
  BY <1>1 DEF Complete
<1>3. wait'[w.task].done /\ \A x \in Contexts : x # t /\ x # w.task => wait'[x] = wait[x]
  BY <1>1, <1>2 DEF TypeOK, Committed, Result
<1>4. /\ Members(jobs)' = Members(jobs) \cup {v.task : v \in {u \in {w} : Enqueues(u.task)}}
      /\ Distinct(jobs)'
  <2>1. CASE Enqueues(w.task)
    <3>1. w.task \in Jobs /\ w.task \notin Members(jobs) /\ jobs' = Append(jobs, w.task)
      BY <1>1, <1>2, <2>1 DEF Enqueues, Contexts, Queued, Members, Woken
    <3>2. Members(jobs)' = Members(jobs) \cup {w.task} /\ Distinct(jobs)'
      BY <3>1, JobJoins DEF RunQueue
    <3> QED
      BY <2>1, <3>2
  <2>2. CASE ~Enqueues(w.task)
    BY <1>2, <2>2 DEF Woken, Members, Distinct, RunQueue
  <2> QED
    BY <2>1, <2>2
<1>5. {w} \in SUBSET queue /\ \A v \in {w} : wait'[v.task].done
  BY <1>3
<1> QED
  BY <1>2, <1>3, <1>4, <1>5, WakesAll

\* A close completes one registration of each blocked operation.
LEMMA CompletedOnce ==
    ASSUME Inductive, NEW c, NEW v \in Completed(c), NEW w \in Completed(c), v.task = w.task
    PROVE  v = w
<1> USE DEF Inductive
<1>1. /\ v \in queue /\ w \in queue /\ v.chan = c /\ w.chan = c
      /\ v \in Waiter /\ w \in Waiter
  BY DEF Completed, TypeOK
<1>2. v.ticket = w.ticket
  BY <1>1 DEF Registered
<1>3. ~Sooner(v, w) /\ ~Sooner(w, v)
  BY <1>1, <1>2 DEF Completed
<1>4. v.dir \in Dirs /\ w.dir \in Dirs /\ v.index \in Nat /\ w.index \in Nat
  BY <1>1 DEF Waiter
<1>5. v.dir = w.dir
  BY <1>3, <1>4 DEF Sooner
<1>6. v.index = w.index
  BY <1>2, <1>3, <1>4, <1>5 DEF Sooner, Before
<1>7. v = w \/ (v.select /\ w.select)
  BY <1>1, <1>2 DEF Tickets
<1>8. v.select \in BOOLEAN /\ w.select \in BOOLEAN
  BY <1>1 DEF Waiter
<1>9. v = w \/ v.select = w.select
  BY <1>7, <1>8
<1> QED
  BY <1>1, <1>2, <1>5, <1>6, <1>9 DEF Waiter

\* A close wakes the goroutine of every operation it completes, once.
LEMMA CloseWakes ==
    ASSUME Inductive, WakeInductive, NEW t \in Contexts, pc[t] = "running", NEW c \in created,
           CloseOpen(t, c), UNCHANGED <<stack, pc>>
    PROVE  WakeInductive'
<1> USE DEF WakeInductive, Inductive
<1> DEFINE W == Completed(c)
           R == {w \in W : w.dir = "recv"}
           J == {w \in W : Enqueues(w.task)}
<1>1. PICK r \in Orderings(R), q \in Orderings(J) : CloseWith(t, c, r, q)
  BY DEF CloseOpen
<1>2. W \in SUBSET queue /\ J \in SUBSET queue
  BY DEF Completed
<1>3. Cardinality(J) \in Nat
  BY <1>2, SubQueueFinite
<1> DEFINE m == Cardinality(J)
<1>4. /\ q \in [1..m -> J]
      /\ \A i, k \in 1..m : q[i] = q[k] => i = k
      /\ \A w \in J : \E k \in 1..m : q[k] = w
  <2>1. q \in Injection(1..m, J) /\ q \in Surjection(1..m, J)
    BY DEF Orderings, Bijection
  <2> HIDE DEF J, m
  <2> QED
    BY <2>1 DEF Injection, Surjection, IsInjective
<1>5. q \in Seq(J) /\ Len(q) = m
  <2> HIDE DEF J
  <2> QED
    BY <1>3, <1>4, FunctionSeq
<1>6. \A w \in J : w.task \in Jobs /\ w.task \notin Members(jobs)
  BY <1>2 DEF Enqueues, Contexts, TypeOK, Waiter, Queued, Members
<1>7. \A v, w \in J : v.task = w.task => v = w
  BY CompletedOnce
<1>8. ASSUME NEW w \in W PROVE wait'[w.task].done
  <2>1. w.task \in Contexts /\ w.task # t
    BY <1>2, RunningUnregistered DEF TypeOK, Waiter
  <2>2. wait'[w.task].done = TRUE
    BY <1>1, <2>1 DEF CloseWith, Committed, Result
  <2> QED
    BY <2>2
<1>9. \A x \in Contexts : x # t /\ (\A w \in W : w.task # x) => wait'[x] = wait[x]
  BY <1>1 DEF CloseWith
<1>10. queue' \subseteq queue
  BY <1>1 DEF CloseWith
<1> DEFINE ran == [k \in 1..m |-> q[k].task]
<1>11. jobs' = jobs \o ran
  BY <1>1, <1>5 DEF CloseWith
<1> HIDE DEF J, m
<1>12. ran \in [1..m -> Jobs] /\ \A k \in 1..m : ran[k] = q[k].task
  BY <1>4, <1>6
<1>13. ran \in Seq(Jobs) /\ Len(ran) = m
  BY <1>3, <1>12, FunctionSeq DEF m
<1> HIDE DEF ran
<1>14. Members(ran) = {w.task : w \in J}
  BY <1>4, <1>12, <1>13 DEF Members
<1>15. Distinct(ran)
  BY <1>4, <1>7, <1>12, <1>13 DEF Distinct
<1>16. Members(jobs \o ran) = Members(jobs) \cup Members(ran) /\ Distinct(jobs \o ran)
  <2>1. jobs \in Seq(Jobs) /\ Distinct(jobs)
    BY DEF TypeOK, RunQueue
  <2>2. Members(jobs) \cap Members(ran) = {}
    BY <1>6, <1>14
  <2> QED
    BY <1>13, <1>15, <2>1, <2>2, JobsJoin
<1>17. Members(jobs)' = Members(jobs) \cup {w.task : w \in J} /\ Distinct(jobs)'
  BY <1>11, <1>14, <1>16 DEF Members, Distinct
<1> QED
  BY <1>2, <1>8, <1>9, <1>10, <1>17, WakesAll DEF J

\* The part of a send or a receive that does not block.
LEMMA NowWakes ==
    ASSUME Inductive, WakeInductive, NEW t \in Contexts, pc[t] = "running", NEW c, NEW i,
           SendNow(t, c, i) \/ RecvNow(t, c, i)
    PROVE  WakeInductive'
<1>1. UNCHANGED <<stack, pc>>
  BY DEF SendNow, RecvNow
<1>2. ASSUME NEW own, wait' = [wait EXCEPT ![t] = own], UNCHANGED <<jobs, queue>>
      PROVE  WakeInductive'
  <2>1. \A x \in Contexts : x # t => wait'[x] = wait[x]
    BY <1>2 DEF Inductive, TypeOK
  <2> QED
    BY <1>1, <1>2, <2>1, ReturnWakes
<1>3. ASSUME NEW own, NEW d, NEW w \in Oldest(c, d), Complete(t, own, w, TRUE)
      PROVE  WakeInductive'
  BY <1>1, <1>3, OldestIsWaiting, CompleteWakes
<1>4. CASE SendNow(t, c, i)
  BY <1>2, <1>3, <1>4 DEF SendNow
<1>5. CASE RecvNow(t, c, i)
  BY <1>2, <1>3, <1>5 DEF RecvNow
<1> QED
  BY <1>4, <1>5

LEMMA WakeInit == Init => WakeInductive
<1> SUFFICES ASSUME Init PROVE WakeInductive
  OBVIOUS
<1>1. Members(jobs) = {} /\ Distinct(jobs)
  BY DEF Init, Members, Distinct
<1>2. \A j \in Jobs : pc[j] = "none"
  BY MainAssumption DEF Init, Contexts
<1>3. RunQueue
  BY <1>1, <1>2 DEF RunQueue, Runnable
<1>4. StackShape /\ WaitersSwitched
  BY DEF Init, StackShape, WaitersSwitched
<1> QED
  BY <1>3, <1>4 DEF WakeInductive

LEMMA WakeStep == Inductive /\ WakeInductive /\ [Next]_vars => WakeInductive'
<1> SUFFICES ASSUME Inductive, WakeInductive, [Next]_vars PROVE WakeInductive'
  OBVIOUS
<1>1. ASSUME UNCHANGED <<jobs, stack, pc, queue, wait>> PROVE WakeInductive'
  BY <1>1 DEF WakeInductive, RunQueue, Runnable, StackShape, WaitersSwitched, Members, Distinct
<1>2. CASE UNCHANGED vars
  BY <1>1, <1>2 DEF vars, sched, chans
<1>3. ASSUME NEW t \in Contexts, Starts(t) PROVE Running(t) /\ pc[t] = "running"
  BY <1>3 DEF Starts, Running
<1>4. ASSUME NEW t \in Contexts, Starts(t), NEW own, wait' = [wait EXCEPT ![t] = own],
             UNCHANGED <<jobs, stack, pc, queue>>
      PROVE  WakeInductive'
  <2>1. \A x \in Contexts : x # t => wait'[x] = wait[x]
    BY <1>4 DEF Inductive, TypeOK
  <2> QED
    BY <1>3, <1>4, <2>1, ReturnWakes
<1>5. ASSUME NEW t \in Contexts, NEW c \in Channels, BlockForever(t, c) PROVE WakeInductive'
  <2>1. /\ Starts(t) /\ Suspend(t, "forever") /\ UNCHANGED <<jobs, queue>>
        /\ wait' = [wait EXCEPT ![t] = Pending(now + 1)]
    BY <1>5 DEF BlockForever, chans
  <2> QED
    BY <1>3, <2>1, BlockWakes
<1>6. ASSUME NEW t \in Contexts, NEW c, NEW d, Starts(t), Block(t, c, d) PROVE WakeInductive'
  <2>1. /\ Suspend(t, "waiting") /\ UNCHANGED jobs
        /\ wait' = [wait EXCEPT ![t] = Pending(now + 1)]
        /\ \A v \in queue' : v \in queue \/ v.task = t
    BY <1>6 DEF Block
  <2> QED
    BY <1>3, <1>6, <2>1, BlockWakes
<1>7. ASSUME NEW t \in Contexts, NEW c \in Channels, ChanClose(t, c) PROVE WakeInductive'
  <2>1. Starts(t) /\ UNCHANGED <<stack, pc>>
    BY <1>7 DEF ChanClose
  <2>2. CASE c \in created /\ CloseOpen(t, c)
    BY <1>3, <2>1, <2>2, CloseWakes
  <2>3. CASE /\ wait' = [wait EXCEPT ![t] = Result(now + 1, 0, {}, FALSE)]
             /\ UNCHANGED <<jobs, queue>>
    BY <1>4, <2>1, <2>3
  <2> QED
    BY <1>7, <2>2, <2>3 DEF ChanClose
<1>8. ASSUME NEW t \in Contexts, NEW cases, NEW hasDefault, ChanSelect(t, cases, hasDefault)
      PROVE  WakeInductive'
  <2>1. Starts(t)
    BY <1>8 DEF ChanSelect
  <2>2. CASE SelectReady(t, cases)
    BY <1>3, <2>1, <2>2, NowWakes DEF SelectReady
  <2>3. CASE SelectPanic(t, cases) \/ SelectDefault(t, cases)
    BY <1>4, <2>1, <2>3 DEF SelectPanic, SelectDefault, sched, chans
  <2>4. CASE WaitSelect(t, cases)
    <3>1. /\ Suspend(t, "waiting") /\ UNCHANGED jobs
          /\ wait' = [wait EXCEPT ![t] = Pending(now + 1)]
          /\ queue' = queue \cup CaseWaiters(t, cases)
      BY <2>4 DEF WaitSelect
    <3>2. \A v \in CaseWaiters(t, cases) : v.task = t
      BY DEF CaseWaiters
    <3> QED
      BY <1>3, <2>1, <3>1, <3>2, BlockWakes
  <2> QED
    BY <1>8, <2>2, <2>3, <2>4 DEF ChanSelect
<1>9. ASSUME NEW t \in Contexts, NEW c \in Channels, ChanSend(t, c) \/ ChanReceive(t, c)
      PROVE  WakeInductive'
  BY <1>3, <1>6, <1>9, NowWakes DEF ChanSend, ChanReceive
<1>10. ASSUME NEW t \in Contexts, NEW c \in Channels, NEW k, ChanCreate(t, c, k) PROVE WakeInductive'
  BY <1>1, <1>10 DEF ChanCreate, sched
<1> QED
  BY <1>2, <1>5, <1>7, <1>8, <1>9, <1>10, ScheduleWakes DEF Next, Program

\* The run queue holds each goroutine that could run once, and no other: a send,
\* a receive, a select or a close that completes a blocked operation queues its
\* goroutine, a goroutine leaves the queue only to run, and none is queued twice.
THEOREM WakeupsKept == Spec => []NoLostWakeup
<1>1. Init => Inductive /\ WakeInductive
  BY InductiveInit, WakeInit
<1>2. Inductive /\ WakeInductive /\ [Next]_vars => (Inductive /\ WakeInductive)'
  BY InductiveStep, WakeStep
<1>3. Inductive /\ WakeInductive => NoLostWakeup
  BY RunQueueIs DEF Inductive, WakeInductive
<1> QED
  BY <1>1, <1>2, <1>3, PTL DEF Spec

----------------------------------------------------------------------------
(* Channels.  What they do with values is proved by the effect of a step:  *)
(* StepKinds shows that there are nine of them, whichever operation,       *)
(* select case or close brings them about.                                 *)

----------------------------------------------------------------------------
(* The effects of a step *)

\* No channel and no operation changes: a step of the scheduler.
Schedules == UNCHANGED <<created, cap, closed, buffer, queue, wait, now, sent, rcvd>>

Makes(c, k) ==
    /\ c \notin created
    /\ created' = created \cup {c}
    /\ cap' = [cap EXCEPT ![c] = k]
    /\ UNCHANGED <<closed, buffer, queue, wait, now, sent, rcvd>>

\* Context t starts an operation.
Operates(t) == pc[t] = "running" /\ now < MaxOps /\ now' = now + 1

\* The operation returns or blocks without a transfer.
Refrains(t) ==
    /\ \E o \in Outcome : /\ o.ticket = now + 1
                          /\ o.done /\ o.ok => o.did = {}
                          /\ wait' = [wait EXCEPT ![t] = o]
    /\ \A v \in queue' : v \in queue \/ v.ticket = now + 1
    /\ UNCHANGED <<created, cap, closed, buffer, sent, rcvd>>

\* The operation goes ahead on channel c in direction d, alone ...
Alone(t, c, d) ==
    /\ \E i \in Int : wait' = [wait EXCEPT
           ![t] = Result(now + 1, i, {[chan |-> c, dir |-> d]}, TRUE)]
    /\ UNCHANGED queue

\* ... or with the oldest waiter w of direction e.
Beside(t, c, d, w, e) ==
    /\ w \in Oldest(c, e)
    /\ queue' = queue \ ({w} \cup Group(w))
    /\ \E i \in Int : wait' = [wait EXCEPT
           ![w.task] = Committed(w, TRUE),
           ![t] = Result(now + 1, i, {[chan |-> c, dir |-> d]}, TRUE)]

Puts(t, c) ==
    /\ ~closed[c] /\ Waiting(c, "recv") = {} /\ Len(buffer[c]) < cap[c]
    /\ Alone(t, c, "send")
    /\ buffer' = [buffer EXCEPT ![c] = Append(@, now + 1)]
    /\ Accept(c, now + 1)
    /\ UNCHANGED <<created, cap, closed, rcvd>>

HandsTo(t, c, w) ==
    /\ Beside(t, c, "send", w, "recv")
    /\ Accept(c, now + 1) /\ Give(c, now + 1, w.ticket)
    /\ UNCHANGED <<created, cap, closed, buffer>>

Takes(t, c) ==
    /\ buffer[c] # <<>> /\ Waiting(c, "send") = {}
    /\ Alone(t, c, "recv")
    /\ buffer' = [buffer EXCEPT ![c] = Tail(@)]
    /\ Give(c, Head(buffer[c]), now + 1)
    /\ UNCHANGED <<created, cap, closed, sent>>

Refills(t, c, w) ==
    /\ buffer[c] # <<>>
    /\ Beside(t, c, "recv", w, "send")
    /\ buffer' = [buffer EXCEPT ![c] = Append(Tail(@), w.ticket)]
    /\ Accept(c, w.ticket) /\ Give(c, Head(buffer[c]), now + 1)
    /\ UNCHANGED <<created, cap, closed>>

TakesFrom(t, c, w) ==
    /\ buffer[c] = <<>>
    /\ Beside(t, c, "recv", w, "send")
    /\ Accept(c, w.ticket) /\ Give(c, w.ticket, now + 1)
    /\ UNCHANGED <<created, cap, closed, buffer>>

\* A close completes waiters, none of them with a value.
Closes(t, c) ==
    /\ ~closed[c]
    /\ closed' = [closed EXCEPT ![c] = TRUE]
    /\ queue' \subseteq queue
    /\ wait'[t] = Result(now + 1, 0, {}, TRUE)
    /\ \A x \in Contexts \ {t} :
         \/ wait'[x] = wait[x]
         \/ \E w \in queue : w.task = x /\ wait'[x].ticket = w.ticket /\ ~wait'[x].ok
    /\ UNCHANGED <<created, cap, buffer, sent, rcvd>>

Transfer(t, c) ==
    \/ Puts(t, c) \/ Takes(t, c)
    \/ \E w \in queue : HandsTo(t, c, w) \/ Refills(t, c, w) \/ TakesFrom(t, c, w)

----------------------------------------------------------------------------
\* `complete' serves the waiter it is given.
LEMMA CompleteServes ==
    ASSUME Inductive, NEW t, NEW c, NEW d, NEW e, NEW w \in Oldest(c, e), NEW i \in Int,
           Complete(t, Result(now + 1, i, {[chan |-> c, dir |-> d]}, TRUE), w, TRUE)
    PROVE  Completes(w) /\ w \in queue /\ Beside(t, c, d, w, e)
<1>1. w \in queue /\ Completes(w)
  BY OldestIsWaiting DEF Completes, Inductive, Registered
<1> QED
  BY <1>1 DEF Complete, Beside

LEMMA SendKinds ==
    ASSUME Inductive, NEW t \in Contexts, NEW c \in created, NEW i \in Int,
           SendNow(t, c, i)
    PROVE  Refrains(t) \/ Transfer(t, c)
<1> DEFINE own(ok) == Result(now + 1, i, {[chan |-> c, dir |-> "send"]}, ok)
<1>0. UNCHANGED <<created, cap, closed>> /\ SendReady(c)
  BY DEF SendNow
<1>1. CASE /\ closed[c] /\ wait' = [wait EXCEPT ![t] = own(FALSE)]
           /\ UNCHANGED <<jobs, buffer, queue, bindings, hist>>
  <2>1. own(FALSE) \in Outcome /\ own(FALSE).ticket = now + 1 /\ ~own(FALSE).ok
    BY DEF Result, Outcome, Inductive, TypeOK, Case
  <2> HIDE DEF own
  <2> QED
    BY <1>0, <1>1, <2>1 DEF Refrains, hist
<1>2. ASSUME NEW w \in Oldest(c, "recv"),
             ~closed[c], Complete(t, own(TRUE), w, TRUE), Accept(c, now + 1),
             IF Completes(w) THEN Give(c, now + 1, w.ticket) ELSE UNCHANGED rcvd,
             UNCHANGED buffer
      PROVE  Transfer(t, c)
  <2>1. Completes(w) /\ w \in queue /\ Beside(t, c, "send", w, "recv")
    BY <1>2, CompleteServes
  <2> QED
    BY <1>0, <1>2, <2>1 DEF Transfer, HandsTo
<1>3. CASE /\ ~closed[c] /\ Waiting(c, "recv") = {}
           /\ buffer' = [buffer EXCEPT ![c] = Append(@, now + 1)]
           /\ Accept(c, now + 1)
           /\ wait' = [wait EXCEPT ![t] = own(TRUE)]
           /\ UNCHANGED <<jobs, queue, bindings, rcvd>>
  <2>1. Alone(t, c, "send")
    BY <1>3 DEF Alone
  <2>2. Len(buffer[c]) < cap[c]
    BY <1>0, <1>3 DEF SendReady
  <2> QED
    BY <1>0, <1>3, <2>1, <2>2 DEF Transfer, Puts
<1> QED
  BY <1>1, <1>2, <1>3 DEF SendNow

LEMMA RecvKinds ==
    ASSUME Inductive, NEW t \in Contexts, NEW c \in created, NEW i \in Int,
           RecvNow(t, c, i)
    PROVE  Refrains(t) \/ Transfer(t, c)
<1> DEFINE own(ok) == Result(now + 1, i, {[chan |-> c, dir |-> "recv"]}, ok)
<1>0. UNCHANGED <<created, cap, closed>>
  BY DEF RecvNow
<1>1. CASE /\ buffer[c] # <<>> /\ Give(c, Head(buffer[c]), now + 1)
           /\ Waiting(c, "send") = {}
           /\ buffer' = [buffer EXCEPT ![c] = Tail(@)]
           /\ wait' = [wait EXCEPT ![t] = own(TRUE)]
           /\ UNCHANGED <<jobs, queue, bindings, sent>>
  <2>1. Alone(t, c, "recv")
    BY <1>1 DEF Alone
  <2> QED
    BY <1>0, <1>1, <2>1 DEF Transfer, Takes
<1>2. ASSUME NEW w \in Oldest(c, "send"), Complete(t, own(TRUE), w, TRUE),
             buffer[c] # <<>>, Give(c, Head(buffer[c]), now + 1),
             buffer' = [buffer EXCEPT ![c] = Refill(@, w.ticket)], Accept(c, w.ticket)
      PROVE  Transfer(t, c)
  <2>1. w \in queue /\ Beside(t, c, "recv", w, "send")
    BY <1>2, CompleteServes
  <2> QED
    BY <1>0, <1>2, <2>1 DEF Transfer, Refills, Refill
<1>3. ASSUME NEW w \in Oldest(c, "send"), Complete(t, own(TRUE), w, TRUE),
             buffer[c] = <<>>, Accept(c, w.ticket), Give(c, w.ticket, now + 1),
             UNCHANGED buffer
      PROVE  Transfer(t, c)
  <2>1. w \in queue /\ Beside(t, c, "recv", w, "send")
    BY <1>3, CompleteServes
  <2> QED
    BY <1>0, <1>3, <2>1 DEF Transfer, TakesFrom
<1>4. CASE /\ wait' = [wait EXCEPT ![t] = own(FALSE)]
           /\ UNCHANGED <<jobs, buffer, queue, bindings, hist>>
  <2>1. own(FALSE) \in Outcome /\ own(FALSE).ticket = now + 1 /\ ~own(FALSE).ok
    BY DEF Result, Outcome, Inductive, TypeOK, Case
  <2> HIDE DEF own
  <2> QED
    BY <1>0, <1>4, <2>1 DEF Refrains, hist
<1> QED
  BY <1>1, <1>2, <1>3, <1>4 DEF RecvNow

\* No receiver waits on a channel that holds values, so a close gives none out.
LEMMA CloseKinds ==
    ASSUME Inductive, NEW t \in Contexts, pc[t] = "running", NEW c \in created,
           CloseOpen(t, c), ~closed[c], UNCHANGED <<created, cap>>
    PROVE  Closes(t, c)
<1> USE DEF Inductive
<1> DEFINE W == Completed(c)
           R == {w \in W : w.dir = "recv"}
<1>1. PICK r \in Orderings(R), q \in Orderings({w \in W : Enqueues(w.task)}) : CloseWith(t, c, r, q)
  BY DEF CloseOpen
<1> DEFINE n == IF Len(r) < Len(buffer[c]) THEN Len(r) ELSE Len(buffer[c])
<1>2. /\ c \in Channels /\ buffer[c] \in Seq(Nat) /\ Len(buffer[c]) \in Nat
      /\ rcvd[c] \in Seq([value : Nat, by : Nat])
  BY DEF TypeOK
<1>3. R \subseteq queue /\ \A w \in R : w.chan = c /\ w.dir = "recv"
  BY DEF Completed
<1>4. IsFiniteSet(R) /\ Cardinality(R) \in Nat
  BY <1>3, SubQueueFinite
<1>5. r \in [1..Cardinality(R) -> R] /\ Len(r) = Cardinality(R) /\ Len(r) \in Nat
  <2>1. r \in [1..Cardinality(R) -> R]
    BY DEF Orderings, Bijection, Injection
  <2> HIDE DEF R
  <2> QED
    BY <1>4, <2>1, FunctionSeq
<1>6. n = 0
  <2>1. CASE R = {}
    <3>1. Len(r) = 0
      BY <1>5, <2>1, FS_EmptySet
    <3> QED
      BY <1>2, <3>1
  <2>2. CASE R # {}
    <3>1. PICK w \in R : TRUE
      BY <2>2
    <3>2. buffer[c] = <<>>
      BY <1>3, <3>1 DEF NoMissedRendezvous
    <3>3. Len(buffer[c]) = 0
      BY <3>2
    <3> QED
      BY <1>5, <3>3
  <2> QED
    BY <2>1, <2>2
<1>7. buffer' = [buffer EXCEPT ![c] = SubSeq(buffer[c], n + 1, Len(buffer[c]))]
  BY <1>1 DEF CloseWith
<1>8. rcvd' = [rcvd EXCEPT ![c] = rcvd[c] \o [k \in 1..n |-> [value |-> buffer[c][k], by |-> r[k].ticket]]]
  BY <1>1 DEF CloseWith
<1>9. UNCHANGED buffer
  <2>1. SubSeq(buffer[c], 0 + 1, Len(buffer[c])) = buffer[c]
    BY <1>2, SubSeqFull
  <2> QED
    BY <1>6, <1>7, <2>1 DEF TypeOK
<1>10. UNCHANGED rcvd
  <2>1. [k \in 1..0 |-> [value |-> buffer[c][k], by |-> r[k].ticket]] = <<>>
    OBVIOUS
  <2>2. rcvd[c] \o <<>> = rcvd[c]
    BY <1>2, ConcatEmptySeq
  <2> QED
    BY <1>6, <1>8, <2>1, <2>2 DEF TypeOK
<1>11. ASSUME NEW x \in Contexts \ {t}
       PROVE  \/ wait'[x] = wait[x]
              \/ \E w \in queue : w.task = x /\ wait'[x].ticket = w.ticket /\ ~wait'[x].ok
  <2>1. CASE \E w \in W : w.task = x
    <3> DEFINE w == CHOOSE w \in W : w.task = x
    <3>1. w \in W /\ w.task = x
      BY <2>1
    <3>2. wait'[x] = Committed(w, \E k \in 1..n : r[k] = w)
      BY <1>1, <2>1 DEF CloseWith
    <3> HIDE DEF w
    <3>3. ~wait'[x].ok /\ wait'[x].ticket = w.ticket
      BY <1>6, <3>2 DEF Committed, Result
    <3> QED
      BY <3>1, <3>3 DEF Completed
  <2>2. CASE ~\E w \in W : w.task = x
    BY <1>1, <2>2 DEF CloseWith
  <2> QED
    BY <2>1, <2>2
<1>12. /\ closed' = [closed EXCEPT ![c] = TRUE] /\ queue' \subseteq queue
       /\ wait'[t] = Result(now + 1, 0, {}, TRUE) /\ UNCHANGED sent
  BY <1>1 DEF CloseWith
<1> QED
  BY <1>9, <1>10, <1>11, <1>12 DEF Closes

LEMMA StepKinds ==
    ASSUME Inductive, [Next]_vars
    PROVE  \/ Schedules
           \/ \E c \in Channels, k \in Capacities : Makes(c, k)
           \/ \E t \in Contexts :
                /\ Operates(t)
                /\ \/ Refrains(t)
                   \/ \E c \in created : Transfer(t, c) \/ Closes(t, c)
<1> DEFINE Goal == \/ Schedules
                   \/ \E c \in Channels, k \in Capacities : Makes(c, k)
                   \/ \E t \in Contexts :
                        /\ Operates(t)
                        /\ \/ Refrains(t)
                           \/ \E c \in created : Transfer(t, c) \/ Closes(t, c)
<1>1. CASE UNCHANGED vars
  BY <1>1 DEF vars, sched, chans, hist, Schedules
<1>2. ASSUME NEW t \in Contexts, \/ \E j \in Jobs : Spawn(t, j)
                                \/ Schedule(t) \/ Drain(t) \/ Finish(t)
      PROVE  Goal
  BY <1>2 DEF Spawn, Schedule, RunOne, RunNone, Resume, Drain, Finish, chans, hist, Schedules
<1>3. ASSUME NEW t \in Contexts, NEW c \in Channels, NEW k \in Capacities, ChanCreate(t, c, k)
      PROVE  Goal
  BY <1>3 DEF ChanCreate, hist, Makes
<1>4. ASSUME NEW t \in Contexts, Starts(t)
      PROVE  Operates(t) /\ pc[t] = "running" /\ now + 1 \in Nat
  BY <1>4 DEF Starts, Running, Operates, Inductive, TypeOK
<1>5. ASSUME NEW t \in Contexts, Starts(t), NEW o \in Outcome, o.ticket = now + 1,
             o.done /\ o.ok => o.did = {}, wait' = [wait EXCEPT ![t] = o],
             NEW W, \A w \in W : w.ticket = now + 1, queue' = queue \cup W,
             UNCHANGED <<created, cap, closed, buffer, hist>>
      PROVE  Goal
  BY <1>4, <1>5 DEF Refrains, hist
<1>6. ASSUME NEW t \in Contexts, Starts(t)
      PROVE  Pending(now + 1) \in Outcome /\ Pending(now + 1).ticket = now + 1 /\ ~Pending(now + 1).done
  BY <1>4, <1>6, PendingType DEF Pending
<1>7. ASSUME NEW t \in Contexts, NEW o \in Outcome, Starts(t), o.ticket = now + 1,
              o.done /\ o.ok => o.did = {}, wait' = [wait EXCEPT ![t] = o],
              UNCHANGED <<created, cap, closed, buffer, queue, sent, rcvd>>
       PROVE  Goal
  BY <1>4, <1>7 DEF Refrains
<1>8. ASSUME NEW t \in Contexts, NEW c \in Channels, BlockForever(t, c) PROVE Goal
  <2>1. Starts(t) /\ wait' = [wait EXCEPT ![t] = Pending(now + 1)] /\ UNCHANGED <<chans, hist>>
    BY <1>8 DEF BlockForever
  <2>2. UNCHANGED <<created, cap, closed, buffer, queue, sent, rcvd>>
    BY <2>1 DEF chans, hist
  <2> QED
    BY <1>6, <1>7, <2>1, <2>2
<1>9. ASSUME NEW t \in Contexts, NEW c \in Channels, NEW d \in Dirs, Starts(t), Block(t, c, d)
      PROVE  Goal
  <2> DEFINE W == {[task |-> t, ticket |-> now + 1, index |-> 0, chan |-> c, dir |-> d, select |-> FALSE]}
  <2>1. \A w \in W : w.ticket = now + 1
    OBVIOUS
  <2>2. /\ wait' = [wait EXCEPT ![t] = Pending(now + 1)] /\ queue' = queue \cup W
        /\ UNCHANGED <<created, cap, closed, buffer, hist>>
    BY <1>9 DEF Block
  <2> HIDE DEF W
  <2> QED
    BY <1>5, <1>6, <1>9, <2>1, <2>2
<1>10. ASSUME NEW t \in Contexts, NEW c \in Channels, ChanSend(t, c) PROVE Goal
  BY <1>4, <1>9, <1>10, SendKinds DEF ChanSend
<1>11. ASSUME NEW t \in Contexts, NEW c \in Channels, ChanReceive(t, c) PROVE Goal
  BY <1>4, <1>9, <1>11, RecvKinds DEF ChanReceive
<1>12. ASSUME NEW t \in Contexts, NEW c \in Channels, ChanClose(t, c) PROVE Goal
  <2>1. Starts(t) /\ UNCHANGED <<created, cap>>
    BY <1>12 DEF ChanClose
  <2>2. CASE c \in created /\ ~closed[c] /\ CloseOpen(t, c)
    BY <1>4, <2>1, <2>2, CloseKinds
  <2>3. CASE /\ wait' = [wait EXCEPT ![t] = Result(now + 1, 0, {}, FALSE)]
             /\ UNCHANGED <<jobs, closed, buffer, queue, bindings, hist>>
    <3> DEFINE o == Result(now + 1, 0, {}, FALSE)
    <3>1. o \in Outcome /\ o.ticket = now + 1 /\ o.did = {}
      BY <1>4, <2>1 DEF Result, Outcome
    <3>2. UNCHANGED <<created, cap, closed, buffer, queue, sent, rcvd>> /\ wait' = [wait EXCEPT ![t] = o]
      BY <2>1, <2>3 DEF hist
    <3> HIDE DEF o
    <3> QED
      BY <1>7, <2>1, <3>1, <3>2
  <2> QED
    BY <1>12, <2>2, <2>3 DEF ChanClose
<1>13. ASSUME NEW t \in Contexts, NEW cases \in SelectShapes, NEW hasDefault \in BOOLEAN,
              ChanSelect(t, cases, hasDefault)
       PROVE  Goal
  <2>1. Starts(t) /\ cases \in Seq(Case)
    BY <1>13, ShapeAssumption DEF ChanSelect
  <2>2. CASE SelectReady(t, cases)
    <3>1. PICK i \in Ready(cases) : IF cases[i].dir = "send" THEN SendNow(t, cases[i].chan, i)
                                                            ELSE RecvNow(t, cases[i].chan, i)
      BY <2>2 DEF SelectReady
    <3>2. i \in Int /\ cases[i].chan \in created
      BY DEF Ready
    <3> QED
      BY <1>4, <2>1, <3>1, <3>2, SendKinds, RecvKinds
  <2>3. CASE SelectPanic(t, cases) \/ SelectDefault(t, cases)
    <3>1. PICK o : /\ o = Result(now + 1, DefaultIndex, {}, TRUE) \/ o = Result(now + 1, PanicIndex, {}, FALSE)
                   /\ wait' = [wait EXCEPT ![t] = o]
      BY <2>3 DEF SelectPanic, SelectDefault
    <3>2. o \in Outcome /\ o.ticket = now + 1 /\ o.did = {}
      <4>1. /\ now + 1 \in Nat /\ DefaultIndex \in Int /\ PanicIndex \in Int
            /\ {} \in SUBSET Case /\ TRUE \in BOOLEAN /\ FALSE \in BOOLEAN
        BY <1>4, <2>1 DEF DefaultIndex, PanicIndex
      <4>2. o \in Outcome
        BY <3>1, <4>1, ResultType
      <4> QED
        BY <3>1, <4>2 DEF Result
    <3>3. UNCHANGED <<created, cap, closed, buffer, queue, sent, rcvd>>
      BY <2>3 DEF SelectPanic, SelectDefault, chans, hist
    <3> QED
      BY <1>7, <2>1, <3>1, <3>2, <3>3
  <2>4. CASE WaitSelect(t, cases)
    <3> DEFINE W == CaseWaiters(t, cases)
    <3>1. /\ wait' = [wait EXCEPT ![t] = Pending(now + 1)] /\ queue' = queue \cup W
          /\ UNCHANGED <<created, cap, closed, buffer, hist>>
      BY <2>4 DEF WaitSelect
    <3>2. \A w \in W : w.ticket = now + 1
      BY DEF CaseWaiters
    <3> HIDE DEF W
    <3> QED
      BY <1>5, <1>6, <2>1, <3>1, <3>2
  <2> QED
    BY <1>13, <2>2, <2>3, <2>4 DEF ChanSelect
<1> QED
  BY <1>1, <1>2, <1>3, <1>8, <1>10, <1>11, <1>12, <1>13 DEF Next, Program

----------------------------------------------------------------------------
(* Sequences of values *)

Increasing(s) == \A i, k \in 1..Len(s) : i < k => s[i] < s[k]

LEMMA GrowSeq ==
    ASSUME NEW s \in Seq(Nat), NEW v \in Nat
    PROVE  /\ Append(s, v) \in Seq(Nat)
           /\ Members(Append(s, v)) = Members(s) \cup {v}
           /\ Increasing(s) /\ (\A x \in Members(s) : x < v) => Increasing(Append(s, v))
<1>1. /\ Append(s, v) \in Seq(Nat) /\ Len(Append(s, v)) = Len(s) + 1 /\ Len(s) \in Nat
      /\ \A i \in 1..Len(s) : Append(s, v)[i] = s[i]
      /\ Append(s, v)[Len(s) + 1] = v
  BY AppendProperties, LenProperties
<1>2. \A i \in 1..(Len(s) + 1) : i \in 1..Len(s) \/ i = Len(s) + 1
  BY <1>1
<1>3. Members(Append(s, v)) = Members(s) \cup {v}
  BY <1>1, <1>2 DEF Members
<1>4. ASSUME Increasing(s), \A x \in Members(s) : x < v PROVE Increasing(Append(s, v))
  <2> SUFFICES ASSUME NEW i \in 1..(Len(s) + 1), NEW k \in 1..(Len(s) + 1), i < k
               PROVE  Append(s, v)[i] < Append(s, v)[k]
    BY <1>1 DEF Increasing
  <2>1. i \in 1..Len(s) /\ (k \in 1..Len(s) \/ k = Len(s) + 1)
    BY <1>1
  <2> QED
    BY <1>1, <1>4, <2>1 DEF Increasing, Members
<1> QED
  BY <1>1, <1>3, <1>4

\* A value joins the end of a channel.
LEMMA ConcatPut ==
    ASSUME NEW g \in Seq(Nat), NEW b \in Seq(Nat), NEW v \in Nat
    PROVE  Append(g \o b, v) = g \o Append(b, v)
<1>1. g \o b \in Seq(Nat) /\ <<v>> \in Seq(Nat)
  BY ConcatProperties
<1>2. Append(g \o b, v) = (g \o b) \o <<v>> /\ Append(b, v) = b \o <<v>>
  BY <1>1, AppendIsConcat
<1>3. (g \o b) \o <<v>> = g \o (b \o <<v>>)
  BY <1>1, ConcatAssociative
<1> QED
  BY <1>2, <1>3

\* The oldest value leaves the buffer.
LEMMA ConcatTake ==
    ASSUME NEW g \in Seq(Nat), NEW b \in Seq(Nat), b # <<>>
    PROVE  g \o b = Append(g, Head(b)) \o Tail(b)
<1>1. Head(b) \in Nat /\ Tail(b) \in Seq(Nat) /\ <<Head(b)>> \in Seq(Nat)
  BY HeadTailProperties
<1>2. Append(g, Head(b)) = g \o <<Head(b)>>
  BY <1>1, AppendIsConcat
<1>3. b = <<Head(b)>> \o Tail(b)
  <2>1. /\ Len(b) \in Nat \ {0} /\ Len(Tail(b)) = Len(b) - 1
        /\ \A i \in 1..Len(Tail(b)) : Tail(b)[i] = b[i + 1]
    BY EmptySeq, HeadTailProperties
  <2>2. /\ <<Head(b)>> \o Tail(b) \in Seq(Nat)
        /\ Len(<<Head(b)>> \o Tail(b)) = Len(b)
        /\ \A i \in 1..Len(b) : (<<Head(b)>> \o Tail(b))[i] =
                 IF i <= 1 THEN <<Head(b)>>[i] ELSE Tail(b)[i - 1]
    BY <1>1, <2>1, ConcatProperties
  <2>3. \A i \in 1..Len(b) : (<<Head(b)>> \o Tail(b))[i] = b[i]
    <3> TAKE i \in 1..Len(b)
    <3>1. CASE i = 1
      BY <2>1, <2>2, <3>1
    <3>2. CASE i # 1
      <4>1. i - 1 \in 1..Len(Tail(b)) /\ ~(i <= 1) /\ (i - 1) + 1 = i
        BY <2>1, <3>2
      <4>2. Tail(b)[i - 1] = b[i]
        BY <2>1, <4>1
      <4> QED
        BY <2>2, <4>1, <4>2
    <3> QED
      BY <3>1, <3>2
  <2> QED
    BY <2>2, <2>3, SeqEqual
<1> QED
  BY <1>1, <1>2, <1>3, ConcatAssociative

----------------------------------------------------------------------------
(* What a channel gave out, and to whom *)

Vals(c) == [k \in 1..Len(rcvd[c]) |-> rcvd[c][k].value]
Bys(c) == [k \in 1..Len(rcvd[c]) |-> rcvd[c][k].by]

LEMMA ValsType ==
    ASSUME TypeOK, NEW c \in Channels
    PROVE  Vals(c) \in Seq(Nat) /\ Bys(c) \in Seq(Nat) /\ Len(Bys(c)) = Len(rcvd[c])
<1> DEFINE E == [value : Nat, by : Nat]
<1>0. rcvd[c] \in Seq(E)
  BY DEF TypeOK
<1> HIDE DEF E
<1>1. Len(rcvd[c]) \in Nat /\ \A k \in 1..Len(rcvd[c]) : rcvd[c][k] \in E
  BY <1>0, LenProperties
<1>2. Vals(c) \in [1..Len(rcvd[c]) -> Nat] /\ Bys(c) \in [1..Len(rcvd[c]) -> Nat]
  BY <1>1 DEF Vals, Bys, E
<1> QED
  BY <1>1, <1>2, FunctionSeq

LEMMA GiveEffect ==
    ASSUME TypeOK, NEW c \in Channels, NEW v \in Nat, NEW n \in Nat, Give(c, v, n)
    PROVE  /\ Vals(c)' = Append(Vals(c), v)
           /\ Bys(c)' = Append(Bys(c), n)
           /\ \A x \in Channels : x # c => Vals(x)' = Vals(x) /\ Bys(x)' = Bys(x)
<1> DEFINE E == [value : Nat, by : Nat]
           e == [value |-> v, by |-> n]
           l == Len(rcvd[c])
<1>1. rcvd \in [Channels -> Seq(E)] /\ e \in E /\ e.value = v /\ e.by = n
  BY DEF TypeOK
<1>2. rcvd'[c] = Append(rcvd[c], e) /\ \A x \in Channels : x # c => rcvd'[x] = rcvd[x]
  BY <1>1 DEF Give
<1> HIDE DEF E, e
<1>3. /\ l \in Nat /\ Len(rcvd'[c]) = l + 1
      /\ \A k \in 1..l : rcvd'[c][k] = rcvd[c][k]
      /\ rcvd'[c][l + 1] = e
  BY <1>1, <1>2, AppendProperties, LenProperties
<1> HIDE DEF l
<1>4. Vals(c) \in Seq(Nat) /\ Len(Vals(c)) = l /\ \A k \in 1..l : Vals(c)[k] = rcvd[c][k].value
  BY <1>3, ValsType DEF Vals, l
<1>5. Bys(c) \in Seq(Nat) /\ Len(Bys(c)) = l /\ \A k \in 1..l : Bys(c)[k] = rcvd[c][k].by
  BY <1>3, ValsType DEF Bys, l
<1>6. \A k \in 1..(l + 1) : k \in 1..l \/ k = l + 1
  BY <1>3
<1>7. Vals(c)' = Append(Vals(c), v)
  <2>1. /\ Append(Vals(c), v) \in Seq(Nat) /\ Len(Append(Vals(c), v)) = l + 1
        /\ \A k \in 1..l : Append(Vals(c), v)[k] = Vals(c)[k]
        /\ Append(Vals(c), v)[l + 1] = v
    BY <1>4, AppendProperties
  <2>2. Vals(c)' = [k \in 1..(l + 1) |-> rcvd'[c][k].value]
    BY <1>3 DEF Vals
  <2>3. \A k \in 1..(l + 1) : Vals(c)'[k] = Append(Vals(c), v)[k]
    BY <1>1, <1>3, <1>4, <1>6, <2>1, <2>2
  <2>4. Vals(c)' \in [1..(l + 1) -> Nat]
    <3>1. Append(Vals(c), v) \in [1..(l + 1) -> Nat]
      BY <2>1, LenProperties
    <3>2. \A k \in 1..(l + 1) : rcvd'[c][k].value \in Nat
      BY <2>2, <2>3, <3>1
    <3> QED
      BY <2>2, <3>2
  <2>5. Vals(c)' \in Seq(Nat) /\ Len(Vals(c)') = l + 1
    BY <1>3, <2>4, FunctionSeq
  <2> QED
    BY <2>1, <2>3, <2>5, SeqEqual
<1>8. Bys(c)' = Append(Bys(c), n)
  <2>1. /\ Append(Bys(c), n) \in Seq(Nat) /\ Len(Append(Bys(c), n)) = l + 1
        /\ \A k \in 1..l : Append(Bys(c), n)[k] = Bys(c)[k]
        /\ Append(Bys(c), n)[l + 1] = n
    BY <1>5, AppendProperties
  <2>2. Bys(c)' = [k \in 1..(l + 1) |-> rcvd'[c][k].by]
    BY <1>3 DEF Bys
  <2>3. \A k \in 1..(l + 1) : Bys(c)'[k] = Append(Bys(c), n)[k]
    BY <1>1, <1>3, <1>5, <1>6, <2>1, <2>2
  <2>4. Bys(c)' \in [1..(l + 1) -> Nat]
    <3>1. Append(Bys(c), n) \in [1..(l + 1) -> Nat]
      BY <2>1, LenProperties
    <3>2. \A k \in 1..(l + 1) : rcvd'[c][k].by \in Nat
      BY <2>2, <2>3, <3>1
    <3> QED
      BY <2>2, <3>2
  <2>5. Bys(c)' \in Seq(Nat) /\ Len(Bys(c)') = l + 1
    BY <1>3, <2>4, FunctionSeq
  <2> QED
    BY <2>1, <2>3, <2>5, SeqEqual
<1>9. \A x \in Channels : x # c => Vals(x)' = Vals(x) /\ Bys(x)' = Bys(x)
  BY <1>2 DEF Vals, Bys
<1> QED
  BY <1>7, <1>8, <1>9

LEMMA AcceptEffect ==
    ASSUME TypeOK, NEW c \in Channels, NEW v, Accept(c, v)
    PROVE  /\ sent'[c] = Append(sent[c], v)
           /\ \A x \in Channels : x # c => sent'[x] = sent[x]
  BY DEF TypeOK, Accept

----------------------------------------------------------------------------
(* The inductive invariant *)

\* The tickets of the operations that went ahead on channel c in direction d.
Did(c, d) == IF d = "send" THEN Members(sent[c]) ELSE Members(Bys(c))

\* Tickets tell operations apart, and none is from the future.
OwnTickets ==
    /\ now <= MaxOps
    /\ \A t, u \in Contexts : wait[t].ticket = wait[u].ticket => t = u \/ wait[t].ticket = 0
Past == \A c \in Channels, d \in Dirs : Did(c, d) \subseteq 1..now

\* A waiter comes after all who were served before.
InLine == \A w \in queue : w.ticket # 0 /\ \A n \in Did(w.chan, w.dir) : n < w.ticket

\* OutcomeAgrees, transfer by transfer.
Reported ==
    \A t \in Contexts, c \in Channels, d \in Dirs :
        wait[t].ticket # 0 =>
            (wait[t].ticket \in Did(c, d)
                <=> wait[t].done /\ wait[t].ok /\ [chan |-> c, dir |-> d] \in wait[t].did)

Books == OwnTickets /\ Past /\ InLine /\ Reported

Ordered == \A c \in Channels : Increasing(sent[c]) /\ Increasing(Bys(c))

ChannelInductive == Books /\ Ordered /\ Conservation

LEMMA QueueFacts ==
    ASSUME Inductive, NEW w \in queue
    PROVE  /\ w \in Waiter /\ w.task \in Contexts /\ w.chan \in Channels /\ w.dir \in Dirs
           /\ w.ticket \in Nat /\ w.ticket <= now
           /\ w.ticket = wait[w.task].ticket /\ ~wait[w.task].done
<1>1. w \in Waiter /\ w.task \in Contexts /\ w.chan \in Channels /\ w.dir \in Dirs /\ w.ticket \in Nat
  BY DEF Inductive, TypeOK, Waiter
<1>2. w.ticket = wait[w.task].ticket /\ ~wait[w.task].done
  BY DEF Inductive, Registered
<1> QED
  BY <1>1, <1>2 DEF Inductive, Tickets

LEMMA TicketFacts ==
    ASSUME Inductive
    PROVE  now \in Nat /\ \A x \in Contexts : wait[x].ticket \in Nat /\ wait[x].ticket <= now
  BY DEF Inductive, TypeOK, Tickets, Outcome

\* An operation that goes ahead alone, past nobody.
LEMMA AloneBooks ==
    ASSUME Inductive, Books, NEW t \in Contexts, Operates(t), NEW c \in Channels, NEW d \in Dirs,
           Alone(t, c, d), Waiting(c, d) = {},
           \A x \in Channels, f \in Dirs :
               Did(x, f)' = IF x = c /\ f = d THEN Did(x, f) \cup {now + 1} ELSE Did(x, f)
    PROVE  Books'
<1> USE DEF Books
<1>1. PICK i \in Int : wait' = [wait EXCEPT ![t] = Result(now + 1, i, {[chan |-> c, dir |-> d]}, TRUE)]
  BY DEF Alone
<1>2. UNCHANGED queue /\ now' = now + 1 /\ now < MaxOps
  BY DEF Alone, Operates
<1>3. now \in Nat /\ now + 1 \in Nat /\ \A x \in Contexts : wait[x].ticket \in Nat /\ wait[x].ticket <= now
  BY TicketFacts
<1>4. /\ wait'[t].ticket = now + 1 /\ wait'[t].done /\ wait'[t].ok
      /\ wait'[t].did = {[chan |-> c, dir |-> d]}
      /\ \A x \in Contexts : x # t => wait'[x] = wait[x]
  BY <1>1 DEF Result, Inductive, TypeOK
<1>5. OwnTickets'
  BY <1>2, <1>3, <1>4, BoundAssumption DEF OwnTickets
<1>6. Past'
  BY <1>2, <1>3 DEF Past
<1>7. InLine'
  <2> SUFFICES ASSUME NEW w \in queue
               PROVE  w.ticket # 0 /\ \A n \in Did(w.chan, w.dir)' : n < w.ticket
    BY <1>2 DEF InLine
  <2>1. ~(w.chan = c /\ w.dir = d) /\ w.chan \in Channels /\ w.dir \in Dirs
    BY QueueFacts DEF Waiting
  <2> QED
    BY <2>1 DEF InLine
<1>8. Reported'
  <2> SUFFICES ASSUME NEW y \in Contexts, NEW x \in Channels, NEW f \in Dirs, wait'[y].ticket # 0
               PROVE  wait'[y].ticket \in Did(x, f)' <=>
                          wait'[y].done /\ wait'[y].ok /\ [chan |-> x, dir |-> f] \in wait'[y].did
    BY DEF Reported
  <2>1. CASE y = t
    <3>1. now + 1 \notin Did(x, f)
      BY <1>3 DEF Past
    <3>2. [chan |-> x, dir |-> f] \in {[chan |-> c, dir |-> d]} <=> x = c /\ f = d
      OBVIOUS
    <3> QED
      BY <1>4, <2>1, <3>1, <3>2
  <2>2. CASE y # t
    <3>1. wait'[y] = wait[y] /\ wait[y].ticket # now + 1
      BY <1>3, <1>4, <2>2
    <3> QED
      BY <3>1 DEF Reported
  <2> QED
    BY <2>1, <2>2
<1> QED
  BY <1>5, <1>6, <1>7, <1>8

\* Whoever serves the oldest waiter leaves nobody on its own side of the channel,
\* and on the other side those who came later.
LEMMA BesideQueue ==
    ASSUME Inductive, NEW t, NEW c, NEW w \in queue, NEW d \in Dirs, NEW e \in Dirs, d # e,
           Beside(t, c, d, w, e), NEW v \in queue', v.chan = c
    PROVE  v \in queue /\ v.dir = e /\ w.ticket < v.ticket
<1> USE DEF Inductive
<1>1. w.chan = c /\ w.dir = e /\ v \in queue /\ v # w /\ v \notin Group(w)
      /\ (v.dir = e => ~Before(v, w))
  BY DEF Beside, Oldest, Waiting
<1>2. v.dir \in Dirs /\ v.ticket \in Nat /\ w.ticket \in Nat
  BY <1>1, QueueFacts
<1>3. v.ticket # w.ticket
  <2> SUFFICES ASSUME v.ticket = w.ticket PROVE FALSE
    OBVIOUS
  <2>1. v.select
    BY <1>1 DEF Tickets
  <2> QED
    BY <1>1, <2>1 DEF Registered, Group
<1>4. v.dir = e
  <2> SUFFICES ASSUME v.dir = d PROVE FALSE
    BY <1>2
  <2>1. v.ticket = w.ticket
    BY <1>1 DEF NoMissedRendezvous, Waiting
  <2> QED
    BY <1>3, <2>1
<1> QED
  BY <1>1, <1>2, <1>3, <1>4 DEF Before

LEMMA BesideBooks ==
    ASSUME Inductive, Books, NEW t \in Contexts, Operates(t), NEW c \in Channels, NEW d \in Dirs,
           NEW w \in queue, NEW e \in Dirs, d # e, Beside(t, c, d, w, e),
           \A x \in Channels, f \in Dirs :
               Did(x, f)' = IF x # c THEN Did(x, f)
                            ELSE IF f = d THEN Did(x, f) \cup {now + 1}
                            ELSE Did(x, f) \cup {w.ticket}
    PROVE  Books'
<1> USE DEF Books
<1>1. PICK i \in Int : wait' = [wait EXCEPT ![w.task] = Committed(w, TRUE),
                               ![t] = Result(now + 1, i, {[chan |-> c, dir |-> d]}, TRUE)]
  BY DEF Beside
<1>2. /\ queue' \subseteq queue /\ now' = now + 1 /\ now < MaxOps /\ pc[t] = "running"
      /\ w.chan = c /\ w.dir = e
  BY DEF Beside, Operates, Oldest, Waiting
<1>3. now \in Nat /\ now + 1 \in Nat /\ \A x \in Contexts : wait[x].ticket \in Nat /\ wait[x].ticket <= now
  BY TicketFacts
<1>4. /\ w.task \in Contexts /\ w.task # t /\ w.ticket \in Nat /\ w.ticket <= now /\ w.ticket # 0
      /\ w.ticket = wait[w.task].ticket /\ ~wait[w.task].done
  BY <1>2, QueueFacts, RunningUnregistered DEF InLine
<1>5. /\ wait'[t].ticket = now + 1 /\ wait'[t].done /\ wait'[t].ok
      /\ wait'[t].did = {[chan |-> c, dir |-> d]}
      /\ wait'[w.task].ticket = w.ticket /\ wait'[w.task].done /\ wait'[w.task].ok
      /\ wait'[w.task].did = {[chan |-> c, dir |-> e]}
      /\ \A x \in Contexts : x # t /\ x # w.task => wait'[x] = wait[x]
  BY <1>1, <1>2, <1>4 DEF Result, Committed, Inductive, TypeOK
<1>6. OwnTickets'
  <2>1. \A x \in Contexts : wait'[x].ticket = IF x = t THEN now + 1 ELSE wait[x].ticket
    BY <1>4, <1>5
  <2> QED
    BY <1>2, <1>3, <2>1, BoundAssumption DEF OwnTickets
<1>7. Past'
  BY <1>2, <1>3, <1>4 DEF Past
<1>8. InLine'
  <2> SUFFICES ASSUME NEW v \in queue'
               PROVE  v.ticket # 0 /\ \A n \in Did(v.chan, v.dir)' : n < v.ticket
    BY DEF InLine
  <2>1. v \in queue /\ v.chan \in Channels /\ v.dir \in Dirs /\ v.ticket # 0
    BY <1>2, QueueFacts DEF InLine
  <2>2. CASE v.chan # c
    BY <2>1, <2>2 DEF InLine
  <2>3. CASE v.chan = c
    <3>1. v.dir = e /\ w.ticket < v.ticket
      BY <2>3, BesideQueue
    <3> QED
      BY <2>1, <2>3, <3>1 DEF InLine
  <2> QED
    BY <2>2, <2>3
<1>9. Reported'
  <2> SUFFICES ASSUME NEW y \in Contexts, NEW x \in Channels, NEW f \in Dirs, wait'[y].ticket # 0
               PROVE  wait'[y].ticket \in Did(x, f)' <=>
                          wait'[y].done /\ wait'[y].ok /\ [chan |-> x, dir |-> f] \in wait'[y].did
    BY DEF Reported
  <2>1. CASE y = t
    <3>1. now + 1 \notin Did(x, f) /\ now + 1 # w.ticket
      BY <1>3, <1>4 DEF Past
    <3>2. [chan |-> x, dir |-> f] \in {[chan |-> c, dir |-> d]} <=> x = c /\ f = d
      OBVIOUS
    <3> QED
      BY <1>5, <2>1, <3>1, <3>2
  <2>2. CASE y = w.task
    <3>1. w.ticket \notin Did(x, f) /\ now + 1 # w.ticket
      <4>1. wait[w.task].ticket \in Did(x, f) => wait[w.task].done
        BY <1>4 DEF Reported
      <4> QED
        BY <1>3, <1>4, <4>1
    <3>2. [chan |-> x, dir |-> f] \in {[chan |-> c, dir |-> e]} <=> x = c /\ f = e
      OBVIOUS
    <3> QED
      BY <1>5, <2>2, <3>1, <3>2
  <2>3. CASE y # t /\ y # w.task
    <3>1. wait'[y] = wait[y] /\ wait[y].ticket # now + 1 /\ wait[y].ticket # w.ticket
      BY <1>3, <1>4, <1>5, <2>3 DEF OwnTickets
    <3>2. wait[y].ticket \in Did(x, f) <=>
              wait[y].done /\ wait[y].ok /\ [chan |-> x, dir |-> f] \in wait[y].did
      BY <3>1 DEF Reported
    <3>3. wait[y].ticket \in Did(x, f)' <=> wait[y].ticket \in Did(x, f)
      BY <3>1
    <3> QED
      BY <3>1, <3>2, <3>3
  <2> QED
    BY <2>1, <2>2, <2>3
<1> QED
  BY <1>6, <1>7, <1>8, <1>9

\* A step in which nothing is transferred: waiters may come, and waiters that go
\* are told that the channel is closed.
LEMMA QuietBooks ==
    ASSUME Inductive, Books, NEW t \in Contexts, Operates(t),
           wait'[t].ticket = now + 1, wait'[t].done /\ wait'[t].ok => wait'[t].did = {},
           \A x \in Contexts \ {t} :
               \/ wait'[x] = wait[x]
               \/ \E w \in queue : w.task = x /\ wait'[x].ticket = w.ticket /\ ~wait'[x].ok,
           \A v \in queue' : v \in queue \/ v.ticket = now + 1,
           \A v \in queue' : v.chan \in Channels /\ v.dir \in Dirs,
           UNCHANGED <<sent, rcvd>>
    PROVE  Books'
<1> USE DEF Books
<1>1. now' = now + 1 /\ now < MaxOps
  BY DEF Operates
<1>2. now \in Nat /\ now + 1 \in Nat /\ \A x \in Contexts : wait[x].ticket \in Nat /\ wait[x].ticket <= now
  BY TicketFacts
<1>3. \A x, f : Did(x, f)' = Did(x, f)
  BY DEF Did, Members, Bys
<1>4. \A x \in Contexts : wait'[x].ticket = IF x = t THEN now + 1 ELSE wait[x].ticket
  BY QueueFacts
<1>5. OwnTickets'
  BY <1>1, <1>2, <1>4, BoundAssumption DEF OwnTickets
<1>6. Past'
  BY <1>1, <1>2, <1>3 DEF Past
<1>7. InLine'
  <2> SUFFICES ASSUME NEW v \in queue'
               PROVE  v.ticket # 0 /\ \A n \in Did(v.chan, v.dir) : n < v.ticket
    BY <1>3 DEF InLine
  <2>1. CASE v \in queue
    BY <2>1 DEF InLine
  <2>2. CASE v.ticket = now + 1
    <3>1. Did(v.chan, v.dir) \subseteq 1..now
      BY DEF Past
    <3> QED
      BY <1>2, <2>2, <3>1
  <2> QED
    BY <2>1, <2>2
<1>8. Reported'
  <2> SUFFICES ASSUME NEW y \in Contexts, NEW x \in Channels, NEW f \in Dirs, wait'[y].ticket # 0
               PROVE  wait'[y].ticket \in Did(x, f) <=>
                          wait'[y].done /\ wait'[y].ok /\ [chan |-> x, dir |-> f] \in wait'[y].did
    BY <1>3 DEF Reported
  <2>1. CASE y = t
    <3>1. now + 1 \notin Did(x, f)
      BY <1>2 DEF Past
    <3> QED
      BY <2>1, <3>1
  <2>2. CASE y # t /\ wait'[y] = wait[y]
    BY <2>2 DEF Reported
  <2>3. ASSUME NEW w \in queue, w.task = y, wait'[y].ticket = w.ticket, ~wait'[y].ok
        PROVE  wait'[y].ticket \notin Did(x, f)
    <3>1. wait[y].ticket = w.ticket /\ ~wait[y].done
      BY <2>3, QueueFacts
    <3>2. wait[y].ticket \in Did(x, f) => wait[y].done
      BY <2>3, <3>1 DEF Reported
    <3> QED
      BY <2>3, <3>1, <3>2
  <2> QED
    BY <2>1, <2>2, <2>3
<1> QED
  BY <1>5, <1>6, <1>7, <1>8

\* What a transfer does to what a channel did, and to the order of it.
LEMMA AcceptGrows ==
    ASSUME Inductive, Ordered, NEW c \in Channels, NEW v \in Nat, Accept(c, v)
    PROVE  /\ Did(c, "send")' = Did(c, "send") \cup {v}
           /\ \A x \in Channels : x # c => Did(x, "send")' = Did(x, "send")
           /\ (\A n \in Did(c, "send") : n < v) => \A x \in Channels : Increasing(sent[x])'
<1>1. sent'[c] = Append(sent[c], v) /\ \A x \in Channels : x # c => sent'[x] = sent[x]
  BY AcceptEffect DEF Inductive
<1>2. sent[c] \in Seq(Nat)
  BY DEF Inductive, TypeOK
<1>3. /\ Members(sent'[c]) = Members(sent[c]) \cup {v}
      /\ (\A n \in Members(sent[c]) : n < v) => Increasing(sent'[c])
  BY <1>1, <1>2, GrowSeq DEF Ordered
<1>4. \A x \in Channels : /\ Did(x, "send")' = Members(sent'[x])
                          /\ Did(x, "send") = Members(sent[x])
                          /\ Increasing(sent[x])' = Increasing(sent'[x])
  BY DEF Did, Members, Increasing
<1> QED
  BY <1>1, <1>3, <1>4 DEF Ordered

LEMMA GiveGrows ==
    ASSUME Inductive, Ordered, NEW c \in Channels, NEW v \in Nat, NEW n \in Nat,
           Give(c, v, n)
    PROVE  /\ Did(c, "recv")' = Did(c, "recv") \cup {n}
           /\ \A x \in Channels : x # c => Did(x, "recv")' = Did(x, "recv")
           /\ (\A m \in Did(c, "recv") : m < n) => \A x \in Channels : Increasing(Bys(x))'
<1>1. Bys(c)' = Append(Bys(c), n) /\ \A x \in Channels : x # c => Bys(x)' = Bys(x)
  BY GiveEffect DEF Inductive
<1>2. Bys(c) \in Seq(Nat)
  BY ValsType DEF Inductive
<1>3. /\ Members(Append(Bys(c), n)) = Members(Bys(c)) \cup {n}
      /\ (\A m \in Members(Bys(c)) : m < n) => Increasing(Append(Bys(c), n))
  BY <1>2, GrowSeq DEF Ordered
<1>4. \A x \in Channels : /\ Did(x, "recv")' = Members(Bys(x)')
                          /\ Did(x, "recv") = Members(Bys(x))
                          /\ Increasing(Bys(x))' = Increasing(Bys(x)')
  BY DEF Did, Members, Increasing
<1> QED
  BY <1>1, <1>3, <1>4 DEF Ordered

----------------------------------------------------------------------------
(* The abstract channel *)

\* What GoChannel calls given.
Given == [c \in Channels |-> Vals(c)]

LEMMA GoGives ==
    ASSUME TypeOK, NEW c \in Channels, NEW v \in Nat, NEW n \in Nat, Give(c, v, n)
    PROVE  Go!Give(c, v)
<1>1. Given' = [Given EXCEPT ![c] = Append(@, v)]
  <2>1. \A x \in Channels : Vals(x)' = IF x = c THEN Append(Vals(x), v) ELSE Vals(x)
    BY GiveEffect
  <2>2. Given' = [x \in Channels |-> IF x = c THEN Append(Vals(x), v) ELSE Vals(x)]
    BY <2>1 DEF Given
  <2> QED
    BY <2>2 DEF Given
<1> QED
  BY <1>1 DEF Go!Give, Given, Vals

LEMMA GoHolds ==
    ASSUME TypeOK, Conservation, NEW c \in Channels
    PROVE  /\ Go!Held(c) = Len(buffer[c])
           /\ buffer[c] # <<>> => sent[c][Len(Given[c]) + 1] = Head(buffer[c])
<1> DEFINE g == Vals(c)
           b == buffer[c]
<1>1. g \in Seq(Nat) /\ b \in Seq(Nat) /\ sent[c] = g \o b /\ Given[c] = g
  BY ValsType DEF TypeOK, Conservation, Vals, Given
<1>2. Go!Held(c) = Len(sent[c]) - Len(Given[c])
  BY DEF Go!Held, Given, Vals
<1> HIDE DEF g, b
<1>3. /\ Len(g) \in Nat /\ Len(b) \in Nat /\ Len(g \o b) = Len(g) + Len(b)
      /\ \A i \in 1..(Len(g) + Len(b)) : (g \o b)[i] = IF i <= Len(g) THEN g[i] ELSE b[i - Len(g)]
  BY <1>1, ConcatProperties, LenProperties
<1>4. Go!Held(c) = Len(b)
  BY <1>1, <1>2, <1>3
<1>5. ASSUME b # <<>> PROVE (g \o b)[Len(g) + 1] = Head(b)
  <2>1. Len(b) > 0 /\ Head(b) = b[1]
    BY <1>1, <1>5
  <2>2. Len(g) + 1 \in 1..(Len(g) + Len(b)) /\ ~(Len(g) + 1 <= Len(g)) /\ (Len(g) + 1) - Len(g) = 1
    BY <1>3, <2>1
  <2> QED
    BY <1>3, <2>1, <2>2
<1> QED
  BY <1>1, <1>4, <1>5 DEF b

----------------------------------------------------------------------------
(* The steps *)

\* What a step is for.
Keeps == ChannelInductive' /\ [Go!Next]_(Go!vars)

\* The tickets an operation accepts or serves are the abstract channel's values.
LEMMA TicketValues ==
    ASSUME Inductive, ChannelInductive
    PROVE  /\ now < MaxOps => now + 1 \in 1..MaxOps
           /\ \A w \in queue : w.ticket \in 1..MaxOps
<1>1. now \in Nat /\ MaxOps \in Nat /\ now <= MaxOps
  BY TicketFacts, BoundAssumption DEF ChannelInductive, Books, OwnTickets
<1>2. \A w \in queue : w.ticket \in Nat /\ w.ticket <= now /\ w.ticket # 0
  BY QueueFacts DEF ChannelInductive, Books, InLine
<1> QED
  BY <1>1, <1>2

\* A channel conserves its values if the one that is used does.
LEMMA ConservesOne ==
    ASSUME TypeOK, Conservation, NEW c \in Channels,
           \A x \in Channels : x # c => /\ sent'[x] = sent[x] /\ buffer'[x] = buffer[x]
                                        /\ Vals(x)' = Vals(x),
           sent'[c] = Vals(c)' \o buffer'[c]
    PROVE  Conservation'
<1>1. \A x \in Channels : sent[x] = Vals(x) \o buffer[x]
  BY DEF Conservation, Vals
<1>2. \A x \in Channels : sent'[x] = Vals(x)' \o buffer'[x]
  BY <1>1
<1> QED
  BY <1>2 DEF Conservation, Vals

LEMMA PutsKeeps ==
    ASSUME Inductive, ChannelInductive, NEW t \in Contexts, Operates(t), NEW c \in created,
           Puts(t, c)
    PROVE  Keeps
<1> USE DEF ChannelInductive
<1>1. /\ c \in Channels /\ now + 1 \in Nat /\ now + 1 \in 1..MaxOps /\ now \in Nat
      /\ buffer[c] \in Seq(Nat) /\ sent[c] \in Seq(Nat) /\ TypeOK
  BY TicketFacts, TicketValues DEF Inductive, TypeOK, Operates
<1>2. /\ ~closed[c] /\ Len(buffer[c]) < cap[c] /\ Alone(t, c, "send") /\ Accept(c, now + 1)
      /\ buffer' = [buffer EXCEPT ![c] = Append(@, now + 1)]
      /\ UNCHANGED <<created, cap, closed, rcvd>>
  BY DEF Puts
<1>3. \A x : Vals(x)' = Vals(x) /\ Bys(x)' = Bys(x)
  BY <1>2 DEF Vals, Bys
<1>4. Waiting(c, "send") = {}
  <2> SUFFICES ASSUME NEW w \in Waiting(c, "send") PROVE FALSE
    OBVIOUS
  <2>1. Len(buffer[c]) = cap[c]
    BY DEF Waiting, Inductive, NoMissedRendezvous
  <2>2. Len(buffer[c]) \in Nat
    BY <1>1
  <2> QED
    BY <1>2, <2>1, <2>2
<1>5. /\ Did(c, "send")' = Did(c, "send") \cup {now + 1}
      /\ \A x \in Channels : x # c => Did(x, "send")' = Did(x, "send")
      /\ (\A n \in Did(c, "send") : n < now + 1) => \A x \in Channels : Increasing(sent[x])'
  BY <1>1, <1>2, AcceptGrows
<1>6. Books'
  <2>1. \A x : Did(x, "recv")' = Did(x, "recv")
    BY <1>3 DEF Did, Members
  <2> QED
    BY <1>1, <1>2, <1>4, <1>5, <2>1, AloneBooks
<1>7. Ordered'
  <2>1. \A n \in Did(c, "send") : n < now + 1
    BY <1>1 DEF Books, Past
  <2>2. \A x \in Channels : Increasing(Bys(x))'
    BY <1>3 DEF Ordered, Increasing
  <2> QED
    BY <1>5, <2>1, <2>2 DEF Ordered
<1>8. Conservation'
  <2>1. \A x \in Channels : x # c => sent'[x] = sent[x] /\ buffer'[x] = buffer[x]
    BY <1>1, <1>2, AcceptEffect DEF TypeOK
  <2>2. sent'[c] = Append(sent[c], now + 1) /\ buffer'[c] = Append(buffer[c], now + 1)
    BY <1>1, <1>2, AcceptEffect DEF TypeOK
  <2>3. sent[c] = Vals(c) \o buffer[c] /\ Vals(c) \in Seq(Nat)
    BY <1>1, ValsType DEF Conservation, Vals
  <2>4. Append(Vals(c) \o buffer[c], now + 1) = Vals(c) \o Append(buffer[c], now + 1)
    BY <1>1, <2>3, ConcatPut
  <2>5. sent'[c] = Vals(c)' \o buffer'[c]
    BY <1>3, <2>2, <2>3, <2>4
  <2> QED
    BY <1>1, <1>3, <2>1, <2>5, ConservesOne
<1>9. Go!Put(c, now + 1)
  <2>1. Go!Held(c) < cap[c]
    BY <1>1, <1>2, GoHolds
  <2> QED
    BY <1>2, <2>1 DEF Go!Put, Go!Accept, Accept
<1> QED
  BY <1>1, <1>6, <1>7, <1>8, <1>9 DEF Keeps, Go!Next

LEMMA TakesKeeps ==
    ASSUME Inductive, ChannelInductive, NEW t \in Contexts, Operates(t), NEW c \in created,
           Takes(t, c)
    PROVE  Keeps
<1> USE DEF ChannelInductive
<1>1. /\ c \in Channels /\ now + 1 \in Nat /\ now \in Nat
      /\ buffer[c] \in Seq(Nat) /\ sent[c] \in Seq(Nat) /\ TypeOK
  BY TicketFacts DEF Inductive, TypeOK
<1>2. /\ buffer[c] # <<>> /\ Alone(t, c, "recv") /\ Give(c, Head(buffer[c]), now + 1)
      /\ buffer' = [buffer EXCEPT ![c] = Tail(@)]
      /\ UNCHANGED <<created, cap, closed, sent>>
  BY DEF Takes
<1>3. Head(buffer[c]) \in Nat /\ Tail(buffer[c]) \in Seq(Nat)
  BY <1>1, <1>2, HeadTailProperties
<1>4. Waiting(c, "recv") = {}
  BY <1>2, HoldsNoReceiver DEF Waiting
<1>5. /\ Did(c, "recv")' = Did(c, "recv") \cup {now + 1}
      /\ \A x \in Channels : x # c => Did(x, "recv")' = Did(x, "recv")
      /\ (\A n \in Did(c, "recv") : n < now + 1) => \A x \in Channels : Increasing(Bys(x))'
  BY <1>1, <1>2, <1>3, GiveGrows
<1>6. Books'
  <2>1. \A x : Did(x, "send")' = Did(x, "send")
    BY <1>2 DEF Did, Members
  <2> QED
    BY <1>1, <1>2, <1>4, <1>5, <2>1, AloneBooks
<1>7. Ordered'
  <2>1. \A n \in Did(c, "recv") : n < now + 1
    BY <1>1 DEF Books, Past
  <2>2. \A x \in Channels : Increasing(sent[x])'
    BY <1>2 DEF Ordered, Increasing
  <2> QED
    BY <1>5, <2>1, <2>2 DEF Ordered
<1>8. Conservation'
  <2>1. /\ Vals(c)' = Append(Vals(c), Head(buffer[c]))
        /\ \A x \in Channels : x # c => Vals(x)' = Vals(x)
    BY <1>1, <1>2, <1>3, GiveEffect
  <2>2. buffer'[c] = Tail(buffer[c]) /\ \A x \in Channels : x # c => buffer'[x] = buffer[x]
    BY <1>1, <1>2 DEF TypeOK
  <2>3. sent[c] = Vals(c) \o buffer[c] /\ Vals(c) \in Seq(Nat)
    BY <1>1, ValsType DEF Conservation, Vals
  <2>4. Vals(c) \o buffer[c] = Append(Vals(c), Head(buffer[c])) \o Tail(buffer[c])
    BY <1>1, <1>2, <2>3, ConcatTake
  <2>5. sent'[c] = Vals(c)' \o buffer'[c]
    BY <1>2, <2>1, <2>2, <2>3, <2>4
  <2> QED
    BY <1>1, <1>2, <2>1, <2>2, <2>5, ConservesOne
<1>9. Go!Take(c)
  <2>1. Go!Held(c) > 0 /\ sent[c][Len(Given[c]) + 1] = Head(buffer[c])
    BY <1>1, <1>2, GoHolds
  <2>2. PICK h \in Nat, m \in Nat : h = Head(buffer[c]) /\ m = now + 1
    BY <1>1, <1>3
  <2>3. Give(c, h, m)
    BY <1>2, <2>2 DEF Give
  <2>4. Go!Give(c, h)
    BY <1>1, <2>3, GoGives
  <2>5. Go!Give(c, sent[c][Len(Given[c]) + 1])
    BY <2>1, <2>2, <2>4 DEF Go!Give
  <2> QED
    BY <1>2, <2>1, <2>5 DEF Go!Take, Given, Vals
<1> QED
  BY <1>1, <1>6, <1>7, <1>8, <1>9 DEF Keeps, Go!Next

\* The books after a transfer between an operation and a waiter.
LEMMA BesideKeeps ==
    ASSUME Inductive, Books, Ordered, NEW t \in Contexts, Operates(t), NEW c \in Channels,
           NEW w \in queue, NEW d \in Dirs, NEW e \in Dirs, d # e, Beside(t, c, d, w, e),
           NEW v \in Nat,
           Accept(c, IF d = "send" THEN now + 1 ELSE w.ticket),
           Give(c, v, IF d = "send" THEN w.ticket ELSE now + 1)
    PROVE  Books' /\ Ordered'
<1> DEFINE a == IF d = "send" THEN now + 1 ELSE w.ticket
           b == IF d = "send" THEN w.ticket ELSE now + 1
<1>1. /\ now \in Nat /\ w.ticket \in Nat /\ a \in Nat /\ b \in Nat
      /\ w.chan = c /\ w.dir = e
  BY TicketFacts, QueueFacts DEF Beside, Oldest, Waiting
<1>2. /\ Did(c, "send")' = Did(c, "send") \cup {a}
      /\ \A x \in Channels : x # c => Did(x, "send")' = Did(x, "send")
      /\ (\A n \in Did(c, "send") : n < a) => \A x \in Channels : Increasing(sent[x])'
  <2> HIDE DEF a
  <2>1. Accept(c, a)
    BY DEF a
  <2> QED
    BY <1>1, <2>1, AcceptGrows
<1>3. /\ Did(c, "recv")' = Did(c, "recv") \cup {b}
      /\ \A x \in Channels : x # c => Did(x, "recv")' = Did(x, "recv")
      /\ (\A n \in Did(c, "recv") : n < b) => \A x \in Channels : Increasing(Bys(x))'
  <2> HIDE DEF b
  <2>1. Give(c, v, b)
    BY DEF b
  <2> QED
    BY <1>1, <2>1, GiveGrows
<1>4. \A x \in Channels, f \in Dirs :
          Did(x, f)' = IF x # c THEN Did(x, f)
                       ELSE IF f = d THEN Did(x, f) \cup {now + 1}
                       ELSE Did(x, f) \cup {w.ticket}
  BY <1>2, <1>3
<1>5. Books'
  BY <1>4, BesideBooks
<1>6. Ordered'
  <2>1. \A n \in Did(c, d) : n < now + 1
    BY <1>1 DEF Books, Past
  <2>2. \A n \in Did(c, e) : n < w.ticket
    BY <1>1 DEF Books, InLine
  <2>3. (\A n \in Did(c, "send") : n < a) /\ (\A n \in Did(c, "recv") : n < b)
    BY <2>1, <2>2
  <2> QED
    BY <1>2, <1>3, <2>3 DEF Ordered
<1> QED
  BY <1>5, <1>6

\* A rendezvous on a channel that holds nothing, in either direction.
LEMMA MeetsKeeps ==
    ASSUME Inductive, ChannelInductive, NEW c \in created, ~closed[c], buffer[c] = <<>>,
           NEW v \in Nat, v \in 1..MaxOps, NEW n \in Nat, Accept(c, v), Give(c, v, n),
           UNCHANGED <<created, cap, closed, buffer>>
    PROVE  Conservation' /\ Go!Handoff(c, v)
<1> USE DEF ChannelInductive
<1>1. c \in Channels /\ TypeOK
  BY DEF Inductive, TypeOK
<1>2. Conservation'
  <2>1. Vals(c)' = Append(Vals(c), v) /\ \A x \in Channels : x # c => Vals(x)' = Vals(x)
    BY <1>1, GiveEffect
  <2>2. sent'[c] = Append(sent[c], v) /\ \A x \in Channels : x # c => sent'[x] = sent[x]
    BY <1>1, AcceptEffect
  <2>3. sent[c] = Vals(c) \o <<>> /\ Vals(c) \in Seq(Nat)
    BY <1>1, ValsType DEF Conservation, Vals
  <2>4. Vals(c) \o <<>> = Vals(c) /\ Append(Vals(c), v) \in Seq(Nat)
    BY <2>3, ConcatEmptySeq, AppendProperties
  <2>5. Append(Vals(c), v) \o <<>> = Append(Vals(c), v)
    BY <2>4, ConcatEmptySeq
  <2>6. sent'[c] = Vals(c)' \o buffer'[c]
    BY <2>1, <2>2, <2>3, <2>4, <2>5
  <2> QED
    BY <1>1, <2>1, <2>2, <2>6, ConservesOne
<1>3. Go!Handoff(c, v)
  <2>1. Go!Held(c) = 0
    BY <1>1, GoHolds
  <2>2. Go!Give(c, v)
    BY <1>1, GoGives
  <2> QED
    BY <2>1, <2>2 DEF Go!Handoff, Go!Accept, Accept
<1> QED
  BY <1>2, <1>3

LEMMA HandsToKeeps ==
    ASSUME Inductive, ChannelInductive, NEW t \in Contexts, Operates(t), NEW c \in created,
           NEW w \in queue, HandsTo(t, c, w)
    PROVE  Keeps
<1> USE DEF ChannelInductive
<1>1. /\ c \in Channels /\ now + 1 \in Nat /\ now + 1 \in 1..MaxOps /\ w.ticket \in Nat
  BY TicketFacts, TicketValues, QueueFacts DEF Inductive, TypeOK, Operates
<1>2. /\ Beside(t, c, "send", w, "recv") /\ Accept(c, now + 1) /\ Give(c, now + 1, w.ticket)
      /\ UNCHANGED <<created, cap, closed, buffer>>
  BY DEF HandsTo
<1>3. w.chan = c /\ w.dir = "recv"
  BY <1>2 DEF Beside, Oldest, Waiting
<1>4. buffer[c] = <<>> /\ ~closed[c]
  BY <1>3 DEF Inductive, NoMissedRendezvous
<1>5. Books' /\ Ordered'
  BY <1>1, <1>2, BesideKeeps
<1>6. PICK n \in 1..MaxOps : n = now + 1
  BY <1>1
<1>7. Accept(c, n) /\ Give(c, n, w.ticket) /\ n \in Nat
  BY <1>1, <1>2, <1>6 DEF Accept, Give
<1>8. Conservation' /\ Go!Handoff(c, n)
  BY <1>1, <1>2, <1>4, <1>7, MeetsKeeps
<1> QED
  BY <1>1, <1>5, <1>8 DEF Keeps, Go!Next

LEMMA TakesFromKeeps ==
    ASSUME Inductive, ChannelInductive, NEW t \in Contexts, Operates(t), NEW c \in created,
           NEW w \in queue, TakesFrom(t, c, w)
    PROVE  Keeps
<1> USE DEF ChannelInductive
<1>1. /\ c \in Channels /\ now + 1 \in Nat /\ w.ticket \in 1..MaxOps /\ w.ticket \in Nat
  BY TicketFacts, TicketValues, QueueFacts DEF Inductive, TypeOK
<1>2. /\ Beside(t, c, "recv", w, "send") /\ Accept(c, w.ticket) /\ Give(c, w.ticket, now + 1)
      /\ UNCHANGED <<created, cap, closed, buffer>> /\ buffer[c] = <<>>
  BY DEF TakesFrom
<1>3. w.chan = c
  BY <1>2 DEF Beside, Oldest, Waiting
<1>4. ~closed[c]
  BY <1>3 DEF Inductive, NoMissedRendezvous
<1>5. Books' /\ Ordered'
  BY <1>1, <1>2, BesideKeeps
<1>6. Conservation' /\ Go!Handoff(c, w.ticket)
  BY <1>1, <1>2, <1>4, MeetsKeeps
<1> QED
  BY <1>1, <1>5, <1>6 DEF Keeps, Go!Next

LEMMA RefillsKeeps ==
    ASSUME Inductive, ChannelInductive, NEW t \in Contexts, Operates(t), NEW c \in created,
           NEW w \in queue, Refills(t, c, w)
    PROVE  Keeps
<1> USE DEF ChannelInductive
<1>1. /\ c \in Channels /\ now + 1 \in Nat /\ w.ticket \in 1..MaxOps /\ w.ticket \in Nat
      /\ TypeOK /\ buffer[c] \in Seq(Nat)
  BY TicketFacts, TicketValues, QueueFacts DEF Inductive, TypeOK
<1>2. /\ Beside(t, c, "recv", w, "send") /\ Accept(c, w.ticket)
      /\ Give(c, Head(buffer[c]), now + 1) /\ buffer[c] # <<>>
      /\ buffer' = [buffer EXCEPT ![c] = Append(Tail(@), w.ticket)]
      /\ UNCHANGED <<created, cap, closed>>
  BY DEF Refills
<1>3. Head(buffer[c]) \in Nat /\ Tail(buffer[c]) \in Seq(Nat)
  BY <1>1, <1>2, HeadTailProperties
<1>4. w.chan = c /\ ~closed[c]
  BY <1>2 DEF Beside, Oldest, Waiting, Inductive, NoMissedRendezvous
<1>5. Books' /\ Ordered'
  BY <1>1, <1>2, <1>3, BesideKeeps
<1>6. Conservation'
  <2>1. /\ Vals(c)' = Append(Vals(c), Head(buffer[c]))
        /\ \A x \in Channels : x # c => Vals(x)' = Vals(x)
    BY <1>1, <1>2, <1>3, GiveEffect
  <2>2. /\ buffer'[c] = Append(Tail(buffer[c]), w.ticket)
        /\ \A x \in Channels : x # c => buffer'[x] = buffer[x]
    BY <1>1, <1>2 DEF TypeOK
  <2>3. sent'[c] = Append(sent[c], w.ticket) /\ \A x \in Channels : x # c => sent'[x] = sent[x]
    BY <1>1, <1>2, AcceptEffect
  <2>4. sent[c] = Vals(c) \o buffer[c] /\ Vals(c) \in Seq(Nat)
    BY <1>1, ValsType DEF Conservation, Vals
  <2> DEFINE g == Append(Vals(c), Head(buffer[c]))
  <2>5. g \in Seq(Nat)
    BY <1>3, <2>4, AppendProperties
  <2>6. Vals(c) \o buffer[c] = g \o Tail(buffer[c])
    BY <1>1, <1>2, <2>4, ConcatTake
  <2> HIDE DEF g
  <2>7. Append(g \o Tail(buffer[c]), w.ticket) = g \o Append(Tail(buffer[c]), w.ticket)
    BY <1>1, <1>3, <2>5, ConcatPut
  <2>8. sent'[c] = Vals(c)' \o buffer'[c]
    BY <2>1, <2>2, <2>3, <2>4, <2>6, <2>7 DEF g
  <2> QED
    BY <1>1, <2>1, <2>2, <2>3, <2>8, ConservesOne
<1>7. Go!TakeAndPut(c, w.ticket)
  <2>1. /\ Go!Held(c) > 0 /\ Go!Held(c) <= cap[c]
        /\ sent[c][Len(Given[c]) + 1] = Head(buffer[c])
    BY <1>1, <1>2, GoHolds DEF Inductive, Bounded
  <2>2. PICK h \in Nat, m \in Nat : h = Head(buffer[c]) /\ m = now + 1
    BY <1>1, <1>3
  <2>3. Give(c, h, m)
    BY <1>2, <2>2 DEF Give
  <2>4. Go!Give(c, h)
    BY <1>1, <2>3, GoGives
  <2>5. Go!Give(c, sent[c][Len(Given[c]) + 1])
    BY <2>1, <2>2, <2>4 DEF Go!Give
  <2> QED
    BY <1>2, <1>4, <2>1, <2>5 DEF Go!TakeAndPut, Go!Accept, Accept, Given, Vals
<1> QED
  BY <1>1, <1>5, <1>6, <1>7 DEF Keeps, Go!Next

LEMMA ChannelStep ==
    ASSUME Inductive, ChannelInductive, [Next]_vars
    PROVE  Keeps
<1> USE DEF ChannelInductive
<1>1. CASE Schedules
  <2>1. UNCHANGED <<created, cap, closed, buffer, queue, wait, now, sent, rcvd>>
    BY <1>1 DEF Schedules
  <2>2. /\ \A x : Vals(x)' = Vals(x) /\ Bys(x)' = Bys(x)
        /\ \A x, f : Did(x, f)' = Did(x, f)
    BY <2>1 DEF Vals, Bys, Did, Members
  <2>3. Books'
    BY <2>1, <2>2 DEF Books, OwnTickets, Past, InLine, Reported
  <2>4. Ordered' /\ Conservation'
    BY <2>1, <2>2 DEF Ordered, Increasing, Conservation
  <2>5. UNCHANGED Go!vars
    BY <2>1 DEF Go!vars
  <2> QED
    BY <2>3, <2>4, <2>5 DEF Keeps
<1>2. ASSUME NEW c \in Channels, NEW k \in Capacities, Makes(c, k) PROVE Keeps
  <2>1. UNCHANGED <<closed, buffer, queue, wait, now, sent, rcvd>>
    BY <1>2 DEF Makes
  <2>2. /\ \A x : Vals(x)' = Vals(x) /\ Bys(x)' = Bys(x)
        /\ \A x, f : Did(x, f)' = Did(x, f)
    BY <2>1 DEF Vals, Bys, Did, Members
  <2>3. Books'
    BY <2>1, <2>2 DEF Books, OwnTickets, Past, InLine, Reported
  <2>4. Ordered' /\ Conservation'
    BY <2>1, <2>2 DEF Ordered, Increasing, Conservation
  <2>5. Go!Make(c, k)
    BY <1>2 DEF Makes, Go!Make
  <2> QED
    BY <2>3, <2>4, <2>5 DEF Keeps, Go!Next
<1>3. ASSUME NEW t \in Contexts, Operates(t), UNCHANGED <<buffer, sent, rcvd>>,
             wait'[t].ticket = now + 1, wait'[t].done /\ wait'[t].ok => wait'[t].did = {},
             \A x \in Contexts \ {t} :
                 \/ wait'[x] = wait[x]
                 \/ \E w \in queue : w.task = x /\ wait'[x].ticket = w.ticket /\ ~wait'[x].ok,
             \A v \in queue' : v \in queue \/ v.ticket = now + 1
      PROVE  ChannelInductive'
  <2>1. \A v \in queue' : v.chan \in Channels /\ v.dir \in Dirs
    BY TypeStep DEF Inductive, TypeOK, Waiter
  <2>2. Books'
    BY <1>3, <2>1, QuietBooks
  <2>3. Ordered' /\ Conservation'
    <3>1. \A x : Bys(x)' = Bys(x) /\ Vals(x)' = Vals(x)
      BY <1>3 DEF Bys, Vals
    <3> QED
      BY <1>3, <3>1 DEF Ordered, Increasing, Conservation
  <2> QED
    BY <2>2, <2>3
<1>4. ASSUME NEW t \in Contexts, Operates(t), Refrains(t) PROVE Keeps
  <2>1. PICK o \in Outcome : /\ o.ticket = now + 1 /\ (o.done /\ o.ok => o.did = {})
                             /\ wait' = [wait EXCEPT ![t] = o]
    BY <1>4 DEF Refrains
  <2>2. wait'[t] = o /\ \A x \in Contexts \ {t} : wait'[x] = wait[x]
    BY <2>1 DEF Inductive, TypeOK
  <2>3. UNCHANGED <<created, cap, closed, buffer, sent, rcvd>>
    BY <1>4 DEF Refrains
  <2>4. UNCHANGED Go!vars
    BY <2>3 DEF Go!vars
  <2> QED
    BY <1>3, <1>4, <2>1, <2>2, <2>3, <2>4 DEF Refrains, Keeps
<1>5. ASSUME NEW t \in Contexts, Operates(t), NEW c \in created, Closes(t, c) PROVE Keeps
  <2>1. /\ UNCHANGED <<created, cap, buffer, sent, rcvd>> /\ c \in Channels
        /\ queue' \subseteq queue /\ closed' = [closed EXCEPT ![c] = TRUE] /\ ~closed[c]
        /\ wait'[t].ticket = now + 1 /\ wait'[t].did = {}
    BY <1>5 DEF Closes, Result, Inductive, TypeOK
  <2>2. ChannelInductive'
    BY <1>3, <1>5, <2>1 DEF Closes
  <2>3. Go!Close(c)
    BY <2>1 DEF Go!Close
  <2> QED
    BY <2>1, <2>2, <2>3 DEF Keeps, Go!Next
<1>6. ASSUME NEW t \in Contexts, Operates(t), NEW c \in created, Transfer(t, c) PROVE Keeps
  BY <1>6, PutsKeeps, TakesKeeps, HandsToKeeps, RefillsKeeps, TakesFromKeeps DEF Transfer
<1> QED
  BY <1>1, <1>2, <1>4, <1>5, <1>6, StepKinds

LEMMA ChannelInit == Init => ChannelInductive /\ Go!Init
<1> SUFFICES ASSUME Init PROVE ChannelInductive /\ Go!Init
  OBVIOUS
<1>1. \A c \in Channels : rcvd[c] = <<>> /\ sent[c] = <<>> /\ buffer[c] = <<>>
  BY DEF Init
<1>2. \A c \in Channels : Vals(c) = <<>> /\ Bys(c) = <<>>
  BY <1>1 DEF Vals, Bys
<1>3. \A c \in Channels, d \in Dirs : Did(c, d) = {}
  BY <1>1, <1>2 DEF Did, Members
<1>4. \A t \in Contexts : wait[t].ticket = 0
  BY DEF Init, Result
<1>5. Books
  <2>1. now = 0 /\ queue = {} /\ now <= MaxOps
    BY BoundAssumption DEF Init
  <2>2. OwnTickets /\ InLine
    BY <1>4, <2>1 DEF OwnTickets, InLine
  <2>3. Past
    BY <1>3 DEF Past
  <2>4. Reported
    BY <1>4 DEF Reported
  <2> QED
    BY <2>2, <2>3, <2>4 DEF Books
<1>6. Ordered
  BY <1>1, <1>2 DEF Ordered, Increasing
<1>7. Conservation
  <2>1. \A c \in Channels : sent[c] = Vals(c) \o buffer[c]
    <3>1. <<>> \o <<>> = <<>>
      BY EmptySeq, ConcatEmptySeq
    <3> QED
      BY <1>1, <1>2, <3>1
  <2> QED
    BY <2>1 DEF Conservation, Vals
<1>8. Given = [c \in Channels |-> <<>>]
  BY <1>2 DEF Given
<1>9. Go!Init
  BY <1>8 DEF Go!Init, Init, Given, Vals
<1> QED
  BY <1>5, <1>6, <1>7, <1>9 DEF ChannelInductive

LEMMA ChannelInvariant == Spec => [](Inductive /\ ChannelInductive)
<1>1. Init => Inductive /\ ChannelInductive
  BY InductiveInit, ChannelInit
<1>2. Inductive /\ ChannelInductive /\ [Next]_vars => Inductive' /\ ChannelInductive'
  BY InductiveStep, ChannelStep DEF Keeps
<1> QED
  BY <1>1, <1>2, PTL DEF Spec

\* A channel loses, repeats and reorders nothing: what it accepted is what it gave
\* out followed by what it holds, through buffers, rendezvous, refills and closes.
THEOREM ValuesConserved == Spec => []Conservation
<1>1. ChannelInductive => Conservation
  BY DEF ChannelInductive
<1> QED
  BY <1>1, ChannelInvariant, PTL

\* Blocked senders, and blocked receivers, are served in the order they came,
\* selects and closes among them.
THEOREM ServiceOrdered == Spec => []ServedInOrder
<1>1. Inductive /\ ChannelInductive => ServedInOrder
  <2> SUFFICES ASSUME Inductive, ChannelInductive, NEW c \in Channels
               PROVE  /\ \A i, k \in 1..Len(sent[c]) : i < k => sent[c][i] < sent[c][k]
                      /\ \A i, k \in 1..Len(rcvd[c]) : i < k => rcvd[c][i].by < rcvd[c][k].by
    BY DEF ServedInOrder
  <2>1. Increasing(sent[c]) /\ Increasing(Bys(c))
    BY DEF ChannelInductive, Ordered
  <2>2. Len(Bys(c)) = Len(rcvd[c]) /\ \A k \in 1..Len(rcvd[c]) : Bys(c)[k] = rcvd[c][k].by
    BY ValsType DEF Inductive, Bys
  <2>3. \A i, k \in 1..Len(rcvd[c]) : i < k => Bys(c)[i] < Bys(c)[k]
    BY <2>1, <2>2 DEF Increasing
  <2> QED
    BY <2>1, <2>2, <2>3 DEF Increasing
<1> QED
  BY <1>1, ChannelInvariant, PTL

\* Each operation reports what happened: a blocked one has transferred nothing, one
\* that reports success has made the transfer it reports and no other, and one
\* that reports a closed channel, a default or a close has made none.
THEOREM OutcomesAgree == Spec => []OutcomeAgrees
<1>1. Inductive /\ ChannelInductive => OutcomeAgrees
  <2> SUFFICES ASSUME Inductive, ChannelInductive, NEW t \in Contexts, wait[t].ticket # 0
               PROVE  Transfers(wait[t].ticket) =
                          IF wait[t].done /\ wait[t].ok
                          THEN {<<k.chan, k.dir>> : k \in wait[t].did} ELSE {}
    BY DEF OutcomeAgrees
  <2> DEFINE n == wait[t].ticket
             happened == wait[t].done /\ wait[t].ok
  <2>1. \A c \in Channels, d \in Dirs :
            n \in Did(c, d) <=> happened /\ [chan |-> c, dir |-> d] \in wait[t].did
    BY DEF ChannelInductive, Books, Reported
  <2>2. wait[t].did \subseteq Case
    BY DEF Inductive, TypeOK, Outcome
  <2>3. \A c \in Channels : /\ n \in Did(c, "send") <=> \E k \in 1..Len(sent[c]) : sent[c][k] = n
                            /\ n \in Did(c, "recv") <=> \E k \in 1..Len(rcvd[c]) : rcvd[c][k].by = n
    <3> TAKE c \in Channels
    <3>1. n \in Did(c, "send") <=> \E k \in 1..Len(sent[c]) : sent[c][k] = n
      BY DEF Did, Members
    <3>2. Len(Bys(c)) = Len(rcvd[c]) /\ \A k \in 1..Len(rcvd[c]) : Bys(c)[k] = rcvd[c][k].by
      BY ValsType DEF Inductive, Bys
    <3>3. n \in Did(c, "recv") <=> \E k \in 1..Len(rcvd[c]) : rcvd[c][k].by = n
      BY <3>2 DEF Did, Members
    <3> QED
      BY <3>1, <3>3
  <2>4. ASSUME NEW p
        PROVE  p \in Transfers(n) <=> \E c \in Channels, d \in Dirs : p = <<c, d>> /\ n \in Did(c, d)
    <3> HIDE DEF n
    <3>1. p \in Transfers(n) <=>
              \/ \E c \in Channels : p = <<c, "send">> /\ n \in Did(c, "send")
              \/ \E c \in Channels : p = <<c, "recv">> /\ n \in Did(c, "recv")
      BY <2>3 DEF Transfers
    <3> QED
      BY <3>1
  <2>5. \A k \in Case : /\ k.chan \in Channels /\ k.dir \in Dirs
                        /\ k = [chan |-> k.chan, dir |-> k.dir]
    BY DEF Case
  <2>6. \A c \in Channels, d \in Dirs :
            LET k == [chan |-> c, dir |-> d] IN k.chan = c /\ k.dir = d
    OBVIOUS
  <2> HIDE DEF n, happened
  <2>7. CASE happened
    <3>1. ASSUME NEW p
          PROVE  p \in Transfers(n) <=> p \in {<<k.chan, k.dir>> : k \in wait[t].did}
      <4>1. ASSUME p \in Transfers(n) PROVE p \in {<<k.chan, k.dir>> : k \in wait[t].did}
        <5>1. PICK c \in Channels, d \in Dirs : p = <<c, d>> /\ n \in Did(c, d)
          BY <2>4, <4>1
        <5>2. [chan |-> c, dir |-> d] \in wait[t].did
          BY <2>1, <5>1
        <5> QED
          BY <2>6, <5>1, <5>2
      <4>2. ASSUME p \in {<<k.chan, k.dir>> : k \in wait[t].did} PROVE p \in Transfers(n)
        <5>1. PICK k \in wait[t].did : p = <<k.chan, k.dir>>
          BY <4>2
        <5>2. k.chan \in Channels /\ k.dir \in Dirs /\ n \in Did(k.chan, k.dir)
          BY <2>1, <2>2, <2>5, <2>7
        <5> QED
          BY <2>4, <5>1, <5>2
      <4> QED
        BY <4>1, <4>2
    <3> QED
      BY <2>7, <3>1 DEF happened, n
  <2>8. CASE ~happened
    <3>1. ASSUME NEW p PROVE p \notin Transfers(n)
      BY <2>1, <2>4, <2>8
    <3> QED
      BY <2>8, <3>1 DEF happened, n
  <2> QED
    BY <2>7, <2>8
<1> QED
  BY <1>1, ChannelInvariant, PTL

\* The handler's channels are Go's: every step of the handler, however many waiters
\* it completes, is one step of GoChannel or none.
THEOREM RefinesGoChannel == Spec => ImplementsGoChannel
<1>1. Init => Go!Init
  BY ChannelInit
<1>2. Inductive /\ ChannelInductive /\ [Next]_vars => [Go!Next]_(Go!vars)
  BY ChannelStep DEF Keeps
<1> QED
  BY <1>1, <1>2, ChannelInvariant, PTL DEF Spec, ImplementsGoChannel, Go!Spec
=============================================================================
