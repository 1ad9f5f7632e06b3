----------------------------- MODULE ManagedHeap -----------------------------
(***************************************************************************)
(* The allocation and collection core: first-fit blocks in segments, a     *)
(* conservative mark and sweep without a work list, growth under a budget. *)
(* Addresses count alignment units; a segment header and a block header    *)
(* take one unit each, and a unit of payload holds one word.  The program  *)
(* that uses the heap holds pointers in Roots and in the words it reaches. *)
(***************************************************************************)
EXTENDS Integers, Sequences, FiniteSets, FiniteSetsExt

CONSTANTS Roots,      \* places MarkRoots enumerates
          Sizes,      \* payloads asked for, in units
          Granule, Limit, Overhead, Initial,    \* Config
          Arena,      \* units of address space the provider has
          MaxStores   \* bound on the program's stores

ASSUME HeapAssumption ==
    /\ Granule \in Nat /\ Granule >= 3 /\ Arena \in Nat
    /\ Limit \in Nat /\ Overhead \in 0..Limit
    /\ Initial \in Nat /\ Initial % Granule = 0 /\ Initial > 0
    /\ Sizes \subseteq Nat

VARIABLES open, segs,        \* segments [base, size], the newest first
          blk,               \* block headers: address |-> [span, flags]
          reserved, nextSize,
          pc, want,          \* busy: the call under way and what it asked for
          cursor, progress,  \* position and flag of the tracing loop
          mem, root, stores  \* words of the arena; the program's roots and stores

vars == <<open, segs, blk, reserved, nextSize, pc, want, cursor, progress, mem, root, stores>>
heap == <<open, segs, blk, reserved, nextSize>>
work == <<pc, want, cursor, progress>>
program == <<mem, root, stores>>

Addr == 1..Arena
Junk == -1                     \* headers and what freed blocks hold, read as a word
NoWant == [into |-> {}, span |-> 0]
RoundUp(n) == ((n + Granule - 1) \div Granule) * Granule
RoundDown(n) == (n \div Granule) * Granule
Idle == pc = "idle" /\ open

\* The headers of B, with those of f written over them.
Over(f, B) == [b \in DOMAIN f \cup DOMAIN B |-> IF b \in DOMAIN f THEN f[b] ELSE B[b]]
Cleared(A, x) == [a \in Addr |-> IF a \in A THEN x ELSE mem[a]]
Payload(b) == (b + 1)..(b + blk[b].span - 1)
Allocated == {b \in DOMAIN blk : "allocated" \in blk[b].flags}
Marked == {b \in DOMAIN blk : "marked" \in blk[b].flags}
Within(s) == {b \in DOMAIN blk : b > s.base /\ b < s.base + s.size}
SegOf(b) == CHOOSE k \in DOMAIN segs : b \in Within(segs[k])

\* The order in which every loop over the heap visits the blocks.
Before(a, b) == SegOf(a) < SegOf(b) \/ (SegOf(a) = SegOf(b) /\ a < b)
First(S) == IF S = {} THEN 0 ELSE CHOOSE b \in S : \A a \in S : a = b \/ Before(b, a)
Following(b) == First({a \in DOMAIN blk : Before(b, a)})

-----------------------------------------------------------------------------
Init ==
    /\ open = TRUE /\ segs = <<>> /\ blk = <<>>
    /\ reserved = Overhead /\ nextSize = Initial
    /\ pc = "idle" /\ want = NoWant /\ cursor = 0 /\ progress = FALSE
    /\ mem = [a \in Addr |-> 0]
    /\ root = [r \in Roots |-> 0] /\ stores = 0

\* take: the first free block that is large enough, split when the rest can
\* hold a header and a unit, cleared.
Fits(span) == {b \in DOMAIN blk : blk[b].flags = {} /\ blk[b].span >= span}

Cut(b, whole, span) == IF whole - span >= 2 THEN {b + span} ELSE {}
Taken(b, whole, span) ==
    LET rest == Cut(b, whole, span) IN
    [a \in {b} \cup rest |->
        IF a # b THEN [span |-> whole - span, flags |-> {}]
        ELSE [span |-> IF rest = {} THEN whole ELSE span, flags |-> {"allocated"}]]

Take(w) ==
    LET b == First(Fits(w.span))
        new == Taken(b, blk[b].span, w.span)
    IN  /\ blk' = Over(new, blk)
        /\ mem' = [a \in Addr |-> IF a \in DOMAIN new \ {b} THEN Junk
                                  ELSE IF a \in (b + 1)..(b + new[b].span - 1) THEN 0 ELSE mem[a]]
        /\ root' = [root EXCEPT ![w.into] = b + 1]
        /\ UNCHANGED stores

-----------------------------------------------------------------------------
Goto(phase, w) ==
    /\ pc' = phase /\ want' = w
    /\ cursor' = 0 /\ progress' = FALSE

Alloc(r, size) ==
    LET w == [into |-> r, span |-> (IF size = 0 THEN 1 ELSE size) + 1] IN
    /\ Idle
    /\ UNCHANGED <<open, segs, reserved, nextSize>>
    /\ \/ Fits(w.span) # {} /\ Take(w) /\ UNCHANGED work
       \/ /\ Fits(w.span) = {}
          /\ Goto(IF segs = <<>> THEN "grow" ELSE "roots", w)
          /\ UNCHANGED <<blk, program>>

\* Alloc once its collection is done: take again, or grow.
Retry ==
    /\ pc = "retry"
    /\ UNCHANGED <<open, segs, reserved, nextSize>>
    /\ \/ Fits(want.span) # {} /\ Take(want) /\ Goto("idle", NoWant)
       \/ Fits(want.span) = {} /\ Goto("grow", want) /\ UNCHANGED <<blk, program>>

\* Growth asks for the preferred size, clipped to what the budget leaves, and
\* for the smallest size that serves if the provider refuses that.
Minimum == RoundUp(want.span + 1)
AvailableUnclipped == Arena
Available == RoundDown(Limit - reserved)
Preferred == Min({Max({nextSize, Minimum}), Available})

\* The provider (external): a region of the arena that no segment holds.
FreeBases(size) ==
    {a \in Addr : /\ a % Granule = 1 /\ a + size - 1 \in Addr
                  /\ \A k \in DOMAIN segs : a + size <= segs[k].base \/ segs[k].base + segs[k].size <= a}

\* A new segment is one free block, from which Alloc then takes.
Grow(size, base) ==
    LET b == base + 1
        new == Taken(b, size - 1, want.span)
    IN  /\ segs' = <<[base |-> base, size |-> size]>> \o segs
        /\ blk' = Over(new, blk)
        /\ mem' = [a \in Addr |-> IF a \in DOMAIN new \cup {base} THEN Junk
                                  ELSE IF a \in base..(base + size - 1) THEN 0 ELSE mem[a]]
        /\ root' = [root EXCEPT ![want.into] = b + 1]
        /\ reserved' = reserved + size
        /\ nextSize' = 2 * size
        /\ UNCHANGED <<open, stores>>

Acquire ==
    /\ pc = "grow" /\ Minimum <= Available
    /\ \E size \in {Preferred, Minimum} : \E base \in FreeBases(size) : Grow(size, base)
    /\ Goto("idle", NoWant)

OutOfMemory ==
    /\ pc = "grow"
    /\ Goto("idle", NoWant)
    /\ UNCHANGED <<heap, program>>

-----------------------------------------------------------------------------
Collect ==
    /\ Idle
    /\ Goto("roots", NoWant)
    /\ UNCHANGED <<heap, program>>

\* Mark: the allocated block whose payload holds the pointer; header and
\* free addresses are ignored.
Hit(pointers) == {b \in Allocated : pointers \cap Payload(b) # {}}
MarkAll(B, pointers) ==
    [b \in DOMAIN B |-> IF b \in Hit(pointers) THEN [B[b] EXCEPT !.flags = @ \cup {"marked"}] ELSE B[b]]

\* MarkRoots reports every root, or gives up after some of them.
MarkRoots ==
    /\ pc = "roots"
    /\ blk' = MarkAll(blk, {root[r] : r \in Roots})
    /\ pc' = "trace" /\ cursor' = First(DOMAIN blk) /\ progress' = FALSE
    /\ UNCHANGED <<want, open, segs, reserved, nextSize, program>>

ClearNothing(B) == B
ClearMarks(B) == [b \in DOMAIN B |-> [B[b] EXCEPT !.flags = @ \cap {"allocated"}]]

MarkRootsFails ==
    /\ pc = "roots"
    /\ \E some \in SUBSET Roots : blk' = ClearMarks(MarkAll(blk, {root[r] : r \in some}))
    /\ Goto("idle", NoWant)
    /\ UNCHANGED <<open, segs, reserved, nextSize, program>>

\* One block of a pass: scanned once, all its words marked.
Scan ==
    LET due == blk[cursor].flags = {"allocated", "marked"}
        words == {mem[a] : a \in Payload(cursor)}
    IN  /\ pc = "trace" /\ cursor # 0
        /\ blk' = IF due THEN MarkAll([blk EXCEPT ![cursor].flags = @ \cup {"scanned"}], words) ELSE blk
        /\ progress' = (progress \/ due)
        /\ cursor' = Following(cursor)
        /\ UNCHANGED <<pc, want, open, segs, reserved, nextSize, program>>

OnePass == FALSE
AnotherPass == progress

EndPass ==
    /\ pc = "trace" /\ cursor = 0
    /\ IF AnotherPass THEN cursor' = First(DOMAIN blk) /\ UNCHANGED pc
       ELSE pc' = "sweep" /\ cursor' = Len(segs)
    /\ progress' = FALSE
    /\ UNCHANGED <<want, heap, program>>

\* A segment is swept: marked blocks stay, runs of others become one free
\* block, a segment without a marked block goes back to the provider.  The
\* segments are independent here; going from the last keeps their indices.
Live(s) == Within(s) \cap Marked
RunStarts(s) == {b \in Within(s) \ Marked :
                    b = s.base + 1 \/ \E a \in Live(s) : a + blk[a].span = b}
RunSpanOfOne(s, b) == blk[b].span
\* The walk adds up the spans of the run, header by header.
RunSpan(s, b) ==
    LET sum[a \in (s.base + 1)..(s.base + s.size)] ==
            IF a \in Within(s) \ Marked THEN blk[a].span + sum[a + blk[a].span] ELSE 0
    IN  sum[b]
Swept(s) ==
    [b \in Live(s) \cup RunStarts(s) |->
        IF b \in Live(s) THEN [blk[b] EXCEPT !.flags = {"allocated"}]
        ELSE [span |-> RunSpan(s, b), flags |-> {}]]

Without(k) == [i \in 1..(Len(segs) - 1) |-> segs[IF i < k THEN i ELSE i + 1]]
Outside(s) == [b \in DOMAIN blk \ Within(s) |-> blk[b]]

Sweep ==
    LET s == segs[cursor] IN
    /\ pc = "sweep" /\ cursor > 0
    /\ cursor' = cursor - 1
    /\ \/ /\ Live(s) # {}
          /\ blk' = Over(Swept(s), Outside(s))
          /\ mem' = Cleared(UNION {Payload(b) : b \in Within(s) \ Marked}, Junk)
          /\ UNCHANGED <<segs, reserved>>
       \/ /\ Live(s) = {}
          /\ blk' = Outside(s)
          /\ mem' = Cleared(s.base..(s.base + s.size - 1), 0)
          /\ segs' = Without(cursor)
          /\ reserved' = reserved - s.size
    /\ UNCHANGED <<pc, want, progress, open, nextSize, root, stores>>

EndCollect ==
    /\ pc = "sweep" /\ cursor = 0
    /\ Goto(IF want = NoWant THEN "idle" ELSE "retry", want)
    /\ UNCHANGED <<heap, program>>

-----------------------------------------------------------------------------
(* Close and Init; the program (external) is done with its pointers.       *)

Close ==
    /\ Idle
    /\ open' = FALSE /\ segs' = <<>> /\ blk' = <<>> /\ reserved' = 0 /\ nextSize' = 0
    /\ root' = [r \in Roots |-> 0]
    /\ mem' = Cleared(Addr, 0)
    /\ UNCHANGED <<work, stores>>

Reopen ==
    /\ pc = "idle" /\ ~open
    /\ open' = TRUE /\ reserved' = Overhead /\ nextSize' = Initial
    /\ UNCHANGED <<segs, blk, work, program>>

(* The program (external): it follows and stores the pointers it holds.    *)

Holder(p) == CHOOSE b \in Allocated : p \in Payload(b)
SetRoot(r, p) == root' = [root EXCEPT ![r] = p] /\ UNCHANGED <<heap, work, mem, stores>>

Drop(r) == Idle /\ root[r] # 0 /\ SetRoot(r, 0)
Load(r, q) == Idle /\ root[q] # 0 /\ SetRoot(r, mem[root[q]])
Advance(r) ==
    /\ Idle /\ root[r] # 0
    /\ root[r] + 1 \in Payload(Holder(root[r]))
    /\ SetRoot(r, root[r] + 1)
Store(r, q) ==
    /\ Idle /\ root[r] # 0 /\ stores < MaxStores
    /\ stores' = stores + 1
    /\ mem' = [mem EXCEPT ![root[r]] = root[q]]
    /\ UNCHANGED <<heap, work, root>>

Next ==
    \/ \E r \in Roots, size \in Sizes : Alloc(r, size)
    \/ Retry \/ Acquire \/ OutOfMemory
    \/ Collect \/ MarkRoots \/ MarkRootsFails \/ Scan \/ EndPass \/ Sweep \/ EndCollect
    \/ Close \/ Reopen
    \/ \E r \in Roots : Drop(r) \/ Advance(r)
    \/ \E r, q \in Roots : Load(r, q) \/ Store(r, q)

Spec == Init /\ [][Next]_vars

-----------------------------------------------------------------------------
(* Properties.                                                             *)

\* The blocks that a chain of words leads to from the roots: the least set
\* that holds what the roots point into and is closed under the words.
Closed(S) ==
    /\ Hit({root[r] : r \in Roots}) \subseteq S
    /\ \A b \in S : Hit({mem[a] : a \in Payload(b)}) \subseteq S
Reach == {b \in Allocated : \A S \in SUBSET Allocated : Closed(S) => b \in S}

\* What the program can reach is never reclaimed: every pointer it holds in
\* a root, or finds in a block it reaches, lies in an allocated block.
NoDanglingPointer ==
    /\ \A r \in Roots : root[r] # 0 => Hit({root[r]}) # {}
    /\ \A b \in Reach : \A a \in Payload(b) : mem[a] # 0 => Hit({mem[a]}) # {}

\* A collection that ends has reclaimed all that was out of reach, also what
\* an earlier collection that failed half-way had marked, and has given
\* every segment without a live block back.
ReclaimsGarbage ==
    [][(pc = "sweep" /\ pc' # "sweep") =>
          /\ Allocated = Reach
          /\ \A k \in DOMAIN segs : Within(segs[k]) \cap Allocated # {}]_vars

\* Segments are disjoint and the blocks of each tile it, through every split,
\* run of freed blocks and segment that comes or goes: Mark's walk over the
\* spans of a segment comes to its end and finds the one block of an address.
SegmentsTiled ==
    /\ \A i, k \in DOMAIN segs :
          i < k => \/ segs[i].base + segs[i].size <= segs[k].base
                   \/ segs[k].base + segs[k].size <= segs[i].base
    /\ \A k \in DOMAIN segs : LET s == segs[k] IN
          /\ s.base + 1 \in DOMAIN blk
          /\ \A b \in Within(s) : b + blk[b].span \in (Within(s) \cup {s.base + s.size})
          /\ \A a, b \in Within(s) : a < b => a + blk[a].span <= b

\* The units the segments have, counted up from the newest.
Footprint == LET total[k \in 0..Len(segs)] == IF k = 0 THEN 0 ELSE total[k - 1] + segs[k].size
        IN  total[Len(segs)]

\* What is reserved is what the segments and the overhead add up to, and
\* within the limit.
WithinBudget ==
    /\ open => reserved = Overhead + Footprint
    /\ reserved <= Limit
=============================================================================
