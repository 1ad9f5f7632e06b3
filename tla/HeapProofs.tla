----------------------------- MODULE HeapProofs -----------------------------
(***************************************************************************)
(* The managed heap never reclaims what the program can reach, and its     *)
(* blocks always tile its segments, proved for any roots, sizes, limits,   *)
(* granules and address spaces.                                            *)
(***************************************************************************)
EXTENDS ManagedHeap, WellFoundedInduction, TLAPS

USE HeapAssumption

----------------------------------------------------------------------------
(* The inductive invariant *)

Flags == {"allocated", "marked", "scanned"}
Inside(b, s) == b > s.base /\ b < s.base + s.size
Apart(s, t) == s.base + s.size <= t.base \/ t.base + t.size <= s.base

Typed ==
    /\ segs \in Seq([base : Nat, size : Nat])
    /\ DOMAIN blk \subseteq Addr
    /\ blk \in [DOMAIN blk -> [span : Nat, flags : SUBSET Flags]]
    /\ reserved \in Int /\ nextSize \in Nat /\ cursor \in Nat /\ progress \in BOOLEAN
    /\ pc \in {"idle", "roots", "trace", "sweep", "retry", "grow"}
    /\ want = NoWant \/ (want.into \in Roots /\ want.span \in Nat /\ want.span >= 2)
    /\ pc \in {"retry", "grow"} => want # NoWant
    /\ mem \in [Addr -> Int] /\ root \in [Roots -> Int]

\* The blocks of the segments.
Placed ==
    /\ \A k \in DOMAIN segs : segs[k].base + segs[k].size - 1 \in Addr
    /\ \A i, k \in DOMAIN segs : i # k => Apart(segs[i], segs[k])
    /\ \A k \in DOMAIN segs : segs[k].base + 1 \in DOMAIN blk /\ Inside(segs[k].base + 1, segs[k])
    /\ \A b \in DOMAIN blk : \E k \in DOMAIN segs : Inside(b, segs[k])
    /\ \A k \in DOMAIN segs : \A b \in DOMAIN blk : Inside(b, segs[k]) =>
          \/ b + blk[b].span \in DOMAIN blk /\ Inside(b + blk[b].span, segs[k])
          \/ b + blk[b].span = segs[k].base + segs[k].size
    /\ \A a, b \in DOMAIN blk : a < b => a + blk[a].span <= b
    /\ \A b \in DOMAIN blk : blk[b].span > 0

\* The blocks that will be left when the collection under way is over.
Kept ==
    {b \in Allocated :
        pc = "sweep" => b \in Marked \/ \E k \in DOMAIN segs : k > cursor /\ Inside(b, segs[k])}

\* The program may hold p: nothing, or a pointer into a block that is kept.
Held(p) == p = 0 \/ \E b \in Kept : p \in Payload(b)

Safe ==
    /\ \A r \in Roots : Held(root[r])
    /\ \A b \in Kept : \A a \in Payload(b) : Held(mem[a])

\* Marks are there only while a collection needs them.
Plain(b) == blk[b].flags \in {{}, {"allocated"}}
Unmarked == pc \notin {"trace", "sweep"} => \A b \in DOMAIN blk : Plain(b)
Tracing ==
    pc \in {"trace", "sweep"} =>
        \A b \in DOMAIN blk : Plain(b) \/ blk[b].flags \in {{"allocated", "marked"}, Flags}

\* Everything a root or a scanned block points at is marked; a pass that has
\* made no progress has left no marked block behind it unscanned.
Scanned == {b \in DOMAIN blk : "scanned" \in blk[b].flags}
Traced ==
    pc = "trace" =>
        /\ \A r \in Roots : Hit({root[r]}) \subseteq Marked
        /\ \A b \in Scanned : \A a \in Payload(b) : Hit({mem[a]}) \subseteq Marked
        /\ cursor \in DOMAIN blk \cup {0}
        /\ ~progress => \A b \in Marked : cursor = 0 \/ Before(b, cursor) => b \in Scanned

\* A sweep leaves no mark behind it.
Sweeping ==
    pc = "sweep" =>
        /\ cursor <= Len(segs)
        /\ \A k \in DOMAIN segs : k > cursor =>
              \A b \in DOMAIN blk : Inside(b, segs[k]) => Plain(b)

HeapInductive == Typed /\ Placed /\ Safe /\ Unmarked /\ Tracing /\ Traced /\ Sweeping

----------------------------------------------------------------------------
(* Facts about the operators *)

LEMMA LeastOf ==
    ASSUME NEW T, T \subseteq Nat, T # {}
    PROVE  \E x \in T : \A y \in T : ~(y < x)
<1>1. \E x \in T : \A y \in T : ~(<<y, x>> \in OpToRel(<, Nat))
  BY NatLessThanWellFounded, WFMin
<1> QED
  BY <1>1 DEF OpToRel

LEMMA RoundsUp == ASSUME NEW n \in Nat PROVE RoundUp(n) \in Nat /\ RoundUp(n) >= n
  BY DEF RoundUp

LEMMA SegsDomain ==
    ASSUME Typed
    PROVE  /\ DOMAIN segs = 1..Len(segs) /\ Len(segs) \in Nat
           /\ \A k \in DOMAIN segs : /\ k \in Nat /\ segs[k].base \in Nat /\ segs[k].size \in Nat
                                      /\ segs[k] \in [base : Nat, size : Nat]
<1> DEFINE R == [base : Nat, size : Nat]
<1>1. segs \in Seq(R)
  BY DEF Typed
<1>2. DOMAIN segs = 1..Len(segs) /\ Len(segs) \in Nat /\ \A k \in DOMAIN segs : segs[k] \in R
  <2> HIDE DEF R
  <2> QED
    BY <1>1
<1> QED
  BY <1>2

LEMMA BlockType ==
    ASSUME Typed
    PROVE  \A b \in DOMAIN blk : /\ b \in Nat /\ b > 0 /\ blk[b].span \in Nat
                                 /\ blk[b].flags \subseteq Flags
  BY DEF Typed, Addr

\* A block lies in one segment.
LEMMA OneSegment ==
    ASSUME Typed, Placed, NEW b \in DOMAIN blk, NEW i \in DOMAIN segs, NEW k \in DOMAIN segs,
           Inside(b, segs[i]), Inside(b, segs[k])
    PROVE  i = k
<1>1. b \in Nat /\ segs[i].base \in Nat /\ segs[i].size \in Nat /\ segs[k].base \in Nat /\ segs[k].size \in Nat
  BY SegsDomain, BlockType
<1>2. i # k => Apart(segs[i], segs[k])
  BY DEF Placed
<1> QED
  BY <1>1, <1>2 DEF Apart, Inside

LEMMA SegOfIs ==
    ASSUME Typed, Placed, NEW b \in DOMAIN blk
    PROVE  /\ SegOf(b) \in DOMAIN segs /\ Inside(b, segs[SegOf(b)])
           /\ \A k \in DOMAIN segs : Inside(b, segs[k]) => k = SegOf(b)
<1>1. \A k : b \in Within(segs[k]) <=> Inside(b, segs[k])
  BY DEF Within, Inside
<1>2. \E k \in DOMAIN segs : b \in Within(segs[k])
  BY <1>1 DEF Placed
<1>3. SegOf(b) \in DOMAIN segs /\ b \in Within(segs[SegOf(b)])
  BY <1>2 DEF SegOf
<1> QED
  BY <1>1, <1>3, OneSegment

\* The loops over the heap visit the blocks in a linear order.
LEMMA BeforeOrders ==
    ASSUME Typed, Placed
    PROVE  /\ \A a, b \in DOMAIN blk : a = b \/ Before(a, b) \/ Before(b, a)
           /\ \A a, b \in DOMAIN blk : ~(Before(a, b) /\ (a = b \/ Before(b, a)))
           /\ \A a, b, c \in DOMAIN blk : Before(a, b) /\ Before(b, c) => Before(a, c)
<1>1. \A b \in DOMAIN blk : SegOf(b) \in Nat /\ b \in Nat
  BY SegOfIs, SegsDomain, BlockType
<1> QED
  BY <1>1 DEF Before

LEMMA FirstIs ==
    ASSUME Typed, Placed, NEW S, S \subseteq DOMAIN blk, S # {}
    PROVE  First(S) \in S /\ \A a \in S : a = First(S) \/ Before(First(S), a)
<1>1. \A b \in S : b \in DOMAIN blk /\ SegOf(b) \in Nat /\ b \in Nat
  BY SegOfIs, SegsDomain, BlockType
<1>2. PICK k \in {SegOf(b) : b \in S} : \A i \in {SegOf(b) : b \in S} : ~(i < k)
  <2>1. {SegOf(b) : b \in S} \subseteq Nat /\ {SegOf(b) : b \in S} # {}
    BY <1>1
  <2> QED
    BY <2>1, LeastOf
<1>3. PICK b \in {x \in S : SegOf(x) = k} : \A a \in {x \in S : SegOf(x) = k} : ~(a < b)
  <2>1. {x \in S : SegOf(x) = k} \subseteq Nat /\ {x \in S : SegOf(x) = k} # {}
    BY <1>1
  <2> QED
    BY <2>1, LeastOf
<1>4. \A a \in S : a = b \/ Before(b, a)
  <2> TAKE a \in S
  <2>1. SegOf(a) \in Nat /\ SegOf(b) = k /\ ~(SegOf(a) < k) /\ k \in Nat /\ a \in Nat /\ b \in Nat
    BY <1>1, <1>2, <1>3
  <2>2. SegOf(a) = k => ~(a < b)
    BY <1>3
  <2> QED
    BY <2>1, <2>2 DEF Before
<1>5. \E x \in S : \A a \in S : a = x \/ Before(x, a)
  BY <1>3, <1>4
<1> QED
  BY <1>5 DEF First

\* No word belongs to two blocks.
LEMMA PayloadsApart ==
    ASSUME Typed, Placed, NEW a \in DOMAIN blk, NEW b \in DOMAIN blk, a # b,
           NEW x \in Payload(a)
    PROVE  x \notin Payload(b) /\ ~(b <= x /\ x < b + blk[b].span)
<1>1. a \in Nat /\ b \in Nat /\ blk[a].span \in Nat /\ blk[b].span \in Nat
  BY BlockType
<1>2. (a < b => a + blk[a].span <= b) /\ (b < a => b + blk[b].span <= a)
  BY DEF Placed
<1> QED
  BY <1>1, <1>2 DEF Payload

LEMMA PayloadAddr ==
    ASSUME Typed, Placed, NEW b \in DOMAIN blk
    PROVE  Payload(b) \subseteq Addr
<1>1. PICK k \in DOMAIN segs : Inside(b, segs[k])
  BY DEF Placed
<1>2. /\ b \in Nat /\ blk[b].span \in Nat /\ b > 0
      /\ segs[k].base \in Nat /\ segs[k].size \in Nat /\ segs[k].base + segs[k].size - 1 \in 1..Arena
  BY BlockType, SegsDomain DEF Placed, Addr
<1>3. b + blk[b].span <= segs[k].base + segs[k].size
  BY <1>1, <1>2 DEF Placed, Inside
<1> QED
  BY <1>2, <1>3 DEF Payload, Addr

\* A store that leaves the kept blocks alone, and clears those it adds.
LEMMA SafeMoves ==
    ASSUME Safe, Kept \subseteq Kept',
           \A b \in Kept : blk'[b].span = blk[b].span /\ \A a \in Payload(b) : mem'[a] = mem[a],
           \A b \in Kept' : b \in Kept \/ \A a \in Payload(b)' : mem'[a] = 0,
           \A r \in Roots : root'[r] = root[r] \/ \E b \in Kept' : root'[r] \in Payload(b)'
    PROVE  Safe'
<1>1. \A b \in Kept : Payload(b)' = Payload(b)
  BY DEF Payload
<1>2. ASSUME NEW p, Held(p) PROVE Held(p)'
  BY <1>1, <1>2 DEF Held
<1>3. ASSUME NEW r \in Roots PROVE Held(root[r])'
  BY <1>1, <1>2, <1>3 DEF Safe, Held
<1>4. ASSUME NEW b \in Kept', NEW a \in Payload(b)' PROVE Held(mem[a])'
  <2>1. CASE b \in Kept
    <3>1. a \in Payload(b) /\ Held(mem[a]) /\ mem'[a] = mem[a]
      BY <1>1, <1>4, <2>1 DEF Safe
    <3> QED
      BY <1>1, <3>1 DEF Held
  <2>2. CASE \A x \in Payload(b)' : mem'[x] = 0
    BY <1>4, <2>2 DEF Held
  <2> QED
    BY <2>1, <2>2
<1> QED
  BY <1>3, <1>4 DEF Safe

\* Marks, and whatever else is no span, leave the blocks in place.
LEMMA PlacedSame ==
    ASSUME Placed, UNCHANGED segs, DOMAIN blk' = DOMAIN blk,
           \A b \in DOMAIN blk : blk'[b].span = blk[b].span
    PROVE  Placed'
  BY DEF Placed

LEMMA MarkingKeeps ==
    ASSUME Placed, Safe, pc # "sweep", pc' # "sweep", UNCHANGED <<segs, mem, root>>,
           DOMAIN blk' = DOMAIN blk,
           \A b \in DOMAIN blk : /\ blk'[b].span = blk[b].span
                                 /\ "allocated" \in blk'[b].flags <=> "allocated" \in blk[b].flags
    PROVE  Placed' /\ Safe'
<1>1. Kept' = Kept
  BY DEF Kept, Allocated
<1>2. Kept \subseteq DOMAIN blk
  BY DEF Kept, Allocated
<1> QED
  BY <1>1, <1>2, PlacedSame, SafeMoves

----------------------------------------------------------------------------
(* Taking a block *)

LEMMA TakenIs ==
    ASSUME NEW b \in Nat, NEW whole \in Nat, NEW span \in Nat, span >= 2, whole >= span
    PROVE  LET new == Taken(b, whole, span) IN
           /\ b \in DOMAIN new /\ new[b].flags = {"allocated"} /\ new[b].span >= 2
           /\ \A x \in DOMAIN new :
                /\ new[x] \in [span : Nat, flags : SUBSET Flags] /\ x \in Nat /\ new[x].span > 0
                /\ b <= x /\ x < b + whole
                /\ x + new[x].span \in DOMAIN new \/ x + new[x].span = b + whole
                /\ x # b => new[x].flags = {}
                /\ \A y \in DOMAIN new : x < y => x + new[x].span <= y
<1> DEFINE rest == Cut(b, whole, span)
           new == Taken(b, whole, span)
<1>1. /\ DOMAIN new = {b} \cup rest
      /\ new[b] = [span |-> IF rest = {} THEN whole ELSE span, flags |-> {"allocated"}]
      /\ \A x \in rest : x # b => new[x] = [span |-> whole - span, flags |-> {}]
  BY DEF Taken
<1>2. CASE whole - span >= 2
  <2>1. rest = {b + span} /\ b + span # b /\ whole - span \in Nat /\ b + span \in Nat
    BY <1>2 DEF Cut
  <2>2. /\ DOMAIN new = {b, b + span}
        /\ new[b] = [span |-> span, flags |-> {"allocated"}]
        /\ new[b + span] = [span |-> whole - span, flags |-> {}]
    BY <1>1, <2>1
  <2> HIDE DEF new
  <2> QED
    BY <1>2, <2>1, <2>2 DEF Flags, new
<1>3. CASE ~(whole - span >= 2)
  <2>1. DOMAIN new = {b} /\ new[b] = [span |-> whole, flags |-> {"allocated"}]
    BY <1>1, <1>3 DEF Cut
  <2> HIDE DEF new
  <2> QED
    BY <2>1 DEF Flags, new
<1> QED
  BY <1>2, <1>3

\* Outside a collection, a free block is taken for the program.
LEMMA TakeKeeps ==
    ASSUME HeapInductive, pc \notin {"trace", "sweep"}, pc' # "sweep", UNCHANGED segs,
           NEW w, w.into \in Roots, w.span \in Nat, w.span >= 2, Fits(w.span) # {}, Take(w)
    PROVE  /\ Placed' /\ Safe' /\ \A x \in DOMAIN blk' : Plain(x)'
           /\ DOMAIN blk' \subseteq Addr
           /\ blk' \in [DOMAIN blk' -> [span : Nat, flags : SUBSET Flags]]
           /\ mem' \in [Addr -> Int] /\ root' \in [Roots -> Int]
<1> USE DEF HeapInductive
<1>0. PICK b : b = First(Fits(w.span))
  OBVIOUS
<1> DEFINE whole == blk[b].span
           new == Taken(b, whole, w.span)
           D == DOMAIN new
<1>1. b \in DOMAIN blk /\ blk[b].flags = {} /\ whole >= w.span
  <2>1. Fits(w.span) \subseteq DOMAIN blk
    BY DEF Fits
  <2> QED
    BY <1>0, <2>1, FirstIs DEF Fits
<1>2. b \in Nat /\ b > 0 /\ whole \in Nat /\ b \in Addr
  BY <1>1, BlockType DEF Typed
<1>3. /\ blk' = Over(new, blk)
      /\ mem' = [a \in Addr |-> IF a \in D \ {b} THEN Junk
                                ELSE IF a \in (b + 1)..(b + new[b].span - 1) THEN 0 ELSE mem[a]]
      /\ root' = [root EXCEPT ![w.into] = b + 1]
  BY <1>0 DEF Take
<1> HIDE DEF whole, new, D
<1>4. /\ b \in D /\ new[b].flags = {"allocated"} /\ new[b].span >= 2
      /\ \A x \in D :
            /\ new[x] \in [span : Nat, flags : SUBSET Flags] /\ x \in Nat /\ new[x].span > 0
            /\ b <= x /\ x < b + whole
            /\ x + new[x].span \in D \/ x + new[x].span = b + whole
            /\ x # b => new[x].flags = {}
            /\ \A y \in D : x < y => x + new[x].span <= y
  BY <1>1, <1>2, TakenIs DEF new, D
<1>5. /\ DOMAIN blk' = DOMAIN blk \cup D
      /\ \A x \in D : blk'[x] = new[x]
      /\ \A x \in DOMAIN blk : x \notin D => blk'[x] = blk[x]
  BY <1>3 DEF D, Over
<1>6. \A x \in DOMAIN blk : /\ x \in Nat /\ blk[x].span \in Nat /\ blk[x] \in [span : Nat, flags : SUBSET Flags]
                            /\ x < b => x + blk[x].span <= b
                            /\ x > b => b + whole <= x
  BY <1>1, BlockType DEF Placed, Typed, whole
<1>7. \A x \in DOMAIN blk : x # b => x \notin D /\ blk'[x] = blk[x]
  BY <1>2, <1>4, <1>5, <1>6
<1>8. PICK k \in DOMAIN segs : Inside(b, segs[k])
  BY <1>1 DEF Placed
<1>9. /\ segs[k].base \in Nat /\ segs[k].size \in Nat /\ segs[k].base + segs[k].size - 1 \in 1..Arena
      /\ b + whole <= segs[k].base + segs[k].size
      /\ \/ b + whole \in DOMAIN blk /\ Inside(b + whole, segs[k])
         \/ b + whole = segs[k].base + segs[k].size
  <2>1. segs[k].base \in Nat /\ segs[k].size \in Nat /\ segs[k].base + segs[k].size - 1 \in 1..Arena
    BY SegsDomain DEF Placed, Addr
  <2>2. \/ b + whole \in DOMAIN blk /\ Inside(b + whole, segs[k])
        \/ b + whole = segs[k].base + segs[k].size
    BY <1>1, <1>8 DEF Placed, whole
  <2> QED
    BY <1>2, <2>1, <2>2 DEF Inside
<1>10. ASSUME NEW x \in D
       PROVE  /\ Inside(x, segs[k]) /\ x \in Addr
              /\ new[x].span \in Nat /\ x + new[x].span <= b + whole
  <2>1. x \in Nat /\ b <= x /\ x < b + whole /\ new[x].span \in Nat
    BY <1>4
  <2>2. x + new[x].span \in D \/ x + new[x].span = b + whole
    BY <1>4
  <2>3. x + new[x].span <= b + whole
    BY <1>2, <1>4, <2>1, <2>2
  <2>4. Inside(x, segs[k])
    BY <1>2, <1>8, <1>9, <2>1 DEF Inside
  <2>5. x \in Addr
    BY <1>2, <1>9, <2>1 DEF Addr
  <2> QED
    BY <2>1, <2>3, <2>4, <2>5
<1>11. \A x \in D : \A i \in DOMAIN segs : Inside(x, segs[i]) => i = k
  <2> TAKE x \in D
  <2> TAKE i \in DOMAIN segs
  <2>1. segs[i].base \in Nat /\ segs[i].size \in Nat /\ x \in Nat
    BY <1>4, SegsDomain
  <2> QED
    BY <1>9, <1>10, <2>1 DEF Placed, Apart, Inside
<1>12. Placed'
  <2>1. ASSUME NEW i \in DOMAIN segs, NEW x \in DOMAIN blk', Inside(x, segs[i])
        PROVE  \/ x + blk'[x].span \in DOMAIN blk' /\ Inside(x + blk'[x].span, segs[i])
               \/ x + blk'[x].span = segs[i].base + segs[i].size
    <3>1. CASE x \in D
      <4>1. i = k /\ blk'[x] = new[x]
        BY <1>5, <1>11, <2>1, <3>1
      <4> QED
        BY <1>4, <1>5, <1>9, <1>10, <3>1, <4>1
    <3>2. CASE x \notin D
      <4>1. x \in DOMAIN blk /\ blk'[x] = blk[x]
        BY <1>5, <2>1, <3>2
      <4> QED
        BY <1>5, <2>1, <4>1 DEF Placed
    <3> QED
      BY <3>1, <3>2
  <2>2. ASSUME NEW x \in DOMAIN blk', NEW y \in DOMAIN blk', x < y
        PROVE  x + blk'[x].span <= y
    <3>1. CASE x \in D /\ y \in D
      BY <1>4, <1>5, <2>2, <3>1
    <3>2. CASE x \in D /\ y \notin D
      <4>1. y \in DOMAIN blk /\ y # b /\ b <= x /\ x \in Nat
        BY <1>4, <1>5, <3>2
      <4>2. b + whole <= y
        BY <1>2, <1>6, <2>2, <4>1
      <4>3. x + new[x].span <= b + whole /\ new[x].span \in Nat
        BY <1>10, <3>2
      <4> QED
        BY <1>2, <1>5, <1>6, <3>2, <4>1, <4>2, <4>3
    <3>3. CASE x \notin D /\ y \in D
      <4>1. x \in DOMAIN blk /\ x # b /\ blk'[x] = blk[x] /\ x \in Nat
        BY <1>4, <1>5, <1>6, <3>3
      <4>2. b <= y /\ y < b + whole /\ y \in Nat
        BY <1>4, <3>3
      <4>3. x + blk[x].span <= b
        BY <1>2, <1>6, <2>2, <4>1, <4>2
      <4> QED
        BY <1>2, <1>6, <4>1, <4>2, <4>3
    <3>4. CASE x \notin D /\ y \notin D
      BY <1>5, <2>2, <3>4 DEF Placed
    <3> QED
      BY <3>1, <3>2, <3>3, <3>4
  <2>3. \A x \in DOMAIN blk' : \E i \in DOMAIN segs : Inside(x, segs[i])
    BY <1>5, <1>10 DEF Placed
  <2>4. \A x \in DOMAIN blk' : blk'[x].span > 0
    BY <1>4, <1>5 DEF Placed
  <2> QED
    BY <1>5, <2>1, <2>2, <2>3, <2>4 DEF Placed
<1>13. Kept = Allocated /\ Kept' = Allocated \cup {b} /\ Kept \subseteq DOMAIN blk /\ b \notin Kept
  <2>1. Kept = Allocated /\ Kept' = Allocated' /\ b \notin Allocated
    BY <1>1 DEF Kept, Allocated
  <2>2. \A x \in DOMAIN blk' : "allocated" \in blk'[x].flags <=> x = b \/ x \in Allocated
    BY <1>1, <1>4, <1>5, <1>7 DEF Allocated
  <2> QED
    BY <1>1, <1>5, <2>1, <2>2 DEF Allocated
<1>14. ASSUME NEW x \in Kept PROVE blk'[x].span = blk[x].span /\ \A a \in Payload(x) : mem'[a] = mem[a]
  <2>1. x \in DOMAIN blk /\ x # b /\ blk'[x] = blk[x]
    BY <1>7, <1>13, <1>14
  <2>2. ASSUME NEW a \in Payload(x) PROVE mem'[a] = mem[a]
    <3>1. a \in Addr /\ ~(b <= a /\ a < b + whole)
      BY <1>1, <2>1, PayloadAddr, PayloadsApart DEF whole
    <3>2. new[b].span \in Nat /\ b + new[b].span <= b + whole /\ a \in Nat
      BY <1>4, <1>10, <3>1 DEF Addr
    <3>3. a \notin D /\ a \notin (b + 1)..(b + new[b].span - 1)
      BY <1>2, <1>4, <3>1, <3>2
    <3> QED
      BY <1>3, <3>1, <3>3
  <2> QED
    BY <2>1, <2>2
<1>15. ASSUME NEW x \in Kept' PROVE x \in Kept \/ \A a \in Payload(x)' : mem'[a] = 0
  <2> SUFFICES ASSUME x = b, NEW a \in Payload(x)' PROVE mem'[a] = 0
    BY <1>13, <1>15
  <2>1. a \in (b + 1)..(b + new[b].span - 1)
    BY <1>4, <1>5 DEF Payload
  <2>2. new[b].span \in Nat /\ b + new[b].span <= b + whole /\ a \in Nat /\ a >= b + 1 /\ a < b + new[b].span
    BY <1>2, <1>4, <2>1
  <2>3. a \in Addr
    BY <1>2, <1>9, <2>2 DEF Addr
  <2>4. a \notin D \ {b}
    <3> SUFFICES ASSUME a \in D, a # b PROVE FALSE
      OBVIOUS
    <3>1. b + new[b].span <= a
      BY <1>2, <1>4, <2>2
    <3> QED
      BY <1>2, <2>2, <3>1
  <2> QED
    BY <1>3, <2>1, <2>3, <2>4
<1>16. ASSUME NEW r \in Roots PROVE root'[r] = root[r] \/ \E x \in Kept' : root'[r] \in Payload(x)'
  <2>1. b + 1 \in Payload(b)'
    BY <1>2, <1>4, <1>5 DEF Payload
  <2>2. root'[r] = root[r] \/ root'[r] = b + 1
    BY <1>3 DEF Typed
  <2> QED
    BY <1>13, <2>1, <2>2
<1>17. Safe'
  BY <1>13, <1>14, <1>15, <1>16, SafeMoves
<1>18. ASSUME NEW x \in DOMAIN blk' PROVE Plain(x)'
  BY <1>4, <1>5, <1>7 DEF Plain, Unmarked
<1>19. /\ DOMAIN blk' \subseteq Addr
       /\ blk' \in [DOMAIN blk' -> [span : Nat, flags : SUBSET Flags]]
       /\ mem' \in [Addr -> Int] /\ root' \in [Roots -> Int]
  <2>1. \A x \in DOMAIN blk' : blk'[x] \in [span : Nat, flags : SUBSET Flags] /\ x \in Addr
    BY <1>4, <1>5, <1>6, <1>10 DEF Typed
  <2>2. blk' = [x \in DOMAIN blk' |-> blk'[x]]
    BY <1>3 DEF Over
  <2>3. mem' \in [Addr -> Int]
    <3>1. \A a \in Addr : mem'[a] \in {-1, 0, mem[a]} /\ mem[a] \in Int
      BY <1>3 DEF Typed, Junk
    <3> QED
      BY <1>3, <3>1
  <2>4. root' \in [Roots -> Int]
    <3>0. b + 1 \in Int
      BY <1>2
    <3>1. \A r \in Roots : root[r] \in Int
      BY DEF Typed
    <3>2. DOMAIN root' = Roots /\ \A r \in Roots : root'[r] \in {b + 1, root[r]}
      BY <1>3 DEF Typed
    <3>3. root' = [r \in Roots |-> root'[r]]
      BY <1>3 DEF Typed
    <3> QED
      BY <3>0, <3>1, <3>2, <3>3
  <2> QED
    BY <2>1, <2>2, <2>3, <2>4
<1> QED
  BY <1>12, <1>17, <1>18, <1>19

----------------------------------------------------------------------------
(* Growing the heap *)

LEMMA OfTwo ==
    ASSUME NEW x \in Int, NEW y \in Int
    PROVE  /\ Min({x, y}) \in {x, y} /\ Min({x, y}) <= x /\ Min({x, y}) <= y
           /\ Max({x, y}) \in {x, y} /\ Max({x, y}) >= x /\ Max({x, y}) >= y
<1>1. \E m \in {x, y} : \A z \in {x, y} : m <= z
  OBVIOUS
<1>2. \E m \in {x, y} : \A z \in {x, y} : m >= z
  OBVIOUS
<1>3. Min({x, y}) \in {x, y} /\ \A z \in {x, y} : Min({x, y}) <= z
  BY <1>1 DEF Min
<1>4. Max({x, y}) \in {x, y} /\ \A z \in {x, y} : Max({x, y}) >= z
  BY <1>2 DEF Max
<1> QED
  BY <1>3, <1>4

\* Either size a grow asks for holds the two headers and the payload.
LEMMA LargeEnough ==
    ASSUME Typed, pc = "grow", Minimum <= Available, NEW size \in {Preferred, Minimum}
    PROVE  /\ size \in Nat /\ size - 1 >= want.span
           /\ want.into \in Roots /\ want.span \in Nat /\ want.span >= 2
<1>1. want.into \in Roots /\ want.span \in Nat /\ want.span >= 2 /\ nextSize \in Nat /\ reserved \in Int
  BY DEF Typed
<1>2. Minimum \in Nat /\ Minimum >= want.span + 1
  BY <1>1, RoundsUp DEF Minimum
<1>3. Available \in Int
  <2>1. (Limit - reserved) \div Granule \in Int
    BY <1>1
  <2> QED
    BY <2>1 DEF Available, RoundDown
<1> DEFINE larger == Max({nextSize, Minimum})
<1>4. larger \in Int /\ larger >= Minimum
  <2>1. nextSize \in Int /\ Minimum \in Int
    BY <1>1, <1>2
  <2>2. larger \in {nextSize, Minimum} /\ larger >= Minimum
    BY <2>1, OfTwo
  <2> QED
    BY <2>1, <2>2
<1> HIDE DEF larger
<1>5. Min({larger, Available}) \in {larger, Available}
  BY <1>3, <1>4, OfTwo
<1>6. Preferred \in {larger, Available}
  BY <1>5 DEF Preferred, larger
<1> QED
  BY <1>1, <1>2, <1>3, <1>4, <1>6

LEMMA GrowKeeps ==
    ASSUME HeapInductive, pc = "grow", pc' = "idle", NEW size \in Nat, size - 1 >= want.span,
           want.into \in Roots, want.span \in Nat, want.span >= 2,
           NEW base \in FreeBases(size), Grow(size, base)
    PROVE  /\ Placed' /\ Safe' /\ \A x \in DOMAIN blk' : Plain(x)'
           /\ segs' \in Seq([base : Nat, size : Nat])
           /\ DOMAIN blk' \subseteq Addr
           /\ blk' \in [DOMAIN blk' -> [span : Nat, flags : SUBSET Flags]]
           /\ mem' \in [Addr -> Int] /\ root' \in [Roots -> Int]
<1> USE DEF HeapInductive
<1>0. PICK b, s : b = base + 1 /\ s = [base |-> base, size |-> size]
  OBVIOUS
<1> DEFINE whole == size - 1
           new == Taken(b, whole, want.span)
           D == DOMAIN new
<1>1. /\ base \in Nat /\ base > 0 /\ base + size - 1 \in 1..Arena
      /\ \A k \in DOMAIN segs : base + size <= segs[k].base \/ segs[k].base + segs[k].size <= base
  BY DEF FreeBases, Addr
<1>2. b \in Nat /\ b > 0 /\ whole \in Nat /\ whole >= want.span /\ b + whole = base + size
      /\ s.base = base /\ s.size = size /\ s \in [base : Nat, size : Nat]
  BY <1>0, <1>1
<1>3. /\ blk' = Over(new, blk)
      /\ mem' = [a \in Addr |-> IF a \in D \cup {base} THEN Junk
                                ELSE IF a \in base..(base + size - 1) THEN 0 ELSE mem[a]]
      /\ root' = [root EXCEPT ![want.into] = b + 1]
      /\ segs' = <<s>> \o segs
  BY <1>0 DEF Grow
<1> HIDE DEF whole, new, D
<1>4. /\ b \in D /\ new[b].flags = {"allocated"} /\ new[b].span >= 2
      /\ \A x \in D :
            /\ new[x] \in [span : Nat, flags : SUBSET Flags] /\ x \in Nat /\ new[x].span > 0
            /\ b <= x /\ x < b + whole
            /\ x + new[x].span \in D \/ x + new[x].span = b + whole
            /\ x # b => new[x].flags = {}
            /\ \A y \in D : x < y => x + new[x].span <= y
  <2>1. want.span \in Nat /\ want.span >= 2
    OBVIOUS
  <2>2. b \in Nat /\ whole \in Nat /\ whole >= want.span
    BY <1>2
  <2> QED
    BY <2>1, <2>2, TakenIs DEF new, D
<1>5. /\ DOMAIN blk' = DOMAIN blk \cup D
      /\ \A x \in D : blk'[x] = new[x]
      /\ \A x \in DOMAIN blk : x \notin D => blk'[x] = blk[x]
  BY <1>3 DEF D, Over
<1>6. /\ segs' \in Seq([base : Nat, size : Nat])
      /\ 1 \in DOMAIN segs' /\ segs'[1] = s
      /\ \A i \in DOMAIN segs' : i = 1 \/ (i - 1 \in DOMAIN segs /\ segs'[i] = segs[i - 1])
      /\ \A i \in DOMAIN segs' : i \in Nat
      /\ \A i \in DOMAIN segs : i + 1 \in DOMAIN segs' /\ segs'[i + 1] = segs[i]
  <2> DEFINE R == [base : Nat, size : Nat]
  <2>1. segs \in Seq(R) /\ s \in R
    BY <1>2 DEF Typed
  <2> HIDE DEF R
  <2>2. <<s>> \in Seq(R) /\ Len(<<s>>) = 1 /\ <<s>>[1] = s
    BY <2>1
  <2>3. segs' \in Seq(R) /\ Len(segs') = Len(segs) + 1
    BY <1>3, <2>1, <2>2
  <2>4. \A i \in 1..(Len(segs) + 1) : segs'[i] = IF i <= 1 THEN s ELSE segs[i - 1]
    BY <1>3, <2>1, <2>2
  <2>5. DOMAIN segs' = 1..(Len(segs) + 1) /\ DOMAIN segs = 1..Len(segs) /\ Len(segs) \in Nat
    BY <2>1, <2>3
  <2>6. 1 \in DOMAIN segs' /\ segs'[1] = s
    BY <2>4, <2>5
  <2>8. ASSUME NEW i \in DOMAIN segs', i # 1 PROVE i - 1 \in DOMAIN segs /\ segs'[i] = segs[i - 1]
    <3>1. i \in 1..(Len(segs) + 1) /\ ~(i <= 1) /\ i - 1 \in 1..Len(segs)
      BY <2>5, <2>8
    <3> QED
      BY <2>4, <2>5, <3>1
  <2>9. \A i \in DOMAIN segs' : i \in Nat
    BY <2>5
  <2>7. ASSUME NEW i \in DOMAIN segs PROVE i + 1 \in DOMAIN segs' /\ segs'[i + 1] = segs[i]
    <3>1. i \in Nat /\ i >= 1 /\ i + 1 \in 1..(Len(segs) + 1) /\ (i + 1) - 1 = i /\ ~(i + 1 <= 1)
      BY <2>5, <2>7
    <3> QED
      BY <2>4, <2>5, <3>1
  <2>10. \A i \in DOMAIN segs' : i = 1 \/ (i - 1 \in DOMAIN segs /\ segs'[i] = segs[i - 1])
    <3> TAKE i \in DOMAIN segs'
    <3>1. CASE i # 1
      BY <2>8, <3>1
    <3> QED
      BY <3>1
  <2>11. \A i \in DOMAIN segs : i + 1 \in DOMAIN segs' /\ segs'[i + 1] = segs[i]
    BY <2>7
  <2>12. segs' \in Seq([base : Nat, size : Nat])
    BY <2>3 DEF R
  <2> QED
    BY <2>6, <2>9, <2>10, <2>11, <2>12
<1>7. \A i \in DOMAIN segs : segs[i].base \in Nat /\ segs[i].size \in Nat /\ segs[i].base + segs[i].size - 1 \in 1..Arena
  BY SegsDomain DEF Placed, Addr
\* The blocks there were are apart from the new segment.
<1>8. ASSUME NEW x \in DOMAIN blk
      PROVE  /\ x \in Nat /\ blk[x].span \in Nat /\ blk[x] \in [span : Nat, flags : SUBSET Flags]
             /\ x + blk[x].span <= base \/ base + size <= x
             /\ x < base \/ base + size <= x
  <2>1. x \in Nat /\ blk[x].span \in Nat /\ blk[x] \in [span : Nat, flags : SUBSET Flags]
    BY BlockType DEF Typed
  <2>2. PICK i \in DOMAIN segs : Inside(x, segs[i])
    BY DEF Placed
  <2>3. Inside(x + blk[x].span, segs[i]) \/ x + blk[x].span = segs[i].base + segs[i].size
    BY <2>2 DEF Placed
  <2>4. x + blk[x].span <= segs[i].base + segs[i].size
    BY <1>7, <2>1, <2>3 DEF Inside
  <2> QED
    BY <1>1, <1>7, <2>1, <2>2, <2>4 DEF Inside
<1>9. ASSUME NEW x \in DOMAIN blk PROVE x \notin D /\ blk'[x] = blk[x]
  <2>1. x \in Nat /\ (x < base \/ base + size <= x)
    BY <1>8
  <2>2. x \notin D
    <3> SUFFICES ASSUME x \in D PROVE FALSE
      OBVIOUS
    <3>1. b <= x /\ x < b + whole
      BY <1>4
    <3> QED
      BY <1>0, <1>1, <1>2, <2>1, <3>1
  <2> QED
    BY <1>5, <2>2
<1>10. ASSUME NEW x \in D
       PROVE  /\ Inside(x, s) /\ x \in Addr /\ x \in Nat
              /\ new[x].span \in Nat /\ x + new[x].span <= base + size
  <2>1. x \in Nat /\ b <= x /\ x < b + whole /\ new[x].span \in Nat
    BY <1>4
  <2>2. x + new[x].span \in D \/ x + new[x].span = b + whole
    BY <1>4
  <2>3. x + new[x].span <= b + whole
    BY <1>2, <1>4, <2>1, <2>2
  <2>4. Inside(x, s)
    BY <1>0, <1>1, <1>2, <2>1 DEF Inside
  <2>5. x \in Addr
    BY <1>1, <1>2, <2>1 DEF Addr
  <2> QED
    BY <1>2, <2>1, <2>3, <2>4, <2>5
<1>11. \A x \in D : \A i \in DOMAIN segs : ~Inside(x, segs[i])
  <2> SUFFICES ASSUME NEW x \in D, NEW i \in DOMAIN segs, Inside(x, segs[i]) PROVE FALSE
    OBVIOUS
  <2>1. segs[i].base \in Nat /\ segs[i].size \in Nat /\ x \in Nat
    BY <1>4, <1>7
  <2> QED
    BY <1>1, <1>2, <1>10, <2>1 DEF Inside
<1>12. \A x \in DOMAIN blk : ~Inside(x, s)
  BY <1>1, <1>2, <1>8 DEF Inside
<1>13. Placed'
  <2>1. ASSUME NEW i \in DOMAIN segs', NEW x \in DOMAIN blk', Inside(x, segs'[i])
        PROVE  \/ x + blk'[x].span \in DOMAIN blk' /\ Inside(x + blk'[x].span, segs'[i])
               \/ x + blk'[x].span = segs'[i].base + segs'[i].size
    <3>1. CASE x \in D
      <4>1. segs'[i] = s /\ blk'[x] = new[x]
        BY <1>5, <1>6, <1>11, <2>1, <3>1
      <4> QED
        BY <1>2, <1>4, <1>5, <1>10, <3>1, <4>1
    <3>2. CASE x \notin D
      <4>1. x \in DOMAIN blk /\ blk'[x] = blk[x]
        BY <1>5, <2>1, <3>2
      <4>2. i - 1 \in DOMAIN segs /\ segs'[i] = segs[i - 1]
        BY <1>6, <1>12, <2>1, <4>1
      <4> QED
        BY <1>5, <2>1, <4>1, <4>2 DEF Placed
    <3> QED
      BY <3>1, <3>2
  <2>2. ASSUME NEW x \in DOMAIN blk', NEW y \in DOMAIN blk', x < y
        PROVE  x + blk'[x].span <= y
    <3>1. CASE x \in D /\ y \in D
      BY <1>4, <1>5, <2>2, <3>1
    <3>2. CASE x \in D /\ y \notin D
      <4>1. y \in DOMAIN blk /\ x \in Nat /\ b <= x /\ y \in Nat /\ (y < base \/ base + size <= y)
        BY <1>4, <1>5, <1>8, <3>2
      <4>2. x + new[x].span <= base + size /\ new[x].span \in Nat /\ blk'[x] = new[x]
        BY <1>5, <1>10, <3>2
      <4> QED
        BY <1>0, <1>1, <2>2, <4>1, <4>2
    <3>3. CASE x \notin D /\ y \in D
      <4>1. x \in DOMAIN blk /\ blk'[x] = blk[x]
        BY <1>5, <3>3
      <4>2. b <= y /\ y < b + whole /\ y \in Nat
        BY <1>4, <3>3
      <4>3. x \in Nat /\ blk[x].span \in Nat /\ (x + blk[x].span <= base \/ base + size <= x)
        BY <1>8, <4>1
      <4> QED
        BY <1>0, <1>1, <1>2, <2>2, <4>1, <4>2, <4>3
    <3>4. CASE x \notin D /\ y \notin D
      BY <1>5, <2>2, <3>4 DEF Placed
    <3> QED
      BY <3>1, <3>2, <3>3, <3>4
  <2>3. \A x \in DOMAIN blk' : \E i \in DOMAIN segs' : Inside(x, segs'[i])
    <3> TAKE x \in DOMAIN blk'
    <3>1. CASE x \in D
      BY <1>6, <1>10, <3>1
    <3>2. CASE x \in DOMAIN blk
      <4>1. PICK i \in DOMAIN segs : Inside(x, segs[i])
        BY <3>2 DEF Placed
      <4> QED
        BY <1>6, <4>1
    <3> QED
      BY <1>5, <3>1, <3>2
  <2>4. \A i \in DOMAIN segs' : /\ segs'[i].base + segs'[i].size - 1 \in Addr
                                 /\ segs'[i].base + 1 \in DOMAIN blk' /\ Inside(segs'[i].base + 1, segs'[i])
    <3> TAKE i \in DOMAIN segs'
    <3>1. CASE i = 1
      <4>1. segs'[i] = s /\ s.base + 1 = b /\ s.base + s.size - 1 \in Addr
        BY <1>0, <1>1, <1>2, <1>6, <3>1 DEF Addr
      <4>2. b \in DOMAIN blk' /\ Inside(b, s)
        BY <1>4, <1>5, <1>10
      <4> QED
        BY <4>1, <4>2
    <3>2. CASE i # 1
      <4>1. i - 1 \in DOMAIN segs /\ segs'[i] = segs[i - 1]
        BY <1>6, <3>2
      <4> QED
        BY <1>5, <4>1 DEF Placed
    <3> QED
      BY <3>1, <3>2
  <2>5. \A i, k \in DOMAIN segs' : i # k => Apart(segs'[i], segs'[k])
    <3> SUFFICES ASSUME NEW i \in DOMAIN segs', NEW k \in DOMAIN segs', i # k PROVE Apart(segs'[i], segs'[k])
      OBVIOUS
    <3>1. CASE i = 1
      <4>1. segs'[i] = s /\ k - 1 \in DOMAIN segs /\ segs'[k] = segs[k - 1]
        BY <1>6, <3>1
      <4> QED
        BY <1>1, <1>2, <4>1 DEF Apart
    <3>2. CASE k = 1
      <4>1. segs'[k] = s /\ i - 1 \in DOMAIN segs /\ segs'[i] = segs[i - 1]
        BY <1>6, <3>2
      <4> QED
        BY <1>1, <1>2, <4>1 DEF Apart
    <3>3. CASE i # 1 /\ k # 1
      <4>1. /\ i - 1 \in DOMAIN segs /\ segs'[i] = segs[i - 1] /\ k - 1 \in DOMAIN segs /\ segs'[k] = segs[k - 1]
            /\ i - 1 # k - 1
        BY <1>6, <3>3
      <4> QED
        BY <4>1 DEF Placed
    <3> QED
      BY <3>1, <3>2, <3>3
  <2>6. \A x \in DOMAIN blk' : blk'[x].span > 0
    BY <1>4, <1>5 DEF Placed
  <2> QED
    BY <2>1, <2>2, <2>3, <2>4, <2>5, <2>6 DEF Placed
<1>14. Kept' = Kept \cup {b} /\ Kept \subseteq DOMAIN blk
  <2>1. Kept = Allocated /\ Kept' = Allocated'
    BY DEF Kept, Allocated
  <2>2. \A x \in DOMAIN blk' : "allocated" \in blk'[x].flags <=> x = b \/ x \in Allocated
    BY <1>4, <1>5, <1>9 DEF Allocated
  <2> QED
    BY <1>4, <1>5, <2>1, <2>2 DEF Allocated
<1>15. ASSUME NEW x \in Kept PROVE blk'[x].span = blk[x].span /\ \A a \in Payload(x) : mem'[a] = mem[a]
  <2>1. x \in DOMAIN blk /\ blk'[x] = blk[x]
    BY <1>9, <1>14
  <2>2. ASSUME NEW a \in Payload(x) PROVE mem'[a] = mem[a]
    <3>1. a \in Addr /\ a \in Nat
      BY <2>1, PayloadAddr DEF Addr
    <3>2. /\ x \in Nat /\ blk[x].span \in Nat /\ x + 1 <= a /\ a <= x + blk[x].span - 1
      BY <1>8, <2>1 DEF Payload
    <3>3. a < base \/ base + size <= a
      BY <1>1, <1>8, <2>1, <3>1, <3>2
    <3>4. a \notin D
      <4> SUFFICES ASSUME a \in D PROVE FALSE
        OBVIOUS
      <4>1. b <= a /\ a < b + whole
        BY <1>4
      <4> QED
        BY <1>0, <1>1, <1>2, <3>1, <3>3, <4>1
    <3> QED
      BY <1>1, <1>3, <3>1, <3>3, <3>4
  <2> QED
    BY <2>1, <2>2
<1>16. ASSUME NEW x \in Kept' PROVE x \in Kept \/ \A a \in Payload(x)' : mem'[a] = 0
  <2> SUFFICES ASSUME x = b, NEW a \in Payload(x)' PROVE mem'[a] = 0
    BY <1>14
  <2>1. a \in (b + 1)..(b + new[b].span - 1)
    BY <1>4, <1>5 DEF Payload
  <2>2. new[b].span \in Nat /\ b + new[b].span <= base + size /\ a \in Nat /\ a >= b + 1 /\ a < b + new[b].span
    BY <1>2, <1>4, <1>10, <2>1
  <2>3. a \in Addr /\ a \in base..(base + size - 1) /\ a # base
    BY <1>0, <1>1, <2>2 DEF Addr
  <2>4. a \notin D
    <3> SUFFICES ASSUME a \in D PROVE FALSE
      OBVIOUS
    <3>1. b + new[b].span <= a
      BY <1>2, <1>4, <2>2
    <3> QED
      BY <1>2, <2>2, <3>1
  <2> QED
    BY <1>3, <2>3, <2>4
<1>17. ASSUME NEW r \in Roots PROVE root'[r] = root[r] \/ \E x \in Kept' : root'[r] \in Payload(x)'
  <2>1. b + 1 \in Payload(b)'
    BY <1>2, <1>4, <1>5 DEF Payload
  <2>2. root'[r] = root[r] \/ root'[r] = b + 1
    BY <1>3 DEF Typed
  <2> QED
    BY <1>14, <2>1, <2>2
<1>18. Safe'
  BY <1>14, <1>15, <1>16, <1>17, SafeMoves
<1>19. ASSUME NEW x \in DOMAIN blk' PROVE Plain(x)'
  BY <1>4, <1>5, <1>9 DEF Plain, Unmarked
<1>20. /\ DOMAIN blk' \subseteq Addr
       /\ blk' \in [DOMAIN blk' -> [span : Nat, flags : SUBSET Flags]]
       /\ mem' \in [Addr -> Int] /\ root' \in [Roots -> Int]
  <2>1. \A x \in DOMAIN blk' : blk'[x] \in [span : Nat, flags : SUBSET Flags] /\ x \in Addr
    BY <1>4, <1>5, <1>8, <1>10 DEF Typed
  <2>2. blk' = [x \in DOMAIN blk' |-> blk'[x]]
    BY <1>3 DEF Over
  <2>3. mem' \in [Addr -> Int]
    <3>1. \A a \in Addr : mem'[a] \in {-1, 0, mem[a]} /\ mem[a] \in Int
      BY <1>3 DEF Typed, Junk
    <3> QED
      BY <1>3, <3>1
  <2>4. root' \in [Roots -> Int]
    <3>0. b + 1 \in Int
      BY <1>2
    <3>1. \A r \in Roots : root[r] \in Int
      BY DEF Typed
    <3>2. DOMAIN root' = Roots /\ \A r \in Roots : root'[r] \in {b + 1, root[r]}
      BY <1>3 DEF Typed
    <3>3. root' = [r \in Roots |-> root'[r]]
      BY <1>3 DEF Typed
    <3> QED
      BY <3>0, <3>1, <3>2, <3>3
  <2> QED
    BY <2>1, <2>2, <2>3, <2>4
<1> QED
  BY <1>6, <1>13, <1>18, <1>19, <1>20

----------------------------------------------------------------------------
(* Marking and tracing *)

\* Marks change neither where the blocks are nor the order of the loops.
LEMMA OrderSame ==
    ASSUME UNCHANGED segs, DOMAIN blk' = DOMAIN blk
    PROVE  \A a, b : Before(a, b)' <=> Before(a, b)
<1>1. \A b : SegOf(b)' = SegOf(b)
  BY DEF SegOf, Within
<1> QED
  BY <1>1 DEF Before

LEMMA HitSame ==
    ASSUME DOMAIN blk' = DOMAIN blk,
           \A b \in DOMAIN blk : /\ blk'[b].span = blk[b].span
                                 /\ "allocated" \in blk'[b].flags <=> "allocated" \in blk[b].flags
    PROVE  /\ Allocated' = Allocated
           /\ \A b \in DOMAIN blk : Payload(b)' = Payload(b)
           /\ \A p : Hit({p})' = Hit({p})
<1>1. Allocated' = Allocated
  BY DEF Allocated
<1>2. \A b \in DOMAIN blk : Payload(b)' = Payload(b)
  BY DEF Payload
<1>3. Allocated \subseteq DOMAIN blk
  BY DEF Allocated
<1>4. \A p : Hit({p})' = Hit({p})
  BY <1>1, <1>2, <1>3 DEF Hit
<1> QED
  BY <1>1, <1>2, <1>4

Headers(D) == [D -> [span : Nat, flags : SUBSET Flags]]

LEMMA MarkAllIs ==
    ASSUME NEW B \in Headers(DOMAIN blk), NEW P
    PROVE  /\ DOMAIN MarkAll(B, P) = DOMAIN blk /\ MarkAll(B, P) \in Headers(DOMAIN blk)
           /\ \A b \in DOMAIN blk :
                 /\ MarkAll(B, P)[b].span = B[b].span
                 /\ b \in Hit(P) => MarkAll(B, P)[b].flags = B[b].flags \cup {"marked"}
                 /\ b \notin Hit(P) => MarkAll(B, P)[b].flags = B[b].flags
<1>1. DOMAIN B = DOMAIN blk /\ \A b \in DOMAIN blk : B[b] \in [span : Nat, flags : SUBSET Flags]
  BY DEF Headers
<1>2. \A b \in DOMAIN blk : B[b].flags \cup {"marked"} \in SUBSET Flags
  BY <1>1 DEF Flags
<1>3. \A b \in DOMAIN blk :
         /\ MarkAll(B, P)[b] \in [span : Nat, flags : SUBSET Flags]
         /\ MarkAll(B, P)[b].span = B[b].span
         /\ b \in Hit(P) => MarkAll(B, P)[b].flags = B[b].flags \cup {"marked"}
         /\ b \notin Hit(P) => MarkAll(B, P)[b].flags = B[b].flags
  BY <1>1, <1>2 DEF MarkAll
<1>4. MarkAll(B, P) = [b \in DOMAIN blk |-> MarkAll(B, P)[b]]
  BY <1>1 DEF MarkAll
<1> QED
  BY <1>3, <1>4 DEF Headers

LEMMA HitOne ==
    ASSUME NEW P, NEW p \in P
    PROVE  Hit({p}) \subseteq Hit(P) /\ Hit(P) \subseteq DOMAIN blk
  BY DEF Hit, Allocated

\* The first block of a pass has none before it.
LEMMA PassStarts ==
    ASSUME Typed, Placed
    PROVE  /\ First(DOMAIN blk) \in DOMAIN blk \cup {0}
           /\ First(DOMAIN blk) = 0 => DOMAIN blk = {}
           /\ \A b \in DOMAIN blk : First(DOMAIN blk) # 0 => ~Before(b, First(DOMAIN blk))
<1>1. CASE DOMAIN blk = {}
  BY <1>1 DEF First
<1>2. CASE DOMAIN blk # {}
  <2>1. First(DOMAIN blk) \in DOMAIN blk /\ \A a \in DOMAIN blk : a = First(DOMAIN blk) \/ Before(First(DOMAIN blk), a)
    BY <1>2, FirstIs
  <2>2. First(DOMAIN blk) # 0
    BY <2>1, BlockType
  <2> QED
    BY <2>1, <2>2, BeforeOrders
<1> QED
  BY <1>1, <1>2

LEMMA CollectKeeps == HeapInductive /\ Collect => HeapInductive'
<1> SUFFICES ASSUME HeapInductive, Collect PROVE HeapInductive'
  OBVIOUS
<1>1. /\ pc = "idle" /\ pc' = "roots" /\ want' = NoWant /\ cursor' = 0 /\ progress' = FALSE
      /\ UNCHANGED <<segs, blk, reserved, nextSize, mem, root>>
  BY DEF Collect, Idle, Goto, heap, program
<1>2. Placed' /\ Safe'
  BY <1>1, MarkingKeeps DEF HeapInductive
<1>3. Typed'
  BY <1>1 DEF HeapInductive, Typed
<1>4. Unmarked' /\ Tracing' /\ Traced' /\ Sweeping'
  BY <1>1 DEF HeapInductive, Unmarked, Tracing, Traced, Sweeping, Plain
<1> QED
  BY <1>2, <1>3, <1>4 DEF HeapInductive

LEMMA MarkRootsKeeps == HeapInductive /\ MarkRoots => HeapInductive'
<1> SUFFICES ASSUME HeapInductive, MarkRoots PROVE HeapInductive'
  OBVIOUS
<1> USE DEF HeapInductive
<1>0. PICK P : P = {root[r] : r \in Roots}
  OBVIOUS
<1>1. /\ pc = "roots" /\ pc' = "trace" /\ progress' = FALSE /\ cursor' = First(DOMAIN blk)
      /\ blk' = MarkAll(blk, P)
      /\ UNCHANGED <<want, segs, reserved, nextSize, mem, root>>
  BY <1>0 DEF MarkRoots, program
<1>2. blk \in Headers(DOMAIN blk)
  BY DEF Typed, Headers
<1>3. /\ DOMAIN blk' = DOMAIN blk /\ blk' \in Headers(DOMAIN blk)
      /\ \A b \in DOMAIN blk :
            /\ blk'[b].span = blk[b].span
            /\ b \in Hit(P) => blk'[b].flags = blk[b].flags \cup {"marked"}
            /\ b \notin Hit(P) => blk'[b].flags = blk[b].flags
  BY <1>1, <1>2, MarkAllIs
<1>4. \A b \in DOMAIN blk : "allocated" \in blk'[b].flags <=> "allocated" \in blk[b].flags
  BY <1>3
<1>5. Placed' /\ Safe'
  BY <1>1, <1>3, <1>4, MarkingKeeps
<1>6. Typed'
  <2>1. cursor' \in Nat
    BY <1>1, PassStarts, BlockType
  <2> QED
    BY <1>1, <1>3, <2>1 DEF Typed, Headers
<1>7. Unmarked' /\ Sweeping'
  BY <1>1 DEF Unmarked, Sweeping
<1>8. ASSUME NEW b \in DOMAIN blk
      PROVE  \/ blk'[b].flags \in {{}, {"allocated"}} /\ b \notin Hit(P)
             \/ blk'[b].flags = {"allocated", "marked"}
  <2>1. blk[b].flags \in {{}, {"allocated"}}
    BY <1>1 DEF Unmarked, Plain
  <2>2. b \in Hit(P) => "allocated" \in blk[b].flags
    BY DEF Hit, Allocated
  <2> QED
    BY <1>3, <2>1, <2>2
<1>9. Tracing'
  BY <1>3, <1>8 DEF Tracing, Plain
<1>10. Traced'
  <2>1. ASSUME NEW r \in Roots PROVE Hit({root[r]})' \subseteq Marked'
    <3>0. PICK p : p = root[r]
      OBVIOUS
    <3>1. root'[r] = p /\ p \in P
      BY <1>0, <1>1, <3>0
    <3>2. Hit({root[r]})' = Hit({p})
      <4>1. Hit({p})' = Hit({p})
        BY <1>3, <1>4, HitSame
      <4> QED
        BY <3>1, <4>1 DEF Hit
    <3>3. \A b \in Hit(P) : b \in DOMAIN blk' /\ "marked" \in blk'[b].flags
      BY <1>3, <3>1, HitOne
    <3> QED
      BY <3>1, <3>2, <3>3, HitOne DEF Marked
  <2>2. Scanned' = {}
    BY <1>3, <1>8 DEF Scanned
  <2>3. cursor' \in DOMAIN blk' \cup {0}
    BY <1>1, <1>3, PassStarts
  <2>4. ASSUME NEW b \in Marked', cursor' = 0 \/ Before(b, cursor)' PROVE FALSE
    <3>1. b \in DOMAIN blk
      BY <1>3 DEF Marked
    <3>2. Before(b, cursor)' <=> Before(b, cursor')
      BY <1>1, <1>3, OrderSame
    <3> QED
      BY <1>1, <2>4, <3>1, <3>2, PassStarts
  <2> QED
    BY <2>1, <2>2, <2>3, <2>4 DEF Traced
<1> QED
  BY <1>5, <1>6, <1>7, <1>9, <1>10

LEMMA MarkRootsFailsKeeps == HeapInductive /\ MarkRootsFails => HeapInductive'
<1> SUFFICES ASSUME HeapInductive, MarkRootsFails PROVE HeapInductive'
  OBVIOUS
<1> USE DEF HeapInductive
<1>1. PICK P : blk' = ClearMarks(MarkAll(blk, P))
  BY DEF MarkRootsFails
<1>2. /\ pc = "roots" /\ pc' = "idle" /\ progress' = FALSE /\ cursor' = 0 /\ want' = NoWant
      /\ UNCHANGED <<segs, reserved, nextSize, mem, root>>
  BY DEF MarkRootsFails, Goto, program
<1>3. PICK M : M = MarkAll(blk, P)
  OBVIOUS
<1>4. blk \in Headers(DOMAIN blk)
  BY DEF Typed, Headers
<1>5. /\ DOMAIN M = DOMAIN blk /\ M \in Headers(DOMAIN blk)
      /\ \A b \in DOMAIN blk :
            /\ M[b].span = blk[b].span
            /\ b \in Hit(P) => M[b].flags = blk[b].flags \cup {"marked"}
            /\ b \notin Hit(P) => M[b].flags = blk[b].flags
  BY <1>3, <1>4, MarkAllIs
<1>6. DOMAIN blk' = DOMAIN blk /\ blk' = [b \in DOMAIN blk |-> blk'[b]]
  BY <1>1, <1>3, <1>5 DEF ClearMarks
<1>7. \A b \in DOMAIN blk : M[b] \in [span : Nat, flags : SUBSET Flags]
  BY <1>5 DEF Headers
<1>8. \A b \in DOMAIN blk : /\ blk'[b].span = blk[b].span /\ blk'[b].flags = M[b].flags \cap {"allocated"}
                             /\ blk'[b] \in [span : Nat, flags : SUBSET Flags]
  BY <1>1, <1>3, <1>5, <1>7 DEF ClearMarks
<1>9. \A b \in DOMAIN blk : "allocated" \in blk'[b].flags <=> "allocated" \in blk[b].flags
  BY <1>5, <1>8
<1>10. Placed' /\ Safe'
  BY <1>2, <1>6, <1>8, <1>9, MarkingKeeps
<1>11. Typed'
  <2>1. blk' \in [DOMAIN blk' -> [span : Nat, flags : SUBSET Flags]]
    BY <1>6, <1>8
  <2> QED
    BY <1>2, <1>6, <2>1 DEF Typed
<1>12. \A b \in DOMAIN blk' : blk'[b].flags \in {{}, {"allocated"}}
  BY <1>6, <1>8
<1>13. Unmarked' /\ Tracing' /\ Traced' /\ Sweeping'
  BY <1>2, <1>12 DEF Unmarked, Tracing, Traced, Sweeping, Plain
<1> QED
  BY <1>10, <1>11, <1>13

\* What comes next in a pass.
LEMMA FollowingIs ==
    ASSUME Typed, Placed, NEW c \in DOMAIN blk
    PROVE  /\ Following(c) \in DOMAIN blk \cup {0}
           /\ \A b \in DOMAIN blk : Following(c) = 0 \/ Before(b, Following(c)) => b = c \/ Before(b, c)
<1> DEFINE S == {a \in DOMAIN blk : Before(c, a)}
<1>1. Following(c) = First(S)
  BY DEF Following
<1>2. CASE S = {}
  <2>1. Following(c) = 0
    BY <1>1, <1>2 DEF First
  <2>2. \A b \in DOMAIN blk : ~Before(c, b)
    BY <1>2
  <2> QED
    BY <2>1, <2>2, BeforeOrders
<1>3. CASE S # {}
  <2>1. S \subseteq DOMAIN blk
    OBVIOUS
  <2> HIDE DEF S
  <2>2. First(S) \in S /\ \A a \in S : a = First(S) \/ Before(First(S), a)
    BY <1>3, <2>1, FirstIs
  <2>3. First(S) \in DOMAIN blk /\ First(S) # 0
    BY <2>1, <2>2, BlockType
  <2>4. ASSUME NEW b \in DOMAIN blk, Before(b, First(S)) PROVE b = c \/ Before(b, c)
    <3> SUFFICES ASSUME b # c, ~Before(b, c) PROVE FALSE
      OBVIOUS
    <3>1. b \in S
      BY BeforeOrders DEF S
    <3> QED
      BY <2>2, <2>3, <2>4, <3>1, BeforeOrders
  <2> QED
    BY <1>1, <2>3, <2>4
<1> QED
  BY <1>2, <1>3

LEMMA ScanKeeps == HeapInductive /\ Scan => HeapInductive'
<1> SUFFICES ASSUME HeapInductive, Scan PROVE HeapInductive'
  OBVIOUS
<1> USE DEF HeapInductive
<1>0. PICK c, P : c = cursor /\ P = {mem[a] : a \in Payload(c)}
  OBVIOUS
<1> DEFINE due == blk[c].flags = {"allocated", "marked"}
<1>1. /\ pc = "trace" /\ pc' = "trace" /\ c # 0 /\ progress' = (progress \/ due)
      /\ cursor' = Following(c)
      /\ UNCHANGED <<want, segs, reserved, nextSize, mem, root>>
  BY <1>0 DEF Scan, program
<1>2. c \in DOMAIN blk
  BY <1>0, <1>1 DEF Traced
<1>3. /\ cursor' \in DOMAIN blk \cup {0} /\ cursor' \in Nat
      /\ \A b \in DOMAIN blk : cursor' = 0 \/ Before(b, cursor') => b = c \/ Before(b, c)
  BY <1>1, <1>2, FollowingIs, BlockType
<1>4. CASE ~due
  <2>1. blk' = blk /\ progress' = progress
    BY <1>0, <1>1, <1>4 DEF Scan, Typed
  <2>2. Placed' /\ Safe'
    BY <1>1, <2>1, MarkingKeeps
  <2>3. Typed'
    BY <1>1, <1>3, <2>1 DEF Typed
  <2>4. Unmarked' /\ Sweeping' /\ Tracing'
    BY <1>1, <2>1 DEF Unmarked, Sweeping, Tracing, Plain
  <2>5. ASSUME ~progress, NEW b \in Marked, cursor' = 0 \/ Before(b, cursor') PROVE b \in Scanned
    <3>1. b \in DOMAIN blk /\ "marked" \in blk[b].flags
      BY DEF Marked
    <3>2. CASE Before(b, c)
      BY <1>0, <1>1, <2>5, <3>2 DEF Traced
    <3>3. CASE b = c
      BY <1>1, <1>4, <3>1, <3>3 DEF Tracing, Plain, Scanned, Flags
    <3> QED
      BY <1>3, <2>5, <3>1, <3>2, <3>3
  <2>6. ASSUME ~progress', NEW b \in Marked', cursor' = 0 \/ Before(b, cursor)' PROVE b \in Scanned'
    <3>1. b \in Marked /\ (Before(b, cursor)' <=> Before(b, cursor'))
      BY <1>1, <2>1, OrderSame DEF Marked
    <3> QED
      BY <2>1, <2>5, <2>6, <3>1 DEF Scanned
  <2>7. /\ \A r \in Roots : Hit({root[r]})' \subseteq Marked'
        /\ \A b \in Scanned' : \A a \in Payload(b)' : Hit({mem[a]})' \subseteq Marked'
    BY <1>1, <2>1 DEF Traced, Hit, Allocated, Payload, Marked, Scanned
  <2>8. Traced'
    BY <1>3, <2>1, <2>6, <2>7 DEF Traced
  <2> QED
    BY <2>2, <2>3, <2>4, <2>8
<1>5. CASE due
  <2>0. PICK B : B = [blk EXCEPT ![c].flags = @ \cup {"scanned"}]
    OBVIOUS
  <2>1. blk' = MarkAll(B, P) /\ progress' = TRUE
    BY <1>0, <1>1, <1>5, <2>0 DEF Scan
  <2>2. \A b \in DOMAIN blk : blk[b] \in [span : Nat, flags : SUBSET Flags]
    BY DEF Typed
  <2>3. /\ B \in Headers(DOMAIN blk) /\ B[c].flags = Flags
        /\ \A b \in DOMAIN blk : B[b].span = blk[b].span /\ (b # c => B[b].flags = blk[b].flags)
    <3>1. blk = [b \in DOMAIN blk |-> blk[b]]
      BY DEF Typed
    <3>2. \A b \in DOMAIN blk : b # c => B[b] = blk[b]
      BY <2>0, <3>1
    <3>3. B[c] = [blk[c] EXCEPT !.flags = @ \cup {"scanned"}] /\ DOMAIN B = DOMAIN blk
          /\ B = [b \in DOMAIN B |-> B[b]]
      BY <1>2, <2>0, <3>1
    <3>4. B[c].span = blk[c].span /\ B[c].flags = Flags /\ B[c] \in [span : Nat, flags : SUBSET Flags]
      BY <1>2, <1>5, <2>2, <3>3 DEF Flags
    <3> QED
      BY <2>2, <3>2, <3>3, <3>4 DEF Headers
  <2>4. /\ DOMAIN blk' = DOMAIN blk /\ blk' \in Headers(DOMAIN blk)
        /\ \A b \in DOMAIN blk :
              /\ blk'[b].span = blk[b].span
              /\ b \in Hit(P) => blk'[b].flags = B[b].flags \cup {"marked"}
              /\ b \notin Hit(P) => blk'[b].flags = B[b].flags
    BY <2>1, <2>3, MarkAllIs
  <2>5. blk'[c].flags = Flags /\ \A b \in DOMAIN blk : b # c =>
              /\ b \in Hit(P) => blk'[b].flags = blk[b].flags \cup {"marked"}
              /\ b \notin Hit(P) => blk'[b].flags = blk[b].flags
    BY <1>2, <2>3, <2>4 DEF Flags
  <2>6. \A b \in DOMAIN blk : "allocated" \in blk'[b].flags <=> "allocated" \in blk[b].flags
    BY <1>5, <2>5 DEF Flags
  <2>7. Placed' /\ Safe'
    BY <1>1, <2>4, <2>6, MarkingKeeps
  <2>8. Typed'
    BY <1>1, <1>3, <2>1, <2>4 DEF Typed, Headers
  <2>9. ASSUME NEW b \in DOMAIN blk'
        PROVE  blk'[b].flags \in {{}, {"allocated"}, {"allocated", "marked"}, Flags}
    <3>1. blk[b].flags \in {{}, {"allocated"}, {"allocated", "marked"}, Flags}
      BY <1>1, <2>4, <2>9 DEF Tracing, Plain
    <3>2. b \in Hit(P) => "allocated" \in blk[b].flags
      BY DEF Hit, Allocated
    <3>3. CASE b # c /\ b \in Hit(P)
      <4>1. blk'[b].flags = blk[b].flags \cup {"marked"}
        BY <2>4, <2>5, <2>9, <3>3
      <4> QED
        BY <3>1, <3>2, <3>3, <4>1 DEF Flags
    <3> QED
      BY <2>4, <2>5, <2>9, <3>1, <3>3
  <2>10. Unmarked' /\ Sweeping' /\ Tracing'
    BY <1>1, <2>9 DEF Unmarked, Sweeping, Tracing, Plain
  <2>11. /\ Marked \subseteq Marked' /\ Scanned' \subseteq Scanned \cup {c}
         /\ \A p \in P : Hit({p}) \subseteq Marked'
    <3>1. \A b \in DOMAIN blk : "marked" \in blk[b].flags => "marked" \in blk'[b].flags
      BY <2>5 DEF Flags
    <3>2. \A b \in DOMAIN blk : "scanned" \in blk'[b].flags => b = c \/ "scanned" \in blk[b].flags
      BY <2>5
    <3>3. \A b \in Hit(P) : b \in DOMAIN blk /\ "marked" \in blk'[b].flags
      BY <2>5 DEF Hit, Allocated, Flags
    <3>4. \A p \in P : Hit({p}) \subseteq Hit(P)
      BY HitOne
    <3> QED
      BY <2>4, <3>1, <3>2, <3>3, <3>4 DEF Marked, Scanned
  <2>12. (\A b \in DOMAIN blk : Payload(b)' = Payload(b)) /\ \A p : Hit({p})' = Hit({p})
    BY <2>4, <2>6, HitSame
  <2>13. ASSUME NEW r \in Roots PROVE Hit({root[r]})' \subseteq Marked'
    <3>1. PICK p : p = root[r]
      OBVIOUS
    <3>2. Hit({root[r]})' = Hit({p})'
      BY <1>1, <3>1 DEF Hit
    <3>3. Hit({p}) \subseteq Marked
      BY <1>1, <3>1 DEF Traced
    <3> QED
      BY <2>11, <2>12, <3>2, <3>3
  <2>14. ASSUME NEW b \in Scanned', NEW a \in Payload(b)' PROVE Hit({mem[a]})' \subseteq Marked'
    <3>1. PICK p : p = mem[a]
      OBVIOUS
    <3>2. Hit({mem[a]})' = Hit({p})'
      BY <1>1, <3>1 DEF Hit
    <3>3. b \in DOMAIN blk /\ a \in Payload(b)
      BY <2>4, <2>12, <2>14 DEF Scanned
    <3>4. Hit({p}) \subseteq Marked \/ p \in P
      BY <1>0, <1>1, <2>11, <2>14, <3>1, <3>3 DEF Traced
    <3> QED
      BY <2>11, <2>12, <3>2, <3>4
  <2>15. Traced'
    BY <1>3, <2>1, <2>4, <2>13, <2>14 DEF Traced
  <2> QED
    BY <2>7, <2>8, <2>10, <2>15
<1> QED
  BY <1>4, <1>5

\* When a pass has found nothing more, what is marked is what is kept.
LEMMA EndPassKeeps == HeapInductive /\ EndPass => HeapInductive'
<1> SUFFICES ASSUME HeapInductive, EndPass PROVE HeapInductive'
  OBVIOUS
<1> USE DEF HeapInductive
<1>1. /\ pc = "trace" /\ cursor = 0 /\ progress' = FALSE
      /\ UNCHANGED <<want, segs, blk, reserved, nextSize, mem, root>>
  BY DEF EndPass, heap, program
<1>2. CASE progress
  <2>1. cursor' = First(DOMAIN blk) /\ pc' = pc
    BY <1>2 DEF EndPass, AnotherPass
  <2>2. Placed' /\ Safe'
    BY <1>1, <2>1, MarkingKeeps
  <2>3. Typed'
    <3>1. cursor' \in Nat
      BY <2>1, PassStarts, BlockType
    <3> QED
      BY <1>1, <2>1, <3>1 DEF Typed
  <2>4. Unmarked' /\ Sweeping' /\ Tracing'
    BY <1>1, <2>1 DEF Unmarked, Sweeping, Tracing, Plain
  <2>5. ASSUME NEW b \in Marked', cursor' = 0 \/ Before(b, cursor)' PROVE FALSE
    <3>1. b \in DOMAIN blk
      BY <1>1 DEF Marked
    <3>2. Before(b, cursor)' <=> Before(b, cursor')
      BY <1>1, OrderSame
    <3> QED
      BY <2>1, <2>5, <3>1, <3>2, PassStarts
  <2>6. /\ \A r \in Roots : Hit({root[r]})' \subseteq Marked'
        /\ \A b \in Scanned' : \A a \in Payload(b)' : Hit({mem[a]})' \subseteq Marked'
    BY <1>1 DEF Traced, Hit, Allocated, Payload, Marked, Scanned
  <2>7. cursor' \in DOMAIN blk' \cup {0}
    BY <1>1, <2>1, PassStarts
  <2>8. Traced'
    BY <2>5, <2>6, <2>7 DEF Traced
  <2> QED
    BY <2>2, <2>3, <2>4, <2>8
<1>3. CASE ~progress
  <2>1. cursor' = Len(segs) /\ pc' = "sweep"
    BY <1>3 DEF EndPass, AnotherPass
  <2>2. DOMAIN segs = 1..Len(segs) /\ Len(segs) \in Nat
    BY SegsDomain
  <2>3. Marked \subseteq Scanned /\ Marked \subseteq Allocated
    <3>1. Marked \subseteq Scanned
      BY <1>1, <1>3 DEF Traced
    <3>2. Marked \subseteq Allocated
      BY <1>1 DEF Tracing, Plain, Marked, Allocated, Flags
    <3> QED
      BY <3>1, <3>2
  <2>4. Kept' = Marked /\ Kept = Allocated
    <3>1. ~\E k \in DOMAIN segs : k > Len(segs)
      BY <2>2
    <3> QED
      BY <1>1, <2>1, <2>3, <3>1 DEF Kept, Allocated, Marked
  <2>5. \A b : Payload(b)' = Payload(b)
    BY <1>1 DEF Payload
  <2>6. ASSUME NEW p, Held(p), Hit({p}) \subseteq Marked PROVE p = 0 \/ \E b \in Kept' : p \in Payload(b)'
    BY <2>4, <2>5, <2>6 DEF Held, Hit
  <2>7. ASSUME NEW r \in Roots PROVE Held(root[r])'
    <3>1. Held(root[r]) /\ Hit({root[r]}) \subseteq Marked /\ root'[r] = root[r]
      BY <1>1 DEF Safe, Traced
    <3> QED
      BY <2>6, <3>1 DEF Held
  <2>8. ASSUME NEW b \in Kept', NEW a \in Payload(b)' PROVE Held(mem[a])'
    <3>1. b \in Kept /\ b \in Scanned /\ a \in Payload(b)
      BY <2>3, <2>4, <2>5, <2>8
    <3>2. Held(mem[a]) /\ Hit({mem[a]}) \subseteq Marked /\ mem'[a] = mem[a]
      BY <1>1, <3>1 DEF Safe, Traced
    <3> QED
      BY <2>6, <3>2 DEF Held
  <2>9. Safe'
    BY <2>7, <2>8 DEF Safe
  <2>10. Typed' /\ Placed'
    BY <1>1, <2>1, <2>2, PlacedSame DEF Typed
  <2>11. Unmarked' /\ Sweeping' /\ Tracing' /\ Traced'
    BY <1>1, <2>1, <2>2 DEF Unmarked, Sweeping, Tracing, Traced, Plain
  <2> QED
    BY <2>9, <2>10, <2>11
<1> QED
  BY <1>2, <1>3 DEF Typed

----------------------------------------------------------------------------
(* Sweeping *)

\* What a sweep does to a segment concerns no kept block but those it marks.
LEMMA SweepsOthers ==
    ASSUME HeapInductive, pc = "sweep", NEW k \in DOMAIN segs, k = cursor, NEW b \in Kept
    PROVE  /\ b \in DOMAIN blk /\ b \in Allocated
           /\ Inside(b, segs[k]) => b \in Marked
           /\ ~Inside(b, segs[k]) => b \in Marked \/ \E i \in DOMAIN segs : i > k /\ Inside(b, segs[i])
<1>1. b \in DOMAIN blk /\ b \in Allocated /\ (b \in Marked \/ \E i \in DOMAIN segs : i > k /\ Inside(b, segs[i]))
  BY DEF Kept, Allocated
<1>2. \A i \in DOMAIN segs : i > k /\ Inside(b, segs[i]) => ~Inside(b, segs[k])
  BY <1>1, OneSegment, SegsDomain DEF HeapInductive
<1> QED
  BY <1>1, <1>2

LEMMA MarkedAllocated ==
    ASSUME Tracing, pc = "sweep"
    PROVE  Marked \subseteq Allocated
  BY DEF Tracing, Plain, Marked, Allocated, Flags

\* How far it is from b to the next live block, or to the end of the segment.
Gap(s, b) == Min({a \in Live(s) : a > b} \cup {s.base + s.size}) - b

LEMMA GapIs ==
    ASSUME Typed, NEW s \in [base : Nat, size : Nat], NEW b \in DOMAIN blk, Inside(b, s)
    PROVE  LET e == b + Gap(s, b) IN
           /\ Gap(s, b) \in Nat /\ e \in Nat /\ e <= s.base + s.size
           /\ e = s.base + s.size \/ (e \in Live(s) /\ e > b)
           /\ \A a \in Live(s) : a > b => e <= a
<1> DEFINE end == s.base + s.size
           T == {a \in Live(s) : a > b} \cup {end}
<1>1. end \in Nat /\ b \in Nat /\ end > b
  BY BlockType DEF Inside
<1>2. \A a \in Live(s) : a \in Nat
  BY BlockType DEF Live, Within
<1> HIDE DEF end
<1>3. T \subseteq Nat /\ T # {}
  BY <1>1, <1>2
<1>4. \A x \in T : x > b /\ x \in Nat
  BY <1>1, <1>2
<1>5. end \in T /\ \A a \in Live(s) : a > b => a \in T
  OBVIOUS
<1>6. \A x \in T : x = end \/ (x \in Live(s) /\ x > b)
  OBVIOUS
<1> HIDE DEF T
<1>7. \E m \in T : \A x \in T : m <= x
  <2>1. PICK m \in T : \A x \in T : ~(x < m)
    BY <1>3, LeastOf
  <2> QED
    BY <1>4, <2>1
<1>8. Min(T) \in T /\ \A x \in T : Min(T) <= x
  BY <1>7 DEF Min
<1>9. Gap(s, b) = Min(T) - b
  BY DEF Gap, T, end
<1>10. /\ Min(T) \in Nat /\ Min(T) > b /\ Min(T) <= end
       /\ Min(T) = end \/ (Min(T) \in Live(s) /\ Min(T) > b)
       /\ \A a \in Live(s) : a > b => Min(T) <= a
  BY <1>4, <1>5, <1>6, <1>8
<1> HIDE DEF Live, Within
<1>11. Gap(s, b) \in Nat /\ b + Gap(s, b) = Min(T)
  BY <1>1, <1>9, <1>10
<1> QED
  BY <1>10, <1>11 DEF end


\* From one block of a run to the next the gap shrinks by the block's span.
LEMMA GapShrinks ==
    ASSUME Typed, Placed, NEW k \in DOMAIN segs, NEW s \in [base : Nat, size : Nat], s = segs[k],
           NEW b \in Within(s) \ Marked
    PROVE  LET n == b + blk[b].span IN
           /\ n \in Nat /\ n > b /\ n <= s.base + s.size
           /\ n \in Within(s) \ Marked => Gap(s, b) = blk[b].span + Gap(s, n)
           /\ n \notin Within(s) \ Marked => Gap(s, b) = blk[b].span
<1> DEFINE n == b + blk[b].span
           end == s.base + s.size
<1>1. b \in DOMAIN blk /\ Inside(b, s) /\ b \notin Marked
  BY DEF Within, Inside
<1>2. b \in Nat /\ blk[b].span \in Nat /\ blk[b].span > 0 /\ end \in Nat /\ n \in Nat /\ n > b
  BY <1>1, BlockType DEF Placed
<1>3. (n \in DOMAIN blk /\ Inside(n, s)) \/ n = end
  BY <1>1 DEF Placed
<1>4. \A c \in Live(s) : c \in Nat /\ c < end /\ c \in Marked /\ (c > b => n <= c)
  <2>1. \A c \in Live(s) : c \in DOMAIN blk /\ c \in Marked /\ c < end
    BY DEF Live, Within
  <2> QED
    BY <1>1, <1>2, <2>1, BlockType DEF Placed
<1>5. PICK e : e = b + Gap(s, b)
  OBVIOUS
<1>6. /\ Gap(s, b) \in Nat /\ e \in Nat /\ e <= end
      /\ e = end \/ (e \in Live(s) /\ e > b)
      /\ \A a \in Live(s) : a > b => e <= a
  BY <1>1, <1>5, GapIs
<1> HIDE DEF n, end
<1>7. n <= end /\ n <= e
  BY <1>2, <1>3, <1>4, <1>6 DEF Inside, end
<1>8. CASE n \in Within(s) \ Marked
  <2>1. n \in DOMAIN blk /\ Inside(n, s) /\ n \notin Marked
    BY <1>8 DEF Within, Inside
  <2>2. PICK d : d = n + Gap(s, n)
    OBVIOUS
  <2>3. /\ Gap(s, n) \in Nat /\ d \in Nat /\ d <= end
        /\ d = end \/ (d \in Live(s) /\ d > n)
        /\ \A a \in Live(s) : a > n => d <= a
    BY <2>1, <2>2, GapIs DEF end
  <2>4. \A c \in Live(s) : c > b => c > n
    BY <1>2, <1>4, <2>1
  <2>5. e <= d
    BY <1>2, <1>6, <2>3
  <2>6. d <= e
    BY <1>2, <1>6, <2>3, <2>4
  <2>7. e = d
    BY <1>6, <2>3, <2>5, <2>6
  <2>8. Gap(s, b) = blk[b].span + Gap(s, n)
    BY <1>2, <1>5, <1>6, <2>2, <2>3, <2>7 DEF n
  <2> QED
    BY <1>2, <1>7, <1>8, <2>8 DEF n, end
<1>9. CASE n \notin Within(s) \ Marked
  <2>1. n = end \/ n \in Live(s)
    BY <1>3, <1>9 DEF Within, Inside, Live
  <2>2. e <= n
    BY <1>2, <1>6, <2>1
  <2>3. Gap(s, b) = blk[b].span
    BY <1>2, <1>5, <1>6, <1>7, <2>2 DEF n
  <2> QED
    BY <1>2, <1>7, <1>9, <2>3 DEF n, end
<1> QED
  BY <1>8, <1>9

\* What the walk adds up over a run is its gap.
LEMMA RunSpanIsGap ==
    ASSUME Typed, Placed, NEW k \in DOMAIN segs, NEW s \in [base : Nat, size : Nat], s = segs[k],
           NEW b \in Within(s) \ Marked
    PROVE  RunSpan(s, b) = Gap(s, b)
<1> DEFINE end == s.base + s.size
           D == (s.base + 1)..(s.base + s.size)
           R == Within(s) \ Marked
           Rule(g) == g = [a \in D |-> IF a \in R THEN blk[a].span + g[a + blk[a].span] ELSE 0]
           f == [a \in D |-> IF a \in R THEN Gap(s, a) ELSE 0]
           g0 == CHOOSE g : Rule(g)
<1>1. end \in Nat /\ s.base \in Nat /\ s.size \in Nat /\ D \subseteq Nat
  OBVIOUS
<1>2. ASSUME NEW a \in R
      PROVE  /\ a \in D /\ a + blk[a].span \in D /\ a + blk[a].span > a
             /\ a + blk[a].span \in R => Gap(s, a) = blk[a].span + Gap(s, a + blk[a].span)
             /\ a + blk[a].span \notin R => Gap(s, a) = blk[a].span
             /\ blk[a].span \in Nat
  <2>1. a \in DOMAIN blk /\ a > s.base /\ a < s.base + s.size
    BY DEF Within
  <2>2. a \in Nat /\ blk[a].span \in Nat
    BY <2>1, BlockType
  <2> HIDE DEF R
  <2>3. /\ a + blk[a].span > a /\ a + blk[a].span <= s.base + s.size
        /\ a + blk[a].span \in R => Gap(s, a) = blk[a].span + Gap(s, a + blk[a].span)
        /\ a + blk[a].span \notin R => Gap(s, a) = blk[a].span
    BY GapShrinks DEF R
  <2> QED
    BY <1>1, <2>1, <2>2, <2>3
<1>3. RunSpan(s, b) = g0[b]
  BY DEF RunSpan
<1>4. b \in R
  OBVIOUS
<1> HIDE DEF R, D
<1>5. ASSUME NEW a \in D PROVE f[a] = IF a \in R THEN blk[a].span + f[a + blk[a].span] ELSE 0
  <2>1. CASE a \in R
    BY <1>2, <2>1
  <2> QED
    BY <2>1
<1>6. Rule(f)
  BY <1>5
<1>7. Rule(g0)
  BY <1>6
<1> HIDE DEF g0
<1>8. ASSUME NEW a \in D PROVE g0[a] = IF a \in R THEN blk[a].span + g0[a + blk[a].span] ELSE 0
  BY <1>7
<1> HIDE DEF f
<1> DEFINE W == {x \in Nat : \E a \in D : a + x = end /\ g0[a] # f[a]}
<1>9. ASSUME NEW x \in W, \A y \in W : ~(y < x) PROVE FALSE
  <2>1. PICK a \in D : a + x = end /\ g0[a] # f[a]
    BY <1>9
  <2>2. a \in R
    BY <1>5, <1>8, <2>1
  <2>3. PICK n : n = a + blk[a].span
    OBVIOUS
  <2>4. n \in D /\ n > a /\ n \in Nat /\ a \in Nat /\ n <= end
    BY <1>1, <1>2, <2>2, <2>3 DEF D
  <2>5. g0[n] # f[n]
    BY <1>5, <1>8, <2>1, <2>2, <2>3
  <2>6. end - n \in Nat /\ n + (end - n) = end /\ end - n < x
    BY <1>1, <2>1, <2>4
  <2>7. end - n \in W
    BY <2>4, <2>5, <2>6
  <2> QED
    BY <1>9, <2>6, <2>7
<1>10. W = {}
  <2> SUFFICES ASSUME W # {} PROVE FALSE
    OBVIOUS
  <2>1. PICK x \in W : \A y \in W : ~(y < x)
    BY LeastOf
  <2> QED
    BY <1>9, <2>1
<1>11. \A a \in D : g0[a] = f[a]
  <2> SUFFICES ASSUME NEW a \in D, g0[a] # f[a] PROVE FALSE
    OBVIOUS
  <2>1. end - a \in Nat /\ a + (end - a) = end
    BY <1>1 DEF D
  <2>2. end - a \in W
    BY <2>1
  <2> QED
    BY <1>10, <2>2
<1>12. b \in D /\ f[b] = Gap(s, b)
  BY <1>2, <1>4 DEF f
<1> QED
  BY <1>3, <1>11, <1>12

LEMMA RunSpanIs ==
    ASSUME Typed, Placed, NEW k \in DOMAIN segs, NEW s \in [base : Nat, size : Nat], s = segs[k],
           NEW b \in DOMAIN blk, Inside(b, s), b \notin Marked
    PROVE  LET e == b + RunSpan(s, b) IN
           /\ RunSpan(s, b) \in Nat /\ e \in Nat /\ e <= s.base + s.size
           /\ e = s.base + s.size \/ (e \in Live(s) /\ e > b)
           /\ \A a \in Live(s) : a > b => e <= a
<1>1. RunSpan(s, b) = Gap(s, b)
  <2>1. b \in Within(s) \ Marked
    BY DEF Within, Inside
  <2> QED
    BY <2>1, RunSpanIsGap
<1> QED
  BY <1>1, GapIs

\* A segment that has live blocks keeps them; the runs between them are free.
\* A step of the sweep leaves the blocks that are kept as they are.
KeptStays ==
    /\ Kept' = Kept
    /\ \A b \in Kept : blk'[b].span = blk[b].span /\ \A a \in Payload(b) : mem'[a] = mem[a]

LEMMA SweepKeeps ==
    ASSUME HeapInductive, Sweep, Live(segs[cursor]) # {}
    PROVE  HeapInductive' /\ KeptStays
<1> USE DEF HeapInductive
<1>0. PICK k, s : k = cursor /\ s = segs[k]
  OBVIOUS
<1> DEFINE L == Live(s)
           N == RunStarts(s)
<1>1. /\ pc = "sweep" /\ pc' = "sweep" /\ k > 0 /\ cursor' = k - 1
      /\ blk' = Over(Swept(s), Outside(s))
      /\ mem' = Cleared(UNION {Payload(b) : b \in Within(s) \ Marked}, Junk)
      /\ UNCHANGED <<want, progress, segs, reserved, nextSize, root>>
  BY <1>0 DEF Sweep
<1>2. /\ k \in DOMAIN segs /\ k \in Nat /\ k <= Len(segs) /\ DOMAIN segs = 1..Len(segs) /\ Len(segs) \in Nat
      /\ s \in [base : Nat, size : Nat]
  <2>1. DOMAIN segs = 1..Len(segs) /\ Len(segs) \in Nat
    BY SegsDomain
  <2>2. k \in Nat /\ k <= Len(segs)
    BY <1>0, <1>1 DEF Typed, Sweeping
  <2>3. k \in DOMAIN segs
    BY <1>1, <2>1, <2>2
  <2>4. s \in [base : Nat, size : Nat]
    BY <1>0, <2>3, SegsDomain
  <2> QED
    BY <2>1, <2>2, <2>3, <2>4
<1>3. \A b \in DOMAIN blk : b \in Within(s) <=> Inside(b, s)
  BY DEF Within, Inside
<1>4. /\ \A b \in L : b \in DOMAIN blk /\ Inside(b, s) /\ b \in Marked
      /\ \A b \in N : /\ b \in DOMAIN blk /\ Inside(b, s) /\ b \notin Marked /\ b \notin L
                      /\ b = s.base + 1 \/ \E a \in L : a + blk[a].span = b
      /\ \A b \in DOMAIN blk : Inside(b, s) /\ b \in Marked => b \in L
      /\ \A b \in DOMAIN blk : Inside(b, s) /\ (b = s.base + 1 \/ \E a \in L : a + blk[a].span = b)
                               => b \in N \/ b \in Marked
  BY DEF Live, RunStarts, Within, Inside, Marked
<1>5. /\ DOMAIN blk' = L \cup N \cup {b \in DOMAIN blk : ~Inside(b, s)}
      /\ \A b \in L : blk'[b] = [blk[b] EXCEPT !.flags = {"allocated"}]
      /\ \A b \in N : blk'[b] = [span |-> RunSpan(s, b), flags |-> {}]
      /\ \A b \in DOMAIN blk : ~Inside(b, s) => blk'[b] = blk[b]
      /\ blk' = [b \in DOMAIN blk' |-> blk'[b]]
  <2>1. PICK f, g : f = Swept(s) /\ g = Outside(s)
    OBVIOUS
  <2>2. /\ DOMAIN f = L \cup N
        /\ \A b \in L : f[b] = [blk[b] EXCEPT !.flags = {"allocated"}]
        /\ \A b \in N : b \notin L => f[b] = [span |-> RunSpan(s, b), flags |-> {}]
    BY <2>1 DEF Swept
  <2>3. DOMAIN g = {b \in DOMAIN blk : ~Inside(b, s)} /\ \A b \in DOMAIN g : g[b] = blk[b]
    BY <1>3, <2>1 DEF Outside
  <2>4. \A b \in DOMAIN g : b \notin DOMAIN f
    BY <1>4, <2>2, <2>3
  <2>5. /\ DOMAIN blk' = DOMAIN f \cup DOMAIN g
        /\ \A b \in DOMAIN f : blk'[b] = f[b]
        /\ \A b \in DOMAIN g : blk'[b] = g[b]
        /\ blk' = [b \in DOMAIN blk' |-> blk'[b]]
    BY <1>1, <2>1, <2>4 DEF Over
  <2> HIDE DEF L, N
  <2> QED
    BY <1>4, <2>2, <2>3, <2>5
<1> HIDE DEF L, N
<1>6. \A b \in DOMAIN blk : /\ b \in Nat /\ b \in Addr /\ blk[b].span \in Nat
                             /\ blk[b] \in [span : Nat, flags : SUBSET Flags]
  BY BlockType DEF Typed
<1>7. ASSUME NEW b \in L
      PROVE  blk'[b].span = blk[b].span /\ blk'[b].flags = {"allocated"} /\ blk'[b] \in [span : Nat, flags : SUBSET Flags]
  <2>1. blk[b] \in [span : Nat, flags : SUBSET Flags] /\ blk'[b] = [blk[b] EXCEPT !.flags = {"allocated"}]
    BY <1>4, <1>5, <1>6
  <2>2. {"allocated"} \in SUBSET Flags
    BY DEF Flags
  <2> QED
    BY <2>1, <2>2
<1>8. ASSUME NEW b \in N
      PROVE  /\ blk'[b].span \in Nat /\ blk'[b].flags = {} /\ blk'[b] \in [span : Nat, flags : SUBSET Flags]
             /\ b + blk'[b].span = s.base + s.size \/ (b + blk'[b].span \in L /\ b + blk'[b].span > b)
             /\ b + blk'[b].span <= s.base + s.size
             /\ \A a \in L : a > b => b + blk'[b].span <= a
  <2>1. b \in DOMAIN blk /\ Inside(b, s) /\ b \notin Marked /\ blk'[b] = [span |-> RunSpan(s, b), flags |-> {}]
    BY <1>4, <1>5
  <2>2. /\ RunSpan(s, b) \in Nat /\ b + RunSpan(s, b) <= s.base + s.size
        /\ b + RunSpan(s, b) = s.base + s.size \/ (b + RunSpan(s, b) \in L /\ b + RunSpan(s, b) > b)
        /\ \A a \in L : a > b => b + RunSpan(s, b) <= a
    BY <1>0, <1>2, <2>1, RunSpanIs DEF L
  <2> QED
    BY <2>1, <2>2
<1>9. /\ DOMAIN blk' \subseteq DOMAIN blk
      /\ \A b \in DOMAIN blk' : b \in N \/ blk'[b].span = blk[b].span
  BY <1>4, <1>5, <1>7
<1>10. Typed'
  <2>1. \A b \in DOMAIN blk' : blk'[b] \in [span : Nat, flags : SUBSET Flags]
    BY <1>5, <1>6, <1>7, <1>8
  <2>2. blk' \in [DOMAIN blk' -> [span : Nat, flags : SUBSET Flags]] /\ DOMAIN blk' \subseteq Addr
    BY <1>5, <1>6, <1>9, <2>1
  <2>3. mem' \in [Addr -> Int]
    <3>1. \A a \in Addr : mem'[a] \in {-1, mem[a]} /\ mem[a] \in Int
      BY <1>1 DEF Typed, Junk, Cleared
    <3> QED
      BY <1>1, <3>1 DEF Cleared
  <2>4. cursor' \in Nat
    BY <1>1, <1>2
  <2> QED
    BY <1>1, <2>2, <2>3, <2>4 DEF Typed
<1>11. Placed'
  <2>1. ASSUME NEW i \in DOMAIN segs, i # k, NEW b \in DOMAIN blk, Inside(b, segs[i]) PROVE ~Inside(b, s) /\ b \in DOMAIN blk'
    BY <1>0, <1>2, <1>5, <2>1, OneSegment
  <2>2. ASSUME NEW i \in DOMAIN segs
        PROVE  segs[i].base + 1 \in DOMAIN blk' /\ Inside(segs[i].base + 1, segs[i])
    <3>1. segs[i].base + 1 \in DOMAIN blk /\ Inside(segs[i].base + 1, segs[i])
      BY DEF Placed
    <3>2. CASE i = k
      BY <1>0, <1>4, <1>5, <3>1, <3>2
    <3> QED
      BY <2>1, <3>1, <3>2
  <2>3. ASSUME NEW i \in DOMAIN segs, NEW b \in DOMAIN blk', Inside(b, segs[i])
        PROVE  \/ b + blk'[b].span \in DOMAIN blk' /\ Inside(b + blk'[b].span, segs[i])
               \/ b + blk'[b].span = segs[i].base + segs[i].size
    <3>1. /\ b \in DOMAIN blk
          /\ \/ b + blk[b].span \in DOMAIN blk /\ Inside(b + blk[b].span, segs[i])
             \/ b + blk[b].span = segs[i].base + segs[i].size
      BY <1>9, <2>3 DEF Placed
    <3>2. CASE i # k
      <4>1. blk'[b] = blk[b]
        BY <1>5, <2>1, <2>3, <3>1, <3>2
      <4> QED
        BY <2>1, <3>1, <3>2, <4>1
    <3>3. CASE i = k /\ b \in L
      <4>1. segs[i] = s /\ blk'[b].span = blk[b].span
        BY <1>0, <1>7, <3>3
      <4>2. ASSUME b + blk[b].span \in DOMAIN blk, Inside(b + blk[b].span, s) PROVE b + blk[b].span \in DOMAIN blk'
        BY <1>4, <1>5, <3>3, <4>2
      <4> QED
        BY <3>1, <4>1, <4>2
    <3>4. CASE i = k /\ b \in N
      <4>1. segs[i] = s
        BY <1>0, <3>4
      <4>2. b + blk'[b].span = s.base + s.size \/ b + blk'[b].span \in L
        BY <1>8, <3>4
      <4> QED
        BY <1>4, <1>5, <4>1, <4>2
    <3>5. i = k => b \in L \/ b \in N
      BY <1>0, <1>5, <2>3
    <3> QED
      BY <3>2, <3>3, <3>4, <3>5
  <2>4. ASSUME NEW a \in DOMAIN blk', NEW b \in DOMAIN blk', a < b PROVE a + blk'[a].span <= b
    <3>1. a \in DOMAIN blk /\ b \in DOMAIN blk /\ a + blk[a].span <= b /\ a \in Nat /\ b \in Nat
      BY <1>6, <1>9, <2>4 DEF Placed
    <3>2. CASE a \notin N
      BY <1>9, <3>1, <3>2
    <3>3. CASE a \in N
      <4>1. /\ blk'[a].span \in Nat /\ a + blk'[a].span <= s.base + s.size
            /\ \A c \in L : c > a => a + blk'[a].span <= c
            /\ Inside(a, s) /\ a \notin L
        BY <1>4, <1>8, <3>3
      <4>2. CASE b \in L
        BY <2>4, <3>1, <4>1, <4>2
      <4>3. CASE b \in N
        <5>1. b = s.base + 1 \/ \E c \in L : c + blk[c].span = b
          BY <1>4, <4>3
        <5>2. b # s.base + 1
          BY <1>2, <2>4, <3>1, <4>1 DEF Inside
        <5>3. PICK c \in L : c + blk[c].span = b
          BY <5>1, <5>2
        <5>4. c \in DOMAIN blk /\ c \in Nat /\ blk[c].span \in Nat /\ c # a
          BY <1>4, <1>6, <4>1
        <5>5. c < a => c + blk[c].span <= a
          BY <3>1, <5>4 DEF Placed
        <5>6. c > a
          BY <2>4, <3>1, <5>3, <5>4, <5>5
        <5>7. a + blk'[a].span <= c /\ c <= b
          BY <4>1, <5>3, <5>4, <5>6
        <5> QED
          BY <3>1, <4>1, <5>4, <5>7
      <4>4. CASE ~Inside(b, s)
        <5>1. PICK i \in DOMAIN segs : Inside(b, segs[i])
          BY <3>1 DEF Placed
        <5>2. i # k /\ segs[i].base \in Nat /\ segs[i].size \in Nat
          BY <1>0, <4>4, <5>1, SegsDomain
        <5>3. Apart(segs[i], s)
          BY <1>0, <1>2, <5>2 DEF Placed
        <5>4. s.base + s.size <= b
          BY <1>2, <2>4, <3>1, <4>1, <5>1, <5>2, <5>3 DEF Apart, Inside
        <5> QED
          BY <1>2, <3>1, <4>1, <5>4
      <4> QED
        BY <1>5, <4>2, <4>3, <4>4
    <3> QED
      BY <3>2, <3>3
  <2>5. \A b \in DOMAIN blk' : \E i \in DOMAIN segs : Inside(b, segs[i])
    BY <1>9 DEF Placed
  <2>6. ASSUME NEW b \in DOMAIN blk' PROVE blk'[b].span > 0
    <3>1. CASE b \in N
      <4>1. /\ b + blk'[b].span = s.base + s.size \/ b + blk'[b].span > b
            /\ Inside(b, s) /\ blk'[b].span \in Nat /\ b \in Nat
        BY <1>4, <1>6, <1>8, <3>1
      <4> QED
        BY <1>2, <4>1 DEF Inside
    <3> QED
      BY <1>9, <3>1 DEF Placed
  <2> QED
    BY <1>1, <2>2, <2>3, <2>4, <2>5, <2>6 DEF Placed
<1>12. \A b \in DOMAIN blk' : b \in Marked' => b \in Marked /\ b \notin L /\ ~Inside(b, s)
  BY <1>5, <1>7, <1>8 DEF Marked
<1>13. Kept \subseteq Kept'
  <2> SUFFICES ASSUME NEW b \in Kept PROVE b \in Kept'
    OBVIOUS
  <2>1. /\ b \in DOMAIN blk /\ b \in Allocated
        /\ Inside(b, s) => b \in Marked
        /\ ~Inside(b, s) => b \in Marked \/ \E i \in DOMAIN segs : i > k /\ Inside(b, segs[i])
    BY <1>0, <1>1, <1>2, SweepsOthers
  <2>2. CASE Inside(b, s)
    <3>1. b \in L /\ b \in DOMAIN blk' /\ "allocated" \in blk'[b].flags
      BY <1>4, <1>5, <1>7, <2>1, <2>2
    <3>2. k > cursor' /\ Inside(b, segs'[k]) /\ k \in DOMAIN segs'
      BY <1>0, <1>1, <1>2, <2>2
    <3> QED
      BY <3>1, <3>2 DEF Kept, Allocated
  <2>3. CASE ~Inside(b, s)
    <3>1. b \in DOMAIN blk' /\ blk'[b] = blk[b]
      BY <1>5, <2>1, <2>3
    <3>2. b \in Allocated' /\ (b \in Marked => b \in Marked')
      BY <2>1, <3>1 DEF Allocated, Marked
    <3>3. ASSUME NEW i \in DOMAIN segs, i > k PROVE i > cursor' /\ i \in DOMAIN segs' /\ segs'[i] = segs[i]
      BY <1>1, <1>2, <3>3
    <3> QED
      BY <2>1, <2>3, <3>2, <3>3 DEF Kept
  <2> QED
    BY <2>2, <2>3
<1>14. Kept' \subseteq Kept
  <2> SUFFICES ASSUME NEW b \in Kept' PROVE b \in Kept
    OBVIOUS
  <2>1. /\ b \in DOMAIN blk' /\ "allocated" \in blk'[b].flags
        /\ b \in Marked' \/ \E i \in DOMAIN segs : i > k - 1 /\ Inside(b, segs[i])
    BY <1>1 DEF Kept, Allocated
  <2>2. CASE b \in L
    <3>1. b \in Marked
      BY <1>4, <2>2
    <3> QED
      BY <1>1, <3>1, MarkedAllocated DEF Kept
  <2>3. CASE b \notin L
    <3>1. b \in DOMAIN blk /\ ~Inside(b, s) /\ blk'[b] = blk[b]
      BY <1>5, <1>8, <2>1, <2>3
    <3>2. b \in Allocated
      BY <2>1, <3>1 DEF Allocated
    <3>3. b \in Marked' => b \in Marked
      BY <2>1, <1>12
    <3>4. ASSUME NEW i \in DOMAIN segs, i > k - 1, Inside(b, segs[i]) PROVE i > k
      BY <1>0, <1>2, <3>1, <3>4
    <3> QED
      BY <1>0, <1>1, <2>1, <3>2, <3>3, <3>4 DEF Kept
  <2> QED
    BY <2>2, <2>3
<1>15. ASSUME NEW b \in Kept PROVE blk'[b].span = blk[b].span /\ \A a \in Payload(b) : mem'[a] = mem[a]
  <2>1. b \in DOMAIN blk /\ (Inside(b, s) => b \in Marked)
    BY <1>0, <1>1, <1>2, SweepsOthers
  <2>2. b \notin Within(s) \ Marked
    BY <1>3, <2>1
  <2>3. blk'[b].span = blk[b].span
    BY <1>4, <1>5, <1>7, <2>1
  <2>4. ASSUME NEW a \in Payload(b) PROVE mem'[a] = mem[a]
    <3>1. a \in Addr
      BY <2>1, PayloadAddr
    <3>2. \A x \in Within(s) \ Marked : a \notin Payload(x)
      BY <2>1, <2>2, PayloadsApart DEF Within
    <3> QED
      BY <1>1, <3>1, <3>2 DEF Cleared
  <2> QED
    BY <2>3, <2>4
<1>16. Safe'
  BY <1>1, <1>13, <1>14, <1>15, SafeMoves
<1>17. ASSUME NEW b \in DOMAIN blk', Inside(b, s) PROVE Plain(b)'
  BY <1>5, <1>7, <1>8, <1>17 DEF Plain
<1>18. ASSUME NEW b \in DOMAIN blk', ~Inside(b, s) PROVE b \in DOMAIN blk /\ blk'[b] = blk[b]
  BY <1>4, <1>5, <1>18
<1>19. Tracing'
  <2>1. ASSUME NEW b \in DOMAIN blk' PROVE Plain(b)' \/ blk'[b].flags \in {{"allocated", "marked"}, Flags}
    BY <1>1, <1>17, <1>18, <2>1 DEF Tracing, Plain
  <2> QED
    BY <2>1 DEF Tracing
<1>20. Sweeping'
  <2>1. cursor' <= Len(segs)
    BY <1>1, <1>2
  <2>2. ASSUME NEW i \in DOMAIN segs, i > k - 1, NEW b \in DOMAIN blk', Inside(b, segs[i]) PROVE Plain(b)'
    <3>1. CASE i = k
      BY <1>0, <1>17, <2>2, <3>1
    <3>2. CASE i # k
      <4>1. i > k
        BY <1>2, <2>2, <3>2
      <4>2. b \in DOMAIN blk /\ ~Inside(b, s)
        BY <1>0, <1>2, <1>9, <2>2, <3>2, OneSegment
      <4>3. Plain(b) /\ blk'[b] = blk[b]
        BY <1>0, <1>1, <1>18, <2>2, <4>1, <4>2 DEF Sweeping
      <4> QED
        BY <4>3 DEF Plain
    <3> QED
      BY <3>1, <3>2
  <2> QED
    BY <1>1, <2>1, <2>2 DEF Sweeping
<1>21. Unmarked' /\ Traced'
  BY <1>1 DEF Unmarked, Traced
<1> QED
  BY <1>10, <1>11, <1>13, <1>14, <1>15, <1>16, <1>19, <1>20, <1>21 DEF KeptStays

\* The segments that stay when one is released.
LEMMA WithoutIs ==
    ASSUME Typed, NEW k \in DOMAIN segs
    PROVE  /\ Without(k) \in Seq([base : Nat, size : Nat]) /\ Len(Without(k)) = Len(segs) - 1
           /\ \A i \in DOMAIN Without(k) :
                 /\ i < k => i \in DOMAIN segs /\ Without(k)[i] = segs[i]
                 /\ i >= k => i + 1 \in DOMAIN segs /\ Without(k)[i] = segs[i + 1]
           /\ \A j \in DOMAIN segs :
                 /\ j < k => j \in DOMAIN Without(k) /\ Without(k)[j] = segs[j]
                 /\ j > k => j - 1 \in DOMAIN Without(k) /\ Without(k)[j - 1] = segs[j]
           /\ \A i \in DOMAIN Without(k) : i \in Nat
<1> DEFINE R == [base : Nat, size : Nat]
           n == Len(segs) - 1
<1>1. /\ DOMAIN segs = 1..Len(segs) /\ Len(segs) \in Nat /\ k \in Nat /\ k >= 1 /\ k <= Len(segs) /\ n \in Nat
      /\ n + 1 = Len(segs)
  BY SegsDomain
<1>2. \A j \in DOMAIN segs : segs[j] \in R
  BY SegsDomain
<1> HIDE DEF R, n
<1>3. Without(k) = [i \in 1..n |-> segs[IF i < k THEN i ELSE i + 1]]
  BY DEF Without, n
<1>4. \A i \in 1..n :
         /\ i \in Nat
         /\ i < k => i \in DOMAIN segs /\ Without(k)[i] = segs[i]
         /\ i >= k => i + 1 \in DOMAIN segs /\ Without(k)[i] = segs[i + 1]
  BY <1>1, <1>3
<1>5. ASSUME NEW j \in DOMAIN segs
      PROVE  /\ j < k => j \in 1..n /\ Without(k)[j] = segs[j]
             /\ j > k => j - 1 \in 1..n /\ Without(k)[j - 1] = segs[j]
  <2>1. j \in Nat /\ j >= 1 /\ j <= n + 1
    BY <1>1, <1>5
  <2>2. CASE j < k
    BY <1>1, <1>3, <2>1, <2>2
  <2>3. CASE j > k
    <3>1. j - 1 \in 1..n /\ ~(j - 1 < k) /\ (j - 1) + 1 = j
      BY <1>1, <2>1, <2>3
    <3> QED
      BY <1>1, <1>3, <2>1, <2>3, <3>1
  <2> QED
    BY <1>1, <2>1, <2>2, <2>3
<1>6. DOMAIN Without(k) = 1..n
  BY <1>3
<1>7. \A i \in 1..n : Without(k)[i] \in R
  BY <1>1, <1>2, <1>4
<1>8. Without(k) \in [1..n -> R]
  BY <1>3, <1>7
<1>9. Without(k) \in Seq(R) /\ Len(Without(k)) = n
  BY <1>1, <1>8
<1>10. /\ Without(k) \in Seq([base : Nat, size : Nat]) /\ Len(Without(k)) = Len(segs) - 1
       /\ \A i \in DOMAIN Without(k) : i \in Nat
  BY <1>4, <1>6, <1>9 DEF R, n
<1> QED
  BY <1>4, <1>5, <1>6, <1>10

\* A segment without a live block goes, and with it nothing that is kept.
LEMMA ReleaseKeeps ==
    ASSUME HeapInductive, Sweep, Live(segs[cursor]) = {}
    PROVE  HeapInductive' /\ KeptStays
<1> USE DEF HeapInductive
<1>0. PICK k, s : k = cursor /\ s = segs[k]
  OBVIOUS
<1>1. /\ pc = "sweep" /\ pc' = "sweep" /\ k > 0 /\ cursor' = k - 1
      /\ blk' = Outside(s)
      /\ mem' = Cleared(s.base..(s.base + s.size - 1), 0)
      /\ segs' = Without(k) /\ reserved' = reserved - s.size
      /\ UNCHANGED <<want, progress, nextSize, root>>
  BY <1>0 DEF Sweep
<1>2. /\ k \in DOMAIN segs /\ k \in Nat /\ k <= Len(segs) /\ DOMAIN segs = 1..Len(segs) /\ Len(segs) \in Nat
      /\ s.base \in Nat /\ s.size \in Nat
  <2>1. DOMAIN segs = 1..Len(segs) /\ Len(segs) \in Nat
    BY SegsDomain
  <2>2. k \in Nat /\ k <= Len(segs)
    BY <1>0, <1>1 DEF Typed, Sweeping
  <2>3. k \in DOMAIN segs
    BY <1>1, <2>1, <2>2
  <2> QED
    BY <1>0, <2>1, <2>2, <2>3, SegsDomain
<1>3. \A b \in DOMAIN blk : b \in Within(s) <=> Inside(b, s)
  BY DEF Within, Inside
<1>4. \A b \in DOMAIN blk : Inside(b, s) => b \notin Marked
  BY <1>0, <1>3 DEF Live
<1>5. /\ DOMAIN blk' = {b \in DOMAIN blk : ~Inside(b, s)}
      /\ \A b \in DOMAIN blk' : blk'[b] = blk[b]
      /\ blk' = [b \in DOMAIN blk' |-> blk'[b]]
  BY <1>1, <1>3 DEF Outside
<1>6. /\ segs' \in Seq([base : Nat, size : Nat]) /\ Len(segs') = Len(segs) - 1
      /\ \A i \in DOMAIN segs' :
            /\ i < k => i \in DOMAIN segs /\ segs'[i] = segs[i]
            /\ i >= k => i + 1 \in DOMAIN segs /\ segs'[i] = segs[i + 1]
      /\ \A j \in DOMAIN segs :
            /\ j < k => j \in DOMAIN segs' /\ segs'[j] = segs[j]
            /\ j > k => j - 1 \in DOMAIN segs' /\ segs'[j - 1] = segs[j]
      /\ \A i \in DOMAIN segs' : i \in Nat
  BY <1>1, <1>2, WithoutIs
\* Where the segments that stay were.
<1>7. ASSUME NEW i \in DOMAIN segs'
      PROVE  \E j \in DOMAIN segs : j # k /\ segs'[i] = segs[j] /\ j = (IF i < k THEN i ELSE i + 1)
  <2>1. i \in Nat
    BY <1>6
  <2>2. CASE i < k
    BY <1>2, <1>6, <2>1, <2>2
  <2>3. CASE ~(i < k)
    <3>1. i >= k /\ i + 1 # k
      BY <1>2, <2>1, <2>3
    <3> QED
      BY <1>6, <2>3, <3>1
  <2> QED
    BY <2>2, <2>3
<1>8. ASSUME NEW j \in DOMAIN segs, j # k
      PROVE  \E i \in DOMAIN segs' : segs'[i] = segs[j] /\ i = (IF j < k THEN j ELSE j - 1)
  <2>1. j \in Nat
    BY <1>2
  <2>2. CASE j < k
    BY <1>6, <2>2
  <2>3. CASE ~(j < k)
    <3>1. j > k
      BY <1>2, <1>8, <2>1, <2>3
    <3> QED
      BY <1>6, <2>3, <3>1
  <2> QED
    BY <2>2, <2>3
<1>9. ASSUME NEW j \in DOMAIN segs, j # k, NEW b \in DOMAIN blk, Inside(b, segs[j])
      PROVE  ~Inside(b, s) /\ b \in DOMAIN blk'
  BY <1>0, <1>2, <1>5, <1>9, OneSegment
<1>10. Typed'
  <2>1. \A b \in DOMAIN blk' : blk'[b] \in [span : Nat, flags : SUBSET Flags] /\ b \in Addr
    BY <1>5 DEF Typed
  <2>2. blk' \in [DOMAIN blk' -> [span : Nat, flags : SUBSET Flags]] /\ DOMAIN blk' \subseteq Addr
    BY <1>5, <2>1
  <2>3. mem' \in [Addr -> Int]
    <3>1. \A a \in Addr : mem'[a] \in {0, mem[a]} /\ mem[a] \in Int
      BY <1>1 DEF Typed, Cleared
    <3> QED
      BY <1>1, <3>1 DEF Cleared
  <2>4. cursor' \in Nat
    BY <1>1, <1>2
  <2>5. reserved' \in Int
    <3>1. reserved \in Int
      BY DEF Typed
    <3> QED
      BY <1>1, <1>2, <3>1
  <2> QED
    BY <1>1, <1>6, <2>2, <2>3, <2>4, <2>5 DEF Typed
<1>11. Placed'
  <2>1. ASSUME NEW i \in DOMAIN segs'
        PROVE  /\ segs'[i].base + segs'[i].size - 1 \in Addr
               /\ segs'[i].base + 1 \in DOMAIN blk' /\ Inside(segs'[i].base + 1, segs'[i])
    <3>1. PICK j \in DOMAIN segs : j # k /\ segs'[i] = segs[j]
      BY <1>7
    <3>2. /\ segs[j].base + segs[j].size - 1 \in Addr
          /\ segs[j].base + 1 \in DOMAIN blk /\ Inside(segs[j].base + 1, segs[j])
      BY DEF Placed
    <3> QED
      BY <1>9, <3>1, <3>2
  <2>2. ASSUME NEW i \in DOMAIN segs', NEW h \in DOMAIN segs', i # h PROVE Apart(segs'[i], segs'[h])
    <3>1. PICK j \in DOMAIN segs : segs'[i] = segs[j] /\ j = (IF i < k THEN i ELSE i + 1)
      BY <1>7
    <3>2. PICK l \in DOMAIN segs : segs'[h] = segs[l] /\ l = (IF h < k THEN h ELSE h + 1)
      BY <1>7
    <3>3. i \in Nat /\ h \in Nat
      BY <1>6
    <3>4. j # l
      BY <1>2, <2>2, <3>1, <3>2, <3>3
    <3> QED
      BY <3>1, <3>2, <3>4 DEF Placed
  <2>3. ASSUME NEW b \in DOMAIN blk' PROVE \E i \in DOMAIN segs' : Inside(b, segs'[i])
    <3>1. b \in DOMAIN blk /\ ~Inside(b, s)
      BY <1>5, <2>3
    <3>2. PICK j \in DOMAIN segs : Inside(b, segs[j])
      BY <3>1 DEF Placed
    <3>3. PICK i \in DOMAIN segs' : segs'[i] = segs[j]
      BY <1>0, <1>8, <3>1, <3>2
    <3> QED
      BY <3>2, <3>3
  <2>4. ASSUME NEW i \in DOMAIN segs', NEW b \in DOMAIN blk', Inside(b, segs'[i])
        PROVE  \/ b + blk'[b].span \in DOMAIN blk' /\ Inside(b + blk'[b].span, segs'[i])
               \/ b + blk'[b].span = segs'[i].base + segs'[i].size
    <3>1. PICK j \in DOMAIN segs : j # k /\ segs'[i] = segs[j]
      BY <1>7
    <3>2. b \in DOMAIN blk /\ blk'[b] = blk[b]
      BY <1>5, <2>4
    <3>3. \/ b + blk[b].span \in DOMAIN blk /\ Inside(b + blk[b].span, segs[j])
          \/ b + blk[b].span = segs[j].base + segs[j].size
      BY <2>4, <3>1, <3>2 DEF Placed
    <3> QED
      BY <1>9, <3>1, <3>2, <3>3
  <2>5. \A a, b \in DOMAIN blk' : a < b => a + blk'[a].span <= b
    BY <1>5 DEF Placed
  <2>6. \A b \in DOMAIN blk' : blk'[b].span > 0
    BY <1>5 DEF Placed
  <2> QED
    BY <2>1, <2>2, <2>3, <2>4, <2>5, <2>6 DEF Placed
<1>12. Kept' = Kept
  <2>1. ASSUME NEW b \in Kept PROVE b \in Kept'
    <3>1. /\ b \in DOMAIN blk /\ b \in Allocated /\ ~Inside(b, s)
          /\ b \in Marked \/ \E j \in DOMAIN segs : j > k /\ Inside(b, segs[j])
      BY <1>0, <1>1, <1>2, <1>4, SweepsOthers
    <3>2. b \in DOMAIN blk' /\ blk'[b] = blk[b]
      BY <1>5, <3>1
    <3>3. b \in Allocated' /\ (b \in Marked => b \in Marked')
      BY <3>1, <3>2 DEF Allocated, Marked
    <3>4. ASSUME NEW j \in DOMAIN segs, j > k, Inside(b, segs[j])
          PROVE  \E i \in DOMAIN segs' : i > cursor' /\ Inside(b, segs'[i])
      <4>1. j - 1 \in DOMAIN segs' /\ segs'[j - 1] = segs[j]
        BY <1>6, <3>4
      <4>2. j - 1 > k - 1
        BY <1>2, <3>4
      <4> QED
        BY <1>1, <3>4, <4>1, <4>2
    <3> QED
      BY <3>1, <3>3, <3>4 DEF Kept
  <2>2. ASSUME NEW b \in Kept' PROVE b \in Kept
    <3>1. /\ b \in DOMAIN blk' /\ "allocated" \in blk'[b].flags
          /\ b \in Marked' \/ \E i \in DOMAIN segs' : i > k - 1 /\ Inside(b, segs'[i])
      BY <1>1, <2>2 DEF Kept, Allocated
    <3>2. b \in DOMAIN blk /\ blk'[b] = blk[b]
      BY <1>5, <3>1
    <3>3. b \in Allocated /\ (b \in Marked' => b \in Marked)
      BY <3>1, <3>2 DEF Allocated, Marked
    <3>4. ASSUME NEW i \in DOMAIN segs', i > k - 1, Inside(b, segs'[i])
          PROVE  \E j \in DOMAIN segs : j > cursor /\ Inside(b, segs[j])
      <4>1. i \in Nat
        BY <1>6
      <4>2. i >= k /\ i + 1 > k
        BY <1>2, <3>4, <4>1
      <4>3. i + 1 \in DOMAIN segs /\ segs'[i] = segs[i + 1]
        BY <1>6, <4>2
      <4> QED
        BY <1>0, <3>4, <4>2, <4>3
    <3> QED
      BY <3>1, <3>3, <3>4 DEF Kept
  <2> QED
    BY <2>1, <2>2
<1>13. ASSUME NEW b \in Kept PROVE blk'[b].span = blk[b].span /\ \A a \in Payload(b) : mem'[a] = mem[a]
  <2>1. b \in DOMAIN blk /\ ~Inside(b, s)
    BY <1>0, <1>1, <1>2, <1>4, SweepsOthers
  <2>2. blk'[b] = blk[b]
    BY <1>5, <2>1
  <2>3. PICK j \in DOMAIN segs : Inside(b, segs[j])
    BY <2>1 DEF Placed
  <2>4. /\ segs[j].base \in Nat /\ segs[j].size \in Nat /\ b \in Nat /\ blk[b].span \in Nat
        /\ Apart(segs[j], s)
    <3>1. j # k
      BY <1>0, <2>1, <2>3
    <3> QED
      BY <1>0, <1>2, <2>1, <3>1, SegsDomain, BlockType DEF Placed
  <2>5. Inside(b + blk[b].span, segs[j]) \/ b + blk[b].span = segs[j].base + segs[j].size
    BY <2>1, <2>3 DEF Placed
  <2>6. b + blk[b].span <= segs[j].base + segs[j].size
    BY <2>4, <2>5 DEF Inside
  <2>7. ASSUME NEW a \in Payload(b) PROVE mem'[a] = mem[a]
    <3>1. a \in Addr
      BY <2>1, PayloadAddr
    <3>2. a \in Nat /\ a > b /\ a < b + blk[b].span
      BY <2>4 DEF Payload
    <3>3. a \notin s.base..(s.base + s.size - 1)
      <4>1. segs[j].base < a /\ a < segs[j].base + segs[j].size
        BY <2>3, <2>4, <2>6, <3>2 DEF Inside
      <4>2. s.base \in Nat /\ s.size \in Nat
        BY <1>2
      <4>3. segs[j].base + segs[j].size <= s.base \/ s.base + s.size <= segs[j].base
        BY <2>4 DEF Apart
      <4> QED
        BY <2>4, <3>2, <4>1, <4>2, <4>3
    <3> QED
      BY <1>1, <3>1, <3>3 DEF Cleared
  <2> QED
    BY <2>2, <2>7
<1>14. Safe'
  BY <1>1, <1>12, <1>13, SafeMoves
<1>15. Tracing'
  BY <1>1, <1>5 DEF Tracing, Plain
<1>16. Sweeping'
  <2>1. cursor' <= Len(segs')
    BY <1>1, <1>2, <1>6
  <2>2. ASSUME NEW i \in DOMAIN segs', i > k - 1, NEW b \in DOMAIN blk', Inside(b, segs'[i]) PROVE Plain(b)'
    <3>1. i \in Nat
      BY <1>6
    <3>2. i >= k /\ i + 1 > k
      BY <1>2, <2>2, <3>1
    <3>3. i + 1 \in DOMAIN segs /\ segs'[i] = segs[i + 1]
      BY <1>6, <3>2
    <3>4. b \in DOMAIN blk /\ blk'[b] = blk[b]
      BY <1>5, <2>2
    <3>5. Plain(b)
      BY <1>0, <1>1, <2>2, <3>2, <3>3, <3>4 DEF Sweeping
    <3> QED
      BY <3>4, <3>5 DEF Plain
  <2> QED
    BY <1>1, <2>1, <2>2 DEF Sweeping
<1>17. Unmarked' /\ Traced'
  BY <1>1 DEF Unmarked, Traced
<1> QED
  BY <1>10, <1>11, <1>12, <1>13, <1>14, <1>15, <1>16, <1>17 DEF KeptStays

LEMMA EndCollectKeeps == HeapInductive /\ EndCollect => HeapInductive'
<1> SUFFICES ASSUME HeapInductive, EndCollect PROVE HeapInductive'
  OBVIOUS
<1> USE DEF HeapInductive
<1>1. /\ pc = "sweep" /\ cursor = 0 /\ pc' = (IF want = NoWant THEN "idle" ELSE "retry")
      /\ want' = want /\ cursor' = 0 /\ progress' = FALSE
      /\ UNCHANGED <<segs, blk, reserved, nextSize, mem, root>>
  BY DEF EndCollect, Goto, heap, program
<1>2. ASSUME NEW b \in DOMAIN blk PROVE \E k \in DOMAIN segs : k > 0 /\ Inside(b, segs[k])
  BY SegsDomain DEF Placed
<1>3. \A b \in DOMAIN blk : Plain(b)
  BY <1>1, <1>2 DEF Sweeping
<1>4. Kept = Allocated /\ Kept' = Allocated
  BY <1>1, <1>2 DEF Kept, Allocated
<1>5. Safe'
  BY <1>1, <1>4, SafeMoves
<1>6. Typed' /\ Placed'
  BY <1>1, PlacedSame DEF Typed
<1>7. Unmarked' /\ Tracing' /\ Traced' /\ Sweeping'
  BY <1>1, <1>3 DEF Unmarked, Tracing, Traced, Sweeping, Plain
<1> QED
  BY <1>5, <1>6, <1>7

----------------------------------------------------------------------------
(* Calls of the program and of Alloc *)

\* Outside a collection no block has a mark to explain.
LEMMA Calm ==
    ASSUME HeapInductive, pc' \notin {"trace", "sweep"},
           Typed', Placed', Safe', \A b \in DOMAIN blk' : Plain(b)'
    PROVE  HeapInductive'
  BY DEF HeapInductive, Unmarked, Tracing, Traced, Sweeping

LEMMA AllocKeeps ==
    ASSUME HeapInductive, NEW r \in Roots, NEW size \in Sizes, Alloc(r, size)
    PROVE  HeapInductive'
<1>0. PICK w : w = [into |-> r, span |-> (IF size = 0 THEN 1 ELSE size) + 1]
  OBVIOUS
<1>1. w.into \in Roots /\ w.span \in Nat /\ w.span >= 2 /\ size \in Nat
  BY <1>0
<1>2. pc = "idle" /\ UNCHANGED <<segs, reserved, nextSize>>
  BY DEF Alloc, Idle
<1>3. CASE Fits(w.span) # {} /\ Take(w) /\ UNCHANGED work
  <2>1. UNCHANGED <<pc, want, cursor, progress>>
    BY <1>3 DEF work
  <2>2. /\ Placed' /\ Safe' /\ \A x \in DOMAIN blk' : Plain(x)'
        /\ DOMAIN blk' \subseteq Addr
        /\ blk' \in [DOMAIN blk' -> [span : Nat, flags : SUBSET Flags]]
        /\ mem' \in [Addr -> Int] /\ root' \in [Roots -> Int]
    BY <1>1, <1>2, <1>3, <2>1, TakeKeeps
  <2>3. Typed'
    BY <1>2, <2>1, <2>2 DEF HeapInductive, Typed
  <2> QED
    BY <1>2, <2>1, <2>2, <2>3, Calm
<1>4. CASE Goto(IF segs = <<>> THEN "grow" ELSE "roots", w) /\ UNCHANGED <<blk, program>>
  <2>1. /\ pc' \in {"grow", "roots"} /\ want' = w /\ cursor' = 0 /\ progress' = FALSE
        /\ UNCHANGED <<blk, mem, root>>
    BY <1>4 DEF Goto, program
  <2>2. w # NoWant
    BY <1>1 DEF NoWant
  <2>3. Placed' /\ Safe'
    BY <1>2, <2>1, MarkingKeeps DEF HeapInductive
  <2>4. Typed'
    BY <1>1, <1>2, <2>1, <2>2 DEF HeapInductive, Typed
  <2>5. \A b \in DOMAIN blk' : Plain(b)'
    BY <1>2, <2>1 DEF HeapInductive, Unmarked, Plain
  <2> QED
    BY <2>1, <2>3, <2>4, <2>5, Calm
<1> QED
  BY <1>0, <1>3, <1>4 DEF Alloc

LEMMA RetryKeeps == HeapInductive /\ Retry => HeapInductive'
<1> SUFFICES ASSUME HeapInductive, Retry PROVE HeapInductive'
  OBVIOUS
<1>0. PICK w : w = want
  OBVIOUS
<1>1. pc = "retry" /\ UNCHANGED <<segs, reserved, nextSize>>
  BY DEF Retry
<1>2. w.into \in Roots /\ w.span \in Nat /\ w.span >= 2 /\ w # NoWant
  BY <1>0, <1>1 DEF HeapInductive, Typed
<1>3. CASE Fits(want.span) # {} /\ Take(want) /\ Goto("idle", NoWant)
  <2>1. pc' = "idle" /\ want' = NoWant /\ cursor' = 0 /\ progress' = FALSE
    BY <1>3 DEF Goto
  <2>2. /\ Placed' /\ Safe' /\ \A x \in DOMAIN blk' : Plain(x)'
        /\ DOMAIN blk' \subseteq Addr
        /\ blk' \in [DOMAIN blk' -> [span : Nat, flags : SUBSET Flags]]
        /\ mem' \in [Addr -> Int] /\ root' \in [Roots -> Int]
    BY <1>0, <1>1, <1>2, <1>3, <2>1, TakeKeeps
  <2>3. Typed'
    BY <1>1, <2>1, <2>2 DEF HeapInductive, Typed
  <2> QED
    BY <2>1, <2>2, <2>3, Calm
<1>4. CASE Goto("grow", want) /\ UNCHANGED <<blk, program>>
  <2>1. /\ pc' = "grow" /\ want' = w /\ cursor' = 0 /\ progress' = FALSE
        /\ UNCHANGED <<blk, mem, root>>
    BY <1>0, <1>4 DEF Goto, program
  <2>3. Placed' /\ Safe'
    BY <1>1, <2>1, MarkingKeeps DEF HeapInductive
  <2>4. Typed'
    BY <1>1, <1>2, <2>1 DEF HeapInductive, Typed
  <2>5. \A b \in DOMAIN blk' : Plain(b)'
    BY <1>1, <2>1 DEF HeapInductive, Unmarked, Plain
  <2> QED
    BY <2>1, <2>3, <2>4, <2>5, Calm
<1> QED
  BY <1>3, <1>4 DEF Retry

LEMMA AcquireKeeps == HeapInductive /\ Acquire => HeapInductive'
<1> SUFFICES ASSUME HeapInductive, Acquire PROVE HeapInductive'
  OBVIOUS
<1>1. /\ pc = "grow" /\ Minimum <= Available
      /\ pc' = "idle" /\ want' = NoWant /\ cursor' = 0 /\ progress' = FALSE
  BY DEF Acquire, Goto
<1>2. PICK size \in {Preferred, Minimum} : \E base \in FreeBases(size) : Grow(size, base)
  BY DEF Acquire
<1>3. PICK base \in FreeBases(size) : Grow(size, base)
  BY <1>2
<1>4. /\ size \in Nat /\ size - 1 >= want.span
      /\ want.into \in Roots /\ want.span \in Nat /\ want.span >= 2
  BY <1>1, LargeEnough DEF HeapInductive
<1>5. /\ Placed' /\ Safe' /\ \A x \in DOMAIN blk' : Plain(x)'
      /\ segs' \in Seq([base : Nat, size : Nat])
      /\ DOMAIN blk' \subseteq Addr
      /\ blk' \in [DOMAIN blk' -> [span : Nat, flags : SUBSET Flags]]
      /\ mem' \in [Addr -> Int] /\ root' \in [Roots -> Int]
  BY <1>1, <1>3, <1>4, GrowKeeps
<1>6. reserved' \in Int /\ nextSize' \in Nat
  <2>1. reserved' = reserved + size /\ nextSize' = 2 * size /\ reserved \in Int
    BY <1>3 DEF Grow, HeapInductive, Typed
  <2> QED
    BY <1>4, <2>1
<1>7. Typed'
  BY <1>1, <1>5, <1>6 DEF Typed
<1> QED
  BY <1>1, <1>5, <1>7, Calm

LEMMA OutOfMemoryKeeps == HeapInductive /\ OutOfMemory => HeapInductive'
<1> SUFFICES ASSUME HeapInductive, OutOfMemory PROVE HeapInductive'
  OBVIOUS
<1>1. /\ pc = "grow" /\ pc' = "idle" /\ want' = NoWant /\ cursor' = 0 /\ progress' = FALSE
      /\ UNCHANGED <<segs, blk, reserved, nextSize, mem, root>>
  BY DEF OutOfMemory, Goto, heap, program
<1>2. Placed' /\ Safe'
  BY <1>1, MarkingKeeps DEF HeapInductive
<1>3. Typed'
  BY <1>1 DEF HeapInductive, Typed
<1>4. \A b \in DOMAIN blk' : Plain(b)'
  BY <1>1 DEF HeapInductive, Unmarked, Plain
<1> QED
  BY <1>1, <1>2, <1>3, <1>4, Calm

\* With no segment there is no block, and no pointer the program may hold.
LEMMA CloseKeeps == HeapInductive /\ Close => HeapInductive'
<1> SUFFICES ASSUME HeapInductive, Close PROVE HeapInductive'
  OBVIOUS
<1>1. /\ pc = "idle" /\ segs' = <<>> /\ blk' = <<>> /\ reserved' = 0 /\ nextSize' = 0
      /\ root' = [r \in Roots |-> 0] /\ mem' = Cleared(Addr, 0)
      /\ UNCHANGED <<pc, want, cursor, progress>>
  BY DEF Close, Idle, work
<1>2. DOMAIN blk' = {} /\ DOMAIN segs' = {}
  BY <1>1
<1>3. Kept' = {}
  BY <1>2 DEF Kept, Allocated
<1>4. Safe'
  BY <1>1, <1>3 DEF Safe, Held
<1>5. Placed' /\ \A b \in DOMAIN blk' : Plain(b)'
  BY <1>2 DEF Placed
<1>6. mem' \in [Addr -> Int] /\ root' \in [Roots -> Int]
  BY <1>1 DEF Cleared
<1>7. blk' \in [DOMAIN blk' -> [span : Nat, flags : SUBSET Flags]]
  BY <1>1
<1>8. segs' \in Seq([base : Nat, size : Nat])
  BY <1>1
<1>9. Typed'
  BY <1>1, <1>2, <1>6, <1>7, <1>8 DEF HeapInductive, Typed
<1> QED
  BY <1>1, <1>4, <1>5, <1>9, Calm

LEMMA ReopenKeeps == HeapInductive /\ Reopen => HeapInductive'
<1> SUFFICES ASSUME HeapInductive, Reopen PROVE HeapInductive'
  OBVIOUS
<1>1. /\ pc = "idle" /\ reserved' = Overhead /\ nextSize' = Initial
      /\ UNCHANGED <<segs, blk, pc, want, cursor, progress, mem, root>>
  BY DEF Reopen, work, program
<1>2. Placed' /\ Safe'
  BY <1>1, MarkingKeeps DEF HeapInductive
<1>3. Typed'
  BY <1>1 DEF HeapInductive, Typed
<1>4. \A b \in DOMAIN blk' : Plain(b)'
  BY <1>1 DEF HeapInductive, Unmarked, Plain
<1> QED
  BY <1>1, <1>2, <1>3, <1>4, Calm

\* The program moves a pointer it may hold into a root.
LEMMA SetRootKeeps ==
    ASSUME HeapInductive, Idle, NEW r \in Roots, NEW p \in Int, Held(p), SetRoot(r, p)
    PROVE  HeapInductive'
<1>1. /\ pc = "idle" /\ root' = [root EXCEPT ![r] = p]
      /\ UNCHANGED <<segs, blk, reserved, nextSize, pc, want, cursor, progress, mem>>
  BY DEF Idle, SetRoot, heap, work
<1>2. root \in [Roots -> Int]
  BY DEF HeapInductive, Typed
<1>3. root' \in [Roots -> Int] /\ \A q \in Roots : root'[q] = p \/ root'[q] = root[q]
  BY <1>1, <1>2
<1>4. Typed'
  BY <1>1, <1>3 DEF HeapInductive, Typed
<1>5. Placed'
  BY <1>1, PlacedSame DEF HeapInductive
<1>6. Kept' = Kept /\ \A b : Payload(b)' = Payload(b)
  BY <1>1 DEF Kept, Allocated, Payload
<1>7. ASSUME NEW x, Held(x) PROVE x = 0 \/ \E b \in Kept' : x \in Payload(b)'
  BY <1>6, <1>7 DEF Held
<1>8. ASSUME NEW q \in Roots PROVE Held(root[q])'
  <2>1. Held(root'[q])
    BY <1>3 DEF HeapInductive, Safe, Held
  <2> QED
    BY <1>7, <2>1 DEF Held
<1>9. ASSUME NEW b \in Kept', NEW a \in Payload(b)' PROVE Held(mem[a])'
  <2>1. Held(mem[a]) /\ mem'[a] = mem[a]
    BY <1>1, <1>6, <1>9 DEF HeapInductive, Safe
  <2> QED
    BY <1>7, <2>1 DEF Held
<1>10. Safe'
  BY <1>8, <1>9 DEF Safe
<1>11. \A b \in DOMAIN blk' : Plain(b)'
  BY <1>1 DEF HeapInductive, Unmarked, Plain
<1> QED
  BY <1>1, <1>4, <1>5, <1>10, <1>11, Calm

\* A root that is not nil points into a kept block, at a word of the arena.
LEMMA RootPoints ==
    ASSUME HeapInductive, NEW r \in Roots, root[r] # 0
    PROVE  \E b \in Kept : b \in DOMAIN blk /\ b \in Allocated /\ root[r] \in Payload(b) /\ root[r] \in Addr
<1>1. PICK b \in Kept : root[r] \in Payload(b)
  BY DEF HeapInductive, Safe, Held
<1>2. b \in DOMAIN blk /\ b \in Allocated
  BY DEF Kept, Allocated
<1> QED
  BY <1>1, <1>2, PayloadAddr DEF HeapInductive

LEMMA DropKeeps ==
    ASSUME HeapInductive, NEW r \in Roots, Drop(r)
    PROVE  HeapInductive'
<1>1. Held(0) /\ 0 \in Int
  BY DEF Held
<1> QED
  BY <1>1, SetRootKeeps DEF Drop

LEMMA LoadKeeps ==
    ASSUME HeapInductive, NEW r \in Roots, NEW q \in Roots, Load(r, q)
    PROVE  HeapInductive'
<1>1. PICK p : p = mem[root[q]]
  OBVIOUS
<1>2. Idle /\ root[q] # 0 /\ SetRoot(r, p)
  BY <1>1 DEF Load
<1>3. PICK b \in Kept : root[q] \in Payload(b) /\ root[q] \in Addr
  BY <1>2, RootPoints
<1>4. Held(p)
  BY <1>1, <1>3 DEF HeapInductive, Safe, Held
<1>5. p \in Int
  BY <1>1, <1>3 DEF HeapInductive, Typed
<1> QED
  BY <1>2, <1>4, <1>5, SetRootKeeps

LEMMA AdvanceKeeps ==
    ASSUME HeapInductive, NEW r \in Roots, Advance(r)
    PROVE  HeapInductive'
<1>1. PICK p : p = root[r] + 1
  OBVIOUS
<1>2. Idle /\ root[r] # 0 /\ SetRoot(r, p) /\ p \in Payload(Holder(root[r]))
  BY <1>1 DEF Advance
<1>3. \E b \in Allocated : root[r] \in Payload(b)
  BY <1>2, RootPoints
<1>4. Holder(root[r]) \in Allocated
  BY <1>3 DEF Holder
<1>5. Kept = Allocated
  BY <1>2 DEF Kept, Idle, Allocated
<1>6. Held(p)
  BY <1>2, <1>4, <1>5 DEF Held
<1>7. p \in Int
  BY <1>1 DEF HeapInductive, Typed
<1> QED
  BY <1>2, <1>6, <1>7, SetRootKeeps

LEMMA StoreKeeps ==
    ASSUME HeapInductive, NEW r \in Roots, NEW q \in Roots, Store(r, q)
    PROVE  HeapInductive'
<1>1. /\ pc = "idle" /\ root[r] # 0 /\ mem' = [mem EXCEPT ![root[r]] = root[q]]
      /\ UNCHANGED <<segs, blk, reserved, nextSize, pc, want, cursor, progress, root>>
  BY DEF Store, Idle, heap, work
<1>2. mem \in [Addr -> Int] /\ root \in [Roots -> Int]
  BY DEF HeapInductive, Typed
<1>3. root[r] \in Addr
  BY <1>1, RootPoints
<1>4. mem' \in [Addr -> Int] /\ \A a \in Addr : mem'[a] = root[q] \/ mem'[a] = mem[a]
  BY <1>1, <1>2, <1>3
<1>5. Typed'
  BY <1>1, <1>4 DEF HeapInductive, Typed
<1>6. Placed'
  BY <1>1, PlacedSame DEF HeapInductive
<1>7. Kept' = Kept /\ \A b : Payload(b)' = Payload(b)
  BY <1>1 DEF Kept, Allocated, Payload
<1>8. ASSUME NEW x, Held(x) PROVE x = 0 \/ \E b \in Kept' : x \in Payload(b)'
  BY <1>7, <1>8 DEF Held
<1>9. ASSUME NEW y \in Roots PROVE Held(root[y])'
  <2>1. Held(root[y]) /\ root'[y] = root[y]
    BY <1>1 DEF HeapInductive, Safe
  <2> QED
    BY <1>8, <2>1 DEF Held
<1>10. ASSUME NEW b \in Kept', NEW a \in Payload(b)' PROVE Held(mem[a])'
  <2>1. b \in Kept /\ b \in DOMAIN blk /\ a \in Payload(b)
    BY <1>7, <1>10 DEF Kept, Allocated
  <2>2. a \in Addr
    BY <2>1, PayloadAddr DEF HeapInductive
  <2>3. Held(mem[a]) /\ Held(root[q])
    BY <2>1 DEF HeapInductive, Safe
  <2>4. mem'[a] = root[q] \/ mem'[a] = mem[a]
    BY <1>4, <2>2
  <2> QED
    BY <1>8, <2>3, <2>4 DEF Held
<1>11. Safe'
  BY <1>9, <1>10 DEF Safe
<1>12. \A b \in DOMAIN blk' : Plain(b)'
  BY <1>1 DEF HeapInductive, Unmarked, Plain
<1> QED
  BY <1>1, <1>5, <1>6, <1>11, <1>12, Calm

----------------------------------------------------------------------------
(* The invariant *)

LEMMA HeapInit == Init => HeapInductive
<1> SUFFICES ASSUME Init PROVE HeapInductive
  OBVIOUS
<1>1. /\ segs = <<>> /\ blk = <<>> /\ reserved = Overhead /\ nextSize = Initial
      /\ pc = "idle" /\ want = NoWant /\ cursor = 0 /\ progress = FALSE
      /\ mem = [a \in Addr |-> 0] /\ root = [r \in Roots |-> 0]
  BY DEF Init
<1>2. DOMAIN blk = {} /\ DOMAIN segs = {}
  BY <1>1
<1>3. Kept = {}
  BY <1>2 DEF Kept, Allocated
<1>4. Safe
  BY <1>1, <1>3 DEF Safe, Held
<1>5. Placed
  BY <1>2 DEF Placed
<1>6. mem \in [Addr -> Int] /\ root \in [Roots -> Int]
  BY <1>1
<1>7. blk \in [DOMAIN blk -> [span : Nat, flags : SUBSET Flags]]
  BY <1>1
<1>8. segs \in Seq([base : Nat, size : Nat])
  BY <1>1
<1>9. Typed
  <2>1. reserved \in Int /\ nextSize \in Nat /\ cursor \in Nat
    BY <1>1
  <2>2. DOMAIN blk \subseteq Addr /\ progress \in BOOLEAN
    BY <1>1, <1>2
  <2> QED
    BY <1>1, <1>6, <1>7, <1>8, <2>1, <2>2 DEF Typed
<1>10. Unmarked /\ Tracing /\ Traced /\ Sweeping
  BY <1>1, <1>2 DEF Unmarked, Tracing, Traced, Sweeping
<1> QED
  BY <1>4, <1>5, <1>9, <1>10 DEF HeapInductive

LEMMA HeapStutters == HeapInductive /\ UNCHANGED vars => HeapInductive'
<1> SUFFICES ASSUME HeapInductive, UNCHANGED vars PROVE HeapInductive'
  OBVIOUS
<1>1. UNCHANGED <<segs, blk, reserved, nextSize, pc, want, cursor, progress, mem, root>>
  BY DEF vars
<1>2. Typed' /\ Unmarked' /\ Tracing' /\ Sweeping' /\ Placed'
  BY <1>1, PlacedSame DEF HeapInductive, Typed, Unmarked, Tracing, Sweeping, Plain
<1>3. Kept' = Kept /\ Marked' = Marked /\ Scanned' = Scanned
  BY <1>1 DEF Kept, Allocated, Marked, Scanned
<1>4. Safe'
  BY <1>1, <1>3, SafeMoves DEF HeapInductive
<1>5. \A a, b : Before(a, b)' <=> Before(a, b)
  BY <1>1, OrderSame
<1>6. Traced'
  BY <1>1, <1>3, <1>5 DEF HeapInductive, Traced, Hit, Allocated, Payload
<1> QED
  BY <1>2, <1>4, <1>6 DEF HeapInductive

LEMMA HeapStep == HeapInductive /\ [Next]_vars => HeapInductive'
<1> SUFFICES ASSUME HeapInductive, [Next]_vars PROVE HeapInductive'
  OBVIOUS
<1>1. CASE \E r \in Roots, size \in Sizes : Alloc(r, size)
  BY <1>1, AllocKeeps
<1>2. CASE Retry
  BY <1>2, RetryKeeps
<1>3. CASE Acquire
  BY <1>3, AcquireKeeps
<1>4. CASE OutOfMemory
  BY <1>4, OutOfMemoryKeeps
<1>5. CASE Collect
  BY <1>5, CollectKeeps
<1>6. CASE MarkRoots
  BY <1>6, MarkRootsKeeps
<1>7. CASE MarkRootsFails
  BY <1>7, MarkRootsFailsKeeps
<1>8. CASE Scan
  BY <1>8, ScanKeeps
<1>9. CASE EndPass
  BY <1>9, EndPassKeeps
<1>10. CASE Sweep
  BY <1>10, SweepKeeps, ReleaseKeeps
<1>11. CASE EndCollect
  BY <1>11, EndCollectKeeps
<1>12. CASE Close
  BY <1>12, CloseKeeps
<1>13. CASE Reopen
  BY <1>13, ReopenKeeps
<1>14. CASE \E r \in Roots : Drop(r) \/ Advance(r)
  BY <1>14, DropKeeps, AdvanceKeeps
<1>15. CASE \E r, q \in Roots : Load(r, q) \/ Store(r, q)
  BY <1>15, LoadKeeps, StoreKeeps
<1>16. CASE UNCHANGED vars
  BY <1>16, HeapStutters
<1> QED
  BY <1>1, <1>2, <1>3, <1>4, <1>5, <1>6, <1>7, <1>8, <1>9, <1>10, <1>11, <1>12, <1>13, <1>14,
     <1>15, <1>16 DEF Next

LEMMA HeapInvariant == Spec => []HeapInductive
  BY HeapInit, HeapStep, PTL DEF Spec

\* What the program may hold points into a block that is kept.
LEMMA KeptHits ==
    ASSUME HeapInductive, NEW p, Held(p), NEW b \in Allocated, p \in Payload(b)
    PROVE  b \in Kept
<1>1. b \in DOMAIN blk /\ b \in Nat /\ b > 0 /\ blk[b].span \in Nat
  BY BlockType DEF Allocated, HeapInductive
<1>2. p # 0
  BY <1>1 DEF Payload
<1>3. PICK c \in Kept : p \in Payload(c)
  BY <1>2 DEF Held
<1>4. c \in DOMAIN blk
  BY DEF Kept, Allocated
<1> QED
  BY <1>1, <1>3, <1>4, PayloadsApart DEF HeapInductive

\* Whatever a chain of words leads to from the roots is kept.
LEMMA ReachIsKept ==
    ASSUME HeapInductive
    PROVE  Reach \subseteq Kept
<1> USE DEF HeapInductive
<1>1. Kept \in SUBSET Allocated /\ Kept \subseteq DOMAIN blk
  BY DEF Kept, Allocated
<1>2. ASSUME NEW p, Held(p), NEW b \in Allocated, p \in Payload(b) PROVE b \in Kept
  BY <1>2, KeptHits
<1>3. Hit({root[r] : r \in Roots}) \subseteq Kept
  BY <1>2 DEF Hit, Safe
<1>4. ASSUME NEW b \in Kept PROVE Hit({mem[a] : a \in Payload(b)}) \subseteq Kept
  BY <1>2 DEF Hit, Safe
<1>5. Closed(Kept)
  BY <1>3, <1>4 DEF Closed
<1> QED
  BY <1>1, <1>5 DEF Reach

\* No collection, at whatever allocation and in whatever state of the
\* program's pointers, reclaims or reuses a block the program can still
\* reach: Mark, the passes of the tracing loop, the sweep and the
\* release of empty segments between them leave every pointer that the roots
\* lead to in an allocated block, also while the collection is under way.
THEOREM ReachableStaysAllocated == Spec => []NoDanglingPointer
<1>1. HeapInductive => NoDanglingPointer
  <2> SUFFICES ASSUME HeapInductive PROVE NoDanglingPointer
    OBVIOUS
  <2>1. \A p : Held(p) /\ p # 0 => Hit({p}) # {}
    BY DEF Held, Hit, Kept
  <2>2. \A r \in Roots : root[r] # 0 => Hit({root[r]}) # {}
    BY <2>1 DEF HeapInductive, Safe
  <2>3. \A b \in Reach : \A a \in Payload(b) : mem[a] # 0 => Hit({mem[a]}) # {}
    BY <2>1, ReachIsKept DEF HeapInductive, Safe
  <2> QED
    BY <2>2, <2>3 DEF NoDanglingPointer
<1> QED
  BY <1>1, HeapInvariant, PTL

\* Splitting in take, growing, merging runs of freed blocks and giving a
\* segment back keep the segments disjoint and each one tiled by its blocks,
\* so the walks over a segment's headers never leave it and never overlap.
THEOREM BlocksTileSegments == Spec => []SegmentsTiled
<1>1. HeapInductive => SegmentsTiled
  <2> SUFFICES ASSUME HeapInductive PROVE SegmentsTiled
    OBVIOUS
  <2> USE DEF HeapInductive
  <2>1. ASSUME NEW i \in DOMAIN segs, NEW k \in DOMAIN segs, i < k
        PROVE  segs[i].base + segs[i].size <= segs[k].base \/ segs[k].base + segs[k].size <= segs[i].base
    <3>1. i # k
      BY <2>1, SegsDomain
    <3> QED
      BY <3>1 DEF Placed, Apart
  <2>2. ASSUME NEW k \in DOMAIN segs, NEW b \in Within(segs[k])
        PROVE  b + blk[b].span \in (Within(segs[k]) \cup {segs[k].base + segs[k].size})
    <3>1. b \in DOMAIN blk /\ Inside(b, segs[k])
      BY DEF Within, Inside
    <3>2. \/ b + blk[b].span \in DOMAIN blk /\ Inside(b + blk[b].span, segs[k])
          \/ b + blk[b].span = segs[k].base + segs[k].size
      BY <3>1 DEF Placed
    <3> QED
      BY <3>2 DEF Within, Inside
  <2>3. ASSUME NEW k \in DOMAIN segs, NEW a \in Within(segs[k]), NEW b \in Within(segs[k]), a < b
        PROVE  a + blk[a].span <= b
    BY <2>3 DEF Within, Placed
  <2>4. \A k \in DOMAIN segs : segs[k].base + 1 \in DOMAIN blk
    BY DEF Placed
  <2> QED
    BY <2>1, <2>2, <2>3, <2>4 DEF SegmentsTiled
<1> QED
  BY <1>1, HeapInvariant, PTL
----------------------------------------------------------------------------
(* What a collection gives back.  Reach is the least closed set, so a mark  *)
(* is justified when every closed set has it: no path has to be named.      *)

LEMMA ReachLeast ==
    /\ Hit({root[r] : r \in Roots}) \subseteq Reach
    /\ \A b \in Reach : Hit({mem[a] : a \in Payload(b)}) \subseteq Reach
<1>1. \A P : Hit(P) \subseteq Allocated
  BY DEF Hit
<1> QED
  BY <1>1 DEF Reach, Closed

LEMMA ReachSame ==
    ASSUME DOMAIN blk' = DOMAIN blk, UNCHANGED <<mem, root>>,
           \A b \in DOMAIN blk : /\ blk'[b].span = blk[b].span
                                 /\ "allocated" \in blk'[b].flags <=> "allocated" \in blk[b].flags
    PROVE  Reach' = Reach
<1>1. /\ Allocated' = Allocated /\ Allocated \subseteq DOMAIN blk
      /\ \A b \in DOMAIN blk : Payload(b)' = Payload(b)
  BY HitSame DEF Allocated
<1>2. ASSUME NEW P PROVE Hit(P)' = Hit(P)
  BY <1>1 DEF Hit
<1>3. ASSUME NEW S \in SUBSET Allocated PROVE Closed(S)' <=> Closed(S)
  <2>1. \A b \in S : {mem[a] : a \in Payload(b)}' = {mem[a] : a \in Payload(b)}
    BY <1>1
  <2>2. {root[r] : r \in Roots}' = {root[r] : r \in Roots}
    OBVIOUS
  <2>3. Hit({root[r] : r \in Roots})' = Hit({root[r] : r \in Roots})
    BY <1>1, <2>2 DEF Hit
  <2>4. ASSUME NEW b \in S PROVE Hit({mem[a] : a \in Payload(b)})' = Hit({mem[a] : a \in Payload(b)})
    BY <1>1, <2>1 DEF Hit
  <2> QED
    BY <2>3, <2>4 DEF Closed
<1> QED
  BY <1>1, <1>3 DEF Reach

\* Every mark is justified, a sweep keeps only what was marked, and the
\* segments it has passed hold something.
Justified ==
    /\ pc = "trace" => Marked \subseteq Reach
    /\ pc = "sweep" => Kept \subseteq Reach
    /\ pc = "sweep" => \A k \in DOMAIN segs : k > cursor => \E b \in Kept : Inside(b, segs[k])

LEMMA MarkRootsJustified == HeapInductive /\ MarkRoots => Justified'
<1> SUFFICES ASSUME HeapInductive, MarkRoots PROVE Justified'
  OBVIOUS
<1>0. PICK P : P = {root[r] : r \in Roots}
  OBVIOUS
<1>1. /\ pc = "roots" /\ pc' = "trace" /\ blk' = MarkAll(blk, P) /\ UNCHANGED <<mem, root>>
  BY <1>0 DEF MarkRoots, program
<1>2. blk \in Headers(DOMAIN blk) /\ \A b \in DOMAIN blk : Plain(b)
  BY <1>1 DEF HeapInductive, Typed, Headers, Unmarked
<1>3. /\ DOMAIN blk' = DOMAIN blk
      /\ \A b \in DOMAIN blk : /\ blk'[b].span = blk[b].span
                               /\ b \in Hit(P) => blk'[b].flags = blk[b].flags \cup {"marked"}
                               /\ b \notin Hit(P) => blk'[b].flags = blk[b].flags
  BY <1>1, <1>2, MarkAllIs
<1>4. \A b \in DOMAIN blk : "allocated" \in blk'[b].flags <=> "allocated" \in blk[b].flags
  BY <1>3
<1>5. Reach' = Reach
  BY <1>1, <1>3, <1>4, ReachSame
<1>6. Marked' \subseteq Hit(P)
  BY <1>2, <1>3 DEF Marked, Plain
<1> QED
  BY <1>0, <1>1, <1>5, <1>6, ReachLeast DEF Justified

LEMMA ScanJustified == HeapInductive /\ Justified /\ Scan => Justified'
<1> SUFFICES ASSUME HeapInductive, Justified, Scan PROVE Justified'
  OBVIOUS
<1>0. PICK c, P : c = cursor /\ P = {mem[a] : a \in Payload(c)}
  OBVIOUS
<1> DEFINE due == blk[c].flags = {"allocated", "marked"}
<1>1. /\ pc = "trace" /\ pc' = "trace" /\ c # 0 /\ UNCHANGED <<mem, root>>
      /\ blk' = IF due THEN MarkAll([blk EXCEPT ![c].flags = @ \cup {"scanned"}], P) ELSE blk
  BY <1>0 DEF Scan, program
<1>2. c \in DOMAIN blk /\ blk \in Headers(DOMAIN blk)
  BY <1>0, <1>1 DEF HeapInductive, Traced, Typed, Headers
<1>3. CASE ~due
  <2>1. blk' = blk
    BY <1>1, <1>3
  <2>2. Reach' = Reach /\ Marked' = Marked
    BY <1>1, <2>1, ReachSame DEF Marked
  <2> QED
    BY <1>1, <2>2 DEF Justified
<1>4. CASE due
  <2>0. PICK B : B = [blk EXCEPT ![c].flags = @ \cup {"scanned"}]
    OBVIOUS
  <2>1. /\ B \in Headers(DOMAIN blk)
        /\ \A b \in DOMAIN blk : /\ B[b].span = blk[b].span
                                 /\ b # c => B[b].flags = blk[b].flags
                                 /\ b = c => B[b].flags = blk[b].flags \cup {"scanned"}
    BY <1>2, <2>0 DEF Headers, Flags
  <2>2. blk' = MarkAll(B, P)
    BY <1>1, <1>4, <2>0
  <2>3. /\ DOMAIN blk' = DOMAIN blk
        /\ \A b \in DOMAIN blk : /\ blk'[b].span = B[b].span
                                 /\ b \in Hit(P) => blk'[b].flags = B[b].flags \cup {"marked"}
                                 /\ b \notin Hit(P) => blk'[b].flags = B[b].flags
    BY <2>1, <2>2, MarkAllIs
  <2>4. \A b \in DOMAIN blk : /\ blk'[b].span = blk[b].span
                              /\ "allocated" \in blk'[b].flags <=> "allocated" \in blk[b].flags
    BY <2>1, <2>3
  <2>5. Reach' = Reach
    BY <1>1, <2>3, <2>4, ReachSame
  <2>6. Marked' \subseteq Marked \cup Hit(P)
    BY <2>1, <2>3 DEF Marked
  <2>7. c \in Reach
    BY <1>1, <1>2, <1>4 DEF Justified, Marked
  <2>8. Hit(P) \subseteq Reach
    BY <1>0, <2>7, ReachLeast
  <2> QED
    BY <1>1, <2>5, <2>6, <2>8 DEF Justified
<1> QED
  BY <1>3, <1>4

LEMMA EndPassJustified == HeapInductive /\ Justified /\ EndPass => Justified'
<1> SUFFICES ASSUME HeapInductive, Justified, EndPass PROVE Justified'
  OBVIOUS
<1>1. /\ pc = "trace" /\ UNCHANGED <<segs, blk, mem, root>>
      /\ pc' = pc \/ (pc' = "sweep" /\ cursor' = Len(segs))
  BY DEF EndPass, heap, program
<1>2. Reach' = Reach /\ Marked' = Marked /\ Marked \subseteq Reach
  BY <1>1, ReachSame DEF Marked, Justified
<1>3. ASSUME pc' = "sweep", cursor' = Len(segs) PROVE Justified'
  <2>1. \A k \in DOMAIN segs' : ~(k > cursor')
    BY <1>1, <1>3, SegsDomain DEF HeapInductive
  <2>2. Kept' \subseteq Marked'
    BY <1>1, <1>3, <2>1 DEF Kept
  <2> QED
    BY <1>2, <1>3, <2>1, <2>2 DEF Justified
<1> QED
  BY <1>1, <1>2, <1>3 DEF Justified

\* The blocks a sweep keeps are still reached after one of its steps: where a
\* closed set of the new state and the kept blocks meet is closed in the old.
LEMMA KeptReached ==
    ASSUME HeapInductive, KeptStays, UNCHANGED root, Kept \subseteq Reach
    PROVE  Kept' \subseteq Reach'
<1>1. /\ Kept' = Kept /\ Kept \subseteq Allocated /\ Kept' \subseteq Allocated'
      /\ Kept \subseteq DOMAIN blk
  BY DEF KeptStays, Kept, Allocated
<1>2. \A b \in Kept : Payload(b)' = Payload(b)
  BY DEF KeptStays, Payload
<1> SUFFICES ASSUME NEW S \in SUBSET Allocated', Closed(S)', NEW b \in Kept PROVE b \in S
  BY <1>1 DEF Reach
<1> DEFINE T == S \cap Kept
<1>3. ASSUME NEW p, Held(p), NEW c \in Allocated, p \in Payload(c) PROVE c \in Kept
  BY <1>3, KeptHits
<1>4. Hit({root[r] : r \in Roots}) \subseteq T
  <2> SUFFICES ASSUME NEW c \in Allocated, NEW r \in Roots, root[r] \in Payload(c) PROVE c \in T
    BY DEF Hit
  <2>1. c \in Kept
    BY <1>3 DEF HeapInductive, Safe
  <2>2. c \in Hit({root[q] : q \in Roots})'
    BY <1>1, <1>2, <2>1 DEF Hit
  <2> QED
    BY <2>1, <2>2 DEF Closed
<1>5. ASSUME NEW c \in T PROVE Hit({mem[a] : a \in Payload(c)}) \subseteq T
  <2> SUFFICES ASSUME NEW d \in Allocated, NEW a \in Payload(c), mem[a] \in Payload(d) PROVE d \in T
    BY DEF Hit
  <2>1. d \in Kept
    BY <1>3 DEF HeapInductive, Safe
  <2>2. a \in Payload(c)' /\ mem'[a] = mem[a] /\ mem'[a] \in Payload(d)' /\ d \in Allocated'
    BY <1>1, <1>2, <2>1 DEF KeptStays
  <2>3. d \in Hit({mem[x] : x \in Payload(c)})'
    BY <2>2 DEF Hit
  <2> QED
    BY <2>1, <2>3 DEF Closed
<1>6. Closed(T) /\ T \in SUBSET Allocated
  BY <1>1, <1>4, <1>5 DEF Closed
<1> QED
  BY <1>6 DEF Reach

LEMMA SweepJustified == HeapInductive /\ Justified /\ Sweep => Justified'
<1> SUFFICES ASSUME HeapInductive, Justified, Sweep PROVE Justified'
  OBVIOUS
<1>1. pc = "sweep" /\ pc' = "sweep" /\ UNCHANGED root /\ cursor > 0 /\ cursor' = cursor - 1
  BY DEF Sweep
<1>2. KeptStays
  BY SweepKeeps, ReleaseKeeps
<1>3. Kept' \subseteq Reach'
  BY <1>1, <1>2, KeptReached DEF Justified
<1>4. /\ cursor \in Nat /\ cursor \in DOMAIN segs /\ DOMAIN segs = 1..Len(segs) /\ Len(segs) \in Nat
      /\ segs \in Seq([base : Nat, size : Nat])
  <2>1. DOMAIN segs = 1..Len(segs) /\ Len(segs) \in Nat
    BY SegsDomain DEF HeapInductive
  <2>2. cursor \in Nat /\ cursor <= Len(segs) /\ segs \in Seq([base : Nat, size : Nat])
    BY <1>1 DEF HeapInductive, Typed, Sweeping
  <2> QED
    BY <1>1, <2>1, <2>2
<1>5. \A k \in DOMAIN segs : k > cursor => \E b \in Kept : Inside(b, segs[k])
  BY <1>1 DEF Justified
<1>6. Kept' = Kept
  BY <1>2 DEF KeptStays
<1>7. CASE Live(segs[cursor]) # {}
  <2>1. segs' = segs
    BY <1>7 DEF Sweep
  <2>2. PICK b : b \in Live(segs[cursor])
    BY <1>7
  <2>3. b \in DOMAIN blk /\ b \in Marked /\ Inside(b, segs[cursor])
    BY <2>2 DEF Live, Within, Inside
  <2>4. b \in Kept
    BY <1>1, <2>3, MarkedAllocated DEF Kept, HeapInductive
  <2>5. ASSUME NEW k \in DOMAIN segs, k > cursor - 1 PROVE \E x \in Kept : Inside(x, segs[k])
    <3>1. k = cursor \/ k > cursor
      BY <1>4, <2>5
    <3> QED
      BY <1>5, <2>3, <2>4, <3>1
  <2> QED
    BY <1>1, <1>3, <1>6, <2>1, <2>5 DEF Justified
<1>8. CASE Live(segs[cursor]) = {}
  <2>1. segs' = Without(cursor)
    BY <1>8 DEF Sweep
  <2>2. ASSUME NEW k \in DOMAIN segs', k > cursor - 1 PROVE \E x \in Kept : Inside(x, segs'[k])
    <3>1. /\ Without(cursor) \in Seq([base : Nat, size : Nat])
          /\ (k >= cursor => k + 1 \in DOMAIN segs /\ segs'[k] = segs[k + 1])
      BY <1>4, <2>1, WithoutIs DEF HeapInductive
    <3>2. k \in Nat
      BY <2>1 DEF Without
    <3>3. k >= cursor /\ k + 1 > cursor
      BY <1>4, <2>2, <3>2
    <3> QED
      BY <1>5, <3>1, <3>3
  <2> QED
    BY <1>1, <1>3, <1>6, <2>2 DEF Justified
<1> QED
  BY <1>7, <1>8

LEMMA JustifiedStep == HeapInductive /\ Justified /\ [Next]_vars => Justified'
<1> SUFFICES ASSUME HeapInductive, Justified, [Next]_vars PROVE Justified'
  OBVIOUS
<1>1. CASE UNCHANGED vars
  <2>1. UNCHANGED <<pc, segs, cursor, blk, mem, root>>
    BY <1>1 DEF vars
  <2>2. Reach' = Reach /\ Marked' = Marked /\ Kept' = Kept
    BY <2>1, ReachSame DEF Marked, Kept, Allocated
  <2> QED
    BY <2>1, <2>2 DEF Justified
<1>2. CASE pc' \notin {"trace", "sweep"}
  BY <1>2 DEF Justified
<1>3. CASE MarkRoots \/ Scan \/ EndPass \/ Sweep
  BY <1>3, MarkRootsJustified, ScanJustified, EndPassJustified, SweepJustified
<1>4. ASSUME NEW r \in Roots, NEW size \in Sizes, Alloc(r, size) PROVE pc' \notin {"trace", "sweep"}
  BY <1>4 DEF Alloc, Idle, Goto, work
<1>5. CASE Retry \/ Acquire \/ OutOfMemory \/ Collect \/ MarkRootsFails \/ EndCollect \/ Close \/ Reopen
  BY <1>2, <1>5 DEF Retry, Acquire, OutOfMemory, Collect, MarkRootsFails, EndCollect, Close, Reopen,
                    Idle, Goto, work
<1>6. ASSUME NEW r \in Roots, Drop(r) \/ Advance(r) PROVE pc' \notin {"trace", "sweep"}
  BY <1>6 DEF Drop, Advance, SetRoot, Idle, work
<1>7. ASSUME NEW r \in Roots, NEW q \in Roots, Load(r, q) \/ Store(r, q) PROVE pc' \notin {"trace", "sweep"}
  BY <1>7 DEF Load, Store, SetRoot, Idle, work
<1> QED
  BY <1>1, <1>2, <1>3, <1>4, <1>5, <1>6, <1>7 DEF Next

\* When a collection that ran to its end returns to Alloc or to the program,
\* the allocated blocks are exactly those the roots lead to, whatever marks an
\* earlier collection left when MarkRoots gave up, and no segment without a
\* block in use is kept.
THEOREM CollectionReclaims == Spec => ReclaimsGarbage
<1>1. Init => Justified
  BY DEF Init, Justified
<1>2. ASSUME HeapInductive, Justified, [Next]_vars, pc = "sweep", pc' # "sweep"
      PROVE  Allocated = Reach /\ \A k \in DOMAIN segs : Within(segs[k]) \cap Allocated # {}
  <2>1. cursor = 0
    BY <1>2 DEF Next, vars, Alloc, Retry, Acquire, OutOfMemory, Collect, MarkRoots, MarkRootsFails, Scan,
                EndPass, Sweep, EndCollect, Close, Reopen, Drop, Advance, Load, Store, Idle
  <2>2. \A k \in DOMAIN segs : k > cursor
    BY <2>1, SegsDomain DEF HeapInductive
  <2>3. Allocated \subseteq Kept /\ Kept \subseteq Allocated
    <3>1. \A b \in Allocated : \E k \in DOMAIN segs : k > cursor /\ Inside(b, segs[k])
      <4>1. \A b \in DOMAIN blk : \E k \in DOMAIN segs : Inside(b, segs[k])
        BY <1>2 DEF HeapInductive, Placed
      <4> QED
        BY <2>2, <4>1 DEF Allocated
    <3> QED
      BY <3>1 DEF Kept
  <2>4. Allocated = Reach
    BY <1>2, <2>3, ReachIsKept DEF Justified
  <2>5. ASSUME NEW k \in DOMAIN segs PROVE Within(segs[k]) \cap Allocated # {}
    <3>1. PICK b \in Kept : Inside(b, segs[k])
      BY <1>2, <2>2 DEF Justified
    <3> QED
      BY <2>3, <3>1 DEF Inside, Within, Allocated
  <2> QED
    BY <2>4, <2>5
<1> QED
  BY <1>1, <1>2, HeapInvariant, JustifiedStep, PTL DEF Spec, ReclaimsGarbage
----------------------------------------------------------------------------
(* The budget.  That running totals of the segments exist is what the       *)
(* invariant carries: a segment that comes or goes shifts them.             *)

Totals(t) ==
    /\ t \in [0..Len(segs) -> Int] /\ t[0] = 0
    /\ \A k \in 1..Len(segs) : t[k] = t[k - 1] + segs[k].size

Budgeted ==
    /\ reserved <= Limit
    /\ open => \E t : Totals(t) /\ reserved = Overhead + t[Len(segs)]
    /\ ~open => segs = <<>>
    /\ open \in BOOLEAN

LEMMA FootprintIs ==
    ASSUME Typed, NEW t, Totals(t)
    PROVE  Footprint = t[Len(segs)]
<1> DEFINE n == Len(segs)
           Rule(g) == g = [k \in 0..n |-> IF k = 0 THEN 0 ELSE g[k - 1] + segs[k].size]
           g0 == CHOOSE g : Rule(g)
<1>1. n \in Nat /\ DOMAIN segs = 1..n /\ \A k \in 1..n : segs[k].size \in Nat
  BY SegsDomain
<1>2. Rule(t)
  <2>1. ASSUME NEW k \in 0..n PROVE t[k] = IF k = 0 THEN 0 ELSE t[k - 1] + segs[k].size
    BY <1>1 DEF Totals
  <2> QED
    BY <2>1 DEF Totals
<1>3. Rule(g0)
  BY <1>2
<1>4. Footprint = g0[n]
  BY DEF Footprint
<1> HIDE DEF g0
<1>5. ASSUME NEW k \in 0..n PROVE g0[k] = IF k = 0 THEN 0 ELSE g0[k - 1] + segs[k].size
  BY <1>3
<1>6. ASSUME NEW x \in 0..n, g0[x] # t[x], \A y \in 0..n : g0[y] # t[y] => ~(y < x) PROVE FALSE
  <2>1. CASE x = 0
    BY <1>5, <1>6, <2>1 DEF Totals
  <2>2. CASE x # 0
    <3>1. x - 1 \in 0..n /\ x - 1 < x /\ x \in 1..n
      BY <1>1, <2>2
    <3>2. g0[x - 1] = t[x - 1]
      BY <1>6, <3>1
    <3>3. t[x] = t[x - 1] + segs[x].size
      BY <3>1 DEF Totals
    <3> QED
      BY <1>5, <1>6, <2>2, <3>2, <3>3
  <2> QED
    BY <2>1, <2>2
<1>7. \A k \in 0..n : g0[k] = t[k]
  <2> SUFFICES ASSUME NEW k \in 0..n, g0[k] # t[k] PROVE FALSE
    OBVIOUS
  <2> DEFINE T == {x \in 0..n : g0[x] # t[x]}
  <2>1. T \subseteq Nat /\ T # {}
    BY <1>1
  <2>2. PICK x \in T : \A y \in T : ~(y < x)
    BY <2>1, LeastOf
  <2> QED
    BY <1>6, <2>2
<1> QED
  BY <1>1, <1>4, <1>7

\* RoundDown stays below, so what is acquired fits into the budget.
LEMMA RoundsDown == ASSUME NEW n \in Int PROVE RoundDown(n) \in Int /\ RoundDown(n) <= n
<1>1. Granule \in Nat /\ Granule > 0
  OBVIOUS
<1>2. PICK q \in Int : q = n \div Granule
  BY <1>1
<1>3. PICK m \in Int : m = n % Granule /\ 0 <= m
  BY <1>1
<1>4. n = Granule * q + m
  BY <1>1, <1>2, <1>3
<1>5. RoundDown(n) = q * Granule
  BY <1>2 DEF RoundDown
<1>6. q * Granule = Granule * q /\ q * Granule \in Int
  BY <1>1
<1>7. PICK z \in Int : z = Granule * q
  BY <1>6
<1> QED
  BY <1>3, <1>4, <1>5, <1>6, <1>7

LEMMA WithinAvailable ==
    ASSUME Typed, pc = "grow", Minimum <= Available, NEW size \in {Preferred, Minimum}
    PROVE  size \in Nat /\ size <= Limit - reserved
<1>1. size \in Nat /\ reserved \in Int /\ nextSize \in Nat /\ Minimum \in Int
  <2>1. size \in Nat /\ want.span \in Nat
    BY LargeEnough
  <2>2. Minimum \in Nat
    BY <2>1, RoundsUp DEF Minimum
  <2> QED
    BY <2>1, <2>2 DEF Typed
<1>2. Available \in Int /\ Available <= Limit - reserved
  BY <1>1, RoundsDown DEF Available
<1> DEFINE larger == Max({nextSize, Minimum})
<1>3. larger \in Int
  BY <1>1, OfTwo
<1> HIDE DEF larger
<1>4. Min({larger, Available}) <= Available
  BY <1>2, <1>3, OfTwo
<1>5. size <= Available
  <2>1. Preferred <= Available
    BY <1>4 DEF Preferred, larger
  <2> QED
    BY <2>1
<1> QED
  BY <1>1, <1>2, <1>5

LEMMA AcquireBudgeted == HeapInductive /\ Budgeted /\ open /\ Acquire => Budgeted'
<1> SUFFICES ASSUME HeapInductive, Budgeted, open, Acquire PROVE Budgeted'
  OBVIOUS
<1>1. pc = "grow" /\ Minimum <= Available
  BY DEF Acquire
<1>2. PICK size \in {Preferred, Minimum} : \E base \in FreeBases(size) : Grow(size, base)
  BY DEF Acquire
<1>3. PICK base \in FreeBases(size) : Grow(size, base)
  BY <1>2
<1>4. size \in Nat /\ size <= Limit - reserved /\ reserved \in Int
  BY <1>1, WithinAvailable DEF HeapInductive, Typed
<1>5. segs' = <<[base |-> base, size |-> size]>> \o segs /\ reserved' = reserved + size /\ open' = open
  BY <1>3 DEF Grow
<1>6. base \in Nat
  BY DEF FreeBases, Addr
<1>7. /\ DOMAIN segs = 1..Len(segs) /\ Len(segs) \in Nat /\ \A k \in DOMAIN segs : segs[k].size \in Nat
  BY SegsDomain DEF HeapInductive
<1>8. /\ Len(segs') = Len(segs) + 1 /\ segs'[1].size = size
      /\ \A k \in 2..(Len(segs) + 1) : segs'[k] = segs[k - 1]
  <2> DEFINE R == [base : Nat, size : Nat]
  <2>1. PICK s : s = [base |-> base, size |-> size]
    OBVIOUS
  <2>2. s \in R /\ segs \in Seq(R) /\ segs' = <<s>> \o segs /\ s.size = size
    BY <1>4, <1>5, <1>6, <2>1 DEF HeapInductive, Typed
  <2> HIDE DEF R
  <2>3. <<s>> \in Seq(R) /\ Len(<<s>>) = 1 /\ <<s>>[1] = s
    BY <2>2
  <2>4. Len(segs') = Len(segs) + 1
    BY <2>2, <2>3
  <2>5. \A i \in 1..(Len(segs) + 1) : segs'[i] = IF i <= 1 THEN s ELSE segs[i - 1]
    BY <2>2, <2>3
  <2>6. ASSUME NEW k \in 2..(Len(segs) + 1) PROVE segs'[k] = segs[k - 1]
    <3>1. k \in 1..(Len(segs) + 1) /\ ~(k <= 1)
      BY <1>7
    <3> QED
      BY <2>5, <3>1
  <2>7. segs'[1] = s
    <3>1. 1 \in 1..(Len(segs) + 1) /\ 1 <= 1
      BY <1>7
    <3> QED
      BY <2>5, <3>1
  <2> QED
    BY <2>2, <2>4, <2>6, <2>7
<1>9. PICK t : Totals(t) /\ reserved = Overhead + t[Len(segs)]
  BY DEF Budgeted
<1> DEFINE u == [k \in 0..(Len(segs) + 1) |-> IF k = 0 THEN 0 ELSE t[k - 1] + size]
<1>10. \A k \in 0..Len(segs) : t[k] \in Int
  BY <1>9 DEF Totals
<1>11. u \in [0..(Len(segs) + 1) -> Int] /\ u[0] = 0
  <2>1. \A k \in 0..(Len(segs) + 1) : k # 0 => k - 1 \in 0..Len(segs)
    BY <1>7
  <2>2. \A k \in 0..(Len(segs) + 1) : (IF k = 0 THEN 0 ELSE t[k - 1] + size) \in Int
    BY <1>4, <1>10, <2>1
  <2> QED
    BY <1>7, <2>2
<1>12. ASSUME NEW k \in 1..(Len(segs) + 1) PROVE u[k] = u[k - 1] + segs'[k].size
  <2>1. k \in 0..(Len(segs) + 1) /\ k - 1 \in 0..(Len(segs) + 1) /\ k \in Nat /\ k # 0
    BY <1>7
  <2>2. u[k] = t[k - 1] + size
    BY <2>1
  <2>3. CASE k = 1
    BY <1>4, <1>8, <1>9, <1>11, <2>2, <2>3 DEF Totals
  <2>4. CASE k # 1
    <3>1. k \in 2..(Len(segs) + 1) /\ k - 1 \in 1..Len(segs) /\ k - 1 # 0 /\ k - 2 \in 0..Len(segs)
      BY <1>7, <2>1, <2>4
    <3>2. u[k - 1] = t[(k - 1) - 1] + size
      BY <2>1, <3>1
    <3>3. t[k - 1] = t[(k - 1) - 1] + segs[k - 1].size /\ segs'[k] = segs[k - 1]
      BY <1>8, <1>9, <3>1 DEF Totals
    <3>4. (k - 1) - 1 \in 0..Len(segs) /\ segs[k - 1].size \in Nat
      BY <1>7, <3>1
    <3>5. t[(k - 1) - 1] \in Int
      BY <1>10, <3>4
    <3> QED
      BY <1>4, <2>2, <3>2, <3>3, <3>4, <3>5
  <2> QED
    BY <2>3, <2>4
<1>13. u[Len(segs) + 1] = t[Len(segs)] + size
  BY <1>7
<1> HIDE DEF u
<1>a. PICK v : v = u
  OBVIOUS
<1>14. Totals(v)'
  <2>1. \A k \in 1..Len(segs') : v[k] = v[k - 1] + segs'[k].size
    BY <1>8, <1>12, <1>a
  <2>2. v \in [0..Len(segs') -> Int] /\ v[0] = 0
    BY <1>8, <1>11, <1>a
  <2> QED
    BY <2>1, <2>2 DEF Totals
<1>15. reserved' = Overhead + v[Len(segs')]
  <2>1. t[Len(segs)] \in Int /\ size \in Int /\ Overhead \in Int
    BY <1>4, <1>7, <1>10
  <2>2. reserved' = (Overhead + t[Len(segs)]) + size
    BY <1>5, <1>9
  <2>3. v[Len(segs')] = t[Len(segs)] + size
    BY <1>a, <1>8, <1>13
  <2> QED
    BY <2>1, <2>2, <2>3
<1>16. reserved' <= Limit /\ open' = open /\ open \in BOOLEAN
  BY <1>4, <1>5 DEF Budgeted
<1> QED
  BY <1>14, <1>15, <1>16 DEF Budgeted

LEMMA SweepBudgeted == HeapInductive /\ Budgeted /\ open /\ Sweep => Budgeted'
<1> SUFFICES ASSUME HeapInductive, Budgeted, open, Sweep PROVE Budgeted'
  OBVIOUS
<1>1. pc = "sweep" /\ cursor > 0 /\ open' = open
  BY DEF Sweep
<1>2. CASE UNCHANGED <<segs, reserved>>
  BY <1>1, <1>2 DEF Budgeted, Totals
<1>3. CASE segs' = Without(cursor) /\ reserved' = reserved - segs[cursor].size
  <2>1. /\ DOMAIN segs = 1..Len(segs) /\ Len(segs) \in Nat /\ \A k \in DOMAIN segs : segs[k].size \in Nat
    BY SegsDomain DEF HeapInductive
  <2>2. cursor \in 1..Len(segs) /\ reserved \in Int
    BY <1>1, <2>1 DEF HeapInductive, Typed, Sweeping
  <2>3. /\ Len(segs') = Len(segs) - 1
        /\ \A i \in DOMAIN segs' : /\ i < cursor => segs'[i] = segs[i]
                                   /\ i >= cursor => segs'[i] = segs[i + 1]
        /\ DOMAIN segs' = 1..(Len(segs) - 1)
    <3>1. /\ Len(segs') = Len(segs) - 1
          /\ \A i \in DOMAIN segs' : /\ i < cursor => segs'[i] = segs[i]
                                     /\ i >= cursor => segs'[i] = segs[i + 1]
      <4>1. cursor \in DOMAIN segs /\ Typed /\ segs' = Without(cursor)
        BY <1>3, <2>1, <2>2 DEF HeapInductive
      <4> QED
        BY <4>1, WithoutIs
    <3>2. DOMAIN segs' = 1..(Len(segs) - 1)
      BY <1>3 DEF Without
    <3> QED
      BY <3>1, <3>2
  <2>4. PICK t : Totals(t) /\ reserved = Overhead + t[Len(segs)]
    BY DEF Budgeted
  <2>5. PICK n, c, x : n = Len(segs) - 1 /\ c = cursor /\ x = segs[cursor].size
    OBVIOUS
  <2>6. n \in Nat /\ c \in 1..(n + 1) /\ x \in Nat /\ Len(segs) = n + 1 /\ c - 1 \in 0..n
    BY <2>1, <2>2, <2>5
  <2> DEFINE u == [k \in 0..n |-> IF k < c THEN t[k] ELSE t[k + 1] - x]
  <2>7. /\ \A k \in 0..(n + 1) : t[k] \in Int
        /\ \A k \in 1..(n + 1) : t[k] = t[k - 1] + segs[k].size
        /\ t[0] = 0
    BY <2>4, <2>6 DEF Totals
  <2>8. \A k \in 0..n : (IF k < c THEN t[k] ELSE t[k + 1] - x) \in Int
    <3>1. \A k \in 0..n : k \in 0..(n + 1) /\ k + 1 \in 0..(n + 1)
      BY <2>6
    <3> QED
      BY <2>6, <2>7, <3>1
  <2>9. u \in [0..n -> Int] /\ u[0] = 0
    <3>1. 0 \in 0..n /\ 0 < c
      BY <2>6
    <3> QED
      BY <2>7, <2>8, <3>1
  <2>10. ASSUME NEW k \in 1..n PROVE u[k] = u[k - 1] + segs'[k].size
    <3>1. /\ k \in 0..n /\ k - 1 \in 0..n /\ k \in 1..(n + 1) /\ k + 1 \in 1..(n + 1) /\ k \in Nat /\ c \in Nat
          /\ (k + 1) - 1 = k /\ (k - 1) + 1 = k /\ k \in DOMAIN segs'
      BY <2>3, <2>5, <2>6
    <3>2. /\ t[k] \in Int /\ t[k - 1] \in Int /\ t[k + 1] \in Int
          /\ t[k] = t[k - 1] + segs[k].size /\ t[k + 1] = t[k] + segs[k + 1].size
      <4>1. k \in 0..(n + 1) /\ k - 1 \in 0..(n + 1) /\ k + 1 \in 0..(n + 1)
        BY <2>6, <3>1
      <4> QED
        BY <2>7, <3>1, <4>1
    <3>3. segs[k].size \in Nat /\ segs[k + 1].size \in Nat
      BY <2>1, <2>6, <3>1
    <3>4. CASE k < c
      <4>1. u[k] = t[k] /\ u[k - 1] = t[k - 1] /\ segs'[k] = segs[k]
        BY <2>3, <2>5, <2>6, <3>1, <3>4
      <4> QED
        BY <3>2, <4>1
    <3>5. CASE k = c
      <4>1. u[k] = t[k + 1] - x /\ u[k - 1] = t[k - 1] /\ segs'[k] = segs[k + 1] /\ x = segs[k].size
        BY <2>3, <2>5, <2>6, <3>1, <3>5
      <4> QED
        BY <3>2, <3>3, <4>1
    <3>6. CASE k > c
      <4>0. ~(k < c) /\ ~(k - 1 < c) /\ k >= c
        BY <3>1, <3>6
      <4>1. u[k] = t[k + 1] - x /\ u[k - 1] = t[(k - 1) + 1] - x
        BY <3>1, <4>0
      <4>3. segs'[k] = segs[k + 1]
        BY <2>3, <2>5, <3>1, <4>0
      <4>2. u[k - 1] = t[k] - x /\ x \in Int
        BY <2>6, <3>1, <4>1
      <4> QED
        BY <3>2, <3>3, <4>1, <4>2, <4>3
    <3> QED
      BY <3>1, <3>4, <3>5, <3>6
  <2>11. u[n] = t[n + 1] - x
    <3>1. n \in 0..n /\ n \in Nat /\ c \in Nat
      BY <2>6
    <3>2. CASE n < c
      <4>1. c = n + 1 /\ n + 1 \in 1..(n + 1) /\ (n + 1) - 1 = n /\ n \in 0..(n + 1)
        BY <2>6, <3>1, <3>2
      <4>2. u[n] = t[n] /\ t[n + 1] = t[n] + segs[n + 1].size /\ x = segs[n + 1].size /\ t[n] \in Int
        BY <2>5, <2>7, <3>1, <3>2, <4>1
      <4> QED
        BY <2>6, <4>2
    <3>3. CASE ~(n < c)
      BY <3>1, <3>3
    <3> QED
      BY <3>2, <3>3
  <2> HIDE DEF u
  <2>12. Totals(u)'
    BY <2>3, <2>5, <2>9, <2>10 DEF Totals
  <2>13. reserved' = Overhead + u[Len(segs')]
    <3>1. t[n + 1] \in Int /\ x \in Int /\ Overhead \in Int
      BY <2>6, <2>7
    <3>2. reserved' = (Overhead + t[n + 1]) - x
      BY <1>3, <2>4, <2>5, <2>6
    <3>3. Len(segs') = n
      BY <2>3, <2>5
    <3>4. (Overhead + t[n + 1]) - x = Overhead + (t[n + 1] - x)
      BY <3>1
    <3> QED
      BY <2>11, <3>2, <3>3, <3>4
  <2>14. reserved' <= Limit
    BY <1>3, <2>2, <2>5, <2>6 DEF Budgeted
  <2> QED
    BY <1>1, <2>12, <2>13, <2>14 DEF Budgeted
<1> QED
  BY <1>2, <1>3 DEF Sweep

\* Nothing is under way in a closed heap.
Quiescent == ~open => pc = "idle"

LEMMA BudgetStep == HeapInductive /\ Budgeted /\ Quiescent /\ [Next]_vars => Budgeted' /\ Quiescent'
<1> SUFFICES ASSUME HeapInductive, Budgeted, Quiescent, [Next]_vars PROVE Budgeted' /\ Quiescent'
  OBVIOUS
<1> DEFINE Still == UNCHANGED <<open, segs, reserved>> /\ (pc' = pc \/ open)
<1>1. Still => Budgeted' /\ Quiescent'
  <2> SUFFICES ASSUME Still PROVE Budgeted' /\ Quiescent'
    OBVIOUS
  <2>1. \A t : Totals(t) <=> Totals(t)'
    BY DEF Totals
  <2>2. Budgeted'
    BY <2>1 DEF Budgeted
  <2> QED
    BY <2>2 DEF Quiescent
<1>2. CASE Acquire \/ Sweep
  <2>1. open /\ open' = open
    BY <1>2 DEF Acquire, Grow, Sweep, Quiescent
  <2> QED
    BY <1>2, <2>1, AcquireBudgeted, SweepBudgeted DEF Quiescent
<1>3. CASE Close
  <2>1. open' = FALSE /\ segs' = <<>> /\ reserved' = 0 /\ pc' = "idle"
    BY <1>3 DEF Close, Idle, work
  <2>2. reserved' <= Limit
    BY <2>1
  <2> QED
    BY <2>1, <2>2 DEF Budgeted, Quiescent
<1>4. CASE Reopen
  <2>1. segs' = <<>> /\ open' = TRUE /\ reserved' = Overhead
    BY <1>4 DEF Reopen, Budgeted
  <2> DEFINE t == [k \in 0..0 |-> 0]
  <2>2. t \in [0..0 -> Int] /\ t[0] = 0
    OBVIOUS
  <2> HIDE DEF t
  <2>3. Totals(t)'
    BY <2>1, <2>2 DEF Totals
  <2> QED
    BY <2>1, <2>2, <2>3 DEF Budgeted, Quiescent
<1>5. ASSUME NEW r \in Roots, NEW size \in Sizes, Alloc(r, size) PROVE Still
  BY <1>5 DEF Alloc, Idle
<1>6. CASE Retry \/ OutOfMemory \/ Collect \/ MarkRoots \/ MarkRootsFails \/ Scan \/ EndPass \/ EndCollect
  <2>1. Still
    BY <1>6 DEF Retry, OutOfMemory, Collect, MarkRoots, MarkRootsFails, Scan, EndPass, EndCollect, heap,
                Idle, Quiescent
  <2> QED
    BY <1>1, <2>1
<1>7. ASSUME NEW r \in Roots, Drop(r) \/ Advance(r) PROVE Still
  BY <1>7 DEF Drop, Advance, SetRoot, heap, work
<1>8. ASSUME NEW r \in Roots, NEW q \in Roots, Load(r, q) \/ Store(r, q) PROVE Still
  BY <1>8 DEF Load, Store, SetRoot, heap, work
<1>9. CASE UNCHANGED vars
  BY <1>1, <1>9 DEF vars
<1> HIDE DEF Still
<1> QED
  BY <1>1, <1>2, <1>3, <1>4, <1>5, <1>6, <1>7, <1>8, <1>9 DEF Next

\* The heap's account is right after every segment that comes or goes, so the
\* memory it holds, overhead included, never exceeds Config.Limit: growth by
\* the preferred or by the minimal size stays below what is left.
THEOREM HeapWithinBudget == Spec => []WithinBudget
<1>1. Init => Budgeted /\ Quiescent
  <2> SUFFICES ASSUME Init PROVE Budgeted /\ Quiescent
    OBVIOUS
  <2>1. segs = <<>> /\ open = TRUE /\ reserved = Overhead
    BY DEF Init
  <2> DEFINE t == [k \in 0..0 |-> 0]
  <2>2. t \in [0..0 -> Int] /\ t[0] = 0
    OBVIOUS
  <2> HIDE DEF t
  <2>3. Totals(t)
    BY <2>1, <2>2 DEF Totals
  <2> QED
    BY <2>1, <2>2, <2>3 DEF Budgeted, Quiescent
<1>2. HeapInductive /\ Budgeted => WithinBudget
  BY FootprintIs DEF HeapInductive, Budgeted, WithinBudget
<1> QED
  BY <1>1, <1>2, HeapInvariant, BudgetStep, PTL DEF Spec
=============================================================================
