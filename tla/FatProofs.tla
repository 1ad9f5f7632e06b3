------------------------------ MODULE FatProofs ------------------------------
(***************************************************************************)
(* The FAT32 volume, proved for every number of clusters and of directory  *)
(* slots: the chain guard of release on any FAT, however damaged; the      *)
(* soundness of every chain a directory names, through every failing call  *)
(* and every power failure of a device that writes in order; and that no   *)
(* call, failing or not, leaves a cluster allocated that nothing owns.     *)
(***************************************************************************)
EXTENDS MCFat32, FiniteSetTheorems, WellFoundedInduction, TLAPS

USE Fat32Assumption

\* The guard's checkpoint is a cluster the walk has accepted.
Remembers == span # 0 => checkpoint \in visited

GuardInductive == Remembers /\ RefusesOnlyLoops

LEMMA GuardInit == MCInit => GuardInductive
  BY DEF MCInit, G!Init, GuardInductive, Remembers, RefusesOnlyLoops, G!RefusesOnlyLoops

LEMMA GuardStep ==
    GuardInductive /\ [Operate \/ FollowChain]_<<damaged, vars, walk>> => GuardInductive'
<1> SUFFICES ASSUME GuardInductive, [Operate \/ FollowChain]_<<damaged, vars, walk>>
             PROVE  GuardInductive'
  OBVIOUS
<1> USE DEF GuardInductive, Remembers, RefusesOnlyLoops, G!RefusesOnlyLoops
<1>1. CASE UNCHANGED walk
  BY <1>1 DEF walk
<1>2. CASE G!Step
  <2>1. /\ visited' = visited \cup {n} /\ verdict' # "loop"
        /\ checkpoint' \in {checkpoint, n}
        /\ checkpoint' = checkpoint => span # 0 \/ checkpoint' = n
    BY <1>2 DEF G!Step, G!Accept, G!Move
  <2> QED
    BY <2>1
<1>3. CASE G!Refuse
  BY <1>3 DEF G!Refuse, G!Rejects
<1> QED
  BY <1>1, <1>2, <1>3 DEF Operate, FollowChain, G!Next

\* chainGuard.accept never refuses a cluster the walk has not accepted before:
\* a sound chain, however long and wherever its checkpoints fall, is walked to
\* its end and freed, never reported as corrupt.
THEOREM GuardRefusesOnlyLoops == MCSpec => []RefusesOnlyLoops
<1>1. GuardInductive => RefusesOnlyLoops
  BY DEF GuardInductive
<1> QED
  BY <1>1, GuardInit, GuardStep, PTL DEF MCSpec

-----------------------------------------------------------------------------
(* Chains.                                                                 *)

Within(s) == {s[i] : i \in 1..Len(s)}

\* s lists the clusters of the chain that begins at c.
IsChain(fat, c, s) ==
    /\ s \in Seq(Cluster) /\ Len(s) >= 1 /\ s[1] = c
    /\ \A i \in 1..(Len(s) - 1) : fat[s[i]] = s[i + 1]
    /\ fat[s[Len(s)]] = Eoc
    /\ \A i, j \in 1..Len(s) : s[i] = s[j] => i = j

LEMMA LeastOf ==
    ASSUME NEW T, T \subseteq Nat, T # {}
    PROVE  \E x \in T : \A y \in T : ~(y < x)
<1>1. \E x \in T : \A y \in T : ~(<<y, x>> \in OpToRel(<, Nat))
  BY NatLessThanWellFounded, WFMin
<1> QED
  BY <1>1 DEF OpToRel

LEMMA ClusterFacts ==
    /\ Clusters \in Nat /\ Cluster \subseteq Nat /\ Root \in Cluster /\ 0 \notin Cluster /\ Eoc \notin Cluster
    /\ Eoc = 1 /\ IsFiniteSet(Cluster) /\ Cardinality(Cluster) = Clusters
<1>1. Clusters \in Nat /\ Clusters >= 4
  OBVIOUS
<1>2. IsFiniteSet(Cluster) /\ Cardinality(Cluster) = Clusters
  BY <1>1, FS_Interval DEF Cluster
<1> QED
  BY <1>1, <1>2 DEF Cluster, Root, Eoc

\* A chain has no more members than there are clusters.
LEMMA ChainBound ==
    ASSUME NEW fat, NEW c, NEW s, IsChain(fat, c, s)
    PROVE  /\ Len(s) \in 1..Clusters /\ DOMAIN s = 1..Len(s) /\ c \in Cluster
           /\ Within(s) \subseteq Cluster /\ c \in Within(s)
           /\ IsFiniteSet(Within(s)) /\ Cardinality(Within(s)) = Len(s)
<1>1. /\ s \in Seq(Cluster) /\ Len(s) >= 1 /\ Len(s) \in Nat /\ DOMAIN s = 1..Len(s)
      /\ \A i \in 1..Len(s) : s[i] \in Cluster
  BY DEF IsChain
<1>2. s \in [1..Len(s) -> Within(s)]
  BY <1>1 DEF Within
<1>3. s \in Injection(1..Len(s), Within(s)) /\ s \in Surjection(1..Len(s), Within(s))
  BY <1>2 DEF Injection, IsInjective, Surjection, IsChain, Within
<1>4. Within(s) \subseteq Cluster /\ c \in Within(s)
  BY <1>1 DEF Within, IsChain
<1>5. IsFiniteSet(Within(s)) /\ Cardinality(Within(s)) <= Clusters
  BY <1>4, ClusterFacts, FS_Subset
<1>6. Cardinality(1..Len(s)) = Cardinality(Within(s))
  BY <1>3, <1>5, FS_Injection
<1>7. Cardinality(1..Len(s)) = Len(s)
  BY <1>1, FS_Interval
<1> QED
  BY <1>1, <1>4, <1>5, <1>6, <1>7, ClusterFacts

\* What Walk returns is fixed by its first value and its rule.
Follows(fat, c, v) ==
    /\ v = [i \in 1..(Clusters + 1) |-> v[i]] /\ v[1] = c
    /\ \A i \in 2..(Clusters + 1) : v[i] = IF v[i - 1] \in Cluster THEN fat[v[i - 1]] ELSE v[i - 1]

LEMMA WalkRule ==
    ASSUME NEW fat, NEW c, NEW v, Follows(fat, c, v)
    PROVE  \A i \in 1..(Clusters + 1) : Walk(fat, c)[i] = v[i]
<1> USE DEF Follows
<1> DEFINE N == Clusters + 1
           Rule(w) == w = [i \in 1..N |-> IF i = 1 THEN c
                                          ELSE LET x == w[i - 1] IN IF x \in Cluster THEN fat[x] ELSE x]
           w0 == CHOOSE w : Rule(w)
<1>1. N \in Nat /\ N >= 1
  BY ClusterFacts
<1>2. Rule(v)
  <2>1. ASSUME NEW i \in 1..N
        PROVE  v[i] = IF i = 1 THEN c ELSE LET x == v[i - 1] IN IF x \in Cluster THEN fat[x] ELSE x
    <3>1. i # 1 => i \in 2..(Clusters + 1)
      BY <1>1
    <3> QED
      BY <3>1
  <2> QED
    BY <2>1
<1>3. Rule(w0)
  BY <1>2
<1>4. Walk(fat, c) = w0
  BY DEF Walk
<1> HIDE DEF w0
<1>5. ASSUME NEW i \in 1..N
      PROVE  w0[i] = IF i = 1 THEN c ELSE LET x == w0[i - 1] IN IF x \in Cluster THEN fat[x] ELSE x
  BY <1>3
<1>6. ASSUME NEW x \in 1..N, w0[x] # v[x], \A y \in 1..N : w0[y] # v[y] => ~(y < x) PROVE FALSE
  <2>1. CASE x = 1
    BY <1>5, <1>6, <2>1
  <2>2. CASE x # 1
    <3>1. x - 1 \in 1..N /\ x - 1 < x /\ x \in 2..(Clusters + 1)
      BY <1>1, <2>2
    <3>2. w0[x - 1] = v[x - 1]
      BY <1>6, <3>1
    <3> QED
      BY <1>5, <1>6, <2>2, <3>1, <3>2
  <2> QED
    BY <2>1, <2>2
<1> SUFFICES ASSUME NEW i \in 1..N, w0[i] # v[i] PROVE FALSE
  BY <1>4
<1> DEFINE T == {x \in 1..N : w0[x] # v[x]}
<1>7. T \subseteq Nat /\ T # {}
  BY <1>1
<1>8. PICK x \in T : \A y \in T : ~(y < x)
  BY <1>7, LeastOf
<1> QED
  BY <1>6, <1>8

\* Chain and Sound on a whole chain: next reaches its end, and no sooner.
LEMMA ChainIs ==
    ASSUME NEW fat, NEW c, NEW s, IsChain(fat, c, s)
    PROVE  Chain(fat, c) = s /\ Sound(fat, c)
<1> DEFINE N == Clusters + 1
           v == [i \in 1..N |-> IF i <= Len(s) THEN s[i] ELSE Eoc]
<1>1. /\ N \in Nat /\ Len(s) \in 1..Clusters /\ DOMAIN s = 1..Len(s) /\ Clusters \in Nat
      /\ \A i \in 1..Len(s) : s[i] \in Cluster
  BY ClusterFacts, ChainBound DEF IsChain
<1>2. \A i \in 1..N : v[i] = IF i <= Len(s) THEN s[i] ELSE Eoc
  OBVIOUS
<1>3. ASSUME NEW i \in 2..(Clusters + 1) PROVE v[i] = IF v[i - 1] \in Cluster THEN fat[v[i - 1]] ELSE v[i - 1]
  <2>0. i \in 1..N /\ i - 1 \in 1..N /\ i \in Nat /\ Len(s) \in Nat
    BY <1>1
  <2>1. CASE i <= Len(s)
    <3>1. i - 1 \in 1..(Len(s) - 1) /\ i - 1 \in 1..Len(s) /\ (i - 1) + 1 = i /\ i - 1 <= Len(s)
      BY <2>0, <2>1
    <3>2. fat[s[i - 1]] = s[i] /\ s[i - 1] \in Cluster
      BY <1>1, <3>1 DEF IsChain
    <3> QED
      BY <1>2, <2>0, <2>1, <3>1, <3>2
  <2>2. CASE i = Len(s) + 1
    <3>1. i - 1 = Len(s) /\ Len(s) \in 1..Len(s) /\ ~(i <= Len(s)) /\ i - 1 <= Len(s)
      BY <1>1, <2>0, <2>2
    <3>2. fat[s[Len(s)]] = Eoc /\ s[Len(s)] \in Cluster
      BY <1>1, <3>1 DEF IsChain
    <3> QED
      BY <1>2, <2>0, <3>1, <3>2
  <2>3. CASE i > Len(s) + 1
    <3>1. ~(i <= Len(s)) /\ ~(i - 1 <= Len(s))
      BY <2>0, <2>3
    <3> QED
      BY <1>2, <2>0, <3>1, ClusterFacts
  <2> QED
    BY <2>0, <2>1, <2>2, <2>3
<1>4. v[1] = c /\ DOMAIN v = 1..(Clusters + 1) /\ v = [i \in 1..(Clusters + 1) |-> v[i]]
  BY <1>1 DEF IsChain
<1>5. v[N] = Eoc
  BY <1>1
<1> HIDE DEF v
<1>6. \A i \in 1..N : Walk(fat, c)[i] = v[i]
  <2>1. \A i \in 2..(Clusters + 1) : v[i] = IF v[i - 1] \in Cluster THEN fat[v[i - 1]] ELSE v[i - 1]
    BY <1>3
  <2>2. Follows(fat, c, v)
    BY <1>4, <2>1 DEF Follows
  <2> QED
    BY <2>2, WalkRule
<1>7. Sound(fat, c)
  BY <1>1, <1>5, <1>6 DEF Sound
<1>8. {k \in 1..N : Walk(fat, c)[k] \in Cluster} = 1..Len(s)
  <2>1. ASSUME NEW k \in 1..N PROVE Walk(fat, c)[k] \in Cluster <=> k \in 1..Len(s)
    BY <1>1, <1>2, <1>6, ClusterFacts
  <2>2. 1..Len(s) \subseteq 1..N
    BY <1>1
  <2> QED
    BY <2>1, <2>2
<1>9. Cardinality({k \in 1..N : Walk(fat, c)[k] \in Cluster}) = Len(s)
  <2>1. Cardinality(1..Len(s)) = Len(s)
    <3>1. 1 \in Int /\ Len(s) \in Int /\ ~(1 > Len(s)) /\ Len(s) - 1 + 1 = Len(s)
      BY <1>1
    <3> QED
      BY <3>1, FS_Interval
  <2> QED
    BY <1>8, <2>1
<1>10. Chain(fat, c) = [i \in 1..Len(s) |-> Walk(fat, c)[i]]
  BY <1>9 DEF Chain
<1>11. \A i \in 1..Len(s) : Walk(fat, c)[i] = s[i]
  BY <1>1, <1>2, <1>6
<1>12. s = [i \in 1..Len(s) |-> s[i]]
  BY <1>1 DEF IsChain
<1> QED
  BY <1>7, <1>10, <1>11, <1>12

\* What does not begin with a cluster has none.
LEMMA ChainNone ==
    ASSUME NEW fat, NEW c, c \notin Cluster
    PROVE  Chain(fat, c) = <<>> /\ Len(Chain(fat, c)) = 0
<1> DEFINE N == Clusters + 1
           v == [i \in 1..N |-> c]
<1>1. N \in Nat /\ N >= 1
  BY ClusterFacts
<1>2. v[1] = c /\ DOMAIN v = 1..N /\ v = [i \in 1..N |-> v[i]] /\ \A i \in 1..N : v[i] = c
  BY <1>1
<1>3. \A i \in 2..N : i \in 1..N /\ i - 1 \in 1..N
  BY <1>1
<1>4. \A i \in 2..N : v[i] = IF v[i - 1] \in Cluster THEN fat[v[i - 1]] ELSE v[i - 1]
  BY <1>2, <1>3
<1> HIDE DEF v
<1>5. \A i \in 1..N : Walk(fat, c)[i] = c
  <2>1. Follows(fat, c, v)
    BY <1>2, <1>4 DEF Follows
  <2> QED
    BY <1>2, <2>1, WalkRule
<1>6. {k \in 1..N : Walk(fat, c)[k] \in Cluster} = {}
  BY <1>5
<1>7. Cardinality({k \in 1..N : Walk(fat, c)[k] \in Cluster}) = 0
  BY <1>6, FS_EmptySet
<1>8. Chain(fat, c) = [i \in 1..0 |-> Walk(fat, c)[i]]
  BY <1>7 DEF Chain
<1>9. Chain(fat, c) = <<>>
  BY <1>8
<1> QED
  BY <1>9

\* The chain stays what it is while its own entries do.
LEMMA ChainFrame ==
    ASSUME NEW fat, NEW fat2, NEW c, NEW s, IsChain(fat, c, s), \A x \in Within(s) : fat2[x] = fat[x]
    PROVE  IsChain(fat2, c, s)
<1>1. Len(s) \in Nat /\ Len(s) >= 1
  BY DEF IsChain
<1>2. \A i \in 1..Len(s) : fat2[s[i]] = fat[s[i]]
  BY DEF Within
<1>3. \A i \in 1..(Len(s) - 1) : i \in 1..Len(s)
  BY <1>1
<1>4. Len(s) \in 1..Len(s)
  BY <1>1
<1> QED
  BY <1>2, <1>3, <1>4 DEF IsChain

\* Linking a claimed cluster to the last of a chain makes the chain longer.
Longer(s, y) == Append(s, y)
Links(fat, fat2, s, y) ==
    /\ y \in Cluster /\ y \notin Within(s) /\ fat2[y] = Eoc /\ fat2[s[Len(s)]] = y
    /\ \A x \in Within(s) : x # s[Len(s)] => fat2[x] = fat[x]

LEMMA LongerFacts ==
    ASSUME NEW s \in Seq(Cluster), NEW y \in Cluster
    PROVE  /\ Longer(s, y) \in Seq(Cluster) /\ Len(Longer(s, y)) = Len(s) + 1 /\ Longer(s, y)[Len(s) + 1] = y
           /\ \A i \in 1..Len(s) : Longer(s, y)[i] = s[i]
           /\ Within(Longer(s, y)) = Within(s) \cup {y}
<1> DEFINE N == Len(s)
           r == Longer(s, y)
<1>1. N \in Nat /\ r \in Seq(Cluster) /\ Len(r) = N + 1 /\ r[N + 1] = y /\ \A i \in 1..N : r[i] = s[i]
  BY DEF Longer
<1> HIDE DEF N, r
<1>2. 1..Len(r) = 1..N \cup {N + 1}
  BY <1>1
<1>3. Within(r) = Within(s) \cup {y}
  BY <1>1, <1>2 DEF Within, N
<1> QED
  BY <1>1, <1>3 DEF N, r

LEMMA ChainAppend ==
    ASSUME NEW fat, NEW fat2, NEW c, NEW s, IsChain(fat, c, s), NEW y, Links(fat, fat2, s, y)
    PROVE  IsChain(fat2, c, Longer(s, y))
<1> USE DEF Links
<1> DEFINE N == Len(s)
           r == Longer(s, y)
<1>1. N \in Nat /\ N >= 1 /\ s \in Seq(Cluster) /\ N \in 1..N
  BY DEF IsChain
<1>2. /\ r \in Seq(Cluster) /\ Len(r) = N + 1 /\ r[N + 1] = y /\ \A i \in 1..N : r[i] = s[i]
  BY <1>1, LongerFacts
<1> HIDE DEF N, r
<1>4. ASSUME NEW i \in 1..(Len(r) - 1) PROVE fat2[r[i]] = r[i + 1]
  <2>1. i \in 1..N /\ (i # N => i \in 1..(N - 1) /\ i + 1 \in 1..N)
    BY <1>1, <1>2
  <2>2. CASE i = N
    BY <1>2, <2>1, <2>2 DEF N
  <2>3. CASE i # N
    <3>1. s[i] # s[N] /\ s[i] \in Within(s)
      BY <1>1, <2>1, <2>3 DEF IsChain, N, Within
    <3>2. fat[s[i]] = s[i + 1] /\ fat2[s[i]] = fat[s[i]]
      BY <2>1, <2>3, <3>1 DEF IsChain, N
    <3> QED
      BY <1>2, <2>1, <2>3, <3>2
  <2> QED
    BY <2>2, <2>3
<1>5. ASSUME NEW i \in 1..Len(r), NEW j \in 1..Len(r), r[i] = r[j] PROVE i = j
  <2>1. (i \in 1..N \/ i = N + 1) /\ (j \in 1..N \/ j = N + 1)
    BY <1>1, <1>2
  <2>2. \A k \in 1..N : s[k] # y
    BY DEF Within, N
  <2>3. \A k, l \in 1..N : s[k] = s[l] => k = l
    BY DEF IsChain, N
  <2> QED
    BY <1>2, <1>5, <2>1, <2>2, <2>3
<1>6. r[1] = c /\ Len(r) >= 1 /\ fat2[r[Len(r)]] = Eoc
  <2>1. 1 \in 1..N
    BY <1>1
  <2> QED
    BY <1>1, <1>2, <2>1 DEF IsChain
<1>7. IsChain(fat2, c, r)
  BY <1>2, <1>4, <1>5, <1>6 DEF IsChain
<1> QED
  BY <1>7 DEF r

LEMMA ChainSingle ==
    ASSUME NEW fat, NEW c \in Cluster, fat[c] = Eoc
    PROVE  IsChain(fat, c, <<c>>) /\ Within(<<c>>) = {c} /\ Len(<<c>>) = 1
<1>1. <<c>> \in Seq(Cluster) /\ Len(<<c>>) = 1 /\ <<c>>[1] = c
  OBVIOUS
<1>2. \A i \in 1..1 : i = 1
  OBVIOUS
<1>3. 1..(1 - 1) = {} /\ 1..1 = {1}
  OBVIOUS
<1> QED
  BY <1>1, <1>2, <1>3 DEF IsChain, Within

\* Every member of a chain is allocated.
LEMMA ChainBusy ==
    ASSUME NEW fat, NEW c, NEW s, IsChain(fat, c, s), NEW x \in Within(s)
    PROVE  fat[x] # 0
<1>1. PICK i \in 1..Len(s) : x = s[i]
  BY DEF Within
<1>2. Len(s) \in Nat /\ Len(s) >= 1 /\ \A k \in 1..Len(s) : s[k] \in Cluster
  BY DEF IsChain
<1>3. CASE i = Len(s)
  BY <1>1, <1>3, ClusterFacts DEF IsChain
<1>4. CASE i # Len(s)
  <2>1. i \in 1..(Len(s) - 1) /\ i + 1 \in 1..Len(s)
    BY <1>2, <1>4
  <2> QED
    BY <1>1, <1>2, <2>1, ClusterFacts DEF IsChain
<1> QED
  BY <1>3, <1>4

-----------------------------------------------------------------------------
(* The layout of a volume d: its owners, which are the entries of the root *)
(* directory, those of the directories in it, and NoSlot for the root      *)
(* directory itself; and the chain of each.                                *)

Entry == {"file", "dir"}
IsSlots(x) == x = [slots |-> [i \in 1..Slots |-> x.slots[i]]]

DiskType(d) ==
    /\ d = [b \in Blocks |-> d[b]]
    /\ \A t \in 0..(Copies - 1), c \in Cluster :
          LET x == d[FatBlock(t, c)]
          IN  x = [next |-> [k \in {y \in Cluster : y \div PerSector = c \div PerSector} |-> x.next[k]]]

HeadIn(d, s) == IF s = NoSlot THEN Root ELSE SlotAt(d, s).cluster
Named(d, chain) == {s \in Within(chain) \X (1..Slots) : SlotAt(d, s).kind \in Entry}
InRoot(d) == Named(d, Chain(FatOf(d, 0), Root))

Owners(d) ==
    {NoSlot} \cup InRoot(d)
    \cup UNION {Named(d, Chain(FatOf(d, 0), SlotAt(d, s).cluster)) :
                  s \in {t \in InRoot(d) : SlotAt(d, t).kind = "dir"}}
Chains(d) == [s \in Owners(d) |-> Chain(FatOf(d, 0), HeadIn(d, s))]

\* The directories that are read: the root and those in it.
Listed(d, O, ch) == {t \in O : t = NoSlot \/ (SlotAt(d, t).kind = "dir" /\ t[1] \in Within(ch[NoSlot]))}

Chained(d, O, ch) ==
    \A s \in O : IF HeadIn(d, s) = 0 THEN ch[s] = <<>> ELSE IsChain(FatOf(d, 0), HeadIn(d, s), ch[s])
Apart(O, ch) == \A s, t \in O : s # t => Within(ch[s]) \cap Within(ch[t]) = {}
Sized(d, O, ch) ==
    \A s \in O \ {NoSlot} :
        SlotAt(d, s).kind \in Entry /\ SlotAt(d, s).size \in Nat /\ SlotAt(d, s).size <= Len(ch[s])
Slotted(d, O, ch) ==
    \A s \in O : s = NoSlot \/ SlotAt(d, s).kind = "dir" => \A c \in Within(ch[s]) : IsSlots(d[Data(c)])
Complete(d, O, ch) == \A t \in Listed(d, O, ch) : Named(d, ch[t]) \subseteq O
Anchored(d, O, ch) ==
    \A s \in O \ {NoSlot} : \E t \in Listed(d, O, ch) : s \in Within(ch[t]) \X (1..Slots)

Layout(d, O, ch) ==
    /\ NoSlot \in O /\ ch = [s \in O |-> ch[s]]
    /\ Chained(d, O, ch) /\ Apart(O, ch) /\ Sized(d, O, ch) /\ Slotted(d, O, ch)
    /\ Complete(d, O, ch) /\ Anchored(d, O, ch)

Used(O, ch) == UNION {Within(ch[s]) : s \in O}

-----------------------------------------------------------------------------
(* The phases of an operation.                                             *)

Tree == Layout(disk, Owners(disk), Chains(disk))
InUse == Used(Owners(disk), Chains(disk))
Directories == Listed(disk, Owners(disk), Chains(disk))

\* What a command is for.
Inert(c) ==
    \/ c.do = "sync"
    \/ c.do = "hint" /\ c.b \in {Info(0), Info(1)}
    \/ c.do = "fat" /\ c.at \in Cluster /\ \E t \in 1..(Copies - 1) : c.b = FatBlock(t, c.at)
Sets(c, x, val) == c.do = "fat" /\ c.b = FatBlock(0, x) /\ c.at = x /\ c.to = val
Puts(c, x) == c.do = "put" /\ c.b = Data(x)
Marks(c, s, e) == c.do = "slot" /\ c.b = Data(s[1]) /\ c.at = s[2] /\ c.to = e

AllInert(q) == \A c \in Within(q) : Inert(c)

\* The directory slot the operation writes, and what it names until then.
Placed(s) == \E t \in Directories : s \in Within(Chains(disk)[t]) \X (1..Slots)
Vacant(s) == Placed(s) /\ SlotAt(disk, s).kind \notin Entry
Holds(s, c) == s \in Owners(disk) \ {NoSlot} /\ SlotAt(disk, s).cluster = c
Overwrites == op.do = "write" /\ Holds(op.slot, op.old) /\ SlotAt(disk, op.slot).kind = "file"
Target == Overwrites \/ (op.old = 0 /\ Vacant(op.slot))
Ending(c) == \E t \in Directories : HeadIn(disk, t) # 0 /\ c = Chains(disk)[t][Len(Chains(disk)[t])]

\* The chain under construction.
NewChain == IF op.first = 0 THEN <<>> ELSE Chain(ActiveFat, op.first)
Whole == op.first # 0 => IsChain(ActiveFat, op.first, NewChain)
Built(size) ==
    /\ Whole /\ Within(NewChain) \cap InUse = {} /\ Len(NewChain) = size
    /\ op.first # 0 => NewChain[size] = op.last
Spare(c) == c \in Cluster /\ c \notin InUse /\ c \notin Within(NewChain)
Clears(c, x) == Puts(c, x) /\ c.to = Zero
Claiming(x) ==
    /\ \A c \in Within(todo) : Inert(c) \/ Sets(c, x, Eoc) \/ Clears(c, x)
    /\ ActiveFat[x] = Eoc \/ \E c \in Within(todo) : Sets(c, x, Eoc)
    /\ disk[Data(x)] = Zero \/ \E c \in Within(todo) : Clears(c, x)
Dotted ==
    op.do = "mkdir" /\ op.left = 0 =>
        /\ op.first # 0
        /\ disk[Data(op.first)] = Dots \/ \E c \in Within(todo) : Puts(c, op.first)
        /\ \A c \in Within(todo) : Puts(c, op.first) => c.to = Dots

\* What todo holds, phase by phase.
Searching ==
    /\ AllInert(todo) /\ op.do # "remove" /\ op.first = 0 /\ op.left = op.size
    /\ op.dir # 0 /\ \E t \in Directories : HeadIn(disk, t) = op.dir
    /\ Overwrites \/ (op.slot = NoSlot /\ op.old = 0)
Growing ==
    /\ op.do # "remove" /\ op.first = 0 /\ op.left = op.size /\ op.old = 0
    /\ Spare(op.fresh) /\ Claiming(op.fresh) /\ Ending(op.last)
Extending ==
    /\ todo # <<>> /\ Sets(todo[1], op.last, op.fresh) /\ AllInert(Tail(todo))
    /\ op.slot = <<op.fresh, 1>> /\ op.old = 0 /\ op.first = 0 /\ op.left = op.size
    /\ Spare(op.fresh) /\ ActiveFat[op.fresh] = Eoc /\ disk[Data(op.fresh)] = Zero
    /\ Ending(op.last)
Settled ==
    /\ Built(op.size - op.left) /\ Target /\ Dotted
    /\ \A c \in Within(todo) : Inert(c) \/ (op.first # 0 /\ Puts(c, op.last))
Linking ==
    /\ todo # <<>> /\ op.first # 0 /\ Target /\ Dotted
    /\ Whole /\ Within(NewChain) \cap InUse = {} /\ Len(NewChain) = op.size - op.left - 1
    /\ Sets(todo[1], NewChain[Len(NewChain)], op.last)
    /\ Spare(op.last) /\ ActiveFat[op.last] = Eoc
    /\ \A c \in Within(Tail(todo)) : Inert(c) \/ Puts(c, op.last)
Filling == op.do # "remove" /\ (Extending \/ Settled \/ Linking)
Joining ==
    /\ op.do # "remove" /\ op.left > 0 /\ Built(op.size - op.left) /\ Target
    /\ Spare(op.fresh) /\ Claiming(op.fresh)
Ready ==
    /\ AllInert(todo) /\ op.do # "remove" /\ op.left = 0 /\ Built(op.size) /\ Target /\ Dotted
Doomed == AllInert(todo) /\ op.do = "remove" /\ Holds(op.slot, op.old)

NewEntry == [kind |-> op.new.kind, name |-> op.path[Len(op.path)], cluster |-> op.first, size |-> op.size]
Mild(c) == Inert(c) \/ (Marks(c, <<c.b[2], c.at>>, Deleted) /\ Vacant(<<c.b[2], c.at>>))
Freed == op.old # 0 => /\ IsChain(ActiveFat, op.old, Chain(ActiveFat, op.old))
                       /\ Within(Chain(ActiveFat, op.old)) \cap InUse = {}
Publishing ==
    /\ todo # <<>> /\ Marks(todo[1], op.slot, NewEntry) /\ AllInert(Tail(todo)) /\ op.left = 0
    /\ op.do # "remove" /\ Built(op.size) /\ Target /\ Dotted
Unlinking ==
    /\ todo # <<>> /\ Marks(todo[1], op.slot, Deleted) /\ (\A c \in Within(Tail(todo)) : Mild(c))
    /\ op.do = "remove" /\ Holds(op.slot, op.old)
    /\ \A c \in Within(Tail(todo)) : Inert(c) \/ (c.b[2] = op.slot[1] /\ <<c.b[2], c.at>> # op.slot)
Clearing == Freed /\ \A c \in Within(todo) : Mild(c)
Changing == Publishing \/ Unlinking \/ Clearing
Giving == \A c \in Within(todo) : Inert(c) \/ (Sets(c, c.at, 0) /\ c.at \in Cluster \ InUse)

Phase ==
    /\ pc = "slot" => Searching
    /\ pc = "extend" => Growing
    /\ pc = "fill" => Filling
    /\ pc = "link" => Joining
    /\ pc = "publish" => Ready
    /\ pc = "unlink" => Doomed
    /\ pc = "free" => Changing
    /\ pc \in {"return", "abort"} => Giving
    /\ pc = "idle" => todo = <<>>

IsList(q) == q \in Seq(Within(q))
Caches ==
    /\ fatCache = Invalid \/ fatCache.data = disk[fatCache.lba]
    /\ dirCache = Invalid \/ dirCache.data = disk[dirCache.lba]
Shape(o) ==
    o = [do |-> o.do, path |-> o.path, dir |-> o.dir, slot |-> o.slot, old |-> o.old, first |-> o.first,
         last |-> o.last, fresh |-> o.fresh, left |-> o.left, size |-> o.size, new |-> o.new]
Called ==
    pc # "idle" =>
        /\ Shape(op)
        /\ op.do \in {"write", "mkdir", "remove"} /\ op.left \in Nat /\ op.size \in Nat /\ op.left <= op.size
        /\ op.do = "write" => op.new.kind = "file"
        /\ op.do = "mkdir" => op.new.kind = "dir" /\ op.size = 1
Phases == {"idle", "slot", "extend", "fill", "link", "publish", "unlink", "free", "return", "abort"}
Types ==
    /\ DiskType(disk) /\ IsList(todo) /\ pc \in Phases /\ nextFree \in Cluster
    /\ Caches /\ Called

VolumeInductive == Types /\ Tree /\ Phase

-----------------------------------------------------------------------------
(* What is on the volume besides its entries, while no transfer has failed *)
(* and power has not: an operation accounts for every cluster it holds.    *)

\* A reader gets to every entry: none lies behind the end of its directory.
Shown(d, chain) ==
    \A p \in Places(chain) : SlotAt(d, SlotOf(chain, p)).kind \in Entry => \A q \in Ends(d, chain) : Earlier(p, q)
AllShown(d, O, ch) == \A t \in Listed(d, O, ch) : Shown(d, ch[t])
Listing == AllShown(disk, Owners(disk), Chains(disk))

\* The same holds once the slot s names something.
Reaches(d, chain, s) ==
    \E p \in Places(chain) : SlotOf(chain, p) = s /\ \A q \in Ends(d, chain) : ~Earlier(q, p)
Reached(s) == \E t \in Directories : Reaches(disk, Chains(disk)[t], s)

\* The directory that ends with c has no end.
Full(c) ==
    \E t \in Directories : /\ HeadIn(disk, t) # 0 /\ c = Chains(disk)[t][Len(Chains(disk)[t])]
                           /\ Ends(disk, Chains(disk)[t]) = {}

\* No entry lies in what s owns.
Emptied(s) == s \in Owners(disk) /\ \A r \in Owners(disk) : r[1] \notin Within(Chains(disk)[s])

\* Every allocated cluster outside X belongs to an entry.
Only(X) == \A c \in Cluster : ActiveFat[c] # 0 => c \in InUse \cup X

ToFree == {c.at : c \in {x \in Within(todo) : Sets(x, x.at, 0)}}

Account ==
    /\ pc \in {"idle", "slot"} => Only({})
    /\ pc = "extend" => Only({op.fresh}) /\ Full(op.last)
    /\ pc = "fill" => \/ Extending /\ Only({op.fresh}) /\ Full(op.last)
                      \/ Settled /\ Only(Within(NewChain)) /\ Reached(op.slot)
                      \/ Linking /\ Only(Within(NewChain) \cup {op.last}) /\ Reached(op.slot)
    /\ pc = "link" => Only(Within(NewChain) \cup {op.fresh}) /\ Reached(op.slot)
    /\ pc = "publish" => Only(Within(NewChain)) /\ Reached(op.slot)
    /\ pc = "unlink" => Only({}) /\ Emptied(op.slot)
    /\ pc = "free" => \/ Publishing /\ Only(Within(NewChain)) /\ Reached(op.slot)
                      \/ Unlinking /\ Only({}) /\ Emptied(op.slot)
                      \/ Clearing /\ Only(Within(Chain(ActiveFat, op.old)))
    /\ pc \in {"return", "abort"} => Only(ToFree)
    /\ pc # "idle" /\ op.do = "mkdir" => op.old = 0

Tidy == Listing /\ Account

-----------------------------------------------------------------------------
(* Facts about layouts.                                                    *)

LEMMA BlockFacts ==
    /\ \A c \in Cluster : Data(c) \in Blocks /\ \A t \in 0..(Copies - 1) : FatBlock(t, c) \in Blocks
    /\ \A c, x : Data(c) = Data(x) => c = x
    /\ \A c, x, t : Data(c) # FatBlock(t, x)
    /\ \A c, x, t, u : FatBlock(t, c) = FatBlock(u, x) => t = u /\ c \div PerSector = x \div PerSector
    /\ \A i, c, t : Info(i) # Data(c) /\ Info(i) # FatBlock(t, c)
<1>1. \A c \in Cluster : Data(c) \in Blocks
  BY DEF Blocks
<1>2. ASSUME NEW c \in Cluster, NEW t \in 0..(Copies - 1) PROVE FatBlock(t, c) \in Blocks
  <2>1. c \div PerSector \in Sectors
    BY DEF Sectors
  <2> QED
    BY <2>1 DEF Blocks, FatBlock
<1>3. /\ \A c, x : Data(c) = Data(x) => c = x
      /\ \A c, x, t : Data(c) # FatBlock(t, x)
      /\ \A i, c, t : Info(i) # Data(c) /\ Info(i) # FatBlock(t, c)
  BY DEF Data, FatBlock, Info
<1>4. \A c, x, t, u : FatBlock(t, c) = FatBlock(u, x) => t = u /\ c \div PerSector = x \div PerSector
  BY DEF FatBlock
<1> QED
  BY <1>1, <1>2, <1>3, <1>4

LEMMA SlotIn ==
    ASSUME NEW d, NEW s, s \in Cluster \X (1..Slots), IsSlots(d[Data(s[1])])
    PROVE  s # NoSlot /\ SlotAt(d, s) = d[Data(s[1])].slots[s[2]]
<1>1. s[1] \in Cluster /\ s[1] # 0
  BY ClusterFacts
<1>2. s # NoSlot
  BY <1>1 DEF NoSlot
<1>3. "slots" \in DOMAIN d[Data(s[1])]
  BY DEF IsSlots
<1> QED
  BY <1>2, <1>3 DEF SlotAt

LEMMA OwnChain ==
    ASSUME NEW d, NEW O, NEW ch, Layout(d, O, ch), NEW s \in O
    PROVE  /\ ch[s] = Chain(FatOf(d, 0), HeadIn(d, s)) /\ Within(ch[s]) \subseteq Cluster
           /\ Len(ch[s]) \in Nat
           /\ HeadIn(d, s) # 0 => IsChain(FatOf(d, 0), HeadIn(d, s), ch[s]) /\ Sound(FatOf(d, 0), HeadIn(d, s))
           /\ IsFiniteSet(Within(ch[s])) /\ Cardinality(Within(ch[s])) = Len(ch[s])
<1>1. CASE HeadIn(d, s) = 0
  <2>1. ch[s] = <<>>
    BY <1>1 DEF Layout, Chained
  <2>2. Chain(FatOf(d, 0), 0) = <<>>
    BY ClusterFacts, ChainNone
  <2>3. Within(<<>>) = {} /\ Len(<<>>) = 0
    BY DEF Within
  <2> QED
    BY <1>1, <2>1, <2>2, <2>3, FS_EmptySet
<1>2. CASE HeadIn(d, s) # 0
  <2>1. IsChain(FatOf(d, 0), HeadIn(d, s), ch[s])
    BY <1>2 DEF Layout, Chained
  <2> QED
    BY <1>2, <2>1, ChainIs, ChainBound, ClusterFacts
<1> QED
  BY <1>1, <1>2

\* A slot of a directory that is read: a pair of one of its clusters and a
\* place in it.
LEMMA OwnSlot ==
    ASSUME NEW d, NEW O, NEW ch, Layout(d, O, ch), NEW s \in O, s # NoSlot
    PROVE  /\ s \in Cluster \X (1..Slots) /\ s = <<s[1], s[2]>>
           /\ SlotAt(d, s).kind \in Entry /\ s[1] \in Used(O, ch)
           /\ IsSlots(d[Data(s[1])])
<1>1. PICK t \in Listed(d, O, ch) : s \in Within(ch[t]) \X (1..Slots)
  BY DEF Layout, Anchored
<1>2. t \in O /\ (t = NoSlot \/ SlotAt(d, t).kind = "dir")
  BY DEF Listed
<1>3. Within(ch[t]) \subseteq Cluster
  BY <1>2, OwnChain
<1>4. SlotAt(d, s).kind \in Entry
  BY DEF Layout, Sized
<1>5. s[1] \in Within(ch[t]) /\ s = <<s[1], s[2]>>
  BY <1>1
<1>6. IsSlots(d[Data(s[1])])
  BY <1>2, <1>5 DEF Layout, Slotted
<1> QED
  BY <1>1, <1>2, <1>3, <1>4, <1>5, <1>6 DEF Used

\* A volume has one layout.
LEMMA LayoutOf ==
    ASSUME NEW d, NEW O, NEW ch, Layout(d, O, ch)
    PROVE  O = Owners(d) /\ ch = Chains(d)
<1> DEFINE fat == FatOf(d, 0)
<1>1. NoSlot \in O /\ HeadIn(d, NoSlot) = Root /\ ch[NoSlot] = Chain(fat, Root) /\ NoSlot \in Listed(d, O, ch)
  BY OwnChain DEF Layout, HeadIn, Listed
<1>2. InRoot(d) = Named(d, ch[NoSlot]) /\ InRoot(d) \subseteq O
  BY <1>1 DEF InRoot, Layout, Complete
<1>3. ASSUME NEW t \in InRoot(d) PROVE t # NoSlot /\ t \in O /\ t[1] \in Within(ch[NoSlot]) /\ SlotAt(d, t).cluster = HeadIn(d, t)
  <2>1. t \in Within(ch[NoSlot]) \X (1..Slots)
    BY <1>2 DEF Named
  <2>2. Within(ch[NoSlot]) \subseteq Cluster
    BY <1>1, OwnChain
  <2>3. t[1] \in Cluster /\ t[1] # 0
    BY <2>1, <2>2, ClusterFacts
  <2>4. t # NoSlot
    BY <2>3 DEF NoSlot
  <2> QED
    BY <1>2, <2>1, <2>4 DEF HeadIn
<1>4. ASSUME NEW t \in InRoot(d), SlotAt(d, t).kind = "dir"
      PROVE  t \in Listed(d, O, ch) /\ Named(d, ch[t]) \subseteq O /\ ch[t] = Chain(fat, SlotAt(d, t).cluster)
  <2>1. t \in Listed(d, O, ch)
    BY <1>3, <1>4 DEF Listed
  <2> QED
    BY <1>3, <2>1, OwnChain DEF Layout, Complete
<1>5. Owners(d) \subseteq O
  BY <1>1, <1>2, <1>4 DEF Owners
<1>6. ASSUME NEW s \in O, s # NoSlot PROVE s \in Owners(d)
  <2>1. PICK t \in Listed(d, O, ch) : s \in Within(ch[t]) \X (1..Slots)
    BY <1>6 DEF Layout, Anchored
  <2>2. s \in Named(d, ch[t])
    BY <1>6, <2>1 DEF Named, Layout, Sized
  <2>3. CASE t = NoSlot
    BY <1>2, <2>2, <2>3 DEF Owners
  <2>4. CASE t # NoSlot
    <3>1. t \in O /\ SlotAt(d, t).kind = "dir" /\ t[1] \in Within(ch[NoSlot])
      BY <2>1, <2>4 DEF Listed
    <3>2. t = <<t[1], t[2]>> /\ t[2] \in 1..Slots
      BY <2>4, <3>1, OwnSlot
    <3>3. t \in Named(d, ch[NoSlot])
      BY <3>1, <3>2 DEF Named, Entry
    <3>4. t \in InRoot(d)
      BY <1>2, <3>3
    <3> QED
      BY <1>4, <2>2, <3>1, <3>4 DEF Owners
  <2> QED
    BY <2>3, <2>4
<1>7. O = Owners(d)
  BY <1>5, <1>6 DEF Owners
<1>8. \A s \in O : ch[s] = Chain(fat, HeadIn(d, s))
  BY OwnChain
<1>9. ch = [s \in O |-> Chain(fat, HeadIn(d, s))]
  BY <1>8 DEF Layout
<1> QED
  BY <1>7, <1>9 DEF Chains

\* What EntriesOf lists are slots of the directory's chain.
LEMMA EntriesNamed ==
    ASSUME NEW d, NEW fat, NEW dir
    PROVE  EntriesOf(d, fat, dir) \subseteq Named(d, Chain(fat, dir))
<1> SUFFICES ASSUME NEW s \in EntriesOf(d, fat, dir) PROVE s \in Named(d, Chain(fat, dir))
  OBVIOUS
<1>1. PICK chain : chain = Chain(fat, dir)
  OBVIOUS
<1>2. PICK p \in Places(chain) : s = SlotOf(chain, p) /\ SlotAt(d, s).kind \in Entry
  BY <1>1 DEF EntriesOf, ReadDirectory, Entry
<1>3. p[1] \in 1..Len(chain) /\ p[2] \in 1..Slots
  BY DEF Places
<1>4. s \in Within(chain) \X (1..Slots)
  BY <1>2, <1>3 DEF SlotOf, Within
<1> QED
  BY <1>1, <1>2, <1>4 DEF Named

\* The entries a lookup can find are owners.
LEMMA EntriesOwn ==
    ASSUME NEW d, NEW O, NEW ch, Layout(d, O, ch), NEW t \in Listed(d, O, ch)
    PROVE  EntriesOf(d, FatOf(d, 0), HeadIn(d, t)) \subseteq O \ {NoSlot}
<1>1. t \in O /\ Named(d, ch[t]) \subseteq O
  BY DEF Listed, Layout, Complete
<1>2. ch[t] = Chain(FatOf(d, 0), HeadIn(d, t)) /\ Within(ch[t]) \subseteq Cluster
  BY <1>1, OwnChain
<1>3. NoSlot \notin Named(d, ch[t])
  BY <1>2, ClusterFacts DEF Named, NoSlot
<1> QED
  BY <1>1, <1>2, <1>3, EntriesNamed

LEMMA RootListed ==
    ASSUME NEW d, NEW O, NEW ch, Layout(d, O, ch)
    PROVE  NoSlot \in Listed(d, O, ch) /\ HeadIn(d, NoSlot) = Root
  BY DEF Layout, Listed, HeadIn

\* A directory among the entries of the root is read.
LEMMA DirectoryListed ==
    ASSUME NEW d, NEW O, NEW ch, Layout(d, O, ch), NEW s \in EntriesOf(d, FatOf(d, 0), Root),
           SlotAt(d, s).kind = "dir"
    PROVE  s \in Listed(d, O, ch) /\ HeadIn(d, s) = SlotAt(d, s).cluster /\ s # NoSlot
<1>1. s \in O /\ s # NoSlot
  BY RootListed, EntriesOwn
<1>2. ch[NoSlot] = Chain(FatOf(d, 0), Root)
  BY RootListed, OwnChain DEF Layout
<1>3. s \in Named(d, ch[NoSlot])
  BY <1>2, EntriesNamed
<1>4. s[1] \in Within(ch[NoSlot])
  BY <1>3 DEF Named
<1> QED
  BY <1>1, <1>4 DEF Listed, HeadIn

LEMMA LayoutSound ==
    ASSUME NEW O, NEW ch, Layout(disk, O, ch)
    PROVE  SoundChains
<1>1. ActiveFat = FatOf(disk, 0) /\ \A s : HeadOf(s) = HeadIn(disk, s)
  BY DEF ActiveFat, HeadOf, HeadIn
<1>2. ASSUME NEW s \in O PROVE ChainSet(s) = Within(ch[s])
  <2>1. ch[s] = Chain(ActiveFat, HeadOf(s))
    BY <1>1, OwnChain
  <2> QED
    BY <2>1 DEF ChainSet, Within
<1>3. LiveSlots \subseteq O \ {NoSlot}
  <2>1. EntriesOf(disk, ActiveFat, Root) \subseteq O \ {NoSlot}
    BY <1>1, RootListed, EntriesOwn
  <2>2. ASSUME NEW s \in EntriesOf(disk, ActiveFat, Root), SlotAt(disk, s).kind = "dir"
        PROVE  EntriesOf(disk, ActiveFat, SlotAt(disk, s).cluster) \subseteq O \ {NoSlot}
    BY <1>1, <2>2, DirectoryListed, EntriesOwn
  <2> QED
    BY <2>1, <2>2 DEF LiveSlots
<1> DEFINE live == LiveSlots \cup {NoSlot}
<1>4. live \subseteq O
  BY <1>3 DEF Layout
<1>5. \A s \in live : HeadOf(s) # 0 => Sound(ActiveFat, HeadOf(s))
  BY <1>1, <1>4, OwnChain
<1>6. \A s, t \in live : s # t => ChainSet(s) \cap ChainSet(t) = {}
  BY <1>2, <1>4 DEF Layout, Apart
<1>7. ASSUME NEW s \in live \ {NoSlot} PROVE SlotAt(disk, s).size <= Cardinality(ChainSet(s))
  <2>1. s \in O \ {NoSlot} /\ SlotAt(disk, s).size <= Len(ch[s])
    BY <1>4 DEF Layout, Sized
  <2> QED
    BY <1>2, <2>1, OwnChain
<1>8. ASSUME NEW s \in live, s = NoSlot \/ SlotAt(disk, s).kind = "dir", NEW c \in ChainSet(s)
      PROVE  "slots" \in DOMAIN disk[Data(c)]
  <2>1. s \in O /\ c \in Within(ch[s])
    BY <1>2, <1>4
  <2>2. IsSlots(disk[Data(c)])
    BY <1>8, <2>1 DEF Layout, Slotted
  <2> QED
    BY <2>2 DEF IsSlots
<1> QED
  BY <1>5, <1>6, <1>7, <1>8 DEF SoundChains

-----------------------------------------------------------------------------
(* How a layout changes.                                                   *)

LEMMA SlotSame ==
    ASSUME NEW d, NEW d2, NEW s, d2[Data(s[1])] = d[Data(s[1])]
    PROVE  SlotAt(d2, s) = SlotAt(d, s)
  BY DEF SlotAt

\* Writes outside the chains of the owners leave the layout alone.
LEMMA LayoutFrame ==
    ASSUME NEW d, NEW d2, NEW O, NEW ch, Layout(d, O, ch),
           \A x \in Used(O, ch) : FatOf(d2, 0)[x] = FatOf(d, 0)[x] /\ d2[Data(x)] = d[Data(x)]
    PROVE  Layout(d2, O, ch) /\ Listed(d2, O, ch) = Listed(d, O, ch)
<1>1. \A s \in O : Within(ch[s]) \subseteq Used(O, ch)
  BY DEF Used
<1>2. ASSUME NEW s \in O PROVE SlotAt(d2, s) = SlotAt(d, s) /\ HeadIn(d2, s) = HeadIn(d, s)
  <2>1. CASE s = NoSlot
    BY <2>1 DEF SlotAt, HeadIn
  <2>2. CASE s # NoSlot
    <3>1. d2[Data(s[1])] = d[Data(s[1])]
      BY <2>2, OwnSlot
    <3> QED
      BY <3>1, SlotSame DEF HeadIn
  <2> QED
    BY <2>1, <2>2
<1>3. Listed(d2, O, ch) = Listed(d, O, ch)
  BY <1>2 DEF Listed
<1>4. Chained(d2, O, ch)
  <2>1. ASSUME NEW s \in O, HeadIn(d, s) # 0 PROVE IsChain(FatOf(d2, 0), HeadIn(d, s), ch[s])
    <3>1. IsChain(FatOf(d, 0), HeadIn(d, s), ch[s])
      BY <2>1 DEF Layout, Chained
    <3>2. \A x \in Within(ch[s]) : FatOf(d2, 0)[x] = FatOf(d, 0)[x]
      BY <1>1
    <3> QED
      BY <3>1, <3>2, ChainFrame
  <2> QED
    BY <1>2, <2>1 DEF Layout, Chained
<1>5. Sized(d2, O, ch) /\ Slotted(d2, O, ch)
  BY <1>1, <1>2 DEF Layout, Sized, Slotted
<1>6. ASSUME NEW t \in O PROVE Named(d2, ch[t]) = Named(d, ch[t])
  <2>1. \A s \in Within(ch[t]) \X (1..Slots) : SlotAt(d2, s) = SlotAt(d, s)
    BY <1>1, SlotSame
  <2> QED
    BY <2>1 DEF Named
<1>7. Complete(d2, O, ch) /\ Anchored(d2, O, ch)
  BY <1>3, <1>6 DEF Layout, Complete, Anchored, Listed
<1> QED
  BY <1>3, <1>4, <1>5, <1>7 DEF Layout

\* A cleared cluster linked to the end of a directory.
LEMMA LayoutExtend ==
    ASSUME NEW d, NEW d2, NEW O, NEW ch, Layout(d, O, ch), NEW t \in Listed(d, O, ch), HeadIn(d, t) # 0,
           NEW y \in Cluster, y \notin Used(O, ch), FatOf(d2, 0)[y] = Eoc, d2[Data(y)] = Zero,
           FatOf(d2, 0)[ch[t][Len(ch[t])]] = y,
           \A x \in Used(O, ch) : d2[Data(x)] = d[Data(x)],
           \A x \in Used(O, ch) : x # ch[t][Len(ch[t])] => FatOf(d2, 0)[x] = FatOf(d, 0)[x],
           NEW ch2, ch2 = [s \in O |-> IF s = t THEN Longer(ch[t], y) ELSE ch[s]]
    PROVE  /\ Layout(d2, O, ch2) /\ Listed(d2, O, ch2) = Listed(d, O, ch)
           /\ Used(O, ch2) = Used(O, ch) \cup {y}
<1>1. \A s \in O : Within(ch[s]) \subseteq Used(O, ch)
  BY DEF Used
<1>2. ASSUME NEW s \in O PROVE SlotAt(d2, s) = SlotAt(d, s) /\ HeadIn(d2, s) = HeadIn(d, s)
  <2>1. CASE s = NoSlot
    BY <2>1 DEF SlotAt, HeadIn
  <2>2. CASE s # NoSlot
    <3>1. d2[Data(s[1])] = d[Data(s[1])]
      BY <2>2, OwnSlot
    <3> QED
      BY <3>1, SlotSame DEF HeadIn
  <2> QED
    BY <2>1, <2>2
<1>3. t \in O /\ IsChain(FatOf(d, 0), HeadIn(d, t), ch[t]) /\ (t = NoSlot \/ SlotAt(d, t).kind = "dir")
  BY DEF Listed, Layout, Chained
<1>4. /\ IsChain(FatOf(d2, 0), HeadIn(d, t), Longer(ch[t], y))
      /\ Within(Longer(ch[t], y)) = Within(ch[t]) \cup {y} /\ Len(Longer(ch[t], y)) = Len(ch[t]) + 1
  <2>1. y \notin Within(ch[t]) /\ \A x \in Within(ch[t]) : x # ch[t][Len(ch[t])] => FatOf(d2, 0)[x] = FatOf(d, 0)[x]
    BY <1>1, <1>3
  <2>2. Links(FatOf(d, 0), FatOf(d2, 0), ch[t], y)
    BY <2>1 DEF Links
  <2>3. IsChain(FatOf(d2, 0), HeadIn(d, t), Longer(ch[t], y))
    BY <1>3, <2>2, ChainAppend
  <2>4. ch[t] \in Seq(Cluster)
    BY <1>3 DEF IsChain
  <2> QED
    BY <2>3, <2>4, LongerFacts
<1>5. /\ ch2[t] = Longer(ch[t], y) /\ Within(ch2[t]) = Within(ch[t]) \cup {y}
      /\ \A s \in O : s # t => ch2[s] = ch[s]
  BY <1>3, <1>4
<1>6. Used(O, ch2) = Used(O, ch) \cup {y}
  <2>1. ASSUME NEW x PROVE x \in Used(O, ch2) <=> x \in Used(O, ch) \/ x = y
    <3>1. \A s \in O : s # t => Within(ch2[s]) = Within(ch[s])
      BY <1>5
    <3> QED
      BY <1>3, <1>5, <3>1 DEF Used
  <2> QED
    BY <2>1
<1>7. Listed(d2, O, ch2) = Listed(d, O, ch)
  <2>1. ASSUME NEW s \in O, s # NoSlot PROVE s[1] \in Within(ch2[NoSlot]) <=> s[1] \in Within(ch[NoSlot])
    <3>1. s[1] # y
      BY <2>1, OwnSlot
    <3>2. NoSlot \in O
      BY DEF Layout
    <3> QED
      BY <1>5, <3>1, <3>2
  <2> QED
    BY <1>2, <2>1 DEF Listed
<1>8. Chained(d2, O, ch2)
  <2>1. ASSUME NEW s \in O, s # t PROVE IF HeadIn(d2, s) = 0 THEN ch2[s] = <<>> ELSE IsChain(FatOf(d2, 0), HeadIn(d2, s), ch2[s])
    <3>1. CASE HeadIn(d, s) = 0
      BY <1>2, <1>5, <2>1, <3>1 DEF Layout, Chained
    <3>2. CASE HeadIn(d, s) # 0
      <4>1. IsChain(FatOf(d, 0), HeadIn(d, s), ch[s])
        BY <3>2 DEF Layout, Chained
      <4>2. ch[t][Len(ch[t])] \in Within(ch[t])
        BY <1>3 DEF IsChain, Within
      <4>3. \A x \in Within(ch[s]) : FatOf(d2, 0)[x] = FatOf(d, 0)[x]
        BY <1>1, <1>3, <2>1, <4>2 DEF Layout, Apart
      <4>4. IsChain(FatOf(d2, 0), HeadIn(d, s), ch[s])
        BY <4>1, <4>3, ChainFrame
      <4> QED
        BY <1>2, <1>5, <2>1, <3>2, <4>4
    <3> QED
      BY <3>1, <3>2
  <2>2. HeadIn(d2, t) # 0 /\ IsChain(FatOf(d2, 0), HeadIn(d2, t), ch2[t])
    BY <1>2, <1>3, <1>4, <1>5
  <2> QED
    BY <2>1, <2>2 DEF Chained
<1>9. Apart(O, ch2)
  <2>1. ASSUME NEW r \in O, NEW s \in O, r # s, NEW x \in Within(ch2[r]), x \in Within(ch2[s]) PROVE FALSE
    <3>1. x \in Within(ch[r]) \cup {y} /\ x \in Within(ch[s]) \cup {y}
      BY <1>5, <2>1
    <3>2. x \notin Within(ch[r]) \/ x \notin Within(ch[s])
      BY <2>1 DEF Layout, Apart
    <3>3. x = y /\ (r # t \/ s # t)
      BY <2>1, <3>1, <3>2, <1>5
    <3> QED
      BY <1>1, <1>5, <2>1, <3>3
  <2> QED
    BY <2>1 DEF Apart
<1>10. Sized(d2, O, ch2)
  <2>1. ASSUME NEW s \in O, s # NoSlot
        PROVE  SlotAt(d, s).kind \in Entry /\ SlotAt(d, s).size \in Nat /\ SlotAt(d, s).size <= Len(ch2[s])
    <3>1. SlotAt(d, s).kind \in Entry /\ SlotAt(d, s).size \in Nat /\ SlotAt(d, s).size <= Len(ch[s]) /\ Len(ch[s]) \in Nat
      BY <2>1, OwnChain DEF Layout, Sized
    <3>2. Len(ch2[s]) \in {Len(ch[s]), Len(ch[s]) + 1}
      BY <1>4, <1>5
    <3> QED
      BY <3>1, <3>2
  <2> QED
    BY <1>2, <2>1 DEF Sized
<1>11. IsSlots(Zero) /\ \A i \in 1..Slots : Zero.slots[i].kind = "end"
  BY DEF IsSlots, Zero, End
<1>12. Slotted(d2, O, ch2)
  <2>1. ASSUME NEW s \in O, s = NoSlot \/ SlotAt(d, s).kind = "dir", NEW c \in Within(ch2[s]) PROVE IsSlots(d2[Data(c)])
    <3>1. CASE c = y
      BY <1>11, <3>1
    <3>2. CASE c # y
      <4>1. c \in Within(ch[s])
        BY <1>5, <2>1, <3>2
      <4> QED
        BY <1>1, <2>1, <4>1 DEF Layout, Slotted
    <3> QED
      BY <3>1, <3>2
  <2> QED
    BY <1>2, <2>1 DEF Slotted
<1>13. ASSUME NEW r \in O PROVE Named(d2, ch2[r]) = Named(d, ch[r])
  <2>1. \A s \in Within(ch[r]) \X (1..Slots) : SlotAt(d2, s) = SlotAt(d, s)
    BY <1>1, SlotSame
  <2>2. ASSUME NEW s, s \in {y} \X (1..Slots) PROVE SlotAt(d2, s).kind \notin Entry
    <3>1. s \in Cluster \X (1..Slots) /\ s[1] = y /\ s[2] \in 1..Slots
      BY <2>2
    <3>2. IsSlots(d2[Data(s[1])])
      BY <1>11, <3>1
    <3> QED
      BY <1>11, <3>1, <3>2, SlotIn DEF Entry
  <2>3. Within(ch2[r]) \in {Within(ch[r]), Within(ch[r]) \cup {y}}
    BY <1>5
  <2>4. ASSUME NEW s \in Named(d2, ch2[r]) PROVE s \in Named(d, ch[r])
    <3>1. s \in Within(ch[r]) \X (1..Slots) \/ s \in {y} \X (1..Slots)
      BY <2>3 DEF Named
    <3> QED
      BY <2>1, <2>2, <3>1 DEF Named
  <2>5. ASSUME NEW s \in Named(d, ch[r]) PROVE s \in Named(d2, ch2[r])
    <3>1. s \in Within(ch2[r]) \X (1..Slots)
      BY <2>3 DEF Named
    <3> QED
      BY <2>1, <3>1 DEF Named
  <2> QED
    BY <2>4, <2>5
<1>14. Complete(d2, O, ch2)
  BY <1>7, <1>13 DEF Layout, Complete, Listed
<1>15. Anchored(d2, O, ch2)
  <2>1. \A s \in O : Within(ch[s]) \subseteq Within(ch2[s])
    BY <1>5
  <2>2. Listed(d, O, ch) \subseteq O
    BY DEF Listed
  <2>3. ASSUME NEW s \in O, s # NoSlot PROVE \E r \in Listed(d2, O, ch2) : s \in Within(ch2[r]) \X (1..Slots)
    <3>1. PICK r \in Listed(d, O, ch) : s \in Within(ch[r]) \X (1..Slots)
      BY <2>3 DEF Layout, Anchored
    <3>2. s \in Within(ch2[r]) \X (1..Slots)
      BY <2>1, <2>2, <3>1
    <3> QED
      BY <1>7, <3>2
  <2> QED
    BY <2>3 DEF Anchored
<1>16. NoSlot \in O /\ ch2 = [s \in O |-> ch2[s]]
  BY DEF Layout
<1> QED
  BY <1>6, <1>7, <1>8, <1>9, <1>10, <1>12, <1>14, <1>15, <1>16 DEF Layout

\* One slot of a directory is written.
Marked(d, d2, s, e) ==
    /\ s \in Cluster \X (1..Slots) /\ FatOf(d2, 0) = FatOf(d, 0) /\ SlotAt(d2, s) = e
    /\ \A c \in Cluster : IsSlots(d[Data(c)]) => IsSlots(d2[Data(c)])
    /\ \A c \in Cluster : c # s[1] => d2[Data(c)] = d[Data(c)]
    /\ \A r \in Cluster \X (1..Slots) : r # s => SlotAt(d2, r) = SlotAt(d, r)

LEMMA SlotWrite ==
    ASSUME NEW d, NEW d2, NEW s \in Cluster \X (1..Slots), NEW e, IsSlots(d[Data(s[1])]), DiskType(d),
           d2 = [d EXCEPT ![Data(s[1])] = [d[Data(s[1])] EXCEPT !.slots[s[2]] = e]]
    PROVE  Marked(d, d2, s, e)
<1>1. s[1] \in Cluster /\ s[2] \in 1..Slots /\ Data(s[1]) \in Blocks /\ Data(s[1]) \in DOMAIN d
  BY BlockFacts DEF DiskType
<1>2. \A b : b # Data(s[1]) => d2[b] = d[b]
  OBVIOUS
<1>3. FatOf(d2, 0) = FatOf(d, 0)
  BY <1>2, BlockFacts DEF FatOf
<1>4. \A c \in Cluster : c # s[1] => d2[Data(c)] = d[Data(c)]
  BY <1>2, BlockFacts
<1>5. PICK x, y : x = d[Data(s[1])] /\ y = [i \in 1..Slots |-> x.slots[i]]
  OBVIOUS
<1>6. x = [slots |-> y]
  BY <1>5 DEF IsSlots
<1>7. d2[Data(s[1])] = [slots |-> [y EXCEPT ![s[2]] = e]]
  <2>1. d2[Data(s[1])] = [x EXCEPT !.slots[s[2]] = e]
    BY <1>1, <1>5
  <2> QED
    BY <1>6, <2>1
<1>8. /\ d2[Data(s[1])].slots = [y EXCEPT ![s[2]] = e] /\ IsSlots(d2[Data(s[1])])
      /\ d2[Data(s[1])].slots[s[2]] = e
      /\ \A i \in 1..Slots : i # s[2] => d2[Data(s[1])].slots[i] = d[Data(s[1])].slots[i]
  <2>1. [y EXCEPT ![s[2]] = e] = [i \in 1..Slots |-> IF i = s[2] THEN e ELSE x.slots[i]]
    BY <1>1, <1>5
  <2>2. PICK z : z = [i \in 1..Slots |-> IF i = s[2] THEN e ELSE x.slots[i]]
    OBVIOUS
  <2>3. d2[Data(s[1])] = [slots |-> z] /\ z[s[2]] = e /\ \A i \in 1..Slots : i # s[2] => z[i] = x.slots[i]
    BY <1>1, <1>7, <2>1, <2>2
  <2>4. [slots |-> z].slots = z /\ z = [i \in 1..Slots |-> z[i]]
    BY <2>2
  <2>5. IsSlots([slots |-> z])
    BY <2>4 DEF IsSlots
  <2>6. d2[Data(s[1])].slots = z /\ IsSlots(d2[Data(s[1])])
    BY <2>3, <2>4, <2>5
  <2> QED
    BY <1>5, <2>1, <2>2, <2>3, <2>6
<1>9. SlotAt(d2, s) = e
  BY <1>8, SlotIn
<1>10. \A c \in Cluster : IsSlots(d[Data(c)]) => IsSlots(d2[Data(c)])
  BY <1>4, <1>8
<1>11. ASSUME NEW r \in Cluster \X (1..Slots), r # s PROVE SlotAt(d2, r) = SlotAt(d, r)
  <2>1. CASE r[1] = s[1]
    <3>1. r[2] \in 1..Slots /\ r[2] # s[2]
      BY <1>11, <2>1
    <3>2. SlotAt(d, r) = d[Data(s[1])].slots[r[2]] /\ SlotAt(d2, r) = d2[Data(s[1])].slots[r[2]]
      <4>1. IsSlots(d[Data(r[1])]) /\ IsSlots(d2[Data(r[1])])
        BY <1>8, <2>1
      <4>2. SlotAt(d, r) = d[Data(r[1])].slots[r[2]] /\ SlotAt(d2, r) = d2[Data(r[1])].slots[r[2]]
        BY <4>1, SlotIn
      <4> QED
        BY <2>1, <4>2
    <3> QED
      BY <1>8, <3>1, <3>2
  <2>2. CASE r[1] # s[1]
    <3>1. r[1] \in Cluster
      OBVIOUS
    <3>2. d2[Data(r[1])] = d[Data(r[1])]
      BY <1>4, <2>2, <3>1
    <3> QED
      BY <3>2, SlotSame
  <2> QED
    BY <2>1, <2>2
<1> QED
  BY <1>3, <1>4, <1>9, <1>10, <1>11 DEF Marked

LEMMA NoSlotAt == ASSUME NEW d, NEW d2 PROVE SlotAt(d2, NoSlot) = SlotAt(d, NoSlot)
  BY DEF SlotAt

LEMMA UsedBy ==
    ASSUME NEW d, NEW O, NEW ch, Layout(d, O, ch), NEW s \in O
    PROVE  Within(ch[s]) \subseteq Used(O, ch) /\ Used(O, ch) \subseteq Cluster
  BY OwnChain DEF Used

\* A slot that names nothing is written and still names nothing.
LEMMA LayoutQuiet ==
    ASSUME NEW d, NEW d2, NEW O, NEW ch, Layout(d, O, ch), NEW s, NEW e, Marked(d, d2, s, e),
           SlotAt(d, s).kind \notin Entry, e.kind \notin Entry
    PROVE  Layout(d2, O, ch) /\ Listed(d2, O, ch) = Listed(d, O, ch)
<1>1. ASSUME NEW r \in O PROVE SlotAt(d2, r) = SlotAt(d, r) /\ HeadIn(d2, r) = HeadIn(d, r)
  <2>1. CASE r = NoSlot
    BY <2>1, NoSlotAt DEF HeadIn
  <2>2. CASE r # NoSlot
    <3>1. r \in Cluster \X (1..Slots) /\ r # s
      BY <2>2, OwnSlot
    <3> QED
      BY <3>1 DEF Marked, HeadIn
  <2> QED
    BY <2>1, <2>2
<1>2. Listed(d2, O, ch) = Listed(d, O, ch)
  BY <1>1 DEF Listed
<1>3. Chained(d2, O, ch) /\ Sized(d2, O, ch)
  BY <1>1 DEF Layout, Chained, Sized, Marked
<1>4. Slotted(d2, O, ch)
  <2>1. ASSUME NEW r \in O, r = NoSlot \/ SlotAt(d, r).kind = "dir", NEW c \in Within(ch[r])
        PROVE  IsSlots(d2[Data(c)])
    <3>1. c \in Cluster /\ IsSlots(d[Data(c)])
      BY <2>1, OwnChain DEF Layout, Slotted
    <3> QED
      BY <3>1 DEF Marked
  <2> QED
    BY <1>1, <2>1 DEF Slotted
<1>5. ASSUME NEW r \in O PROVE Named(d2, ch[r]) = Named(d, ch[r])
  <2>1. ASSUME NEW x \in Within(ch[r]) \X (1..Slots) PROVE SlotAt(d2, x).kind \in Entry <=> SlotAt(d, x).kind \in Entry
    <3>1. x \in Cluster \X (1..Slots)
      BY OwnChain
    <3> QED
      BY <3>1 DEF Marked
  <2> QED
    BY <2>1 DEF Named
<1>6. Complete(d2, O, ch) /\ Anchored(d2, O, ch)
  BY <1>2, <1>5 DEF Layout, Complete, Anchored, Listed
<1> QED
  BY <1>2, <1>3, <1>4, <1>6 DEF Layout

\* A slot of a directory is made to name the chain q, instead of the chain of
\* the file it named before, if it named one.
Publishable(d, O, ch, s, e, q) ==
    /\ \E t \in Listed(d, O, ch) : s \in Within(ch[t]) \X (1..Slots)
    /\ s \in O => SlotAt(d, s).kind = "file"
    /\ e.kind \in Entry /\ e.size \in Nat /\ e.size <= Len(q)
    /\ IF e.cluster = 0 THEN q = <<>> ELSE IsChain(FatOf(d, 0), e.cluster, q)
    /\ Within(q) \cap Used(O, ch) = {} /\ Within(q) \subseteq Cluster
    /\ e.kind = "dir" => Named(d, q) = {} /\ \A c \in Within(q) : IsSlots(d[Data(c)])

Joined(O, ch, s, q, O2, ch2) == O2 = O \cup {s} /\ ch2 = [x \in O2 |-> IF x = s THEN q ELSE ch[x]]

LEMMA LayoutPublish ==
    ASSUME NEW d, NEW d2, NEW O, NEW ch, Layout(d, O, ch), NEW s, NEW e, Marked(d, d2, s, e),
           NEW q, Publishable(d, O, ch, s, e, q),
           NEW O2, NEW ch2, Joined(O, ch, s, q, O2, ch2)
    PROVE  /\ Layout(d2, O2, ch2) /\ Used(O2, ch2) \subseteq Used(O, ch) \cup Within(q)
           /\ s \in O => Used(O2, ch2) \cap Within(ch[s]) = {}
           /\ s # NoSlot /\ Listed(d, O, ch) \subseteq Listed(d2, O2, ch2)
<1> USE DEF Joined
<1>1. s # NoSlot /\ SlotAt(d2, s) = e /\ HeadIn(d2, s) = e.cluster /\ s \in Cluster \X (1..Slots)
  <2>1. s \in Cluster \X (1..Slots) /\ SlotAt(d2, s) = e
    BY DEF Marked
  <2>2. s # NoSlot
    BY <2>1, ClusterFacts DEF NoSlot
  <2> QED
    BY <2>1, <2>2 DEF HeadIn
<1>2. ASSUME NEW r \in O, r # s PROVE SlotAt(d2, r) = SlotAt(d, r) /\ HeadIn(d2, r) = HeadIn(d, r)
  <2>1. CASE r = NoSlot
    BY <2>1, NoSlotAt DEF HeadIn
  <2>2. CASE r # NoSlot
    <3>1. r \in Cluster \X (1..Slots)
      BY <2>2, OwnSlot
    <3> QED
      BY <1>2, <3>1 DEF Marked, HeadIn
  <2> QED
    BY <2>1, <2>2
<1>3. ch2[s] = q /\ s \in O2 /\ NoSlot \in O /\ NoSlot \in O2 /\ (\A r \in O : r # s => ch2[r] = ch[r] /\ r \in O2)
  BY DEF Layout
<1>4. \A r \in O2 : r # s => r \in O
  OBVIOUS
<1>5. PICK t \in Listed(d, O, ch) : s \in Within(ch[t]) \X (1..Slots)
  BY DEF Publishable
<1>6. s \notin Listed(d, O, ch) /\ Listed(d, O, ch) \subseteq O
  BY <1>1 DEF Listed, Publishable
<1>7. Within(q) \cap Used(O, ch) = {} /\ Within(q) \subseteq Cluster /\ s[1] \notin Within(q)
  <2>1. s[1] \in Used(O, ch)
    BY <1>5, <1>6 DEF Used
  <2> QED
    BY <2>1 DEF Publishable
<1>8. Listed(d, O, ch) \subseteq Listed(d2, O2, ch2) /\ Listed(d2, O2, ch2) \subseteq Listed(d, O, ch) \cup {s}
  <2>1. ch2[NoSlot] = ch[NoSlot]
    BY <1>1, <1>3
  <2>2. ASSUME NEW r \in O, r # s PROVE r \in Listed(d, O, ch) <=> r \in Listed(d2, O2, ch2)
    BY <1>2, <1>3, <2>1, <2>2 DEF Listed
  <2>3. Listed(d2, O2, ch2) \subseteq O2
    BY DEF Listed
  <2> QED
    BY <1>4, <1>6, <2>2, <2>3
<1>9. Chained(d2, O2, ch2)
  <2>1. FatOf(d2, 0) = FatOf(d, 0)
    BY DEF Marked
  <2>2. IF HeadIn(d2, s) = 0 THEN ch2[s] = <<>> ELSE IsChain(FatOf(d2, 0), HeadIn(d2, s), ch2[s])
    BY <1>1, <1>3, <2>1 DEF Publishable
  <2>3. ASSUME NEW r \in O, r # s
        PROVE  IF HeadIn(d2, r) = 0 THEN ch2[r] = <<>> ELSE IsChain(FatOf(d2, 0), HeadIn(d2, r), ch2[r])
    BY <1>2, <1>3, <2>1, <2>3 DEF Layout, Chained
  <2> QED
    BY <1>4, <2>2, <2>3 DEF Chained
<1>10. Apart(O2, ch2)
  <2>1. ASSUME NEW r \in O, r # s PROVE Within(ch2[r]) = Within(ch[r]) /\ Within(ch2[r]) \cap Within(ch2[s]) = {}
    <3>1. Within(ch[r]) \subseteq Used(O, ch)
      BY UsedBy
    <3> QED
      BY <1>3, <1>7, <2>1, <3>1
  <2>2. ASSUME NEW r \in O, NEW x \in O, r # s, x # s, r # x PROVE Within(ch2[r]) \cap Within(ch2[x]) = {}
    BY <2>1, <2>2 DEF Layout, Apart
  <2> QED
    BY <1>4, <2>1, <2>2 DEF Apart
<1>11. Sized(d2, O2, ch2)
  <2>1. e.kind \in Entry /\ e.size \in Nat /\ e.size <= Len(ch2[s])
    BY <1>3 DEF Publishable
  <2>2. ASSUME NEW r \in O, r # s, r # NoSlot
        PROVE  SlotAt(d2, r).kind \in Entry /\ SlotAt(d2, r).size \in Nat /\ SlotAt(d2, r).size <= Len(ch2[r])
    BY <1>2, <1>3, <2>2 DEF Layout, Sized
  <2> QED
    BY <1>1, <1>4, <2>1, <2>2 DEF Sized
<1>12. Slotted(d2, O2, ch2)
  <2>1. ASSUME NEW r \in O2, r = NoSlot \/ SlotAt(d2, r).kind = "dir", NEW c \in Within(ch2[r])
        PROVE  IsSlots(d2[Data(c)])
    <3>1. CASE r = s
      <4>1. c \in Cluster /\ IsSlots(d[Data(c)])
        BY <1>1, <1>3, <1>7, <2>1, <3>1 DEF Publishable
      <4> QED
        BY <4>1 DEF Marked
    <3>2. CASE r # s
      <4>1. r \in O /\ c \in Within(ch[r]) /\ (r = NoSlot \/ SlotAt(d, r).kind = "dir")
        BY <1>2, <1>3, <1>4, <2>1, <3>2
      <4>2. c \in Cluster /\ IsSlots(d[Data(c)])
        BY <4>1, OwnChain DEF Layout, Slotted
      <4> QED
        BY <4>2 DEF Marked
    <3> QED
      BY <3>1, <3>2
  <2> QED
    BY <2>1 DEF Slotted
<1>13. Complete(d2, O2, ch2)
  <2>1. ASSUME NEW r \in Listed(d, O, ch), NEW x \in Named(d2, ch2[r]) PROVE x \in O2
    <3>1. r \in O /\ r # s /\ ch2[r] = ch[r]
      BY <1>3, <1>6
    <3>2. x \in Within(ch[r]) \X (1..Slots) /\ SlotAt(d2, x).kind \in Entry /\ Within(ch[r]) \subseteq Cluster
      BY <3>1, OwnChain DEF Named
    <3>3. CASE x # s
      <4>1. x \in Cluster \X (1..Slots)
        BY <3>2
      <4>2. x \in Named(d, ch[r])
        BY <3>2, <3>3, <4>1 DEF Marked, Named
      <4> QED
        BY <4>2 DEF Layout, Complete
    <3> QED
      BY <3>3
  <2>2. ASSUME s \in Listed(d2, O2, ch2) PROVE Named(d2, ch2[s]) = {}
    <3>1. e.kind = "dir"
      BY <1>1, <2>2 DEF Listed
    <3>2. ASSUME NEW x \in Within(q) \X (1..Slots) PROVE SlotAt(d2, x).kind \notin Entry
      <4>1. x \in Cluster \X (1..Slots) /\ x # s
        BY <1>7
      <4>2. SlotAt(d2, x) = SlotAt(d, x)
        BY <4>1 DEF Marked
      <4> QED
        BY <3>1, <4>2 DEF Publishable, Named
    <3> QED
      BY <1>3, <3>2 DEF Named
  <2> QED
    BY <1>8, <2>1, <2>2 DEF Complete
<1>14. Anchored(d2, O2, ch2)
  <2>1. ASSUME NEW x \in O2, x # NoSlot PROVE \E r \in Listed(d2, O2, ch2) : x \in Within(ch2[r]) \X (1..Slots)
    <3>1. PICK r \in Listed(d, O, ch) : x \in Within(ch[r]) \X (1..Slots)
      BY <1>4, <1>5, <2>1 DEF Layout, Anchored
    <3>2. r \in Listed(d2, O2, ch2) /\ ch2[r] = ch[r]
      BY <1>3, <1>6, <1>8
    <3> QED
      BY <3>1, <3>2
  <2> QED
    BY <2>1 DEF Anchored
<1>15. Used(O2, ch2) \subseteq Used(O, ch) \cup Within(q) /\ (s \in O => Used(O2, ch2) \cap Within(ch[s]) = {})
  <2>1. ASSUME NEW x \in Used(O2, ch2) PROVE x \in Used(O, ch) \cup Within(q) /\ (s \in O => x \notin Within(ch[s]))
    <3>1. PICK r \in O2 : x \in Within(ch2[r])
      BY DEF Used
    <3>2. CASE r = s
      <4>1. s \in O => Within(ch[s]) \subseteq Used(O, ch)
        BY UsedBy
      <4> QED
        BY <1>3, <1>7, <3>1, <3>2, <4>1
    <3>3. CASE r # s
      <4>1. r \in O /\ x \in Within(ch[r])
        BY <1>3, <1>4, <3>1, <3>3
      <4>2. Within(ch[r]) \subseteq Used(O, ch)
        BY <4>1, UsedBy
      <4> QED
        BY <3>3, <4>1, <4>2 DEF Layout, Apart
    <3> QED
      BY <3>2, <3>3
  <2> QED
    BY <2>1
<1>16. ch2 = [x \in O2 |-> ch2[x]]
  OBVIOUS
<1> QED
  BY <1>1, <1>3, <1>8, <1>9, <1>10, <1>11, <1>12, <1>13, <1>14, <1>15, <1>16 DEF Layout

\* An entry is marked deleted: what it owned is owned no more, and nothing else
\* changes hands.
Parted(O, ch, s, O2, ch2) ==
    O2 = {x \in O : x # s /\ x[1] \notin Within(ch[s])} /\ ch2 = [x \in O2 |-> ch[x]]

LEMMA LayoutRemove ==
    ASSUME NEW d, NEW d2, NEW O, NEW ch, Layout(d, O, ch), NEW s \in O, s # NoSlot, NEW e,
           Marked(d, d2, s, e), e.kind \notin Entry,
           NEW O2, NEW ch2, Parted(O, ch, s, O2, ch2)
    PROVE  /\ Layout(d2, O2, ch2) /\ Used(O2, ch2) \subseteq Used(O, ch) /\ Used(O2, ch2) \cap Within(ch[s]) = {}
           /\ Listed(d2, O2, ch2) = Listed(d, O, ch) \ {s}
<1> USE DEF Parted
<1>1. ASSUME NEW r \in O2 PROVE r \in O /\ SlotAt(d2, r) = SlotAt(d, r) /\ HeadIn(d2, r) = HeadIn(d, r) /\ ch2[r] = ch[r]
  <2>1. CASE r = NoSlot
    BY <2>1, NoSlotAt DEF HeadIn
  <2>2. CASE r # NoSlot
    <3>1. r \in Cluster \X (1..Slots) /\ r # s
      BY <2>2, OwnSlot
    <3> QED
      BY <3>1 DEF Marked, HeadIn
  <2> QED
    BY <2>1, <2>2
<1>2. NoSlot \in O2 /\ ch2[NoSlot] = ch[NoSlot]
  <2>1. NoSlot \in O /\ Within(ch[s]) \subseteq Cluster /\ NoSlot[1] = 0
    BY OwnChain DEF Layout, NoSlot
  <2> QED
    BY <2>1, ClusterFacts
<1>3. Listed(d2, O2, ch2) = Listed(d, O, ch) \ {s}
  <2>1. ASSUME NEW r \in Listed(d, O, ch), r # s PROVE r \in O2
    <3>1. CASE r = NoSlot
      BY <1>2, <3>1
    <3>2. CASE r # NoSlot
      <4>1. r \in O /\ r[1] \in Within(ch[NoSlot]) /\ NoSlot \in O
        BY <3>2 DEF Listed, Layout
      <4>2. r[1] \notin Within(ch[s])
        BY <4>1 DEF Layout, Apart
      <4> QED
        BY <2>1, <4>1, <4>2
    <3> QED
      BY <3>1, <3>2
  <2>2. \A r \in O2 : r \in Listed(d2, O2, ch2) <=> r \in Listed(d, O, ch)
    BY <1>1, <1>2 DEF Listed
  <2>3. Listed(d2, O2, ch2) \subseteq O2
    BY DEF Listed
  <2> QED
    BY <2>1, <2>2, <2>3
<1>4. Chained(d2, O2, ch2) /\ Sized(d2, O2, ch2)
  BY <1>1 DEF Layout, Chained, Sized, Marked
<1>5. Apart(O2, ch2)
  BY <1>1 DEF Layout, Apart
<1>6. Slotted(d2, O2, ch2)
  <2>1. ASSUME NEW r \in O2, r = NoSlot \/ SlotAt(d2, r).kind = "dir", NEW c \in Within(ch2[r])
        PROVE  IsSlots(d2[Data(c)])
    <3>1. r \in O /\ (r = NoSlot \/ SlotAt(d, r).kind = "dir") /\ c \in Within(ch[r])
      BY <1>1, <2>1
    <3>2. c \in Cluster /\ IsSlots(d[Data(c)])
      BY <3>1, OwnChain DEF Layout, Slotted
    <3> QED
      BY <3>2 DEF Marked
  <2> QED
    BY <2>1 DEF Slotted
<1>7. Complete(d2, O2, ch2)
  <2>1. ASSUME NEW r \in Listed(d2, O2, ch2), NEW x \in Named(d2, ch2[r]) PROVE x \in O2
    <3>1. r \in Listed(d, O, ch) /\ r \in O /\ r # s /\ ch2[r] = ch[r]
      BY <1>1, <1>3 DEF Listed
    <3>2. x \in Within(ch[r]) \X (1..Slots) /\ SlotAt(d2, x).kind \in Entry /\ Within(ch[r]) \subseteq Cluster
      BY <3>1, OwnChain DEF Named
    <3>3. x # s /\ x \in Cluster \X (1..Slots)
      BY <3>2 DEF Marked
    <3>4. x \in Named(d, ch[r])
      BY <3>2, <3>3 DEF Marked, Named
    <3>5. x \in O
      BY <3>1, <3>4 DEF Layout, Complete
    <3>6. x[1] \notin Within(ch[s])
      BY <3>1, <3>2 DEF Layout, Apart
    <3> QED
      BY <3>3, <3>5, <3>6
  <2> QED
    BY <2>1 DEF Complete
<1>8. Anchored(d2, O2, ch2)
  <2>1. ASSUME NEW x \in O2, x # NoSlot PROVE \E r \in Listed(d2, O2, ch2) : x \in Within(ch2[r]) \X (1..Slots)
    <3>1. PICK r \in Listed(d, O, ch) : x \in Within(ch[r]) \X (1..Slots)
      BY <2>1 DEF Layout, Anchored
    <3>2. r # s
      BY <3>1
    <3>3. r \in Listed(d2, O2, ch2) /\ ch2[r] = ch[r]
      BY <1>1, <1>3, <3>2 DEF Listed
    <3> QED
      BY <3>1, <3>3
  <2> QED
    BY <2>1 DEF Anchored
<1>9. Used(O2, ch2) \subseteq Used(O, ch) /\ Used(O2, ch2) \cap Within(ch[s]) = {}
  <2>1. ASSUME NEW x \in Used(O2, ch2) PROVE x \in Used(O, ch) /\ x \notin Within(ch[s])
    <3>1. PICK r \in O2 : x \in Within(ch2[r])
      BY DEF Used
    <3>2. r \in O /\ r # s /\ x \in Within(ch[r])
      BY <1>1, <3>1
    <3> QED
      BY <3>2 DEF Layout, Apart, Used
  <2> QED
    BY <2>1
<1>10. ch2 = [x \in O2 |-> ch2[x]]
  OBVIOUS
<1> QED
  BY <1>2, <1>3, <1>4, <1>5, <1>6, <1>7, <1>8, <1>9, <1>10 DEF Layout

-----------------------------------------------------------------------------
(* Lists of commands.                                                      *)

LEMMA EmptyList == IsList(<<>>) /\ Within(<<>>) = {}
  BY DEF IsList, Within

LEMMA OneList ==
    ASSUME NEW x
    PROVE  IsList(<<x>>) /\ Within(<<x>>) = {x} /\ <<x>> # <<>> /\ <<x>>[1] = x /\ Within(Tail(<<x>>)) = {}
<1>1. Len(<<x>>) = 1 /\ <<x>>[1] = x /\ 1..1 = {1}
  OBVIOUS
<1>2. Within(<<x>>) = {x}
  BY <1>1 DEF Within
<1>3. Tail(<<x>>) = <<>>
  OBVIOUS
<1> QED
  BY <1>1, <1>2, <1>3, EmptyList DEF IsList

LEMMA TailList ==
    ASSUME NEW q, IsList(q), q # <<>>
    PROVE  IsList(Tail(q)) /\ Within(q) = {q[1]} \cup Within(Tail(q)) /\ q[1] \in Within(q)
<1>1. q \in Seq(Within(q)) /\ Len(q) \in Nat /\ Len(q) >= 1
  BY DEF IsList
<1>2. /\ Tail(q) \in Seq(Within(q)) /\ Len(Tail(q)) = Len(q) - 1
      /\ \A k \in 1..(Len(q) - 1) : Tail(q)[k] = q[k + 1]
  BY <1>1
<1>3. PICK r : r = Tail(q)
  OBVIOUS
<1>4. 1..Len(q) = {1} \cup {k + 1 : k \in 1..(Len(q) - 1)}
  <2>1. ASSUME NEW k \in 1..Len(q), k # 1 PROVE k - 1 \in 1..(Len(q) - 1) /\ k = (k - 1) + 1
    BY <1>1, <2>1
  <2>2. \A k \in 1..(Len(q) - 1) : k + 1 \in 1..Len(q)
    BY <1>1
  <2>3. 1 \in 1..Len(q)
    BY <1>1
  <2> QED
    BY <2>1, <2>2, <2>3
<1>5. Within(q) = {q[1]} \cup Within(r)
  BY <1>2, <1>3, <1>4 DEF Within
<1>6. r \in Seq(Within(r))
  <2>1. r \in Seq(Within(q))
    BY <1>2, <1>3
  <2>2. Len(r) \in Nat /\ r = [k \in 1..Len(r) |-> r[k]]
    BY <2>1
  <2>3. \A k \in 1..Len(r) : r[k] \in Within(r)
    BY DEF Within
  <2> QED
    BY <2>2, <2>3
<1> QED
  BY <1>3, <1>5, <1>6 DEF IsList

LEMMA JoinList ==
    ASSUME NEW p, NEW q, IsList(p), IsList(q)
    PROVE  /\ IsList(p \o q) /\ Within(p \o q) = Within(p) \cup Within(q)
           /\ p # <<>> => /\ p \o q # <<>> /\ (p \o q)[1] = p[1]
                          /\ Within(Tail(p \o q)) = Within(Tail(p)) \cup Within(q)
<1> DEFINE S == Within(p) \cup Within(q)
<1>1. p \in Seq(S) /\ q \in Seq(S) /\ Len(p) \in Nat /\ Len(q) \in Nat
  BY DEF IsList
<1> HIDE DEF S
<1>2. PICK r : r = p \o q
  OBVIOUS
<1>3. /\ r \in Seq(S) /\ Len(r) = Len(p) + Len(q)
      /\ \A k \in 1..Len(p) : r[k] = p[k]
      /\ \A k \in 1..Len(r) : k > Len(p) => r[k] = q[k - Len(p)]
  BY <1>1, <1>2
<1>4. \A k \in 1..Len(q) : k + Len(p) \in 1..Len(r) /\ k + Len(p) > Len(p) /\ (k + Len(p)) - Len(p) = k
  BY <1>1, <1>3
<1>5. \A k \in 1..Len(r) : k \in 1..Len(p) \/ (k > Len(p) /\ k - Len(p) \in 1..Len(q))
  BY <1>1, <1>3
<1>6. 1..Len(p) \subseteq 1..Len(r)
  BY <1>1, <1>3
<1>7. ASSUME NEW x PROVE x \in Within(r) <=> x \in Within(p) \/ x \in Within(q)
  <2>1. ASSUME x \in Within(r) PROVE x \in Within(p) \/ x \in Within(q)
    BY <1>3, <1>5, <2>1 DEF Within
  <2>2. ASSUME x \in Within(p) PROVE x \in Within(r)
    BY <1>3, <1>6, <2>2 DEF Within
  <2>3. ASSUME x \in Within(q) PROVE x \in Within(r)
    <3>1. PICK k \in 1..Len(q) : x = q[k]
      BY <2>3 DEF Within
    <3>2. x = r[k + Len(p)]
      BY <1>3, <1>4, <3>1
    <3> QED
      BY <1>4, <3>2 DEF Within
  <2> QED
    BY <2>1, <2>2, <2>3
<1>8. Within(r) = S /\ IsList(r)
  BY <1>3, <1>7 DEF S, IsList
<1>9. ASSUME p # <<>> PROVE r # <<>> /\ r[1] = p[1] /\ Within(Tail(r)) = Within(Tail(p)) \cup Within(q)
  <2>1. Len(p) >= 1 /\ 1 \in 1..Len(p) /\ Len(r) >= 1
    BY <1>1, <1>3, <1>9
  <2>2. r # <<>> /\ r[1] = p[1]
    BY <1>3, <2>1
  <2>3. /\ Len(Tail(r)) = Len(r) - 1 /\ \A k \in 1..(Len(r) - 1) : Tail(r)[k] = r[k + 1]
    <3>1. r \in Seq(S) /\ Len(r) \in Nat /\ Len(r) >= 1
      BY <1>1, <1>3, <2>1
    <3> QED
      BY <3>1
  <2>4. /\ Len(Tail(p)) = Len(p) - 1 /\ \A k \in 1..(Len(p) - 1) : Tail(p)[k] = p[k + 1]
    BY <1>1, <2>1
  <2>5. ASSUME NEW x \in Within(Tail(r)) PROVE x \in Within(Tail(p)) \/ x \in Within(q)
    <3>1. PICK k \in 1..(Len(r) - 1) : x = r[k + 1]
      BY <2>3 DEF Within
    <3>2. CASE k \in 1..(Len(p) - 1)
      <4>1. k + 1 \in 1..Len(p)
        BY <1>1, <3>2
      <4> QED
        BY <1>3, <2>4, <3>1, <3>2, <4>1 DEF Within
    <3>3. CASE k \notin 1..(Len(p) - 1)
      <4>1. k + 1 \in 1..Len(r) /\ k + 1 > Len(p) /\ (k + 1) - Len(p) \in 1..Len(q)
        BY <1>1, <1>3, <3>3
      <4> QED
        BY <1>3, <3>1, <4>1 DEF Within
    <3> QED
      BY <3>2, <3>3
  <2>6. ASSUME NEW x \in Within(Tail(p)) PROVE x \in Within(Tail(r))
    <3>1. PICK k \in 1..(Len(p) - 1) : x = p[k + 1]
      BY <2>4 DEF Within
    <3>2. k + 1 \in 1..Len(p) /\ k \in 1..(Len(r) - 1)
      BY <1>1, <1>3
    <3> QED
      BY <1>3, <2>3, <3>1, <3>2 DEF Within
  <2>7. ASSUME NEW x \in Within(q) PROVE x \in Within(Tail(r))
    <3>1. PICK k \in 1..Len(q) : x = q[k]
      BY <2>7 DEF Within
    <3>2. k + Len(p) - 1 \in 1..(Len(r) - 1) /\ (k + Len(p) - 1) + 1 = k + Len(p)
      BY <1>1, <1>3, <2>1
    <3>3. x = Tail(r)[k + Len(p) - 1]
      BY <1>3, <1>4, <2>3, <3>1, <3>2
    <3> QED
      BY <2>3, <3>2, <3>3 DEF Within
  <2> QED
    BY <2>2, <2>5, <2>6, <2>7
<1> QED
  BY <1>2, <1>8, <1>9 DEF S

LEMMA SetFATList ==
    ASSUME NEW x \in Cluster, NEW val
    PROVE  /\ IsList(SetFAT(x, val)) /\ SetFAT(x, val) # <<>> /\ Sets(SetFAT(x, val)[1], x, val)
           /\ \A c \in Within(Tail(SetFAT(x, val))) : Inert(c)
           /\ \A c \in Within(SetFAT(x, val)) : Inert(c) \/ Sets(c, x, val)
           /\ \E c \in Within(SetFAT(x, val)) : Sets(c, x, val)
<1> DEFINE q == SetFAT(x, val)
<1>1. /\ q = [i \in 1..Copies |-> [do |-> "fat", b |-> FatBlock(i - 1, x), at |-> x, to |-> val]]
      /\ Copies \in Nat /\ Copies >= 1
  BY DEF SetFAT
<1>2. q \in Seq({q[i] : i \in 1..Copies}) /\ Len(q) = Copies
  <2>1. PICK r : r = [i \in 1..Copies |-> [do |-> "fat", b |-> FatBlock(i - 1, x), at |-> x, to |-> val]]
    OBVIOUS
  <2>2. r = [i \in 1..Copies |-> r[i]] /\ Copies \in Nat
    BY <1>1, <2>1
  <2>3. r \in Seq({r[i] : i \in 1..Copies}) /\ Len(r) = Copies
    BY <2>2
  <2> QED
    BY <1>1, <2>1, <2>3
<1>3. ASSUME NEW i \in 1..Copies PROVE IF i = 1 THEN Sets(q[i], x, val) ELSE Inert(q[i])
  <2>1. q[i].do = "fat" /\ q[i].b = FatBlock(i - 1, x) /\ q[i].at = x /\ q[i].to = val
    BY <1>1
  <2>2. i # 1 => i - 1 \in 1..(Copies - 1)
    BY <1>1
  <2> QED
    BY <2>1, <2>2 DEF Sets, Inert
<1> HIDE DEF q
<1>4. IsList(q) /\ q # <<>> /\ 1 \in 1..Copies
  BY <1>1, <1>2 DEF IsList, Within
<1>5. Len(Tail(q)) = Copies - 1 /\ \A k \in 1..(Copies - 1) : Tail(q)[k] = q[k + 1]
  BY <1>1, <1>2
<1>6. ASSUME NEW c \in Within(Tail(q)) PROVE Inert(c)
  <2>1. PICK k \in 1..(Copies - 1) : c = q[k + 1]
    BY <1>5 DEF Within
  <2>2. k + 1 \in 1..Copies /\ k + 1 # 1
    BY <1>1
  <2> QED
    BY <1>3, <2>1, <2>2
<1>7. \A c \in Within(q) : Inert(c) \/ Sets(c, x, val)
  BY <1>2, <1>3 DEF Within
<1>8. q[1] \in Within(q) /\ Sets(q[1], x, val)
  BY <1>2, <1>3, <1>4 DEF Within
<1> QED
  BY <1>4, <1>6, <1>7, <1>8 DEF q

LEMMA HintsList == IsList(Hints) /\ AllInert(Hints)
<1>1. Hints = [i \in 1..2 |-> [do |-> "hint", b |-> Info(i - 1), at |-> 0, to |-> [hint |-> "unknown"]]]
  BY DEF Hints
<1>2. Hints \in Seq({Hints[i] : i \in 1..2}) /\ Len(Hints) = 2
  BY <1>1
<1>3. ASSUME NEW i \in 1..2 PROVE Inert(Hints[i])
  <2>1. Hints[i].do = "hint" /\ Hints[i].b = Info(i - 1) /\ i - 1 \in {0, 1}
    BY <1>1
  <2> QED
    BY <2>1 DEF Inert
<1> QED
  BY <1>2, <1>3 DEF IsList, AllInert, Within

LEMMA SyncList ==
    /\ IsList(SyncDevice) /\ SyncDevice # <<>> /\ AllInert(SyncDevice)
    /\ IsList(SyncData) /\ AllInert(SyncData)
<1>1. PICK c : c = [do |-> "sync", b |-> <<>>, at |-> 0, to |-> 0]
  OBVIOUS
<1>2. Inert(c) /\ SyncDevice = <<c>> /\ SyncData = <<c>>
  BY <1>1 DEF Inert, SyncDevice, SyncData
<1> QED
  BY <1>2, OneList DEF AllInert

LEMMA PutList ==
    ASSUME NEW x, NEW v
    PROVE  /\ IsList(Put(x, v)) /\ \A c \in Within(Put(x, v)) : Puts(c, x) /\ c.to = v
           /\ \E c \in Within(Put(x, v)) : Puts(c, x) /\ c.to = v
<1>1. PICK c : c = [do |-> "put", b |-> Data(x), at |-> 0, to |-> v]
  OBVIOUS
<1>2. Puts(c, x) /\ c.to = v /\ Put(x, v) = <<c>>
  BY <1>1 DEF Puts, Put
<1> QED
  BY <1>2, OneList

LEMMA SlotList ==
    ASSUME NEW s, NEW e
    PROVE  /\ IsList(SetSlot(s, e)) /\ SetSlot(s, e) # <<>> /\ Marks(SetSlot(s, e)[1], s, e)
           /\ Within(Tail(SetSlot(s, e))) = {} /\ \A c \in Within(SetSlot(s, e)) : Marks(c, s, e)
<1>1. PICK c : c = [do |-> "slot", b |-> Data(s[1]), at |-> s[2], to |-> e]
  OBVIOUS
<1>2. Marks(c, s, e) /\ SetSlot(s, e) = <<c>>
  BY <1>1 DEF Marks, SetSlot
<1> QED
  BY <1>2, OneList

LEMMA ClaimList ==
    ASSUME NEW x \in Cluster
    PROVE  /\ IsList(Claim(x)) /\ \A c \in Within(Claim(x)) : Inert(c) \/ Sets(c, x, Eoc) \/ Clears(c, x)
           /\ \E c \in Within(Claim(x)) : Sets(c, x, Eoc)
           /\ \E c \in Within(Claim(x)) : Clears(c, x)
<1>1. IsList(Claim(x)) /\ Within(Claim(x)) = Within(SetFAT(x, Eoc)) \cup Within(Put(x, Zero))
  BY SetFATList, PutList, JoinList DEF Claim
<1> QED
  BY <1>1, SetFATList, PutList DEF Clears

\* release writes only entries of the chain it has walked.
LEMMA FreeList ==
    ASSUME NEW x, FatSeen = ActiveFat,
           NEW q, q = Chain(ActiveFat, x), q = <<>> \/ IsChain(ActiveFat, x, q)
    PROVE  /\ IsList(Free(x))
           /\ \A c \in Within(Free(x)) : Inert(c) \/ (Sets(c, c.at, 0) /\ c.at \in Within(q))
           /\ \A y \in Within(q) : \E c \in Within(Free(x)) : Sets(c, c.at, 0) /\ c.at = y
<1> DEFINE N == Copies * Len(q)
           r == [k \in 1..N |-> SetFAT(q[1 + ((k - 1) \div Copies)], 0)[1 + ((k - 1) % Copies)]]
<1>1. Free(x) = r
  BY DEF Free
<1>2. Copies \in Nat /\ Copies \in 1..2 /\ Len(q) \in Nat /\ (\A i \in 1..Len(q) : q[i] \in Cluster)
  BY DEF IsChain
<1>3. N \in Nat
  BY <1>2
<1>4. ASSUME NEW k \in 1..N
      PROVE  1 + ((k - 1) \div Copies) \in 1..Len(q) /\ 1 + ((k - 1) % Copies) \in 1..Copies
  <2>1. CASE Copies = 1
    BY <1>2, <1>3, <2>1
  <2>2. CASE Copies = 2
    BY <1>2, <1>3, <2>2
  <2> QED
    BY <1>2, <2>1, <2>2
<1>5. ASSUME NEW k \in 1..N PROVE Inert(r[k]) \/ (Sets(r[k], r[k].at, 0) /\ r[k].at \in Within(q))
  <2>1. PICK i \in 1..Len(q), j \in 1..Copies : r[k] = SetFAT(q[i], 0)[j]
    BY <1>4
  <2>2. q[i] \in Cluster /\ q[i] \in Within(q)
    BY <1>2 DEF Within
  <2>3. r[k] = [do |-> "fat", b |-> FatBlock(j - 1, q[i]), at |-> q[i], to |-> 0]
    BY <2>1 DEF SetFAT
  <2>4. r[k].do = "fat" /\ r[k].b = FatBlock(j - 1, q[i]) /\ r[k].at = q[i] /\ r[k].to = 0
    BY <2>3
  <2>5. j = 1 \/ j - 1 \in 1..(Copies - 1)
    BY <1>2
  <2> QED
    BY <2>2, <2>4, <2>5 DEF Inert, Sets
<1>6. r \in Seq({r[k] : k \in 1..N}) /\ Len(r) = N
  BY <1>3
<1>7. ASSUME NEW i \in 1..Len(q) PROVE \E k \in 1..N : Sets(r[k], r[k].at, 0) /\ r[k].at = q[i]
  <2>1. PICK k : k = Copies * (i - 1) + 1
    OBVIOUS
  <2>2. k \in 1..N /\ 1 + ((k - 1) \div Copies) = i /\ 1 + ((k - 1) % Copies) = 1
    <3>1. CASE Copies = 1
      BY <1>2, <2>1, <3>1
    <3>2. CASE Copies = 2
      BY <1>2, <2>1, <3>2
    <3> QED
      BY <1>2, <3>1, <3>2
  <2>3. 1 \in 1..Copies /\ 1 - 1 = 0
    BY <1>2
  <2>4. r[k] = SetFAT(q[i], 0)[1]
    BY <2>2
  <2>5. r[k] = [do |-> "fat", b |-> FatBlock(0, q[i]), at |-> q[i], to |-> 0]
    BY <2>3, <2>4 DEF SetFAT
  <2>6. r[k].do = "fat" /\ r[k].b = FatBlock(0, q[i]) /\ r[k].at = q[i] /\ r[k].to = 0
    BY <2>5
  <2>7. Sets(r[k], r[k].at, 0)
    BY <2>6 DEF Sets
  <2> QED
    BY <2>2, <2>6, <2>7
<1> HIDE DEF r, N
<1>8. ASSUME NEW y \in Within(q) PROVE \E c \in Within(Free(x)) : Sets(c, c.at, 0) /\ c.at = y
  <2>1. PICK i \in 1..Len(q) : y = q[i]
    BY DEF Within
  <2>2. PICK k \in 1..N : Sets(r[k], r[k].at, 0) /\ r[k].at = q[i]
    BY <1>7
  <2>3. r[k] \in Within(Free(x))
    BY <1>1, <1>6 DEF Within
  <2> QED
    BY <2>1, <2>2, <2>3
<1> QED
  BY <1>1, <1>5, <1>6, <1>8 DEF IsList, Within

-----------------------------------------------------------------------------
(* What a command does to the blocks.                                      *)

Alike(d, d2) == FatOf(d2, 0) = FatOf(d, 0) /\ \A c \in Cluster : d2[Data(c)] = d[Data(c)]

SetIn(d, d2, t, x, val) == d2 = [d EXCEPT ![FatBlock(t, x)] = [d[FatBlock(t, x)] EXCEPT !.next[x] = val]]
PutIn(d, d2, b, v) == d2 = [d EXCEPT ![b] = v]

LEMMA FatWrite ==
    ASSUME NEW d, DiskType(d), NEW t \in 0..(Copies - 1), NEW x \in Cluster, NEW val, NEW d2, SetIn(d, d2, t, x, val)
    PROVE  /\ DiskType(d2) /\ \A c \in Cluster : d2[Data(c)] = d[Data(c)]
           /\ t # 0 => FatOf(d2, 0) = FatOf(d, 0)
           /\ t = 0 => /\ FatOf(d2, 0)[x] = val
                       /\ \A y \in Cluster : y # x => FatOf(d2, 0)[y] = FatOf(d, 0)[y]
<1> USE DEF SetIn
<1> DEFINE In(c) == {y \in Cluster : y \div PerSector = c \div PerSector}
<1>0. FatBlock(t, x) \in Blocks /\ d = [b \in Blocks |-> d[b]] /\ x \in In(x)
  BY BlockFacts DEF DiskType
<1>1. \A b : b # FatBlock(t, x) => d2[b] = d[b]
  OBVIOUS
<1>2. d2 = [b \in Blocks |-> d2[b]]
  BY <1>0
<1>3. PICK u, y : u = d[FatBlock(t, x)] /\ y = [k \in In(x) |-> u.next[k]]
  OBVIOUS
<1>4. u = [next |-> y]
  BY <1>3 DEF DiskType
<1>5. PICK z : z = [y EXCEPT ![x] = val]
  OBVIOUS
<1>6. d2[FatBlock(t, x)] = [next |-> z]
  <2>1. d2[FatBlock(t, x)] = [u EXCEPT !.next[x] = val]
    BY <1>0, <1>3
  <2> QED
    BY <1>4, <1>5, <2>1
<1>7. z = [k \in In(x) |-> z[k]] /\ z[x] = val /\ \A k \in In(x) : k # x => z[k] = u.next[k]
  BY <1>0, <1>3, <1>5
<1>8. d2[FatBlock(t, x)].next = z
  BY <1>6
<1>9. ASSUME NEW r \in 0..(Copies - 1), NEW c \in Cluster
      PROVE  d2[FatBlock(r, c)] = [next |-> [k \in In(c) |-> d2[FatBlock(r, c)].next[k]]]
  <2>1. CASE FatBlock(r, c) = FatBlock(t, x)
    <3>1. c \div PerSector = x \div PerSector
      BY <2>1, BlockFacts
    <3>2. In(c) = In(x)
      BY <3>1
    <3> QED
      BY <1>6, <1>7, <1>8, <2>1, <3>2
  <2>2. CASE FatBlock(r, c) # FatBlock(t, x)
    <3>1. d2[FatBlock(r, c)] = d[FatBlock(r, c)]
      BY <1>1, <2>2
    <3>2. d[FatBlock(r, c)] = [next |-> [k \in In(c) |-> d[FatBlock(r, c)].next[k]]]
      BY DEF DiskType
    <3> QED
      BY <3>1, <3>2
  <2> QED
    BY <2>1, <2>2
<1>10. DiskType(d2)
  BY <1>2, <1>9 DEF DiskType
<1>11. \A c \in Cluster : d2[Data(c)] = d[Data(c)]
  BY <1>1, BlockFacts
<1>12. ASSUME NEW c \in Cluster, t # 0 \/ c # x PROVE d2[FatBlock(0, c)].next[c] = d[FatBlock(0, c)].next[c]
  <2>1. CASE FatBlock(0, c) = FatBlock(t, x)
    <3>1. t = 0 /\ c \in In(x)
      BY <2>1, BlockFacts
    <3> QED
      BY <1>3, <1>7, <1>8, <1>12, <2>1, <3>1
  <2>2. CASE FatBlock(0, c) # FatBlock(t, x)
    BY <1>1, <2>2
  <2> QED
    BY <2>1, <2>2
<1>13. t # 0 => FatOf(d2, 0) = FatOf(d, 0)
  BY <1>12 DEF FatOf
<1>14. t = 0 => FatOf(d2, 0)[x] = val
  BY <1>7, <1>8 DEF FatOf
<1>15. \A y1 \in Cluster : y1 # x => FatOf(d2, 0)[y1] = FatOf(d, 0)[y1]
  BY <1>12 DEF FatOf
<1> QED
  BY <1>10, <1>11, <1>13, <1>14, <1>15

LEMMA OtherWrite ==
    ASSUME NEW d, DiskType(d), NEW b, \A t, c : b # FatBlock(t, c), NEW v, NEW d2, PutIn(d, d2, b, v)
    PROVE  /\ DiskType(d2) /\ FatOf(d2, 0) = FatOf(d, 0)
           /\ \A c \in Cluster : Data(c) # b => d2[Data(c)] = d[Data(c)]
           /\ \A c \in Cluster : Data(c) = b => d2[Data(c)] = v
<1> USE DEF PutIn
<1>1. \A a : a # b => d2[a] = d[a]
  OBVIOUS
<1>2. d = [a \in Blocks |-> d[a]] /\ d2 = [a \in Blocks |-> d2[a]]
  BY DEF DiskType
<1>3. \A t, c : d2[FatBlock(t, c)] = d[FatBlock(t, c)]
  BY <1>1
<1>4. DiskType(d2) /\ FatOf(d2, 0) = FatOf(d, 0)
  BY <1>2, <1>3 DEF DiskType, FatOf
<1>5. \A c \in Cluster : Data(c) = b => d2[Data(c)] = v
  BY <1>2, BlockFacts
<1> QED
  BY <1>1, <1>4, <1>5

\* The first command is carried out.
Stores ==
    /\ todo # <<>>
    /\ IF cmd0.do = "sync" THEN disk' = disk ELSE disk' = [disk EXCEPT ![cmd0.b] = Written(cmd0)]

LEMMA InertWrite ==
    ASSUME DiskType(disk), Stores, Inert(cmd0)
    PROVE  DiskType(disk') /\ Alike(disk, disk')
<1>1. CASE cmd0.do = "hint" /\ cmd0.b \in {Info(0), Info(1)}
  <2>1. (\A t, c : cmd0.b # FatBlock(t, c)) /\ (\A c : Data(c) # cmd0.b)
    BY <1>1, BlockFacts
  <2>2. PutIn(disk, disk', cmd0.b, Written(cmd0))
    BY <1>1 DEF Stores, PutIn
  <2> QED
    BY <2>1, <2>2, OtherWrite DEF Alike
<1>2. CASE cmd0.do = "fat" /\ cmd0.at \in Cluster /\ \E t \in 1..(Copies - 1) : cmd0.b = FatBlock(t, cmd0.at)
  <2>1. PICK t \in 1..(Copies - 1) : cmd0.b = FatBlock(t, cmd0.at)
    BY <1>2
  <2>2. t \in 0..(Copies - 1) /\ t # 0
    OBVIOUS
  <2>3. Written(cmd0) = [disk[cmd0.b] EXCEPT !.next[cmd0.at] = cmd0.to]
    BY <1>2 DEF Written
  <2>4. SetIn(disk, disk', t, cmd0.at, cmd0.to)
    BY <1>2, <2>1, <2>3 DEF Stores, SetIn
  <2> QED
    BY <1>2, <2>2, <2>4, FatWrite DEF Alike
<1>3. CASE cmd0.do = "sync"
  BY <1>3 DEF Stores, Alike
<1> QED
  BY <1>1, <1>2, <1>3 DEF Inert

LEMMA SetsWrite ==
    ASSUME DiskType(disk), Stores, NEW x \in Cluster, NEW val, Sets(cmd0, x, val)
    PROVE  /\ DiskType(disk') /\ (\A c \in Cluster : disk'[Data(c)] = disk[Data(c)])
           /\ ActiveFat'[x] = val /\ \A y \in Cluster : y # x => ActiveFat'[y] = ActiveFat[y]
<1>1. Written(cmd0) = [disk[cmd0.b] EXCEPT !.next[cmd0.at] = cmd0.to]
  BY DEF Written, Sets
<1>2. SetIn(disk, disk', 0, x, val) /\ 0 \in 0..(Copies - 1)
  BY <1>1 DEF Stores, Sets, SetIn
<1> QED
  BY <1>2, FatWrite DEF ActiveFat

LEMMA PutsWrite ==
    ASSUME DiskType(disk), Stores, NEW x \in Cluster, Puts(cmd0, x)
    PROVE  /\ DiskType(disk') /\ ActiveFat' = ActiveFat /\ disk'[Data(x)] = cmd0.to
           /\ \A c \in Cluster : c # x => disk'[Data(c)] = disk[Data(c)]
<1>1. Written(cmd0) = cmd0.to
  BY DEF Written, Puts
<1>2. PutIn(disk, disk', Data(x), cmd0.to)
  BY <1>1 DEF Stores, Puts, PutIn
<1>3. (\A t, c : Data(x) # FatBlock(t, c)) /\ (\A c \in Cluster : c # x => Data(c) # Data(x))
  BY BlockFacts
<1> QED
  BY <1>2, <1>3, OtherWrite DEF ActiveFat

LEMMA MarksWrite ==
    ASSUME DiskType(disk), Stores, NEW s \in Cluster \X (1..Slots), NEW e, Marks(cmd0, s, e),
           IsSlots(disk[Data(s[1])])
    PROVE  DiskType(disk') /\ Marked(disk, disk', s, e) /\ ActiveFat' = ActiveFat
<1>1. Written(cmd0) = [disk[cmd0.b] EXCEPT !.slots[cmd0.at] = cmd0.to]
  BY DEF Written, Marks
<1>2. disk' = [disk EXCEPT ![Data(s[1])] = [disk[Data(s[1])] EXCEPT !.slots[s[2]] = e]]
  BY <1>1 DEF Stores, Marks
<1>3. \A t, c : Data(s[1]) # FatBlock(t, c)
  BY BlockFacts
<1>4. DiskType(disk')
  <2>1. PutIn(disk, disk', Data(s[1]), [disk[Data(s[1])] EXCEPT !.slots[s[2]] = e])
    BY <1>2 DEF PutIn
  <2> QED
    BY <1>3, <2>1, OtherWrite
<1>5. Marked(disk, disk', s, e)
  BY <1>2, SlotWrite
<1> QED
  BY <1>4, <1>5 DEF Marked, ActiveFat

\* A write outside the clusters in use changes no entry and no directory.
Aside == \A x \in InUse : ActiveFat'[x] = ActiveFat[x] /\ disk'[Data(x)] = disk[Data(x)]

LEMMA AsideTree ==
    ASSUME Tree, Aside
    PROVE  /\ Tree' /\ Owners(disk') = Owners(disk) /\ Chains(disk') = Chains(disk)
           /\ InUse' = InUse /\ Directories' = Directories
<1>1. Layout(disk, Owners(disk), Chains(disk))
  BY DEF Tree
<1>2. /\ Layout(disk', Owners(disk), Chains(disk))
      /\ Listed(disk', Owners(disk), Chains(disk)) = Listed(disk, Owners(disk), Chains(disk))
  <2>1. PICK d2, O, ch : d2 = disk' /\ O = Owners(disk) /\ ch = Chains(disk)
    OBVIOUS
  <2>2. \A x \in Used(O, ch) : FatOf(d2, 0)[x] = FatOf(disk, 0)[x] /\ d2[Data(x)] = disk[Data(x)]
    BY <2>1 DEF Aside, InUse, ActiveFat
  <2>3. Layout(disk, O, ch)
    BY <1>1, <2>1
  <2>4. Layout(d2, O, ch) /\ Listed(d2, O, ch) = Listed(disk, O, ch)
    BY <2>2, <2>3, LayoutFrame
  <2> QED
    BY <2>1, <2>4
<1>3. Owners(disk) = Owners(disk') /\ Chains(disk) = Chains(disk')
  BY <1>2, LayoutOf
<1> QED
  BY <1>2, <1>3 DEF Tree, InUse, Directories

\* The slots in use, and what the operation says of them.
LEMMA AsideSlots ==
    ASSUME Tree, Aside
    PROVE  /\ \A s \in Owners(disk) : SlotAt(disk', s) = SlotAt(disk, s) /\ HeadIn(disk', s) = HeadIn(disk, s)
           /\ \A s : Placed(s)' = Placed(s) /\ (Vacant(s) => Vacant(s)')
           /\ \A s, c : Holds(s, c) => Holds(s, c)'
           /\ \A c : Ending(c) => Ending(c)'
<1>1. Layout(disk, Owners(disk), Chains(disk))
  BY DEF Tree
<1>2. /\ Owners(disk') = Owners(disk) /\ Chains(disk') = Chains(disk) /\ Directories' = Directories
  BY AsideTree
<1>3. ASSUME NEW s \in Owners(disk) PROVE SlotAt(disk', s) = SlotAt(disk, s) /\ HeadIn(disk', s) = HeadIn(disk, s)
  <2>1. CASE s = NoSlot
    BY <2>1, NoSlotAt DEF HeadIn
  <2>2. CASE s # NoSlot
    <3>1. s[1] \in InUse
      BY <1>1, <2>2, OwnSlot DEF InUse
    <3>2. SlotAt(disk', s) = SlotAt(disk, s)
      BY <3>1, SlotSame DEF Aside
    <3> QED
      BY <3>2 DEF HeadIn
  <2> QED
    BY <2>1, <2>2
<1>4. ASSUME NEW s PROVE Placed(s)' = Placed(s)
  BY <1>2 DEF Placed
<1>5. ASSUME NEW s, Vacant(s) PROVE Vacant(s)'
  <2>1. PICK t \in Directories : s \in Within(Chains(disk)[t]) \X (1..Slots)
    BY <1>5 DEF Vacant, Placed
  <2>2. s[1] \in InUse
    BY <2>1 DEF InUse, Used, Directories, Listed
  <2>3. SlotAt(disk', s) = SlotAt(disk, s)
    BY <2>2, SlotSame DEF Aside
  <2> QED
    BY <1>4, <1>5, <2>3 DEF Vacant
<1>6. \A s, c : Holds(s, c) => Holds(s, c)'
  BY <1>2, <1>3 DEF Holds
<1>7. ASSUME NEW c, Ending(c) PROVE Ending(c)'
  BY <1>2, <1>3, <1>7 DEF Ending, Directories, Listed
<1> QED
  BY <1>3, <1>4, <1>5, <1>6, <1>7

LEMMA AsideTarget ==
    ASSUME Tree, Aside, op' = op
    PROVE  (Overwrites => Overwrites') /\ (Target => Target')
<1>1. Overwrites => Overwrites'
  BY AsideSlots DEF Overwrites, Holds
<1> QED
  BY <1>1, AsideSlots DEF Target

LEMMA AlikeAside ==
    ASSUME Tree, Alike(disk, disk')
    PROVE  Aside /\ ActiveFat' = ActiveFat /\ \A c \in Cluster : disk'[Data(c)] = disk[Data(c)]
<1>1. InUse \subseteq Cluster
  BY RootListed, UsedBy DEF Tree, InUse, Listed
<1> QED
  BY <1>1 DEF Alike, Aside, ActiveFat

-----------------------------------------------------------------------------
(* A write keeps the layout and what its phase says.                       *)

Moves == op' = op /\ todo' = Tail(todo)

LEMMA Exclusive ==
    ASSUME NEW c
    PROVE  /\ \A x, val : Inert(c) => ~Sets(c, x, val)
           /\ \A x : ~(Inert(c) /\ Puts(c, x))
           /\ \A x, s, e : ~(Puts(c, x) /\ Marks(c, s, e))
           /\ \A x, y, val : ~(Sets(c, x, val) /\ Puts(c, y))
           /\ \A x, y : Puts(c, x) /\ Puts(c, y) => x = y
<1>1. ASSUME NEW x, NEW val, Inert(c), Sets(c, x, val) PROVE FALSE
  <2>1. PICK t \in 1..(Copies - 1) : c.b = FatBlock(t, c.at)
    BY <1>1 DEF Inert, Sets
  <2>2. FatBlock(t, c.at) = FatBlock(0, x)
    BY <1>1, <2>1 DEF Sets
  <2>3. t = 0
    BY <2>2, BlockFacts
  <2> QED
    BY <2>3
<1>2. \A x, y : Puts(c, x) /\ Puts(c, y) => x = y
  BY BlockFacts DEF Puts
<1> QED
  BY <1>1, <1>2 DEF Inert, Puts, Sets, Marks

LEMMA InertStep ==
    ASSUME Tree, DiskType(disk), Stores, Inert(cmd0)
    PROVE  /\ DiskType(disk') /\ Aside /\ ActiveFat' = ActiveFat
           /\ \A c \in Cluster : disk'[Data(c)] = disk[Data(c)]
  BY InertWrite, AlikeAside

LEMMA InUseCluster == ASSUME Tree PROVE InUse \subseteq Cluster
  BY RootListed, UsedBy DEF Tree, InUse, Listed

LEMMA SetsStep ==
    ASSUME Tree, DiskType(disk), Stores, NEW x \in Cluster, x \notin InUse, NEW val, Sets(cmd0, x, val)
    PROVE  /\ DiskType(disk') /\ Aside /\ ActiveFat'[x] = val
           /\ \A y \in Cluster : y # x => ActiveFat'[y] = ActiveFat[y]
           /\ \A c \in Cluster : disk'[Data(c)] = disk[Data(c)]
  BY SetsWrite, InUseCluster DEF Aside

LEMMA PutsStep ==
    ASSUME Tree, DiskType(disk), Stores, NEW x \in Cluster, x \notin InUse, Puts(cmd0, x)
    PROVE  /\ DiskType(disk') /\ Aside /\ ActiveFat' = ActiveFat /\ disk'[Data(x)] = cmd0.to
           /\ \A c \in Cluster : c # x => disk'[Data(c)] = disk[Data(c)]
  BY PutsWrite, InUseCluster DEF Aside

LEMMA TodoStep ==
    ASSUME IsList(todo), todo # <<>>
    PROVE  cmd0 \in Within(todo) /\ Within(todo) = {cmd0} \cup Within(Tail(todo)) /\ IsList(Tail(todo))
  BY TailList DEF cmd0

LEMMA ChainKept ==
    ASSUME Whole, op' = op, \A x \in Within(NewChain) : ActiveFat'[x] = ActiveFat[x]
    PROVE  NewChain' = NewChain /\ Whole'
<1>1. CASE op.first = 0
  BY <1>1 DEF NewChain, Whole
<1>2. CASE op.first # 0
  <2>1. IsChain(ActiveFat, op.first, NewChain) /\ NewChain = Chain(ActiveFat, op.first)
    BY <1>2 DEF Whole, NewChain
  <2>2. PICK f, f2, c, q : f = ActiveFat /\ f2 = ActiveFat' /\ c = op.first /\ q = NewChain
    OBVIOUS
  <2>3. IsChain(f, c, q) /\ \A x \in Within(q) : f2[x] = f[x]
    BY <2>1, <2>2
  <2>4. IsChain(f2, c, q)
    BY <2>3, ChainFrame
  <2>5. Chain(f2, c) = q
    BY <2>4, ChainIs
  <2>6. NewChain' = q
    BY <1>2, <2>2, <2>5 DEF NewChain
  <2> QED
    BY <2>2, <2>4, <2>6 DEF Whole
<1> QED
  BY <1>1, <1>2

LEMMA WriteSearching ==
    ASSUME Types, Tree, Stores, Searching
    PROVE  Tree' /\ DiskType(disk') /\ (Moves => Searching')
<1>1. Inert(cmd0) /\ DiskType(disk) /\ todo # <<>> /\ Within(Tail(todo)) \subseteq Within(todo)
  BY TodoStep DEF Types, Stores, Searching, AllInert
<1>2. DiskType(disk') /\ Aside
  BY <1>1, InertStep
<1>3. Tree' /\ Directories' = Directories /\ Owners(disk') = Owners(disk)
  BY <1>2, AsideTree
<1>4. ASSUME Moves PROVE Searching'
  <2>1. Overwrites => Overwrites'
    BY <1>2, <1>4, AsideTarget DEF Moves
  <2>2. AllInert(todo)'
    BY <1>1, <1>4 DEF Moves, AllInert, Searching
  <2>3. \E t \in Directories' : HeadIn(disk', t) = op.dir
    BY <1>2, <1>3, AsideSlots DEF Searching, Directories, Listed
  <2> QED
    BY <1>4, <2>1, <2>2, <2>3 DEF Searching, Moves
<1> QED
  BY <1>2, <1>3, <1>4

LEMMA ClaimingStep ==
    ASSUME Tree, DiskType(disk), IsList(todo), Stores, NEW x \in Cluster, x \notin InUse, Claiming(x)
    PROVE  /\ DiskType(disk') /\ Aside /\ (todo' = Tail(todo) => Claiming(x)')
           /\ \A y \in Cluster : y # x => ActiveFat'[y] = ActiveFat[y]
<1>1. todo # <<>> /\ cmd0 \in Within(todo) /\ Within(todo) = {cmd0} \cup Within(Tail(todo))
  BY TodoStep DEF Stores
<1>2. Inert(cmd0) \/ Sets(cmd0, x, Eoc) \/ Clears(cmd0, x)
  BY <1>1 DEF Claiming
<1>3. ASSUME todo' = Tail(todo)
      PROVE  /\ \A c \in Within(todo') : Inert(c) \/ Sets(c, x, Eoc) \/ Clears(c, x)
             /\ \A c \in Within(todo) : c # cmd0 => c \in Within(todo')
  BY <1>1, <1>3 DEF Claiming
<1>4. CASE Inert(cmd0)
  <2>1. DiskType(disk') /\ Aside /\ ActiveFat' = ActiveFat /\ disk'[Data(x)] = disk[Data(x)]
    BY <1>4, InertStep
  <2>2. ~Sets(cmd0, x, Eoc) /\ ~Clears(cmd0, x)
    BY <1>4, Exclusive DEF Clears
  <2>3. ASSUME todo' = Tail(todo) PROVE Claiming(x)'
    BY <1>3, <2>1, <2>2, <2>3 DEF Claiming
  <2> QED
    BY <2>1, <2>3
<1>5. CASE Sets(cmd0, x, Eoc)
  <2>1. /\ DiskType(disk') /\ Aside /\ ActiveFat'[x] = Eoc /\ disk'[Data(x)] = disk[Data(x)]
        /\ \A y \in Cluster : y # x => ActiveFat'[y] = ActiveFat[y]
    BY <1>5, SetsStep
  <2>2. ~Clears(cmd0, x)
    BY <1>5, Exclusive DEF Clears
  <2>3. ASSUME todo' = Tail(todo) PROVE Claiming(x)'
    BY <1>3, <2>1, <2>2, <2>3 DEF Claiming
  <2> QED
    BY <2>1, <2>3
<1>6. CASE Clears(cmd0, x)
  <2>1. /\ DiskType(disk') /\ Aside /\ ActiveFat' = ActiveFat /\ disk'[Data(x)] = Zero
    BY <1>6, PutsStep DEF Clears
  <2>2. ~Sets(cmd0, x, Eoc)
    BY <1>6, Exclusive DEF Clears
  <2>3. ASSUME todo' = Tail(todo) PROVE Claiming(x)'
    BY <1>3, <2>1, <2>2, <2>3 DEF Claiming
  <2> QED
    BY <2>1, <2>3
<1> QED
  BY <1>2, <1>4, <1>5, <1>6

LEMMA WriteGrowing ==
    ASSUME Types, Tree, Stores, Growing
    PROVE  Tree' /\ DiskType(disk') /\ (Moves => Growing')
<1>1. PICK x : x = op.fresh
  OBVIOUS
<1>2. x \in Cluster /\ x \notin InUse /\ Claiming(x) /\ DiskType(disk) /\ IsList(todo)
  BY <1>1 DEF Growing, Spare, Types
<1>3. DiskType(disk') /\ Aside /\ (todo' = Tail(todo) => Claiming(x)')
  BY <1>2, ClaimingStep
<1>4. Tree' /\ InUse' = InUse
  BY <1>3, AsideTree
<1>5. ASSUME Moves PROVE Growing'
  <2>1. Claiming(op.fresh)'
    BY <1>1, <1>3, <1>5 DEF Moves, Claiming
  <2>2. Ending(op.last)'
    <3>1. PICK y : y = op.last
      OBVIOUS
    <3>2. Ending(y)'
      BY <1>3, <3>1, AsideSlots DEF Growing
    <3> QED
      BY <1>5, <3>1, <3>2 DEF Moves, Ending
  <2>3. NewChain = <<>> /\ NewChain' = <<>>
    BY <1>5 DEF Growing, NewChain, Moves
  <2>4. Spare(op.fresh)'
    BY <1>4, <1>5, <2>3 DEF Growing, Spare, Moves
  <2> QED
    BY <1>5, <2>1, <2>2, <2>4 DEF Growing, Moves
<1> QED
  BY <1>3, <1>4, <1>5

LEMMA WholeCluster == ASSUME Whole PROVE Within(NewChain) \subseteq Cluster /\ Len(NewChain) \in Nat
<1>1. CASE op.first = 0
  <2>1. NewChain = <<>>
    BY <1>1 DEF NewChain
  <2> QED
    BY <2>1, EmptyList
<1>2. CASE op.first # 0
  <2>1. IsChain(ActiveFat, op.first, NewChain)
    BY <1>2 DEF Whole
  <2> QED
    BY <2>1, ChainBound
<1> QED
  BY <1>1, <1>2

LEMMA WriteJoining ==
    ASSUME Types, Tree, Stores, Joining
    PROVE  Tree' /\ DiskType(disk') /\ (Moves => Joining')
<1>1. PICK x : x = op.fresh
  OBVIOUS
<1>2. x \in Cluster /\ x \notin InUse /\ Claiming(x) /\ DiskType(disk) /\ IsList(todo)
  BY <1>1 DEF Joining, Spare, Types
<1>3. /\ DiskType(disk') /\ Aside /\ (todo' = Tail(todo) => Claiming(x)')
      /\ \A y \in Cluster : y # x => ActiveFat'[y] = ActiveFat[y]
  BY <1>2, ClaimingStep
<1>4. Tree' /\ InUse' = InUse
  BY <1>3, AsideTree
<1>5. ASSUME Moves PROVE Joining'
  <2>1. Claiming(op.fresh)'
    BY <1>1, <1>3, <1>5 DEF Moves, Claiming
  <2>2. Target'
    BY <1>3, <1>5, AsideTarget DEF Moves, Joining
  <2>3. \A y \in Within(NewChain) : ActiveFat'[y] = ActiveFat[y]
    BY <1>1, <1>3, WholeCluster DEF Joining, Built, Spare
  <2>4. NewChain' = NewChain /\ Whole'
    BY <1>5, <2>3, ChainKept DEF Joining, Built, Moves
  <2>5. Built(op.size - op.left)' /\ Spare(op.fresh)'
    BY <1>4, <1>5, <2>4 DEF Joining, Built, Spare, Moves
  <2> QED
    BY <1>5, <2>1, <2>2, <2>5 DEF Joining, Moves
<1> QED
  BY <1>3, <1>4, <1>5

LEMMA WriteReady ==
    ASSUME Types, Tree, Stores, Ready
    PROVE  Tree' /\ DiskType(disk') /\ (Moves => Ready')
<1>1. Inert(cmd0) /\ DiskType(disk) /\ todo # <<>> /\ Within(Tail(todo)) \subseteq Within(todo)
  BY TodoStep DEF Types, Stores, Ready, AllInert
<1>2. DiskType(disk') /\ Aside /\ ActiveFat' = ActiveFat /\ \A c \in Cluster : disk'[Data(c)] = disk[Data(c)]
  BY <1>1, InertStep
<1>3. Tree' /\ InUse' = InUse
  BY <1>2, AsideTree
<1>4. ASSUME Moves PROVE Ready'
  <2>1. Target'
    BY <1>2, <1>4, AsideTarget DEF Moves, Ready
  <2>2. AllInert(todo)'
    BY <1>1, <1>4 DEF Moves, AllInert, Ready
  <2>3. NewChain' = NewChain /\ Whole'
    BY <1>2, <1>4, ChainKept DEF Ready, Built, Moves
  <2>4. Built(op.size)'
    BY <1>3, <1>4, <2>3 DEF Ready, Built, Moves
  <2>5. Dotted'
    <3>1. ASSUME op.do = "mkdir" /\ op.left = 0 PROVE op.first # 0 /\ disk'[Data(op.first)] = Dots
      <4>1. op.first # 0 /\ disk[Data(op.first)] = Dots
        BY <3>1, Exclusive DEF Ready, Dotted, AllInert
      <4>2. op.first \in Cluster
        BY <4>1, ChainBound DEF Ready, Built, Whole
      <4> QED
        BY <1>2, <4>1, <4>2
    <3> QED
      BY <1>4, <2>2, <3>1, Exclusive DEF Dotted, Moves, AllInert
  <2> QED
    BY <1>4, <2>1, <2>2, <2>4, <2>5 DEF Ready, Moves
<1> QED
  BY <1>2, <1>3, <1>4

LEMMA WriteDoomed ==
    ASSUME Types, Tree, Stores, Doomed
    PROVE  Tree' /\ DiskType(disk') /\ (Moves => Doomed')
<1>1. Inert(cmd0) /\ DiskType(disk) /\ todo # <<>> /\ Within(Tail(todo)) \subseteq Within(todo)
  BY TodoStep DEF Types, Stores, Doomed, AllInert
<1>2. DiskType(disk') /\ Aside
  BY <1>1, InertStep
<1>3. Tree'
  BY <1>2, AsideTree
<1>4. ASSUME Moves PROVE Doomed'
  <2>1. AllInert(todo)'
    BY <1>1, <1>4 DEF Moves, AllInert, Doomed
  <2>2. PICK s, c : s = op.slot /\ c = op.old
    OBVIOUS
  <2>3. Holds(s, c)'
    BY <1>2, <2>2, AsideSlots DEF Doomed
  <2> QED
    BY <1>4, <2>1, <2>2, <2>3 DEF Doomed, Moves, Holds
<1> QED
  BY <1>2, <1>3, <1>4

LEMMA WriteGiving ==
    ASSUME Types, Tree, Stores, Giving
    PROVE  Tree' /\ DiskType(disk') /\ (Moves => Giving')
<1>1. cmd0 \in Within(todo) /\ DiskType(disk) /\ todo # <<>> /\ Within(Tail(todo)) \subseteq Within(todo)
  BY TodoStep DEF Types, Stores
<1>2. DiskType(disk') /\ Aside
  <2>1. CASE Inert(cmd0)
    BY <1>1, <2>1, InertStep
  <2>2. CASE Sets(cmd0, cmd0.at, 0) /\ cmd0.at \in Cluster \ InUse
    BY <1>1, <2>2, SetsStep
  <2> QED
    BY <1>1, <2>1, <2>2 DEF Giving
<1>3. Tree' /\ InUse' = InUse
  BY <1>2, AsideTree
<1>4. Moves => Giving'
  BY <1>1, <1>3 DEF Moves, Giving
<1> QED
  BY <1>2, <1>3, <1>4

\* The fields of a call under way.
LEMMA CallFacts ==
    ASSUME Types, pc # "idle"
    PROVE  /\ op.left \in Nat /\ op.size \in Nat /\ op.left <= op.size
           /\ op.do \in {"write", "mkdir", "remove"}
           /\ op.do = "write" => op.new.kind = "file"
           /\ op.do = "mkdir" => op.new.kind = "dir" /\ op.size = 1
  BY DEF Types, Called

LEMMA PlacedSlots ==
    ASSUME Tree, NEW s, Placed(s)
    PROVE  s \in Cluster \X (1..Slots) /\ s # NoSlot /\ IsSlots(disk[Data(s[1])]) /\ s[1] \in InUse
<1>1. PICK t \in Directories : s \in Within(Chains(disk)[t]) \X (1..Slots)
  BY DEF Placed
<1>2. t \in Owners(disk) /\ (t = NoSlot \/ SlotAt(disk, t).kind = "dir")
  BY DEF Directories, Listed
<1>3. Within(Chains(disk)[t]) \subseteq Cluster
  BY <1>2, OwnChain DEF Tree
<1>4. s[1] \in Within(Chains(disk)[t]) /\ s[1] \in Cluster /\ s \in Cluster \X (1..Slots)
  BY <1>1, <1>3
<1>5. IsSlots(disk[Data(s[1])])
  BY <1>2, <1>4 DEF Tree, Layout, Slotted
<1>6. s # NoSlot
  BY <1>4, ClusterFacts DEF NoSlot
<1> QED
  BY <1>2, <1>4, <1>5, <1>6 DEF InUse, Used

LEMMA HoldsPlaced ==
    ASSUME Tree, NEW s, NEW c, Holds(s, c)
    PROVE  /\ Placed(s) /\ s \in Owners(disk) /\ s # NoSlot /\ SlotAt(disk, s).kind \in Entry
           /\ HeadIn(disk, s) = c
<1>1. s \in Owners(disk) /\ s # NoSlot /\ SlotAt(disk, s).cluster = c
  BY DEF Holds
<1>2. Placed(s) /\ SlotAt(disk, s).kind \in Entry
  BY <1>1 DEF Tree, Layout, Anchored, Sized, Placed, Directories
<1> QED
  BY <1>1, <1>2 DEF HeadIn

\* The cluster is linked to the directory's last one.
LEMMA ExtendTree ==
    ASSUME Types, Tree, Stores, Extending, NEW t \in Directories, HeadIn(disk, t) # 0,
           op.last = Chains(disk)[t][Len(Chains(disk)[t])]
    PROVE  /\ DiskType(disk') /\ Tree' /\ Directories' = Directories /\ Owners(disk') = Owners(disk)
           /\ InUse' = InUse \cup {op.fresh}
           /\ Chains(disk')[t] = Longer(Chains(disk)[t], op.fresh)
           /\ \A s \in Owners(disk) : s # t => Chains(disk')[s] = Chains(disk)[s]
           /\ \A c \in Cluster : disk'[Data(c)] = disk[Data(c)]
           /\ \A c \in Cluster : c # op.last => ActiveFat'[c] = ActiveFat[c]
           /\ op.last \in InUse
<1>1. PICK O, ch, x, y : O = Owners(disk) /\ ch = Chains(disk) /\ x = op.last /\ y = op.fresh
  OBVIOUS
<1>2. Layout(disk, O, ch) /\ DiskType(disk) /\ IsList(todo) /\ InUse = Used(O, ch)
  BY <1>1 DEF Tree, Types, InUse
<1>3. t \in Listed(disk, O, ch) /\ HeadIn(disk, t) # 0 /\ x = ch[t][Len(ch[t])]
  BY <1>1 DEF Directories
<1>4. y \in Cluster /\ y \notin Used(O, ch) /\ ActiveFat[y] = Eoc /\ disk[Data(y)] = Zero
  BY <1>1 DEF Extending, Spare, InUse
<1>5. t \in O /\ IsChain(ActiveFat, HeadIn(disk, t), ch[t]) /\ Within(ch[t]) \subseteq Used(O, ch)
  BY <1>2, <1>3, OwnChain, UsedBy DEF Listed, ActiveFat
<1>6. x \in Within(ch[t]) /\ x \in Cluster /\ x # y /\ Used(O, ch) \subseteq Cluster /\ ch[t] \in Seq(Cluster)
  <2>1. x \in Within(ch[t]) /\ ch[t] \in Seq(Cluster)
    BY <1>3, <1>5 DEF IsChain, Within
  <2>2. Used(O, ch) \subseteq Cluster
    BY <1>2, <1>5, UsedBy
  <2> QED
    BY <1>4, <1>5, <2>1, <2>2
<1>7. Sets(cmd0, x, y)
  BY <1>1 DEF Extending, cmd0
<1>8. /\ DiskType(disk') /\ (\A c \in Cluster : disk'[Data(c)] = disk[Data(c)])
      /\ ActiveFat'[x] = y /\ \A z \in Cluster : z # x => ActiveFat'[z] = ActiveFat[z]
  BY <1>2, <1>6, <1>7, SetsWrite
<1>9. PICK d2, ch2 : d2 = disk' /\ ch2 = [s \in O |-> IF s = t THEN Longer(ch[t], y) ELSE ch[s]]
  OBVIOUS
<1>10. ActiveFat' = FatOf(d2, 0) /\ ActiveFat = FatOf(disk, 0)
  BY <1>9 DEF ActiveFat
<1>11. /\ Layout(d2, O, ch2) /\ Listed(d2, O, ch2) = Listed(disk, O, ch)
       /\ Used(O, ch2) = Used(O, ch) \cup {y}
  <2>1. FatOf(d2, 0)[y] = Eoc /\ d2[Data(y)] = Zero /\ FatOf(d2, 0)[ch[t][Len(ch[t])]] = y
    BY <1>3, <1>4, <1>6, <1>8, <1>9, <1>10
  <2>2. /\ \A z \in Used(O, ch) : d2[Data(z)] = disk[Data(z)]
        /\ \A z \in Used(O, ch) : z # ch[t][Len(ch[t])] => FatOf(d2, 0)[z] = FatOf(disk, 0)[z]
    BY <1>3, <1>6, <1>8, <1>9, <1>10
  <2> QED
    BY <1>2, <1>3, <1>4, <1>9, <2>1, <2>2, LayoutExtend
<1>12. Owners(disk') = O /\ Chains(disk') = ch2
  BY <1>9, <1>11, LayoutOf
<1>13. Tree' /\ Directories' = Directories /\ InUse' = InUse \cup {y}
  BY <1>1, <1>2, <1>9, <1>11, <1>12 DEF Tree, Directories, InUse
<1>14. ch2[t] = Longer(ch[t], y) /\ \A s \in O : s # t => ch2[s] = ch[s]
  BY <1>5, <1>9
<1> QED
  BY <1>1, <1>2, <1>5, <1>6, <1>8, <1>12, <1>13, <1>14

LEMMA WriteExtending ==
    ASSUME Types, pc # "idle", Tree, Stores, Extending
    PROVE  Tree' /\ DiskType(disk') /\ (Moves => Settled')
<1>1. PICK y : y = op.fresh
  OBVIOUS
<1>2. PICK t \in Directories : HeadIn(disk, t) # 0 /\ op.last = Chains(disk)[t][Len(Chains(disk)[t])]
  BY DEF Extending, Ending
<1>3. PICK q : q = Chains(disk)[t]
  OBVIOUS
<1>4. y \in Cluster /\ ActiveFat[y] = Eoc /\ disk[Data(y)] = Zero /\ q \in Seq(Cluster)
  <2>1. IsChain(FatOf(disk, 0), HeadIn(disk, t), q)
    BY <1>2, <1>3, OwnChain DEF Tree, Directories, Listed
  <2> QED
    BY <1>1, <2>1 DEF Extending, Spare, IsChain
<1>5. /\ DiskType(disk') /\ Tree' /\ Directories' = Directories /\ Chains(disk')[t] = Longer(q, y)
      /\ \A c \in Cluster : disk'[Data(c)] = disk[Data(c)]
  BY <1>1, <1>2, <1>3, ExtendTree
<1>6. ASSUME Moves PROVE Settled'
  <2>1. NewChain' = <<>> /\ op'.first = 0
    BY <1>6 DEF NewChain, Extending, Moves
  <2>2. op.left = op.size /\ op.size \in Nat /\ op.size - op.left = 0
    BY CallFacts DEF Extending
  <2>3. Built(op.size - op.left)'
    BY <1>6, <2>1, <2>2, EmptyList DEF Built, Whole, Moves
  <2>4. Vacant(<<y, 1>>)'
    <3>1. Within(Longer(q, y)) = Within(q) \cup {y}
      BY <1>4, LongerFacts
    <3>2. 1 \in 1..Slots /\ <<y, 1>> \in Within(Longer(q, y)) \X (1..Slots)
      BY <3>1
    <3>3. Placed(<<y, 1>>)'
      BY <1>2, <1>5, <3>2 DEF Placed
    <3>4. disk'[Data(y)] = Zero
      BY <1>4, <1>5
    <3>5. IsSlots(Zero) /\ Zero.slots[1].kind = "end"
      BY <3>2 DEF IsSlots, Zero, End
    <3>6. SlotAt(disk', <<y, 1>>).kind = "end"
      <4>1. PICK s : s = <<y, 1>>
        OBVIOUS
      <4>2. s \in Cluster \X (1..Slots) /\ s[1] = y /\ s[2] = 1
        BY <1>4, <3>2, <4>1
      <4>3. SlotAt(disk', s) = disk'[Data(y)].slots[1]
        BY <3>4, <3>5, <4>2, SlotIn
      <4> QED
        BY <3>4, <3>5, <4>1, <4>3
    <3> QED
      BY <3>3, <3>6 DEF Vacant, Entry
  <2>5. Target'
    <3>1. op'.slot = <<y, 1>> /\ op'.old = 0
      BY <1>1, <1>6 DEF Extending, Moves
    <3> QED
      BY <2>4, <3>1 DEF Target, Vacant, Placed
  <2>6. Dotted'
    BY <1>6, <2>2, CallFacts DEF Dotted, Moves
  <2>7. \A c \in Within(todo') : Inert(c)
    BY <1>6 DEF Extending, AllInert, Moves
  <2> QED
    BY <2>3, <2>5, <2>6, <2>7 DEF Settled
<1> QED
  BY <1>5, <1>6

LEMMA WriteSettled ==
    ASSUME Types, pc # "idle", Tree, Stores, Settled
    PROVE  /\ Tree' /\ DiskType(disk') /\ Aside /\ ActiveFat' = ActiveFat
           /\ Moves => Settled' /\ NewChain' = NewChain
<1>1. cmd0 \in Within(todo) /\ DiskType(disk) /\ todo # <<>> /\ Within(todo) = {cmd0} \cup Within(Tail(todo))
  BY TodoStep DEF Types, Stores
<1>2. op.first # 0 => op.first \in Cluster /\ op.last \in Cluster \ InUse
  <2>1. ASSUME op.first # 0 PROVE op.first \in Cluster /\ op.last \in Cluster \ InUse
    <3>1. IsChain(ActiveFat, op.first, NewChain) /\ Within(NewChain) \cap InUse = {}
      BY <2>1 DEF Settled, Built, Whole
    <3>2. NewChain[Len(NewChain)] = op.last
      BY <2>1 DEF Settled, Built
    <3>3. op.last \in Within(NewChain)
      BY <3>1, <3>2 DEF IsChain, Within
    <3> QED
      BY <3>1, <3>3, ChainBound
  <2> QED
    BY <2>1
<1>3. /\ DiskType(disk') /\ Aside /\ ActiveFat' = ActiveFat
      /\ op.first # 0 => disk'[Data(op.first)] = disk[Data(op.first)]
                         \/ (Puts(cmd0, op.first) /\ disk'[Data(op.first)] = cmd0.to)
      /\ op.first # 0 /\ Puts(cmd0, op.first) => disk'[Data(op.first)] = cmd0.to
  <2>1. CASE Inert(cmd0)
    <3>1. \A x : ~Puts(cmd0, x)
      BY <2>1, Exclusive
    <3> QED
      BY <1>1, <1>2, <2>1, <3>1, InertStep
  <2>2. CASE op.first # 0 /\ Puts(cmd0, op.last)
    <3>1. PICK x : x = op.last
      OBVIOUS
    <3>2. x \in Cluster /\ x \notin InUse /\ Puts(cmd0, x)
      BY <1>2, <2>2, <3>1
    <3>3. /\ DiskType(disk') /\ Aside /\ ActiveFat' = ActiveFat /\ disk'[Data(x)] = cmd0.to
          /\ \A c \in Cluster : c # x => disk'[Data(c)] = disk[Data(c)]
      BY <1>1, <3>2, PutsStep
    <3>4. Puts(cmd0, op.first) => op.first = x
      BY <3>2, Exclusive
    <3> QED
      BY <1>2, <2>2, <3>2, <3>3, <3>4
  <2> QED
    BY <1>1, <2>1, <2>2 DEF Settled
<1>4. Tree' /\ InUse' = InUse
  BY <1>3, AsideTree
<1>5. ASSUME Moves PROVE Settled' /\ NewChain' = NewChain
  <2>1. Target'
    BY <1>3, <1>5, AsideTarget DEF Moves, Settled
  <2>2. NewChain' = NewChain /\ Whole'
    BY <1>3, <1>5, ChainKept DEF Settled, Built, Moves
  <2>3. Built(op.size - op.left)'
    BY <1>4, <1>5, <2>2 DEF Settled, Built, Moves
  <2>4. ASSUME op.do = "mkdir" /\ op.left = 0
        PROVE  /\ op.first # 0
               /\ disk'[Data(op.first)] = Dots \/ \E c \in Within(todo') : Puts(c, op.first)
               /\ \A c \in Within(todo') : Puts(c, op.first) => c.to = Dots
    <3>1. /\ op.first # 0 /\ (\A c \in Within(todo) : Puts(c, op.first) => c.to = Dots)
          /\ disk[Data(op.first)] = Dots \/ \E c \in Within(todo) : Puts(c, op.first)
      BY <2>4 DEF Settled, Dotted
    <3>2. Within(todo') = Within(Tail(todo)) /\ Within(todo') \subseteq Within(todo)
      BY <1>1, <1>5 DEF Moves
    <3>3. \A c \in Within(todo') : Puts(c, op.first) => c.to = Dots
      BY <3>1, <3>2
    <3>4. CASE Puts(cmd0, op.first)
      BY <1>1, <1>3, <3>1, <3>3, <3>4
    <3>5. CASE ~Puts(cmd0, op.first)
      BY <1>1, <1>3, <3>1, <3>2, <3>3, <3>5
    <3> QED
      BY <3>4, <3>5
  <2>5. Dotted'
    BY <1>5, <2>4 DEF Dotted, Moves
  <2>6. \A c \in Within(todo') : Inert(c) \/ (op'.first # 0 /\ Puts(c, op'.last))
    BY <1>1, <1>5 DEF Settled, Moves
  <2>7. Settled'
    BY <2>1, <2>3, <2>5, <2>6 DEF Settled
  <2> QED
    BY <2>2, <2>7
<1> QED
  BY <1>3, <1>4, <1>5

LEMMA WriteLinking ==
    ASSUME Types, pc # "idle", Tree, Stores, Linking
    PROVE  /\ Tree' /\ DiskType(disk') /\ Aside
           /\ \A z \in Cluster \ Within(NewChain) : ActiveFat'[z] = ActiveFat[z]
           /\ Moves => Settled' /\ Within(NewChain') = Within(NewChain) \cup {op.last}
<1>1. cmd0 \in Within(todo) /\ DiskType(disk) /\ todo # <<>> /\ Within(todo) = {cmd0} \cup Within(Tail(todo))
  BY TodoStep DEF Types, Stores
<1>2. PICK f, f2, c, q, y, x :
         /\ f = ActiveFat /\ f2 = ActiveFat' /\ c = op.first /\ q = NewChain /\ y = op.last
         /\ x = NewChain[Len(NewChain)]
  OBVIOUS
<1>3. IsChain(f, c, q) /\ Within(q) \cap InUse = {} /\ c # 0
  BY <1>2 DEF Linking, Whole
<1>4. x = q[Len(q)] /\ x \in Within(q) /\ x \in Cluster /\ x \notin InUse /\ Sets(cmd0, x, y)
  <2>1. x = q[Len(q)] /\ Sets(cmd0, x, y)
    BY <1>2 DEF Linking, cmd0
  <2>2. x \in Within(q)
    BY <1>3, <2>1 DEF IsChain, Within
  <2> QED
    BY <1>3, <2>1, <2>2, ChainBound
<1>5. y \in Cluster /\ y \notin InUse /\ y \notin Within(q) /\ f[y] = Eoc
  BY <1>2 DEF Linking, Spare
<1>6. /\ DiskType(disk') /\ Aside /\ f2[x] = y /\ (\A z \in Cluster : z # x => f2[z] = f[z])
      /\ \A z \in Cluster : disk'[Data(z)] = disk[Data(z)]
  BY <1>1, <1>2, <1>4, SetsStep
<1>7. Tree' /\ InUse' = InUse
  BY <1>6, AsideTree
<1>8. ASSUME Moves PROVE Settled' /\ Within(NewChain') = Within(NewChain) \cup {op.last}
  <2>1. Links(f, f2, q, y)
    <3>1. Within(q) \subseteq Cluster
      BY <1>3, ChainBound
    <3> QED
      BY <1>4, <1>5, <1>6, <3>1 DEF Links
  <2>2. IsChain(f2, c, Longer(q, y))
    BY <1>3, <2>1, ChainAppend
  <2>3. Chain(f2, c) = Longer(q, y)
    BY <2>2, ChainIs
  <2>4. NewChain' = Longer(q, y) /\ op'.first # 0 /\ op'.first = c
    BY <1>2, <1>3, <1>8, <2>3 DEF NewChain, Moves
  <2>5. /\ Len(Longer(q, y)) = Len(q) + 1 /\ Longer(q, y)[Len(q) + 1] = y
        /\ Within(Longer(q, y)) = Within(q) \cup {y}
    BY <1>3, <1>5, LongerFacts DEF IsChain
  <2>6. Len(q) = op.size - op.left - 1 /\ op.size - op.left = Len(q) + 1
    BY <1>2, CallFacts DEF Linking
  <2>7. Whole'
    BY <1>2, <2>2, <2>4 DEF Whole
  <2>8. Built(op.size - op.left)'
    <3>1. Within(NewChain') \cap InUse' = {}
      BY <1>3, <1>5, <1>7, <2>4, <2>5
    <3>2. op'.size - op'.left = Len(q) + 1 /\ op'.last = y
      BY <1>2, <1>8, <2>6 DEF Moves
    <3>3. Len(NewChain') = Len(q) + 1 /\ NewChain'[Len(q) + 1] = y
      BY <2>4, <2>5
    <3> QED
      BY <2>7, <3>1, <3>2, <3>3 DEF Built
  <2>9. Target'
    BY <1>6, <1>8, AsideTarget DEF Moves, Linking
  <2>10. Dotted'
    <3>1. op.first \in Cluster
      BY <1>2, <1>3, ChainBound
    <3>2. ~Puts(cmd0, op.first)
      BY <1>4, Exclusive
    <3>3. Within(todo') = Within(Tail(todo))
      BY <1>8 DEF Moves
    <3> QED
      BY <1>1, <1>6, <1>8, <3>1, <3>2, <3>3 DEF Dotted, Linking, Moves
  <2>11. \A k \in Within(todo') : Inert(k) \/ (op'.first # 0 /\ Puts(k, op'.last))
    BY <1>8, <2>4 DEF Linking, Moves
  <2>12. Settled'
    BY <2>8, <2>9, <2>10, <2>11 DEF Settled
  <2> QED
    BY <1>2, <2>4, <2>5, <2>12
<1>9. \A z \in Cluster \ Within(NewChain) : ActiveFat'[z] = ActiveFat[z]
  BY <1>2, <1>4, <1>6
<1> QED
  BY <1>6, <1>7, <1>8, <1>9

LEMMA WriteFilling ==
    ASSUME Types, pc # "idle", Tree, Stores, Filling
    PROVE  Tree' /\ DiskType(disk') /\ (Moves => Filling')
  BY WriteExtending, WriteSettled, WriteLinking DEF Filling, Moves

LEMMA DotsFacts == IsSlots(Dots) /\ \A i \in 1..Slots : Dots.slots[i].kind \notin Entry
<1>1. PICK z : z = [i \in 1..Slots |-> IF i <= 2 THEN Dot ELSE End]
  OBVIOUS
<1>2. Dots = [slots |-> z] /\ Dots.slots = z /\ z = [i \in 1..Slots |-> z[i]]
  BY <1>1 DEF Dots
<1>3. Dot.kind = "dot" /\ End.kind = "end"
  BY DEF Dot, End
<1>4. \A i \in 1..Slots : z[i].kind \notin Entry
  BY <1>1, <1>3 DEF Entry
<1> QED
  BY <1>2, <1>4 DEF IsSlots

\* The chain of a new directory holds its dots and no entry.
LEMMA DottedChain ==
    ASSUME Types, pc # "idle", op.do = "mkdir", op.left = 0, Built(op.size), Dotted,
           \A c \in Within(todo) : ~Puts(c, op.first)
    PROVE  /\ Within(NewChain) = {op.first} /\ disk[Data(op.first)] = Dots
           /\ Named(disk, NewChain) = {} /\ \A c \in Within(NewChain) : IsSlots(disk[Data(c)])
<1>1. op.first # 0 /\ disk[Data(op.first)] = Dots
  BY DEF Dotted
<1>2. op.size = 1 /\ Len(NewChain) = 1 /\ NewChain[1] = op.first /\ op.first \in Cluster
  <2>1. IsChain(ActiveFat, op.first, NewChain) /\ Len(NewChain) = op.size /\ op.size = 1
    BY <1>1, CallFacts DEF Built, Whole
  <2> QED
    BY <2>1, ChainBound DEF IsChain
<1>3. Within(NewChain) = {op.first}
  BY <1>2 DEF Within
<1>4. ASSUME NEW s \in {op.first} \X (1..Slots) PROVE SlotAt(disk, s).kind \notin Entry
  <2>1. s \in Cluster \X (1..Slots) /\ s[1] = op.first /\ s[2] \in 1..Slots
    BY <1>2
  <2>2. SlotAt(disk, s) = Dots.slots[s[2]]
    BY <1>1, <2>1, DotsFacts, SlotIn
  <2> QED
    BY <2>1, <2>2, DotsFacts
<1>5. Named(disk, NewChain) = {}
  BY <1>3, <1>4 DEF Named
<1> QED
  BY <1>1, <1>3, <1>5, DotsFacts

\* What the write of the entry does to the layout.
Publishes ==
    /\ Marked(disk, disk', op.slot, NewEntry)
    /\ Publishable(disk, Owners(disk), Chains(disk), op.slot, NewEntry, NewChain)
    /\ Joined(Owners(disk), Chains(disk), op.slot, NewChain, Owners(disk'), Chains(disk'))
    /\ op.slot \in Owners(disk) => HeadIn(disk, op.slot) = op.old
    /\ ActiveFat' = ActiveFat

LEMMA WritePublishing ==
    ASSUME Types, pc # "idle", Tree, Stores, Publishing
    PROVE  Tree' /\ DiskType(disk') /\ Publishes /\ (Moves => Clearing')
<1>1. PICK O, ch, s, e, q, d2 :
         O = Owners(disk) /\ ch = Chains(disk) /\ s = op.slot /\ e = NewEntry /\ q = NewChain /\ d2 = disk'
  OBVIOUS
<1>2. Layout(disk, O, ch) /\ DiskType(disk) /\ InUse = Used(O, ch)
  BY <1>1 DEF Tree, Types, InUse
<1>3. Marks(cmd0, s, e) /\ cmd0 \in Within(todo) /\ Within(todo) = {cmd0} \cup Within(Tail(todo))
  BY <1>1, TodoStep DEF Publishing, cmd0, Types
<1>4. Overwrites \/ (op.old = 0 /\ Vacant(s))
  BY <1>1 DEF Publishing, Target
<1>5. /\ Placed(s) /\ (s \in O => SlotAt(disk, s).kind = "file" /\ HeadIn(disk, s) = op.old)
      /\ op.old # 0 => s \in O /\ s # NoSlot /\ HeadIn(disk, s) = op.old
  <2>1. CASE Overwrites
    BY <1>1, <2>1, HoldsPlaced DEF Overwrites
  <2>2. CASE op.old = 0 /\ Vacant(s)
    <3>1. Placed(s) /\ SlotAt(disk, s).kind \notin Entry
      BY <2>2 DEF Vacant
    <3>2. s \notin O
      BY <1>2, <3>1, PlacedSlots, OwnSlot
    <3> QED
      BY <2>2, <3>1, <3>2
  <2> QED
    BY <1>4, <2>1, <2>2
<1>6. s \in Cluster \X (1..Slots) /\ IsSlots(disk[Data(s[1])])
  BY <1>5, PlacedSlots
<1>7. DiskType(disk') /\ Marked(disk, disk', s, e) /\ ActiveFat' = ActiveFat
  BY <1>2, <1>3, <1>6, MarksWrite
<1>8. Publishable(disk, O, ch, s, e, q)
  <2>1. \E t \in Listed(disk, O, ch) : s \in Within(ch[t]) \X (1..Slots)
    BY <1>1, <1>5 DEF Placed, Directories
  <2>2. e.kind = op.new.kind /\ e.cluster = op.first /\ e.size = op.size
    BY <1>1 DEF NewEntry
  <2>3. op.size \in Nat /\ Len(q) = op.size /\ Within(q) \cap Used(O, ch) = {} /\ Whole
    BY <1>1, <1>2, CallFacts DEF Publishing, Built
  <2>4. e.kind \in Entry /\ (e.kind = "dir" => op.do = "mkdir")
    BY <2>2, CallFacts DEF Publishing, Entry
  <2>5. IF e.cluster = 0 THEN q = <<>> ELSE IsChain(FatOf(disk, 0), e.cluster, q)
    BY <1>1, <2>2, <2>3 DEF Whole, NewChain, ActiveFat
  <2>6. Within(q) \subseteq Cluster
    BY <1>1, <2>3, WholeCluster
  <2>7. ASSUME e.kind = "dir" PROVE Named(disk, q) = {} /\ \A c \in Within(q) : IsSlots(disk[Data(c)])
    <3>1. \A c \in Within(todo) : ~Puts(c, op.first)
      BY <1>3, Exclusive DEF Publishing, AllInert
    <3> QED
      BY <1>1, <2>4, <2>7, <3>1, DottedChain DEF Publishing
  <2> QED
    BY <1>5, <2>1, <2>2, <2>3, <2>4, <2>5, <2>6, <2>7 DEF Publishable
<1>9. PICK O2, ch2 : Joined(O, ch, s, q, O2, ch2)
  BY DEF Joined
<1>10. /\ Layout(d2, O2, ch2) /\ Used(O2, ch2) \subseteq Used(O, ch) \cup Within(q)
       /\ s \in O => Used(O2, ch2) \cap Within(ch[s]) = {}
  <2>1. Marked(disk, d2, s, e)
    BY <1>1, <1>7
  <2> QED
    BY <1>2, <1>8, <1>9, <2>1, LayoutPublish
<1>11. Owners(disk') = O2 /\ Chains(disk') = ch2
  BY <1>1, <1>10, LayoutOf
<1>12. Tree' /\ InUse' = Used(O2, ch2) /\ Publishes
  <2>1. Tree' /\ InUse' = Used(O2, ch2)
    BY <1>1, <1>10, <1>11 DEF Tree, InUse
  <2>2. Publishes
    BY <1>1, <1>5, <1>7, <1>8, <1>9, <1>11 DEF Publishes
  <2> QED
    BY <2>1, <2>2
<1>13. ASSUME Moves PROVE Clearing'
  <2>1. ASSUME op.old # 0
        PROVE  IsChain(ActiveFat, op.old, Chain(ActiveFat, op.old)) /\ Within(Chain(ActiveFat, op.old)) \cap InUse' = {}
    <3>1. s \in O /\ HeadIn(disk, s) = op.old
      BY <1>5, <2>1
    <3>2. ch[s] = Chain(ActiveFat, op.old) /\ IsChain(ActiveFat, op.old, ch[s])
      BY <1>2, <2>1, <3>1, OwnChain DEF ActiveFat
    <3> QED
      BY <1>10, <1>12, <3>1, <3>2
  <2>2. Freed'
    BY <1>7, <1>13, <2>1 DEF Freed, Moves
  <2>3. \A c \in Within(todo') : Inert(c)
    BY <1>13 DEF Publishing, AllInert, Moves
  <2> QED
    BY <2>2, <2>3 DEF Clearing, Mild
<1> QED
  BY <1>7, <1>12, <1>13

Unlinks ==
    /\ Marked(disk, disk', op.slot, Deleted)
    /\ Parted(Owners(disk), Chains(disk), op.slot, Owners(disk'), Chains(disk'))
    /\ Directories' = Directories \ {op.slot} /\ ActiveFat' = ActiveFat

LEMMA WriteUnlinking ==
    ASSUME Types, pc # "idle", Tree, Stores, Unlinking
    PROVE  Tree' /\ DiskType(disk') /\ Unlinks /\ (Moves => Clearing')
<1>1. PICK O, ch, s, d2 : O = Owners(disk) /\ ch = Chains(disk) /\ s = op.slot /\ d2 = disk'
  OBVIOUS
<1>2. Layout(disk, O, ch) /\ DiskType(disk) /\ InUse = Used(O, ch)
  BY <1>1 DEF Tree, Types, InUse
<1>3. Marks(cmd0, s, Deleted)
  BY <1>1 DEF Unlinking, cmd0
<1>4. Holds(s, op.old) /\ Placed(s) /\ s \in O /\ s # NoSlot /\ HeadIn(disk, s) = op.old
  BY <1>1, HoldsPlaced DEF Unlinking
<1>5. s \in Cluster \X (1..Slots) /\ IsSlots(disk[Data(s[1])])
  BY <1>4, PlacedSlots
<1>6. DiskType(disk') /\ Marked(disk, disk', s, Deleted) /\ ActiveFat' = ActiveFat
  BY <1>2, <1>3, <1>5, MarksWrite
<1>7. PICK O2, ch2 : Parted(O, ch, s, O2, ch2)
  BY DEF Parted
<1>8. Deleted.kind \notin Entry
  BY DEF Deleted, Entry
<1>9. /\ Layout(d2, O2, ch2) /\ Used(O2, ch2) \subseteq Used(O, ch) /\ Used(O2, ch2) \cap Within(ch[s]) = {}
      /\ Listed(d2, O2, ch2) = Listed(disk, O, ch) \ {s}
  <2>1. PICK d, e : d = disk /\ e = Deleted
    OBVIOUS
  <2>2. Marked(d, d2, s, e) /\ e.kind \notin Entry
    BY <1>1, <1>6, <1>8, <2>1
  <2>3. Layout(d, O, ch) /\ s \in O /\ s # NoSlot
    BY <1>2, <1>4, <2>1
  <2>4. Layout(d2, O2, ch2)
    BY <1>7, <2>2, <2>3, LayoutRemove
  <2>5. Used(O2, ch2) \subseteq Used(O, ch) /\ Used(O2, ch2) \cap Within(ch[s]) = {}
    BY <1>7, <2>2, <2>3, LayoutRemove
  <2>6. Listed(d2, O2, ch2) = Listed(d, O, ch) \ {s}
    BY <1>7, <2>2, <2>3, LayoutRemove
  <2> QED
    BY <2>1, <2>4, <2>5, <2>6
<1>10. Owners(disk') = O2 /\ Chains(disk') = ch2
  BY <1>1, <1>9, LayoutOf
<1>11. Tree' /\ InUse' = Used(O2, ch2) /\ Directories' = Directories \ {s}
  BY <1>1, <1>9, <1>10 DEF Tree, InUse, Directories
<1>12. ASSUME NEW r, Vacant(r), r # s, r[1] \notin Within(ch[s]) PROVE Vacant(r)'
  <2>1. PICK t \in Directories : r \in Within(ch[t]) \X (1..Slots)
    BY <1>1, <1>12 DEF Vacant, Placed
  <2>2. t # s /\ t \in Directories'
    BY <1>11, <1>12, <2>1
  <2>3. t \in O2 /\ ch2[t] = ch[t]
    BY <1>7, <1>10, <2>2 DEF Directories, Listed, Parted
  <2>4. Placed(r)'
    BY <1>10, <2>1, <2>2, <2>3 DEF Placed
  <2>5. r \in Cluster \X (1..Slots)
    BY <1>12, PlacedSlots DEF Vacant
  <2>6. SlotAt(disk', r) = SlotAt(disk, r)
    BY <1>6, <1>12, <2>5 DEF Marked
  <2> QED
    BY <1>12, <2>4, <2>6 DEF Vacant
<1>13. ASSUME Moves PROVE Clearing'
  <2>1. ASSUME op.old # 0
        PROVE  IsChain(ActiveFat, op.old, Chain(ActiveFat, op.old)) /\ Within(Chain(ActiveFat, op.old)) \cap InUse' = {}
    <3>1. ch[s] = Chain(ActiveFat, op.old) /\ IsChain(ActiveFat, op.old, ch[s])
      BY <1>2, <1>4, <2>1, OwnChain DEF ActiveFat
    <3> QED
      BY <1>9, <1>11, <3>1
  <2>2. Freed'
    BY <1>6, <1>13, <2>1 DEF Freed, Moves
  <2>3. ASSUME NEW c \in Within(todo') PROVE Mild(c)'
    <3>1. c \in Within(Tail(todo))
      BY <1>13 DEF Moves
    <3>2. CASE Inert(c)
      BY <3>2 DEF Mild
    <3>3. CASE ~Inert(c)
      <4>1. PICK r : r = <<c.b[2], c.at>>
        OBVIOUS
      <4>2. Marks(c, r, Deleted) /\ Vacant(r) /\ r # s /\ r[1] = s[1]
        BY <1>1, <3>1, <3>3, <4>1 DEF Unlinking, Mild
      <4>3. r[1] \notin Within(ch[s])
        <5>1. PICK t \in Listed(disk, O, ch) : s \in Within(ch[t]) \X (1..Slots)
          BY <1>1, <1>4 DEF Placed, Directories
        <5>2. t \in O /\ s[1] \in Within(ch[t]) /\ NoSlot \in O
          BY <1>2, <5>1 DEF Listed, Layout
        <5>3. CASE t = s
          <6>1. s[1] \in Within(ch[NoSlot])
            BY <1>4, <5>1, <5>3 DEF Listed
          <6> QED
            BY <1>2, <1>4, <4>2, <5>2, <6>1 DEF Layout, Apart
        <5>4. CASE t # s
          BY <1>2, <1>4, <4>2, <5>2, <5>4 DEF Layout, Apart
        <5> QED
          BY <5>3, <5>4
      <4>4. Vacant(r)'
        BY <1>12, <4>2, <4>3
      <4> QED
        BY <4>1, <4>2, <4>4 DEF Mild, Vacant, Placed
    <3> QED
      BY <3>2, <3>3
  <2> QED
    BY <2>2, <2>3 DEF Clearing
<1>14. Unlinks
  BY <1>1, <1>6, <1>7, <1>10, <1>11 DEF Unlinks
<1> QED
  BY <1>6, <1>11, <1>13, <1>14

\* A slot that names nothing is marked as deleted.
Erases ==
    /\ \E s : Marked(disk, disk', s, Deleted)
    /\ Owners(disk') = Owners(disk) /\ Chains(disk') = Chains(disk) /\ Directories' = Directories

LEMMA WriteClearing ==
    ASSUME Types, pc # "idle", Tree, Stores, Clearing
    PROVE  /\ Tree' /\ DiskType(disk') /\ (Aside \/ Erases) /\ ActiveFat' = ActiveFat /\ InUse' = InUse
           /\ Moves => Clearing'
<1>1. cmd0 \in Within(todo) /\ DiskType(disk) /\ todo # <<>> /\ Within(todo) = {cmd0} \cup Within(Tail(todo))
  BY TodoStep DEF Types, Stores
<1>2. /\ DiskType(disk') /\ Tree' /\ InUse' = InUse /\ ActiveFat' = ActiveFat
      /\ (Aside \/ Erases) /\ \A r : Vacant(r) => Vacant(r)'
  <2>1. CASE Inert(cmd0)
    BY <1>1, <2>1, InertStep, AsideTree, AsideSlots
  <2>2. CASE ~Inert(cmd0)
    <3>1. PICK O, ch, s, d2 :
             O = Owners(disk) /\ ch = Chains(disk) /\ s = <<cmd0.b[2], cmd0.at>> /\ d2 = disk'
      OBVIOUS
    <3>2. Marks(cmd0, s, Deleted) /\ Vacant(s)
      BY <1>1, <2>2, <3>1 DEF Clearing, Mild
    <3>3. s \in Cluster \X (1..Slots) /\ IsSlots(disk[Data(s[1])]) /\ SlotAt(disk, s).kind \notin Entry
      BY <3>2, PlacedSlots DEF Vacant
    <3>4. DiskType(disk') /\ Marked(disk, disk', s, Deleted) /\ ActiveFat' = ActiveFat
      BY <1>1, <3>2, <3>3, MarksWrite
    <3>5. Deleted.kind \notin Entry
      BY DEF Deleted, Entry
    <3>6. Layout(d2, O, ch) /\ Listed(d2, O, ch) = Listed(disk, O, ch)
      <4>1. Layout(disk, O, ch) /\ Marked(disk, d2, s, Deleted)
        BY <3>1, <3>4 DEF Tree
      <4> QED
        BY <3>3, <3>5, <4>1, LayoutQuiet
    <3>7. Owners(disk') = O /\ Chains(disk') = ch
      BY <3>1, <3>6, LayoutOf
    <3>8. Tree' /\ InUse' = InUse /\ Directories' = Directories
      BY <3>1, <3>6, <3>7 DEF Tree, InUse, Directories
    <3>9. ASSUME NEW r, Vacant(r) PROVE Vacant(r)'
      <4>1. Placed(r)'
        BY <3>1, <3>7, <3>8, <3>9 DEF Vacant, Placed
      <4>2. r \in Cluster \X (1..Slots)
        BY <3>9, PlacedSlots DEF Vacant
      <4>3. SlotAt(disk', r) = IF r = s THEN Deleted ELSE SlotAt(disk, r)
        BY <3>4, <4>2 DEF Marked
      <4> QED
        BY <3>5, <3>9, <4>1, <4>3 DEF Vacant
    <3>10. Erases
      BY <3>1, <3>4, <3>7, <3>8 DEF Erases
    <3> QED
      BY <3>4, <3>8, <3>9, <3>10
  <2> QED
    BY <2>1, <2>2
<1>3. ASSUME Moves PROVE Clearing'
  <2>1. Freed'
    BY <1>2, <1>3 DEF Clearing, Freed, Moves
  <2>2. ASSUME NEW c \in Within(todo') PROVE Mild(c)'
    <3>1. Mild(c)
      BY <1>1, <1>3 DEF Clearing, Moves
    <3>2. PICK r : r = <<c.b[2], c.at>>
      OBVIOUS
    <3>3. Inert(c) \/ (Marks(c, r, Deleted) /\ Vacant(r)')
      BY <1>2, <3>1, <3>2 DEF Mild
    <3> QED
      BY <3>2, <3>3 DEF Mild, Vacant, Placed
  <2> QED
    BY <2>1, <2>2 DEF Clearing
<1> QED
  BY <1>2, <1>3

LEMMA WriteChanging ==
    ASSUME Types, pc # "idle", Tree, Stores, Changing
    PROVE  Tree' /\ DiskType(disk') /\ (Moves => Changing')
  BY WritePublishing, WriteUnlinking, WriteClearing DEF Changing

\* Every write of every phase.
LEMMA WriteKeeps ==
    ASSUME VolumeInductive, Stores
    PROVE  Tree' /\ DiskType(disk') /\ (Moves /\ pc' = pc => Phase')
<1>1. Types /\ Tree /\ Phase /\ pc \in Phases /\ pc # "idle"
  BY DEF VolumeInductive, Phase, Stores, Types
<1>2. CASE pc = "slot"
  BY <1>1, <1>2, WriteSearching DEF Phase
<1>3. CASE pc = "extend"
  BY <1>1, <1>3, WriteGrowing DEF Phase
<1>4. CASE pc = "fill"
  BY <1>1, <1>4, WriteFilling DEF Phase
<1>5. CASE pc = "link"
  BY <1>1, <1>5, WriteJoining DEF Phase
<1>6. CASE pc = "publish"
  BY <1>1, <1>6, WriteReady DEF Phase
<1>7. CASE pc = "unlink"
  BY <1>1, <1>7, WriteDoomed DEF Phase
<1>8. CASE pc = "free"
  BY <1>1, <1>8, WriteChanging DEF Phase
<1>9. CASE pc \in {"return", "abort"}
  BY <1>1, <1>9, WriteGiving DEF Phase
<1> QED
  BY <1>1, <1>2, <1>3, <1>4, <1>5, <1>6, <1>7, <1>8, <1>9 DEF Phases

-----------------------------------------------------------------------------
(* What a phase sees, and what it finds.                                   *)

LEMMA SeenFacts ==
    ASSUME Caches, NEW b, b # <<>>
    PROVE  /\ Seen(fatCache, b) = disk[b] /\ Seen(dirCache, b) = disk[b]
           /\ Load(fatCache, b) = [lba |-> b, data |-> disk[b]]
           /\ Load(dirCache, b) = [lba |-> b, data |-> disk[b]]
<1>1. Invalid.lba = <<>>
  BY DEF Invalid
<1>2. Seen(fatCache, b) = disk[b] /\ Seen(dirCache, b) = disk[b]
  BY <1>1 DEF Caches, Seen
<1> QED
  BY <1>2 DEF Load

LEMMA SeenDisk ==
    ASSUME Types
    PROVE  FatSeen = ActiveFat /\ DirSeen = disk
<1>1. ASSUME NEW c \in Cluster PROVE Seen(fatCache, FatBlock(0, c)) = disk[FatBlock(0, c)]
  <2>1. FatBlock(0, c) # <<>>
    BY DEF FatBlock
  <2> QED
    BY <2>1, SeenFacts DEF Types
<1>2. FatSeen = ActiveFat
  BY <1>1 DEF FatSeen, ActiveFat, FatOf
<1>3. disk = [b \in Blocks |-> disk[b]] /\ (dirCache # Invalid => dirCache.data = disk[dirCache.lba])
  BY DEF Types, DiskType, Caches
<1>4. dirCache # Invalid => [disk EXCEPT ![dirCache.lba] = dirCache.data] = disk
  BY <1>3
<1> QED
  BY <1>2, <1>4 DEF DirSeen

\* A cache is empty or holds what the disk does.
Honest(cache) == cache = Invalid \/ cache.data = disk[cache.lba]

LEMMA LoadHonest ==
    ASSUME Caches
    PROVE  /\ \A t, c : Honest(Load(fatCache, FatBlock(t, c))) /\ Honest(Load(dirCache, Data(c)))
           /\ Honest(fatCache) /\ Honest(dirCache)
<1>1. ASSUME NEW t, NEW c PROVE Honest(Load(fatCache, FatBlock(t, c))) /\ Honest(Load(dirCache, Data(c)))
  <2>1. FatBlock(t, c) # <<>> /\ Data(c) # <<>>
    BY DEF FatBlock, Data
  <2>2. /\ Load(fatCache, FatBlock(t, c)) = [lba |-> FatBlock(t, c), data |-> disk[FatBlock(t, c)]]
        /\ Load(dirCache, Data(c)) = [lba |-> Data(c), data |-> disk[Data(c)]]
    BY <2>1, SeenFacts
  <2> QED
    BY <2>2 DEF Honest
<1> QED
  BY <1>1 DEF Caches, Honest

LEMMA HonestCaches ==
    ASSUME disk' = disk, NEW f, NEW g, Honest(f), Honest(g), fatCache' = f, dirCache' = g
    PROVE  Caches'
  BY DEF Caches, Honest

LEMMA SameDisk ==
    ASSUME disk' = disk
    PROVE  /\ Tree' = Tree /\ InUse' = InUse /\ Directories' = Directories /\ ActiveFat' = ActiveFat
           /\ \A s : Placed(s)' = Placed(s) /\ Vacant(s)' = Vacant(s)
           /\ \A s, c : Holds(s, c)' = Holds(s, c)
           /\ \A c : Ending(c)' = Ending(c)
  BY DEF Tree, InUse, Directories, ActiveFat, Placed, Vacant, Holds, Ending

LEMMA FindFacts ==
    ASSUME NEW d, NEW fat, NEW dir, NEW name, Find(d, fat, dir, name) # NoSlot
    PROVE  Find(d, fat, dir, name) \in EntriesOf(d, fat, dir)
<1>1. PICK hits : hits = {s \in EntriesOf(d, fat, dir) : SlotAt(d, s).name = name}
  OBVIOUS
<1>2. Find(d, fat, dir, name) = IF hits = {} THEN NoSlot ELSE CHOOSE s \in hits : TRUE
  BY <1>1 DEF Find
<1>3. Find(d, fat, dir, name) \in hits
  BY <1>2
<1> QED
  BY <1>1, <1>3

\* The directory a path lies in is one that is read.
LEMMA ParentFacts ==
    ASSUME Tree, NEW p, ParentOf(disk, ActiveFat, p) # 0
    PROVE  \E t \in Directories : HeadIn(disk, t) = ParentOf(disk, ActiveFat, p)
<1>1. PICK O, ch : O = Owners(disk) /\ ch = Chains(disk)
  OBVIOUS
<1>2. Layout(disk, O, ch) /\ ActiveFat = FatOf(disk, 0) /\ Directories = Listed(disk, O, ch)
  BY <1>1 DEF Tree, ActiveFat, Directories
<1>3. CASE Len(p) = 1
  BY <1>2, <1>3, RootListed DEF ParentOf
<1>4. CASE Len(p) # 1
  <2>1. PICK s : s = Find(disk, ActiveFat, Root, p[1])
    OBVIOUS
  <2>2. SlotAt(disk, s).kind = "dir" /\ ParentOf(disk, ActiveFat, p) = SlotAt(disk, s).cluster
    BY <1>4, <2>1 DEF ParentOf
  <2>3. s # NoSlot
    BY <2>2 DEF SlotAt, NoEntry
  <2>4. s \in EntriesOf(disk, FatOf(disk, 0), Root)
    BY <1>2, <2>1, <2>3, FindFacts
  <2> QED
    BY <1>2, <2>2, <2>4, DirectoryListed
<1> QED
  BY <1>3, <1>4

LEMMA StatFacts ==
    ASSUME Tree, NEW p, ParentOf(disk, ActiveFat, p) # 0, NEW s, s = Stat(disk, ActiveFat, p), s # NoSlot
    PROVE  s \in Owners(disk) \ {NoSlot} /\ SlotAt(disk, s).kind \in Entry
<1>1. PICK t \in Directories : HeadIn(disk, t) = ParentOf(disk, ActiveFat, p)
  BY ParentFacts
<1>2. s \in EntriesOf(disk, ActiveFat, HeadIn(disk, t))
  BY <1>1, FindFacts DEF Stat
<1>3. s \in Owners(disk) \ {NoSlot}
  <2>1. PICK O, ch : O = Owners(disk) /\ ch = Chains(disk)
    OBVIOUS
  <2>2. Layout(disk, O, ch) /\ ActiveFat = FatOf(disk, 0) /\ t \in Listed(disk, O, ch)
    BY <2>1 DEF Tree, ActiveFat, Directories
  <2> QED
    BY <1>2, <2>1, <2>2, EntriesOwn
<1> QED
  BY <1>3 DEF Tree, Layout, Sized

\* The scan stops at a free cluster.
LEMMA FreeCluster ==
    ASSUME Types, FirstFree # 0
    PROVE  FirstFree \in Cluster /\ ActiveFat[FirstFree] = 0 /\ After(FirstFree) \in Cluster
<1>1. FatSeen = ActiveFat /\ nextFree \in Cluster
  BY SeenDisk DEF Types
<1>2. Hits # {} /\ Hits \subseteq 1..Clusters /\ Hits \subseteq Nat /\ Clusters \in Nat /\ Clusters >= 4
  BY DEF FirstFree, Hits
<1>3. PICK x \in Hits : \A y \in Hits : ~(y < x)
  BY <1>2, LeastOf
<1>4. PICK i : i = CHOOSE k \in Hits : \A j \in Hits : k <= j
  OBVIOUS
<1>5. i \in Hits
  <2>1. \A y \in Hits : x <= y
    BY <1>2, <1>3
  <2>2. \E k \in Hits : \A j \in Hits : k <= j
    BY <2>1
  <2> QED
    BY <1>4, <2>2
<1>6. FirstFree = Scan[i] /\ FatSeen[Scan[i]] = 0 /\ i \in 1..Clusters
  BY <1>2, <1>4, <1>5 DEF FirstFree, Hits
<1>7. Scan[i] = 2 + ((nextFree + i - 3) % Clusters)
  BY <1>6 DEF Scan
<1>8. nextFree + i - 3 \in Nat
  BY <1>1, <1>2, <1>6 DEF Cluster
<1>9. (nextFree + i - 3) % Clusters \in 0..(Clusters - 1)
  BY <1>2, <1>8
<1>10. FirstFree \in Cluster
  BY <1>2, <1>6, <1>7, <1>9 DEF Cluster
<1>11. After(FirstFree) \in Cluster
  BY <1>2, <1>10 DEF After, Cluster
<1> QED
  BY <1>1, <1>6, <1>10, <1>11

LEMMA FreeSpare ==
    ASSUME Tree, Whole, NEW x \in Cluster, ActiveFat[x] = 0
    PROVE  x \notin InUse /\ x \notin Within(NewChain)
<1>1. ASSUME x \in InUse PROVE FALSE
  <2>1. PICK s \in Owners(disk) : x \in Within(Chains(disk)[s])
    BY <1>1 DEF InUse, Used
  <2>2. CASE HeadIn(disk, s) = 0
    <3>1. Chains(disk)[s] = <<>>
      BY <2>2 DEF Tree, Layout, Chained
    <3> QED
      BY <2>1, <3>1, EmptyList
  <2>3. CASE HeadIn(disk, s) # 0
    <3>1. IsChain(ActiveFat, HeadIn(disk, s), Chains(disk)[s])
      BY <2>3 DEF Tree, Layout, Chained, ActiveFat
    <3> QED
      BY <2>1, <3>1, ChainBusy
  <2> QED
    BY <2>2, <2>3
<1>2. ASSUME x \in Within(NewChain) PROVE FALSE
  <2>1. CASE op.first = 0
    BY <1>2, <2>1, EmptyList DEF NewChain
  <2>2. CASE op.first # 0
    <3>1. IsChain(ActiveFat, op.first, NewChain)
      BY <2>2 DEF Whole
    <3> QED
      BY <1>2, <3>1, ChainBusy
  <2> QED
    BY <2>1, <2>2
<1> QED
  BY <1>1, <1>2

\* The first of some places of a chain is one of them.
LEMMA FirstFacts ==
    ASSUME NEW chain, Len(chain) \in Nat, NEW S, S \subseteq Places(chain), S # {}
    PROVE  First(S) \in S /\ \A q \in S : q = First(S) \/ Earlier(First(S), q)
<1>1. ASSUME NEW p \in S PROVE p = <<p[1], p[2]>> /\ p[1] \in Nat /\ p[2] \in Nat
  BY DEF Places
<1> DEFINE A == {p[1] : p \in S}
<1>2. A \subseteq Nat /\ A # {}
  BY <1>1
<1>3. PICK a \in A : \A y \in A : ~(y < a)
  BY <1>2, LeastOf
<1> DEFINE B == {p[2] : p \in {r \in S : r[1] = a}}
<1>4. B \subseteq Nat /\ B # {}
  BY <1>1, <1>3
<1>5. PICK b \in B : \A y \in B : ~(y < b)
  BY <1>4, LeastOf
<1>6. PICK p \in S : p[1] = a /\ p[2] = b
  BY <1>5
<1>7. ASSUME NEW q \in S PROVE q = p \/ Earlier(p, q)
  <2>1. q[1] \in A /\ ~(q[1] < a) /\ a \in Nat /\ b \in Nat
    BY <1>2, <1>3, <1>4
  <2>2. q[1] = a => q[2] \in B /\ ~(q[2] < b)
    BY <1>5
  <2>3. q[1] \in Nat /\ q[2] \in Nat /\ q = <<q[1], q[2]>> /\ p = <<p[1], p[2]>>
    BY <1>1
  <2> QED
    BY <1>6, <2>1, <2>2, <2>3 DEF Earlier
<1> QED
  BY <1>6, <1>7 DEF First

\* emptySlot finds a slot of the directory that names nothing.
LEMMA UnusedSlot ==
    ASSUME Tree, NEW t \in Directories, NEW chain, chain = Chains(disk)[t], Unused(disk, chain) # {},
           NEW s, s = SlotOf(chain, First(Unused(disk, chain)))
    PROVE  Vacant(s)
<1>1. t \in Owners(disk) /\ Len(chain) \in Nat
  BY OwnChain DEF Tree, Directories, Listed
<1>2. Unused(disk, chain) \subseteq Places(chain)
  BY DEF Unused
<1>3. PICK p : p = First(Unused(disk, chain))
  OBVIOUS
<1>4. p \in Unused(disk, chain)
  BY <1>1, <1>2, <1>3, FirstFacts
<1>5. p \in Places(chain) /\ SlotAt(disk, s).kind \in {"end", "deleted"}
  BY <1>3, <1>4 DEF Unused
<1>6. s \in Within(chain) \X (1..Slots)
  BY <1>3, <1>5 DEF Places, SlotOf, Within
<1> QED
  BY <1>5, <1>6 DEF Vacant, Placed, Entry

-----------------------------------------------------------------------------
(* The other steps, which leave the disk alone.                            *)

LEMMA ShapeSlot ==
    ASSUME NEW o, Shape(o), NEW v, NEW r, r = [o EXCEPT !.slot = v]
    PROVE  /\ Shape(r) /\ r.slot = v /\ r.do = o.do /\ r.dir = o.dir /\ r.old = o.old /\ r.first = o.first
           /\ r.last = o.last /\ r.fresh = o.fresh /\ r.left = o.left /\ r.size = o.size /\ r.new = o.new
  BY DEF Shape

LEMMA ShapeFresh ==
    ASSUME NEW o, Shape(o), NEW v, NEW r, r = [o EXCEPT !.fresh = v]
    PROVE  /\ Shape(r) /\ r.fresh = v /\ r.slot = o.slot /\ r.do = o.do /\ r.dir = o.dir /\ r.old = o.old
           /\ r.first = o.first /\ r.last = o.last /\ r.left = o.left /\ r.size = o.size /\ r.new = o.new
  BY DEF Shape

Grows(o, r, v, w) == r = [o EXCEPT !.fresh = v, !.last = w]
Takes(o, r, v, w, x) == r = [o EXCEPT !.first = v, !.last = w, !.left = x]

LEMMA ShapeGrow ==
    ASSUME NEW o, Shape(o), NEW v, NEW w, NEW r, Grows(o, r, v, w)
    PROVE  /\ Shape(r) /\ r.fresh = v /\ r.last = w /\ r.slot = o.slot /\ r.do = o.do /\ r.dir = o.dir
           /\ r.old = o.old /\ r.first = o.first /\ r.left = o.left /\ r.size = o.size /\ r.new = o.new
  BY DEF Shape, Grows

LEMMA ShapeLink ==
    ASSUME NEW o, Shape(o), NEW v, NEW w, NEW x, NEW r, Takes(o, r, v, w, x)
    PROVE  /\ Shape(r) /\ r.first = v /\ r.last = w /\ r.left = x /\ r.slot = o.slot /\ r.do = o.do
           /\ r.dir = o.dir /\ r.old = o.old /\ r.fresh = o.fresh /\ r.size = o.size /\ r.new = o.new
  BY DEF Shape, Takes

\* What is left to show of a step that leaves the disk alone.
LEMMA StillStep ==
    ASSUME VolumeInductive, disk' = disk, IsList(todo'), pc' \in Phases, nextFree' \in Cluster, Caches',
           Called', Phase'
    PROVE  VolumeInductive'
  BY SameDisk DEF VolumeInductive, Types

\* A call that returns.
LEMMA DoneStep ==
    ASSUME VolumeInductive, disk' = disk, NEW outcome, Done(outcome), nextFree' \in Cluster, Caches'
    PROVE  VolumeInductive'
<1>1. pc' = "idle" /\ todo' = <<>>
  BY DEF Done
<1>2. IsList(todo') /\ pc' \in Phases
  BY <1>1, EmptyList DEF Phases
<1>3. Called' /\ Phase'
  BY <1>1 DEF Called, Phase
<1> QED
  BY <1>2, <1>3, StillStep

\* A call that goes on with the same request.
LEMMA PlainCalled ==
    ASSUME VolumeInductive, pc # "idle", op' = op
    PROVE  Called'
  BY DEF VolumeInductive, Types, Called

LEMMA SameTarget ==
    ASSUME disk' = disk, op'.do = op.do, op'.slot = op.slot, op'.old = op.old
    PROVE  Overwrites' = Overwrites /\ Target' = Target
<1>1. Overwrites' = Overwrites
  BY DEF Overwrites, Holds
<1> QED
  BY <1>1 DEF Target, Vacant, Placed, Directories

LEMMA SameChain ==
    ASSUME disk' = disk, op'.first = op.first
    PROVE  NewChain' = NewChain /\ Whole' = Whole
<1>1. NewChain' = NewChain /\ ActiveFat' = ActiveFat
  BY SameDisk DEF NewChain
<1> QED
  BY <1>1 DEF Whole

LEMMA BeginStep ==
    ASSUME VolumeInductive, NEW p, NEW rec, Begin(p, rec)
    PROVE  /\ disk' = disk /\ op' = rec /\ IsList(todo') /\ AllInert(todo') /\ nextFree' \in Cluster /\ Caches'
           /\ pc' = (IF rec.do = "remove" THEN "unlink" ELSE "slot") /\ pc' \in Phases
           /\ ParentOf(disk, ActiveFat, p) # 0
<1>1. Types /\ Caches /\ FatSeen = ActiveFat /\ DirSeen = disk /\ nextFree \in Cluster
  BY SeenDisk DEF VolumeInductive, Types
<1>2. disk' = disk /\ op' = rec /\ todo' = Hints /\ nextFree' = nextFree /\ ParentOf(disk, ActiveFat, p) # 0
  BY <1>1 DEF Begin, Goto, device
<1>3. pc' = (IF rec.do = "remove" THEN "unlink" ELSE "slot") /\ pc' \in Phases
  BY DEF Begin, Goto, Phases
<1>4. Caches'
  <2>1. PICK f, g, c : /\ f = Load(fatCache, FatBlock(0, c)) /\ g = Load(dirCache, Data(c))
                       /\ fatCache' = f /\ dirCache' = g
    BY DEF Begin
  <2>2. Honest(f) /\ Honest(g)
    BY <1>1, <2>1, LoadHonest
  <2> QED
    BY <1>2, <2>1, <2>2, HonestCaches
<1> QED
  BY <1>1, <1>2, <1>3, <1>4, HintsList

LEMMA RequestShape ==
    ASSUME NEW do, NEW p, NEW s, NEW old, NEW size, NEW new, NEW r, r = Request(do, p, s, old, size, new)
    PROVE  /\ Shape(r) /\ r.do = do /\ r.slot = s /\ r.old = old /\ r.first = 0 /\ r.left = size /\ r.size = size
           /\ r.new = new /\ r.dir = ParentOf(DirSeen, FatSeen, p)
  BY DEF Shape, Request

LEMMA BeginWrites ==
    ASSUME VolumeInductive, NEW p, NEW rec, Begin(p, rec), Shape(rec), rec.do \in {"write", "mkdir"},
           rec.first = 0, rec.left = rec.size, rec.size \in Nat, rec.dir = ParentOf(DirSeen, FatSeen, p),
           rec.do = "write" => rec.new.kind = "file", rec.do = "mkdir" => rec.new.kind = "dir" /\ rec.size = 1,
           \/ rec.slot = NoSlot /\ rec.old = 0
           \/ rec.do = "write" /\ Holds(rec.slot, rec.old) /\ SlotAt(disk, rec.slot).kind = "file"
    PROVE  VolumeInductive'
<1>1. /\ disk' = disk /\ op' = rec /\ IsList(todo') /\ AllInert(todo') /\ nextFree' \in Cluster /\ Caches'
      /\ pc' = "slot" /\ pc' \in Phases /\ ParentOf(disk, ActiveFat, p) # 0
  BY BeginStep
<1>2. Called'
  BY <1>1 DEF Called
<1>3. rec.dir = ParentOf(disk, ActiveFat, p) /\ Tree
  BY SeenDisk DEF VolumeInductive
<1>4. \E t \in Directories : HeadIn(disk, t) = rec.dir
  BY <1>1, <1>3, ParentFacts
<1>5. Overwrites' \/ (op'.slot = NoSlot /\ op'.old = 0)
  <2>1. CASE rec.slot = NoSlot /\ rec.old = 0
    BY <1>1, <2>1
  <2>2. CASE rec.do = "write" /\ Holds(rec.slot, rec.old) /\ SlotAt(disk, rec.slot).kind = "file"
    BY <1>1, <2>2 DEF Overwrites, Holds
  <2> QED
    BY <2>1, <2>2
<1>6. Searching'
  BY <1>1, <1>3, <1>4, <1>5, SameDisk DEF Searching, AllInert
<1>7. Phase'
  BY <1>1, <1>6 DEF Phase
<1> QED
  BY <1>1, <1>2, <1>7, StillStep

LEMMA WriteFileStep == VolumeInductive /\ WriteFile => VolumeInductive'
<1> SUFFICES ASSUME VolumeInductive, WriteFile PROVE VolumeInductive'
  OBVIOUS
<1>1. FatSeen = ActiveFat /\ DirSeen = disk /\ Tree
  BY SeenDisk DEF VolumeInductive
<1>2. PICK p \in Paths, size \in Sizes :
         LET s == Stat(DirSeen, FatSeen, p)
             e == SlotAt(DirSeen, s)
         IN  /\ e.kind # "dir"
             /\ Begin(p, Request("write", p, s, e.cluster, size, [kind |-> "file", bytes |-> Bytes(ops + 1, size)]))
  BY DEF WriteFile
<1>3. PICK s, e, new : s = Stat(DirSeen, FatSeen, p) /\ e = SlotAt(disk, s)
                       /\ new = [kind |-> "file", bytes |-> Bytes(ops + 1, size)]
  OBVIOUS
<1>4. PICK rec : rec = Request("write", p, s, e.cluster, size, new)
  OBVIOUS
<1>5. e.kind # "dir" /\ Begin(p, rec)
  BY <1>1, <1>2, <1>3, <1>4
<1>6. /\ Shape(rec) /\ rec.do = "write" /\ rec.slot = s /\ rec.old = e.cluster /\ rec.first = 0
      /\ rec.left = size /\ rec.size = size /\ rec.new = new /\ rec.dir = ParentOf(DirSeen, FatSeen, p)
  BY <1>4, RequestShape
<1>7. new.kind = "file" /\ size \in Nat
  BY <1>3
<1>8. \/ rec.slot = NoSlot /\ rec.old = 0
      \/ Holds(rec.slot, rec.old) /\ SlotAt(disk, rec.slot).kind = "file"
  <2>1. CASE s = NoSlot
    BY <1>3, <1>6, <2>1 DEF SlotAt, NoEntry
  <2>2. CASE s # NoSlot
    <3>1. ParentOf(disk, ActiveFat, p) # 0 /\ s = Stat(disk, ActiveFat, p)
      BY <1>1, <1>3, <1>5, BeginStep
    <3>2. s \in Owners(disk) \ {NoSlot} /\ e.kind \in Entry
      BY <1>1, <1>3, <2>2, <3>1, StatFacts
    <3> QED
      BY <1>3, <1>5, <1>6, <3>2 DEF Holds, Entry
  <2> QED
    BY <2>1, <2>2
<1> QED
  BY <1>5, <1>6, <1>7, <1>8, BeginWrites

LEMMA MkdirStep == VolumeInductive /\ Mkdir => VolumeInductive'
<1> SUFFICES ASSUME VolumeInductive, Mkdir PROVE VolumeInductive'
  OBVIOUS
<1>1. PICK p \in Paths : Begin(p, Request("mkdir", p, NoSlot, 0, 1, [kind |-> "dir"]))
  BY DEF Mkdir
<1>2. PICK rec, new : new = [kind |-> "dir"] /\ rec = Request("mkdir", p, NoSlot, 0, 1, new)
  OBVIOUS
<1>3. Begin(p, rec)
  BY <1>1, <1>2
<1>4. /\ Shape(rec) /\ rec.do = "mkdir" /\ rec.slot = NoSlot /\ rec.old = 0 /\ rec.first = 0
      /\ rec.left = 1 /\ rec.size = 1 /\ rec.new = new /\ rec.dir = ParentOf(DirSeen, FatSeen, p)
  BY <1>2, RequestShape
<1> QED
  BY <1>2, <1>3, <1>4, BeginWrites

LEMMA RemoveStep == VolumeInductive /\ Remove => VolumeInductive'
<1> SUFFICES ASSUME VolumeInductive, Remove PROVE VolumeInductive'
  OBVIOUS
<1>1. FatSeen = ActiveFat /\ DirSeen = disk /\ Tree
  BY SeenDisk DEF VolumeInductive
<1>2. PICK p \in Paths :
         LET s == Stat(DirSeen, FatSeen, p)
             e == SlotAt(DirSeen, s)
         IN  /\ s # NoSlot
             /\ Begin(p, Request("remove", p, s, e.cluster, 0, [kind |-> "none"]))
  BY DEF Remove
<1>3. PICK s, e, new : s = Stat(DirSeen, FatSeen, p) /\ e = SlotAt(disk, s) /\ new = [kind |-> "none"]
  OBVIOUS
<1>4. PICK rec : rec = Request("remove", p, s, e.cluster, 0, new)
  OBVIOUS
<1>5. s # NoSlot /\ Begin(p, rec)
  BY <1>1, <1>2, <1>3, <1>4
<1>6. /\ Shape(rec) /\ rec.do = "remove" /\ rec.slot = s /\ rec.old = e.cluster /\ rec.left = 0 /\ rec.size = 0
  BY <1>4, RequestShape
<1>7. /\ disk' = disk /\ op' = rec /\ IsList(todo') /\ AllInert(todo') /\ nextFree' \in Cluster /\ Caches'
      /\ pc' = "unlink" /\ pc' \in Phases /\ ParentOf(disk, ActiveFat, p) # 0
  BY <1>5, <1>6, BeginStep
<1>8. Called'
  BY <1>6, <1>7 DEF Called
<1>9. Holds(s, e.cluster)
  <2>1. s = Stat(disk, ActiveFat, p)
    BY <1>1, <1>3
  <2> QED
    BY <1>1, <1>3, <1>5, <1>7, <2>1, StatFacts DEF Holds
<1>10. Doomed'
  BY <1>6, <1>7, <1>9 DEF Doomed, AllInert, Holds
<1>11. Phase'
  BY <1>7, <1>10 DEF Phase
<1> QED
  BY <1>7, <1>8, <1>11, StillStep

LEMMA QuietDisk == ASSUME VolumeInductive, Quiet PROVE disk' = disk /\ buffered' = buffered
  BY DEF Quiet, device

LEMMA Inductive ==
    ASSUME VolumeInductive
    PROVE  /\ Types /\ Tree /\ Phase /\ Caches /\ IsList(todo) /\ nextFree \in Cluster
           /\ FatSeen = ActiveFat /\ DirSeen = disk /\ Honest(fatCache) /\ Honest(dirCache)
           /\ pc # "idle" => Shape(op)
  BY SeenDisk, LoadHonest DEF VolumeInductive, Types, Called

\* A call that goes on with an altered request.
LEMMA AlteredCalled ==
    ASSUME VolumeInductive, pc # "idle", pc' # "idle", Shape(op'), op'.do = op.do, op'.new = op.new,
           op'.size = op.size, op'.left \in Nat, op'.left <= op'.size
    PROVE  Called'
  BY DEF VolumeInductive, Types, Called

LEMMA EmptySlotStep == VolumeInductive /\ EmptySlot => VolumeInductive' /\ (pc' = "fill" => Settled')
<1> SUFFICES ASSUME VolumeInductive, EmptySlot PROVE VolumeInductive' /\ (pc' = "fill" => Settled')
  OBVIOUS
<1>1. /\ pc = "slot" /\ pc # "idle" /\ todo = <<>> /\ disk' = disk /\ Searching
  BY QuietDisk DEF EmptySlot, At, VolumeInductive, Phase
<1>2. /\ Types /\ Tree /\ Caches /\ nextFree \in Cluster /\ FatSeen = ActiveFat /\ DirSeen = disk
      /\ Honest(fatCache) /\ Honest(dirCache) /\ Shape(op)
  BY <1>1, Inductive
<1>3. PICK t \in Directories : HeadIn(disk, t) = op.dir /\ op.dir # 0
  BY <1>1 DEF Searching
<1>4. PICK chain : chain = Chains(disk)[t]
  OBVIOUS
<1>5. chain = Chain(FatSeen, op.dir)
  BY <1>2, <1>3, <1>4, OwnChain DEF Tree, Directories, Listed, ActiveFat
<1>6. PICK unused, slot, tail : /\ unused = Unused(disk, chain) /\ slot = SlotOf(chain, First(unused))
                                /\ tail = chain[Len(chain)]
  OBVIOUS
<1>7. op.left = op.size /\ op.size \in Nat /\ op.left \in Nat /\ op.left <= op.size /\ op.first = 0 /\ op.do # "remove"
  BY <1>1, <1>2, CallFacts DEF Searching
<1>8. NewChain = <<>> /\ Whole /\ op.size - op.left = 0
  BY <1>7 DEF NewChain, Whole
<1>9. (op.do = "mkdir" => op.size = 1)
  BY <1>1, <1>2, CallFacts
<1>10. ASSUME pc' = "fill", todo' = <<>>, Shape(op'), op'.do = op.do, op'.new = op.new, op'.size = op.size,
              op'.left = op.left, op'.first = op.first, Target', nextFree' = nextFree, Caches'
       PROVE  VolumeInductive' /\ Settled'
  <2>1. IsList(todo') /\ Within(todo') = {}
    BY <1>10, EmptyList
  <2>2. Called'
    BY <1>1, <1>7, <1>10, AlteredCalled
  <2>3. NewChain' = <<>> /\ Whole'
    BY <1>7, <1>10 DEF NewChain, Whole
  <2>4. Built(op.size - op.left)'
    BY <1>7, <1>8, <1>10, <2>3, EmptyList DEF Built
  <2>5. Dotted'
    BY <1>7, <1>9, <1>10 DEF Dotted
  <2>6. Filling' /\ Settled'
    BY <1>7, <1>10, <2>1, <2>4, <2>5 DEF Filling, Settled
  <2>7. Phase' /\ pc' \in Phases
    BY <1>10, <2>6 DEF Phase, Phases
  <2> QED
    BY <1>1, <1>2, <1>10, <2>1, <2>2, <2>6, <2>7, StillStep
<1>11. CASE op.slot # NoSlot /\ Goto("fill", <<>>) /\ UNCHANGED <<op, nextFree, fatCache, dirCache>>
  <2>1. pc' = "fill" /\ todo' = <<>> /\ op' = op /\ nextFree' = nextFree
    BY <1>11 DEF Goto
  <2>2. Caches'
    BY <1>1, <1>2, <1>11 DEF Caches
  <2>3. Target'
    <3>1. Target
      BY <1>1, <1>11 DEF Searching, Target
    <3> QED
      BY <1>1, <2>1, <3>1, SameTarget
  <2> QED
    BY <1>2, <1>10, <2>1, <2>2, <2>3
<1>12. CASE /\ op.slot = NoSlot /\ unused # {} /\ op' = [op EXCEPT !.slot = slot] /\ Goto("fill", <<>>)
            /\ dirCache' = Load(dirCache, Data(slot[1])) /\ UNCHANGED <<nextFree, fatCache>>
  <2>1. /\ Shape(op') /\ op'.slot = slot /\ op'.do = op.do /\ op'.old = op.old /\ op'.first = op.first
        /\ op'.left = op.left /\ op'.size = op.size /\ op'.new = op.new
    <3>1. PICK o, r : o = op /\ r = op'
      OBVIOUS
    <3>2. Shape(o) /\ r = [o EXCEPT !.slot = slot]
      BY <1>2, <1>12, <3>1
    <3> QED
      BY <3>1, <3>2, ShapeSlot
  <2>2. Caches'
    <3>1. PICK f, g : f = fatCache /\ g = Load(dirCache, Data(slot[1]))
      OBVIOUS
    <3>2. Honest(f) /\ Honest(g)
      BY <1>2, <3>1, LoadHonest
    <3> QED
      BY <1>1, <1>12, <3>1, <3>2, HonestCaches
  <2>3. Vacant(slot)
    BY <1>2, <1>4, <1>6, <1>12, UnusedSlot
  <2>4. op.old = 0
    <3>1. ~Overwrites
      BY <1>12 DEF Overwrites, Holds
    <3> QED
      BY <1>1, <3>1 DEF Searching
  <2>5. Target'
    <3>1. Vacant(slot)'
      BY <1>1, <2>3, SameDisk
    <3> QED
      BY <2>1, <2>4, <3>1 DEF Target, Vacant, Placed
  <2> QED
    BY <1>10, <1>12, <2>1, <2>2, <2>5 DEF Goto
<1>13. CASE /\ op.slot = NoSlot /\ unused = {} /\ FirstFree # 0
            /\ op' = [op EXCEPT !.fresh = FirstFree, !.last = tail] /\ nextFree' = After(FirstFree)
            /\ Goto("extend", Claim(FirstFree))
            /\ dirCache' = Load(dirCache, Data(tail)) /\ fatCache' = Load(fatCache, FatBlock(0, FirstFree))
  <2>1. PICK x : x = FirstFree
    OBVIOUS
  <2>2. x \in Cluster /\ ActiveFat[x] = 0 /\ nextFree' \in Cluster
    BY <1>2, <1>13, <2>1, FreeCluster
  <2>3. x \notin InUse /\ x \notin Within(NewChain)
    BY <1>2, <1>8, <2>2, FreeSpare
  <2>4. /\ Shape(op') /\ op'.fresh = x /\ op'.last = tail /\ op'.do = op.do /\ op'.old = op.old
        /\ op'.first = op.first /\ op'.left = op.left /\ op'.size = op.size /\ op'.new = op.new
        /\ pc' = "extend" /\ todo' = Claim(x) /\ op'.slot = op.slot
    <3>1. PICK o, r : o = op /\ r = op'
      OBVIOUS
    <3>2. Shape(o) /\ Grows(o, r, x, tail)
      BY <1>2, <1>13, <2>1, <3>1 DEF Grows
    <3>3. pc' = "extend" /\ todo' = Claim(x)
      BY <1>13, <2>1 DEF Goto
    <3> QED
      BY <3>1, <3>2, <3>3, ShapeGrow
  <2>5. Caches'
    <3>1. PICK f, g : f = Load(fatCache, FatBlock(0, FirstFree)) /\ g = Load(dirCache, Data(tail))
      OBVIOUS
    <3>2. Honest(f) /\ Honest(g)
      BY <1>2, <3>1, LoadHonest
    <3> QED
      BY <1>1, <1>13, <3>1, <3>2, HonestCaches
  <2>6. Called'
    BY <1>1, <1>7, <2>4, AlteredCalled
  <2>7. IsList(todo') /\ Claiming(op.fresh)'
    BY <2>2, <2>4, ClaimList DEF Claiming
  <2>8. Spare(op.fresh)'
    <3>1. NewChain' = <<>> /\ InUse' = InUse
      BY <1>1, <1>7, <2>4, SameDisk DEF NewChain
    <3> QED
      BY <2>2, <2>3, <2>4, <3>1, EmptyList DEF Spare
  <2>9. Ending(op.last)'
    <3>1. Ending(tail)
      BY <1>3, <1>4, <1>6 DEF Ending
    <3>2. Ending(tail)'
      BY <1>1, <3>1, SameDisk
    <3> QED
      BY <2>4, <3>2 DEF Ending
  <2>10. op.old = 0
    <3>1. ~Overwrites
      BY <1>13 DEF Overwrites, Holds
    <3> QED
      BY <1>1, <3>1 DEF Searching
  <2>11. Growing'
    BY <1>7, <2>4, <2>7, <2>8, <2>9, <2>10 DEF Growing
  <2>12. Phase' /\ pc' \in Phases
    BY <2>4, <2>11 DEF Phase, Phases
  <2>13. pc' # "fill"
    BY <2>4
  <2> QED
    BY <1>1, <2>2, <2>5, <2>6, <2>7, <2>12, <2>13, StillStep
<1>14. CASE /\ op.slot = NoSlot /\ unused = {} /\ FirstFree = 0 /\ Done("error")
            /\ dirCache' = Load(dirCache, Data(tail)) /\ fatCache' = Load(fatCache, FatBlock(0, Scan[Clusters]))
            /\ UNCHANGED nextFree
  <2>1. Caches'
    <3>1. PICK f, g : f = Load(fatCache, FatBlock(0, Scan[Clusters])) /\ g = Load(dirCache, Data(tail))
      OBVIOUS
    <3>2. Honest(f) /\ Honest(g)
      BY <1>2, <3>1, LoadHonest
    <3> QED
      BY <1>1, <1>14, <3>1, <3>2, HonestCaches
  <2>2. pc' # "fill"
    BY <1>14 DEF Done
  <2> QED
    BY <1>1, <1>2, <1>14, <2>1, <2>2, DoneStep
<1>15. chain = Chain(FatSeen, op.dir) /\ unused = Unused(DirSeen, chain)
  BY <1>2, <1>5, <1>6
<1> QED
  BY <1>6, <1>11, <1>12, <1>13, <1>14, <1>15 DEF EmptySlot

LEMMA ExtendStep == VolumeInductive /\ Extend => VolumeInductive' /\ Extending'
<1> SUFFICES ASSUME VolumeInductive, Extend PROVE VolumeInductive' /\ Extending'
  OBVIOUS
<1>1. pc = "extend" /\ pc # "idle" /\ todo = <<>> /\ disk' = disk /\ Growing
  BY QuietDisk DEF Extend, At, VolumeInductive, Phase
<1>2. Types /\ Tree /\ Caches /\ nextFree \in Cluster /\ Shape(op)
  BY <1>1, Inductive
<1>3. PICK x, y : x = op.last /\ y = op.fresh
  OBVIOUS
<1>4. /\ Shape(op') /\ op'.slot = <<y, 1>> /\ op'.do = op.do /\ op'.old = op.old /\ op'.first = op.first
      /\ op'.last = x /\ op'.fresh = y /\ op'.left = op.left /\ op'.size = op.size /\ op'.new = op.new
  BY <1>2, <1>3, ShapeSlot DEF Extend
<1>5. pc' = "fill" /\ todo' = SetFAT(x, y) /\ nextFree' = nextFree /\ fatCache' = fatCache /\ dirCache' = dirCache
  BY <1>3 DEF Extend, Goto
<1>6. op.left = op.size /\ op.first = 0 /\ op.old = 0 /\ op.do # "remove" /\ op.size \in Nat
  BY <1>1, <1>2, CallFacts DEF Growing
<1>7. Called'
  BY <1>1, <1>4, <1>5, <1>6, AlteredCalled
<1>8. ActiveFat[y] = Eoc /\ disk[Data(y)] = Zero /\ y \in Cluster
  BY <1>1, <1>3, EmptyList DEF Growing, Claiming, Spare
<1>9. Ending(x) /\ x \in Cluster
  <2>1. Ending(x)
    BY <1>1, <1>3 DEF Growing
  <2>2. PICK t \in Directories : HeadIn(disk, t) # 0 /\ x = Chains(disk)[t][Len(Chains(disk)[t])]
    BY <2>1 DEF Ending
  <2>3. IsChain(FatOf(disk, 0), HeadIn(disk, t), Chains(disk)[t])
    BY <1>2, <2>2, OwnChain DEF Tree, Directories, Listed
  <2> QED
    BY <2>1, <2>2, <2>3 DEF IsChain
<1>10. Extending'
  <2>1. IsList(todo') /\ todo' # <<>> /\ Sets(todo'[1], x, y) /\ \A c \in Within(Tail(todo')) : Inert(c)
    BY <1>5, <1>9, SetFATList
  <2>2. Spare(op.fresh)'
    <3>1. NewChain' = NewChain /\ InUse' = InUse
      BY <1>1, <1>4, SameChain, SameDisk
    <3> QED
      BY <1>1, <1>3, <1>4, <3>1 DEF Growing, Spare
  <2>3. Ending(op.last)'
    <3>1. Ending(x)'
      BY <1>1, <1>9, SameDisk
    <3> QED
      BY <1>4, <3>1 DEF Ending
  <2>4. ActiveFat'[y] = Eoc /\ disk'[Data(y)] = Zero
    BY <1>1, <1>8, SameDisk
  <2> QED
    BY <1>4, <1>6, <2>1, <2>2, <2>3, <2>4 DEF Extending, AllInert
<1>11. Phase' /\ pc' \in Phases
  BY <1>4, <1>5, <1>6, <1>10 DEF Phase, Phases, Filling
<1>12. IsList(todo') /\ Caches'
  BY <1>1, <1>2, <1>5, <1>9, SetFATList DEF Caches
<1> QED
  BY <1>1, <1>2, <1>5, <1>7, <1>10, <1>11, <1>12, StillStep

\* What release queues: entries of clusters no longer in use.
LEMMA AbortStep ==
    ASSUME VolumeInductive, pc # "idle", disk' = disk, Abort, Whole, Within(NewChain) \cap InUse = {},
           nextFree' \in Cluster, Caches'
    PROVE  VolumeInductive'
<1>1. FatSeen = ActiveFat
  BY Inductive
<1>2. pc' = "abort" /\ todo' = Free(op.first) /\ op' = op
  BY DEF Abort, Goto
<1>3. PICK q : q = Chain(ActiveFat, op.first)
  OBVIOUS
<1>4. (q = <<>> \/ IsChain(ActiveFat, op.first, q)) /\ Within(q) \cap InUse = {} /\ Within(q) \subseteq Cluster
  <2>1. CASE op.first = 0
    <3>1. q = <<>>
      BY <1>3, <2>1, ChainNone, ClusterFacts
    <3> QED
      BY <3>1, EmptyList
  <2>2. CASE op.first # 0
    BY <1>3, <2>2, WholeCluster DEF NewChain, Whole
  <2> QED
    BY <2>1, <2>2
<1>5. IsList(todo') /\ \A c \in Within(todo') : Inert(c) \/ (Sets(c, c.at, 0) /\ c.at \in Within(q))
  BY <1>1, <1>2, <1>3, <1>4, FreeList
<1>6. Giving'
  BY <1>4, <1>5, SameDisk DEF Giving
<1>7. Phase' /\ pc' \in Phases
  BY <1>2, <1>6 DEF Phase, Phases
<1> QED
  BY <1>2, <1>5, <1>7, PlainCalled, StillStep

LEMMA FillStep == VolumeInductive /\ Fill => VolumeInductive'
<1> SUFFICES ASSUME VolumeInductive, Fill PROVE VolumeInductive'
  OBVIOUS
<1>1. pc = "fill" /\ pc # "idle" /\ todo = <<>> /\ disk' = disk /\ dirCache' = dirCache /\ op.do # "remove" /\ Settled
  BY QuietDisk DEF Fill, At, VolumeInductive, Phase, Filling, Extending, Linking
<1>2. /\ Types /\ Tree /\ Caches /\ nextFree \in Cluster /\ Honest(fatCache) /\ Honest(dirCache) /\ Shape(op)
  BY <1>1, Inductive
<1>3. Built(op.size - op.left) /\ Whole /\ Target /\ Dotted /\ Within(NewChain) \cap InUse = {}
  BY <1>1 DEF Settled, Built
<1>4. op.left \in Nat /\ op.size \in Nat /\ op.left <= op.size
  BY <1>1, <1>2, CallFacts
<1>5. CASE /\ op.left > 0 /\ FirstFree # 0 /\ op' = [op EXCEPT !.fresh = FirstFree]
           /\ nextFree' = After(FirstFree) /\ Goto("link", Claim(FirstFree))
           /\ fatCache' = Load(fatCache, FatBlock(0, FirstFree))
  <2>1. PICK x : x = FirstFree
    OBVIOUS
  <2>2. x \in Cluster /\ ActiveFat[x] = 0 /\ nextFree' \in Cluster
    BY <1>2, <1>5, <2>1, FreeCluster
  <2>3. x \notin InUse /\ x \notin Within(NewChain)
    BY <1>2, <1>3, <2>2, FreeSpare
  <2>4. /\ Shape(op') /\ op'.fresh = x /\ op'.slot = op.slot /\ op'.do = op.do /\ op'.old = op.old
        /\ op'.first = op.first /\ op'.last = op.last /\ op'.left = op.left /\ op'.size = op.size /\ op'.new = op.new
        /\ pc' = "link" /\ todo' = Claim(x)
    BY <1>2, <1>5, <2>1, ShapeFresh DEF Goto
  <2>5. Caches'
    <3>1. PICK f, g : f = Load(fatCache, FatBlock(0, FirstFree)) /\ g = dirCache
      OBVIOUS
    <3>2. Honest(f) /\ Honest(g)
      BY <1>2, <3>1, LoadHonest
    <3> QED
      BY <1>1, <1>5, <3>1, <3>2, HonestCaches
  <2>6. Called'
    BY <1>1, <1>4, <2>4, AlteredCalled
  <2>7. IsList(todo') /\ Claiming(op.fresh)'
    BY <2>2, <2>4, ClaimList DEF Claiming
  <2>8. NewChain' = NewChain /\ Whole' /\ InUse' = InUse /\ Target'
    BY <1>1, <1>3, <2>4, SameChain, SameDisk, SameTarget
  <2>9. Spare(op.fresh)' /\ Built(op.size - op.left)'
    BY <1>3, <2>2, <2>3, <2>4, <2>8 DEF Spare, Built
  <2>10. Joining'
    BY <1>1, <1>5, <2>4, <2>7, <2>8, <2>9 DEF Joining
  <2>11. Phase' /\ pc' \in Phases
    BY <2>4, <2>10 DEF Phase, Phases
  <2> QED
    BY <1>1, <2>2, <2>5, <2>6, <2>7, <2>11, StillStep
<1>6. CASE Abort /\ fatCache' = Load(fatCache, FatBlock(0, Scan[Clusters])) /\ UNCHANGED nextFree
  <2>1. Caches'
    <3>1. PICK f, g : f = Load(fatCache, FatBlock(0, Scan[Clusters])) /\ g = dirCache
      OBVIOUS
    <3>2. Honest(f) /\ Honest(g)
      BY <1>2, <3>1, LoadHonest
    <3> QED
      BY <1>1, <1>6, <3>1, <3>2, HonestCaches
  <2> QED
    BY <1>1, <1>2, <1>3, <1>6, <2>1, AbortStep
<1>7. CASE op.left = 0 /\ Goto("publish", SyncData) /\ UNCHANGED <<op, nextFree, fatCache>>
  <2>1. pc' = "publish" /\ todo' = SyncData /\ op' = op /\ nextFree' = nextFree /\ fatCache' = fatCache
    BY <1>7 DEF Goto
  <2>2. Caches'
    BY <1>1, <1>2, <2>1 DEF Caches
  <2>3. IsList(todo') /\ AllInert(todo')
    BY <2>1, SyncList
  <2>4. NewChain' = NewChain /\ Whole' /\ InUse' = InUse /\ Target'
    BY <1>1, <1>3, <2>1, SameChain, SameDisk, SameTarget
  <2>5. Built(op.size)'
    <3>1. op.size - op.left = op.size
      BY <1>4, <1>7
    <3> QED
      BY <1>3, <2>1, <2>4, <3>1 DEF Built
  <2>6. Dotted'
    <3>1. \A c \in Within(todo') : ~Puts(c, op.first)
      BY <2>3, Exclusive DEF AllInert
    <3> QED
      BY <1>1, <1>3, <2>1, <3>1, EmptyList DEF Dotted
  <2>7. Ready'
    BY <1>1, <1>7, <2>1, <2>3, <2>4, <2>5, <2>6 DEF Ready, AllInert
  <2>8. Phase' /\ pc' \in Phases
    BY <2>1, <2>7 DEF Phase, Phases
  <2> QED
    BY <1>1, <1>2, <2>1, <2>2, <2>3, <2>8, PlainCalled, StillStep
<1> QED
  BY <1>5, <1>6, <1>7 DEF Fill

LEMMA LinkStep ==
    VolumeInductive /\ Link => VolumeInductive' /\ (op.first = 0 => Settled') /\ (op.first # 0 => Linking')
<1> SUFFICES ASSUME VolumeInductive, Link
             PROVE  VolumeInductive' /\ (op.first = 0 => Settled') /\ (op.first # 0 => Linking')
  OBVIOUS
<1>1. pc = "link" /\ pc # "idle" /\ todo = <<>> /\ disk' = disk /\ Joining
  BY QuietDisk DEF Link, At, VolumeInductive, Phase
<1>2. Types /\ Tree /\ Caches /\ nextFree \in Cluster /\ Shape(op)
  BY <1>1, Inductive
<1>3. PICK x, y, v, first : /\ x = op.last /\ y = op.fresh /\ first = (IF op.first = 0 THEN op.fresh ELSE op.first)
                            /\ v = (IF op.do = "mkdir" THEN Dots ELSE op.new.bytes[op.size - op.left + 1])
  OBVIOUS
<1>4. /\ Shape(op') /\ op'.first = first /\ op'.last = y /\ op'.left = op.left - 1 /\ op'.slot = op.slot
      /\ op'.do = op.do /\ op'.old = op.old /\ op'.size = op.size /\ op'.new = op.new
  <2>1. PICK o, r, left : o = op /\ r = op' /\ left = op.left - 1
    OBVIOUS
  <2>2. Shape(o) /\ Takes(o, r, first, y, left)
    BY <1>2, <1>3, <2>1 DEF Link, Takes
  <2> QED
    BY <2>1, <2>2, ShapeLink
<1>5. /\ pc' = "fill" /\ todo' = (IF op.first = 0 THEN <<>> ELSE SetFAT(x, y)) \o Put(y, v)
      /\ nextFree' = nextFree /\ fatCache' = fatCache /\ dirCache' = dirCache
  BY <1>3 DEF Link, Goto
<1>6. /\ op.left \in Nat /\ op.size \in Nat /\ op.left <= op.size /\ op.left > 0 /\ op.do # "remove"
      /\ op.do = "mkdir" => op.size = 1
  BY <1>1, <1>2, CallFacts DEF Joining
<1>7. op'.left \in Nat /\ op'.left <= op'.size /\ op'.size - op'.left = (op.size - op.left) + 1
  BY <1>4, <1>6
<1>8. Called'
  BY <1>1, <1>4, <1>5, <1>7, AlteredCalled
<1>9. ActiveFat[y] = Eoc /\ y \in Cluster /\ y \notin InUse /\ y \notin Within(NewChain)
  BY <1>1, <1>3, EmptyList DEF Joining, Claiming, Spare
<1>10. Built(op.size - op.left) /\ Whole /\ Target /\ Within(NewChain) \cap InUse = {} /\ Len(NewChain) = op.size - op.left
  BY <1>1 DEF Joining, Built
<1>11. Caches' /\ Target' /\ InUse' = InUse /\ ActiveFat' = ActiveFat
  BY <1>1, <1>2, <1>4, <1>5, <1>10, SameTarget, SameDisk DEF Caches
<1>12. /\ IsList(Put(y, v)) /\ (\A c \in Within(Put(y, v)) : Puts(c, y) /\ c.to = v)
       /\ \E c \in Within(Put(y, v)) : Puts(c, y)
  BY PutList
<1>13. CASE op.first = 0
  <2>1. todo' = <<>> \o Put(y, v) /\ IsList(todo') /\ Within(todo') = Within(Put(y, v))
    BY <1>5, <1>12, <1>13, EmptyList, JoinList
  <2>2. first = y /\ y # 0
    BY <1>3, <1>9, <1>13, ClusterFacts
  <2>3. IsChain(ActiveFat, y, <<y>>) /\ Within(<<y>>) = {y} /\ Len(<<y>>) = 1 /\ <<y>>[1] = y
    BY <1>9, ChainSingle
  <2>4. NewChain' = <<y>>
    <3>1. Chain(ActiveFat, y) = <<y>>
      BY <2>3, ChainIs
    <3> QED
      BY <1>4, <1>11, <2>2, <3>1 DEF NewChain
  <2>5. op'.size - op'.left = 1
    <3>1. NewChain = <<>>
      BY <1>13 DEF NewChain
    <3>2. Len(NewChain) = 0
      BY <3>1
    <3> QED
      BY <1>7, <1>10, <3>2
  <2>6. Built(op.size - op.left)'
    <3>1. Whole' /\ Within(NewChain') \cap InUse' = {}
      BY <1>4, <1>9, <1>11, <2>2, <2>3, <2>4 DEF Whole
    <3>2. Len(NewChain') = 1 /\ NewChain'[1] = op'.last
      BY <1>4, <2>3, <2>4
    <3> QED
      BY <2>5, <3>1, <3>2 DEF Built
  <2>7. Dotted'
    <3>1. op'.first = y /\ op'.first # 0
      BY <1>4, <2>2
    <3>2. op.do = "mkdir" => v = Dots
      BY <1>3
    <3> QED
      BY <1>4, <1>12, <2>1, <3>1, <3>2 DEF Dotted
  <2>8. Settled'
    BY <1>4, <1>11, <1>12, <2>1, <2>2, <2>6, <2>7 DEF Settled
  <2>9. Phase' /\ pc' \in Phases
    BY <1>4, <1>5, <1>6, <2>8 DEF Phase, Phases, Filling
  <2> QED
    BY <1>1, <1>2, <1>5, <1>8, <1>11, <1>13, <2>1, <2>8, <2>9, StillStep
<1>14. CASE op.first # 0
  <2>1. first = op.first /\ NewChain' = NewChain /\ Whole'
    <3>1. first = op.first
      BY <1>3, <1>14
    <3> QED
      BY <1>1, <1>4, <1>10, <3>1, SameChain
  <2>2. IsChain(ActiveFat, op.first, NewChain) /\ NewChain[Len(NewChain)] = x
    BY <1>3, <1>10, <1>14 DEF Whole, Built
  <2>3. x \in Cluster
    BY <2>2 DEF IsChain
  <2>4. /\ IsList(SetFAT(x, y)) /\ SetFAT(x, y) # <<>> /\ Sets(SetFAT(x, y)[1], x, y)
        /\ \A c \in Within(Tail(SetFAT(x, y))) : Inert(c)
    BY <2>3, SetFATList
  <2>5. /\ IsList(todo') /\ todo' # <<>> /\ todo'[1] = SetFAT(x, y)[1]
        /\ Within(Tail(todo')) = Within(Tail(SetFAT(x, y))) \cup Within(Put(y, v))
    BY <1>5, <1>12, <1>14, <2>4, JoinList
  <2>6. Dotted'
    <3>1. op.do # "mkdir"
      <4>1. Len(NewChain) >= 1
        BY <2>2 DEF IsChain
      <4> QED
        BY <1>6, <1>10, <4>1
    <3> QED
      BY <1>4, <3>1 DEF Dotted
  <2>7. Spare(op.last)' /\ ActiveFat'[op'.last] = Eoc
    BY <1>4, <1>9, <1>11, <2>1 DEF Spare
  <2>8. Len(NewChain') = op'.size - op'.left - 1
    BY <1>6, <1>7, <1>10, <2>1
  <2>9. Linking'
    <3>1. Sets(todo'[1], NewChain'[Len(NewChain')], op'.last)
      BY <1>4, <2>1, <2>2, <2>4, <2>5
    <3>2. \A c \in Within(Tail(todo')) : Inert(c) \/ Puts(c, op'.last)
      BY <1>4, <1>12, <2>4, <2>5
    <3>3. op'.first # 0 /\ Within(NewChain') \cap InUse' = {}
      BY <1>4, <1>10, <1>11, <1>14, <2>1
    <3> QED
      BY <1>11, <2>1, <2>5, <2>6, <2>7, <2>8, <3>1, <3>2, <3>3 DEF Linking
  <2>10. Phase' /\ pc' \in Phases
    BY <1>4, <1>5, <1>6, <2>9 DEF Phase, Phases, Filling
  <2> QED
    BY <1>1, <1>2, <1>5, <1>8, <1>11, <1>14, <2>5, <2>9, <2>10, StillStep
<1> QED
  BY <1>13, <1>14

LEMMA PublishStep == VolumeInductive /\ Publish => VolumeInductive' /\ Publishing'
<1> SUFFICES ASSUME VolumeInductive, Publish PROVE VolumeInductive' /\ Publishing'
  OBVIOUS
<1>1. pc = "publish" /\ pc # "idle" /\ todo = <<>> /\ disk' = disk /\ Ready
  BY QuietDisk DEF Publish, At, VolumeInductive, Phase
<1>2. Types /\ Tree /\ Caches /\ nextFree \in Cluster
  BY Inductive
<1>3. PICK s, e : s = op.slot /\ e = NewEntry
  OBVIOUS
<1>4. /\ pc' = "free" /\ todo' = SetSlot(s, e) \o SyncDevice /\ op' = op /\ nextFree' = nextFree
      /\ fatCache' = fatCache /\ dirCache' = dirCache
  BY <1>3 DEF Publish, Goto, NewEntry
<1>5. /\ IsList(todo') /\ todo' # <<>> /\ Marks(todo'[1], s, e) /\ \A c \in Within(Tail(todo')) : Inert(c)
      /\ \A c \in Within(todo') : Marks(c, s, e) \/ Inert(c)
  BY <1>4, SlotList, SyncList, JoinList DEF AllInert
<1>6. NewChain' = NewChain /\ Whole' /\ InUse' = InUse /\ Target'
  BY <1>1, <1>4, SameChain, SameDisk, SameTarget DEF Ready, Built
<1>7. Built(op.size)'
  BY <1>1, <1>4, <1>6 DEF Ready, Built
<1>8. Dotted'
  <2>1. \A c \in Within(todo') : ~Puts(c, op.first)
    BY <1>5, Exclusive
  <2> QED
    BY <1>1, <1>4, <2>1, EmptyList DEF Ready, Dotted
<1>9. NewEntry' = e
  BY <1>3, <1>4 DEF NewEntry
<1>10. Publishing'
  BY <1>1, <1>3, <1>4, <1>5, <1>6, <1>7, <1>8, <1>9 DEF Publishing, Ready, AllInert
<1>11. Phase' /\ pc' \in Phases
  BY <1>4, <1>10 DEF Phase, Phases, Changing
<1>12. Caches'
  BY <1>1, <1>2, <1>4 DEF Caches
<1> QED
  BY <1>1, <1>2, <1>4, <1>5, <1>10, <1>11, <1>12, PlainCalled, StillStep

LEMMA UnlinkStep == VolumeInductive /\ Unlink => VolumeInductive' /\ Unlinking'
<1> SUFFICES ASSUME VolumeInductive, Unlink PROVE VolumeInductive' /\ Unlinking'
  OBVIOUS
<1>1. pc = "unlink" /\ pc # "idle" /\ todo = <<>> /\ disk' = disk /\ Doomed
  BY QuietDisk DEF Unlink, At, VolumeInductive, Phase
<1>2. Types /\ Tree /\ Caches /\ nextFree \in Cluster /\ DirSeen = disk
  BY Inductive
<1>3. PICK s, before, name : s = op.slot /\ before = <<op.slot[1], op.slot[2] - 1>> /\ name = op.path[Len(op.path)]
  OBVIOUS
<1>4. PICK long : long = IF s[2] > 1 /\ SlotAt(disk, before) = Long(name) THEN SetSlot(before, Deleted) ELSE <<>>
  OBVIOUS
<1>5. /\ pc' = "free" /\ todo' = SetSlot(s, Deleted) \o long \o SyncDevice /\ op' = op /\ nextFree' = nextFree
      /\ fatCache' = fatCache /\ dirCache' = dirCache
  BY <1>2, <1>3, <1>4 DEF Unlink, Goto
<1>6. Holds(s, op.old) /\ Placed(s) /\ s \in Cluster \X (1..Slots)
  BY <1>1, <1>2, <1>3, HoldsPlaced, PlacedSlots DEF Doomed
<1>7. IsList(long) /\ \A c \in Within(long) : Marks(c, before, Deleted) /\ Vacant(before) /\ before # s
  <2>1. CASE s[2] > 1 /\ SlotAt(disk, before) = Long(name)
    <3>1. IsList(long) /\ \A c \in Within(long) : Marks(c, before, Deleted)
      BY <1>4, <2>1, SlotList
    <3>2. PICK t \in Directories : s \in Within(Chains(disk)[t]) \X (1..Slots)
      BY <1>6 DEF Placed
    <3>3. before = <<s[1], s[2] - 1>> /\ s[2] - 1 \in 1..Slots /\ s[1] \in Within(Chains(disk)[t]) /\ s[2] - 1 # s[2]
      BY <1>3, <1>6, <2>1, <3>2
    <3>4. Placed(before) /\ before # s
      BY <3>3 DEF Placed
    <3>5. SlotAt(disk, before).kind \notin Entry
      BY <2>1 DEF Long, Entry
    <3> QED
      BY <3>1, <3>4, <3>5 DEF Vacant
  <2>2. CASE ~(s[2] > 1 /\ SlotAt(disk, before) = Long(name))
    BY <1>4, <2>2, EmptyList
  <2> QED
    BY <2>1, <2>2
<1>8. /\ IsList(todo') /\ todo' # <<>> /\ Marks(todo'[1], s, Deleted)
      /\ Within(Tail(todo')) = Within(long) \cup Within(SyncDevice)
  <2>1. PICK p, q : p = SetSlot(s, Deleted) /\ q = p \o long
    OBVIOUS
  <2>2. IsList(p) /\ p # <<>> /\ Marks(p[1], s, Deleted) /\ Within(Tail(p)) = {}
    BY <2>1, SlotList
  <2>3. IsList(q) /\ q # <<>> /\ q[1] = p[1] /\ Within(Tail(q)) = Within(long)
    <3>1. IsList(long)
      BY <1>7
    <3>2. IsList(p \o long) /\ p \o long # <<>> /\ (p \o long)[1] = p[1]
      BY <2>2, <3>1, JoinList
    <3>3. Within(Tail(p \o long)) = Within(Tail(p)) \cup Within(long)
      BY <2>2, <3>1, JoinList
    <3>4. Within(Tail(p)) \cup Within(long) = Within(long)
      BY <2>2
    <3> QED
      BY <2>1, <3>2, <3>3, <3>4
  <2>4. todo' = q \o SyncDevice
    BY <1>5, <2>1
  <2> QED
    BY <2>2, <2>3, <2>4, SyncList, JoinList
<1>9. ASSUME NEW c \in Within(Tail(todo')) PROVE Mild(c)' /\ (Inert(c) \/ (c.b[2] = s[1] /\ <<c.b[2], c.at>> # s))
  <2>1. CASE c \in Within(SyncDevice)
    BY <2>1, SyncList DEF AllInert, Mild
  <2>2. CASE c \in Within(long)
    <3>1. Marks(c, before, Deleted) /\ Vacant(before) /\ before # s
      BY <1>7, <2>2
    <3>2. c.b[2] = before[1] /\ c.at = before[2] /\ before[1] = s[1] /\ before = <<before[1], before[2]>>
      BY <1>3, <3>1 DEF Marks, Data
    <3>3. Vacant(before)'
      BY <1>1, <3>1, SameDisk
    <3> QED
      BY <3>1, <3>2, <3>3 DEF Mild, Vacant, Placed
  <2> QED
    BY <1>8, <2>1, <2>2
<1>10. Holds(s, op.old)'
  BY <1>1, <1>5, <1>6 DEF Holds
<1>11. Unlinking'
  BY <1>1, <1>3, <1>5, <1>8, <1>9, <1>10 DEF Unlinking, Doomed, Holds
<1>12. Phase' /\ pc' \in Phases
  BY <1>5, <1>11 DEF Phase, Phases, Changing
<1>13. Caches'
  BY <1>1, <1>2, <1>5 DEF Caches
<1> QED
  BY <1>1, <1>2, <1>5, <1>8, <1>11, <1>12, <1>13, PlainCalled, StillStep

LEMMA ReleaseStep == VolumeInductive /\ Release => VolumeInductive'
<1> SUFFICES ASSUME VolumeInductive, Release PROVE VolumeInductive'
  OBVIOUS
<1>1. pc = "free" /\ pc # "idle" /\ todo = <<>> /\ disk' = disk /\ Freed
  BY QuietDisk DEF Release, At, VolumeInductive, Phase, Changing, Publishing, Unlinking, Clearing
<1>2. Types /\ Tree /\ Caches /\ nextFree \in Cluster /\ FatSeen = ActiveFat
  BY Inductive
<1>3. nextFree' = nextFree /\ Caches'
  BY <1>1, <1>2 DEF Release, Caches
<1>4. CASE Done("ok") \/ Done("error")
  BY <1>1, <1>2, <1>3, <1>4, DoneStep
<1>5. CASE Goto("return", Free(op.old) \o SyncDevice) /\ UNCHANGED op
  <2>1. pc' = "return" /\ todo' = Free(op.old) \o SyncDevice /\ op' = op
    BY <1>5 DEF Goto
  <2>2. PICK q : q = Chain(ActiveFat, op.old)
    OBVIOUS
  <2>3. (q = <<>> \/ IsChain(ActiveFat, op.old, q)) /\ Within(q) \cap InUse = {} /\ Within(q) \subseteq Cluster
    <3>1. CASE op.old = 0
      <4>1. q = <<>>
        BY <2>2, <3>1, ChainNone, ClusterFacts
      <4> QED
        BY <4>1, EmptyList
    <3>2. CASE op.old # 0
      BY <1>1, <2>2, <3>2, ChainBound DEF Freed
    <3> QED
      BY <3>1, <3>2
  <2>4. /\ IsList(Free(op.old))
        /\ \A c \in Within(Free(op.old)) : Inert(c) \/ (Sets(c, c.at, 0) /\ c.at \in Within(q))
    BY <1>2, <2>2, <2>3, FreeList
  <2>5. IsList(todo') /\ Within(todo') = Within(Free(op.old)) \cup Within(SyncDevice)
    BY <2>1, <2>4, SyncList, JoinList
  <2>6. Giving'
    BY <1>1, <2>3, <2>4, <2>5, SyncList, SameDisk DEF Giving, AllInert
  <2>7. Phase' /\ pc' \in Phases
    BY <2>1, <2>6 DEF Phase, Phases
  <2> QED
    BY <1>1, <1>2, <1>3, <2>1, <2>5, <2>7, PlainCalled, StillStep
<1> QED
  BY <1>4, <1>5 DEF Release

LEMMA ReturnStep == VolumeInductive /\ Return => VolumeInductive'
<1> SUFFICES ASSUME VolumeInductive, Return PROVE VolumeInductive'
  OBVIOUS
<1>1. disk' = disk /\ nextFree' = nextFree /\ fatCache' = fatCache /\ dirCache' = dirCache
  BY QuietDisk DEF Return
<1>2. Caches' /\ nextFree' \in Cluster
  BY <1>1, Inductive DEF Caches
<1>3. PICK outcome : Done(outcome)
  <2>1. PICK v : v = Outcome
    OBVIOUS
  <2>2. Done(v)
    BY <2>1 DEF Return, Done
  <2> QED
    BY <2>2
<1> QED
  BY <1>1, <1>2, <1>3, DoneStep

LEMMA CommandStep ==
    ASSUME VolumeInductive, Stores, op' = op, pc' = pc, todo' = Tail(todo), nextFree' = nextFree, Caches'
    PROVE  VolumeInductive'
<1>1. Tree' /\ DiskType(disk') /\ Phase'
  BY WriteKeeps DEF Moves
<1>2. IsList(todo')
  BY Inductive, TodoStep DEF Stores
<1>3. pc # "idle" /\ pc \in Phases /\ nextFree \in Cluster
  BY DEF VolumeInductive, Phase, Types, Stores
<1>4. Called'
  BY <1>3, PlainCalled
<1> QED
  BY <1>1, <1>2, <1>3, <1>4 DEF VolumeInductive, Types

LEMMA WriteStep == VolumeInductive /\ Write => VolumeInductive'
<1> SUFFICES ASSUME VolumeInductive, Write PROVE VolumeInductive'
  OBVIOUS
<1>1. Stores
  BY DEF Write, Store, Stores
<1>2. Caches'
  BY DEF Write, Forget, Caches
<1> QED
  BY <1>1, <1>2, CommandStep DEF Write

LEMMA SyncStep == VolumeInductive /\ Sync => VolumeInductive'
<1> SUFFICES ASSUME VolumeInductive, Sync PROVE VolumeInductive'
  OBVIOUS
<1>1. Stores /\ disk' = disk /\ nextFree' = nextFree /\ fatCache' = fatCache /\ dirCache' = dirCache
  BY DEF Sync, Stores, volume
<1>2. Caches'
  BY <1>1, Inductive DEF Caches
<1> QED
  BY <1>1, <1>2, CommandStep DEF Sync

LEMMA WriteErrorStep == VolumeInductive /\ WriteError => VolumeInductive'
<1> SUFFICES ASSUME VolumeInductive, WriteError PROVE VolumeInductive'
  OBVIOUS
<1>1. /\ todo # <<>> /\ cmd0.do # "sync" /\ pc' = "idle" /\ todo' = <<>> /\ nextFree' = nextFree
      /\ fatCache' = Invalid /\ dirCache' = Invalid
  BY DEF WriteError, Fault, Forget, Done
<1>2. PICK x \in {disk[cmd0.b], Written(cmd0)} : disk' = [disk EXCEPT ![cmd0.b] = x]
  BY DEF WriteError, Store
<1>3. Tree' /\ DiskType(disk')
  <2>1. CASE x = Written(cmd0)
    <3>1. Stores
      BY <1>1, <1>2, <2>1 DEF Stores
    <3> QED
      BY <3>1, WriteKeeps
  <2>2. CASE x = disk[cmd0.b]
    <3>1. disk = [b \in Blocks |-> disk[b]] /\ Tree /\ DiskType(disk)
      BY DEF VolumeInductive, Types, DiskType
    <3>2. disk' = disk
      BY <1>2, <2>2, <3>1
    <3> QED
      BY <3>1, <3>2, SameDisk
  <2> QED
    BY <2>1, <2>2
<1>4. Caches' /\ Called' /\ Phase' /\ IsList(todo') /\ pc' \in Phases
  BY <1>1, EmptyList DEF Caches, Called, Phase, Phases
<1>5. nextFree' \in Cluster
  BY <1>1, Inductive
<1> QED
  BY <1>3, <1>4, <1>5 DEF VolumeInductive, Types

LEMMA SyncErrorStep == VolumeInductive /\ SyncError => VolumeInductive'
<1> SUFFICES ASSUME VolumeInductive, SyncError PROVE VolumeInductive'
  OBVIOUS
<1>1. disk' = disk /\ nextFree' = nextFree /\ fatCache' = fatCache /\ dirCache' = dirCache /\ Done("error")
  BY DEF SyncError, Fault, device
<1>2. Caches' /\ nextFree' \in Cluster
  BY <1>1, Inductive DEF Caches
<1> QED
  BY <1>1, <1>2, DoneStep

LEMMA ReadErrorStep == VolumeInductive /\ ReadError => VolumeInductive'
<1> SUFFICES ASSUME VolumeInductive, ReadError PROVE VolumeInductive'
  OBVIOUS
<1>1. disk' = disk /\ nextFree' = nextFree /\ fatCache' = fatCache /\ dirCache' = dirCache
  BY DEF ReadError, Fault, device
<1>2. Caches' /\ nextFree' \in Cluster
  BY <1>1, Inductive DEF Caches
<1>3. CASE pc = "link" /\ Abort
  <2>1. Whole /\ Within(NewChain) \cap InUse = {} /\ pc # "idle"
    BY <1>3 DEF VolumeInductive, Phase, Joining, Built
  <2> QED
    BY <1>1, <1>2, <1>3, <2>1, AbortStep
<1>4. CASE Done("error")
  BY <1>1, <1>2, <1>4, DoneStep
<1> QED
  BY <1>3, <1>4 DEF ReadError

LEMMA MountStep == VolumeInductive /\ ~buffered /\ Mount => VolumeInductive'
<1> SUFFICES ASSUME VolumeInductive, ~buffered, Mount PROVE VolumeInductive'
  OBVIOUS
<1>1. disk' = disk /\ nextFree' = 2 /\ fatCache' = Invalid /\ dirCache' = Invalid /\ Done("error")
  BY DEF Mount, Forget
<1>2. Caches' /\ nextFree' \in Cluster
  BY <1>1, ClusterFacts DEF Caches, Root
<1> QED
  BY <1>1, <1>2, DoneStep

\* A device that writes through, or one that has not lost power yet: what it
\* holds is what it was told, in that order.
Ordered == ~buffered \/ crashes = 0

VolumeKept == crashes \in Nat /\ (Ordered => VolumeInductive)

LEMMA KeepsDevice ==
    Next => buffered' = buffered /\ (crashes' = crashes \/ (Mount /\ crashes' = crashes + 1))
<1> USE DEF device, counts, Quiet, Store
<1>1. WriteFile \/ Mkdir \/ Remove => buffered' = buffered /\ crashes' = crashes
  BY DEF WriteFile, Mkdir, Remove, Begin
<1>2. EmptySlot \/ Extend \/ Fill \/ Link \/ Publish \/ Unlink \/ Release \/ Return
        => buffered' = buffered /\ crashes' = crashes
  BY DEF EmptySlot, Extend, Fill, Link, Publish, Unlink, Release, Return
<1>3. Write \/ Sync \/ WriteError \/ SyncError \/ ReadError => buffered' = buffered /\ crashes' = crashes
  BY DEF Write, Sync, WriteError, SyncError, ReadError, Fault
<1>4. Mount => buffered' = buffered /\ crashes' = crashes + 1
  BY DEF Mount
<1> QED
  BY <1>1, <1>2, <1>3, <1>4 DEF Next

LEMMA VolumeStep == VolumeKept /\ [Next]_vars => VolumeKept'
<1> SUFFICES ASSUME VolumeKept, [Next]_vars PROVE VolumeKept'
  OBVIOUS
<1>0. crashes' \in Nat /\ buffered' = buffered /\ ((Mount /\ crashes' # 0) \/ crashes' = crashes)
  BY KeepsDevice DEF vars, VolumeKept
<1> SUFFICES ASSUME Ordered' PROVE VolumeInductive'
  BY <1>0 DEF VolumeKept
<1>1. Ordered /\ VolumeInductive /\ (Mount => ~buffered)
  <2>1. CASE crashes' = crashes
    <3>1. Ordered
      BY <1>0, <2>1 DEF Ordered
    <3>2. Mount => ~buffered
      <4>1. Mount => crashes' = crashes + 1
        BY DEF Mount
      <4> QED
        BY <2>1, <4>1 DEF VolumeKept
    <3> QED
      BY <3>1, <3>2 DEF VolumeKept
  <2>2. CASE Mount /\ crashes' # 0
    BY <1>0, <2>2 DEF Ordered, VolumeKept
  <2> QED
    BY <1>0, <2>1, <2>2
<1>2. CASE UNCHANGED vars
  <2>1. /\ disk' = disk /\ todo' = todo /\ pc' = pc /\ op' = op /\ nextFree' = nextFree
        /\ fatCache' = fatCache /\ dirCache' = dirCache
    BY <1>2 DEF vars
  <2>2. Types'
    BY <1>1, <2>1 DEF VolumeInductive, Types, Caches, Called
  <2>3. Phase'
    <3> USE <1>1, <2>1 DEF VolumeInductive
    <3>1. /\ Searching' = Searching /\ Growing' = Growing /\ Ready' = Ready /\ Doomed' = Doomed
          /\ Joining' = Joining /\ Giving' = Giving
      BY DEF Searching, Growing, Ready, Doomed, Joining, Giving, Built, Whole, NewChain, Target, Overwrites,
             Dotted, Claiming, Spare, Ending, Holds, Vacant, Placed, Directories, InUse, ActiveFat
    <3>2. Filling' = Filling
      BY DEF Filling, Extending, Settled, Linking, Built, Whole, NewChain, Target, Overwrites,
             Dotted, Spare, Ending, Holds, Vacant, Placed, Directories, InUse, ActiveFat
    <3>3. Changing' = Changing
      BY DEF Changing, Publishing, Unlinking, Clearing, Freed, Mild, NewEntry, Built, Whole, NewChain, Target,
             Overwrites, Dotted, Holds, Vacant, Placed, Directories, InUse, ActiveFat
    <3> QED
      BY <3>1, <3>2, <3>3 DEF Phase
  <2> QED
    BY <1>1, <2>1, <2>2, <2>3, SameDisk DEF VolumeInductive
<1>3. CASE Next
  BY <1>1, <1>3, WriteFileStep, MkdirStep, RemoveStep, EmptySlotStep, ExtendStep, FillStep, LinkStep, PublishStep,
     UnlinkStep, ReleaseStep, ReturnStep, WriteStep, SyncStep, WriteErrorStep, SyncErrorStep, ReadErrorStep,
     MountStep DEF Next
<1> QED
  BY <1>2, <1>3

-----------------------------------------------------------------------------
(* The volume Init describes.                                              *)

LEMMA InitBlocks ==
    ASSUME NEW d, NEW nx, NEW sl, d = Root0(nx, sl)
    PROVE  /\ DiskType(d) /\ \A c \in Cluster : FatOf(d, 0)[c] = nx[c]
           /\ d[Data(Root)] = [slots |-> sl]
<1>1. /\ Data(Root) \in Blocks /\ Root \in Cluster /\ 0 \in 0..(Copies - 1)
      /\ \A c \in Cluster, t \in 0..(Copies - 1) : FatBlock(t, c) \in Blocks
  BY BlockFacts, ClusterFacts
<1>2. d = [b \in Blocks |-> d[b]]
  BY DEF Root0
<1>3. ASSUME NEW t \in 0..(Copies - 1), NEW c \in Cluster
      PROVE  d[FatBlock(t, c)] = [next |-> [x \in {y \in Cluster : y \div PerSector = c \div PerSector} |-> nx[x]]]
  <2>1. PICK b : b = FatBlock(t, c)
    OBVIOUS
  <2>2. b \in Blocks /\ b[1] = "fat" /\ b[3] = c \div PerSector
    BY <1>1, <2>1 DEF FatBlock
  <2> DEFINE Sector(v) == [next |-> [x \in {y \in Cluster : y \div PerSector = v[3]} |-> nx[x]]]
             Content(v) == CASE v[1] = "fat" -> Sector(v)
                             [] v[1] = "info" -> [hint |-> "free"]
                             [] v = Data(Root) -> [slots |-> sl]
                             [] OTHER -> Bytes(0, 2)[1 + (v[2] % 2)]
  <2>3. d = [v \in Blocks |-> Content(v)]
    BY DEF Root0
  <2>4. Content(b) = Sector(b)
    <3>1. b # Data(Root) /\ b[1] # "info" /\ b[1] = "fat"
      BY <2>1, <2>2, BlockFacts
    <3> HIDE DEF Sector
    <3> QED
      BY <3>1
  <2> HIDE DEF Content
  <2>5. d[b] = Content(b)
    BY <2>2, <2>3
  <2> QED
    BY <2>1, <2>2, <2>4, <2>5
<1>4. d[Data(Root)] = [slots |-> sl]
  <2>1. PICK b : b = Data(Root)
    OBVIOUS
  <2>2. b \in Blocks /\ b[1] = "data"
    BY <1>1, <2>1 DEF Data
  <2>3. b[1] # "fat" /\ b[1] # "info"
    BY <2>2
  <2> QED
    BY <2>1, <2>2, <2>3 DEF Root0
<1>5. ASSUME NEW c \in Cluster PROVE FatOf(d, 0)[c] = nx[c]
  <2>1. FatOf(d, 0)[c] = d[FatBlock(0, c)].next[c]
    BY DEF FatOf
  <2>2. PICK S : S = {y \in Cluster : y \div PerSector = c \div PerSector}
    OBVIOUS
  <2>3. d[FatBlock(0, c)] = [next |-> [x \in S |-> nx[x]]] /\ c \in S
    BY <1>1, <1>3, <2>2
  <2> QED
    BY <2>1, <2>3
<1>6. DiskType(d)
  <2>1. \A t \in 0..(Copies - 1), c \in Cluster :
          LET x == d[FatBlock(t, c)]
          IN  x = [next |-> [k \in {y \in Cluster : y \div PerSector = c \div PerSector} |-> x.next[k]]]
    <3> TAKE t \in 0..(Copies - 1), c \in Cluster
    <3>1. PICK x : x = d[FatBlock(t, c)]
      OBVIOUS
    <3>2. x = [next |-> [k \in {y \in Cluster : y \div PerSector = c \div PerSector} |-> x.next[k]]]
      <4>1. PICK S : S = {y \in Cluster : y \div PerSector = c \div PerSector}
        OBVIOUS
      <4>2. x = [next |-> [k \in S |-> nx[k]]]
        BY <1>3, <3>1, <4>1
      <4>3. x = [next |-> [k \in S |-> x.next[k]]]
        BY <4>2
      <4> QED
        BY <4>1, <4>3
    <3> QED
      BY <3>1, <3>2, Zenon
  <2> QED
    BY <1>2, <2>1 DEF DiskType
<1> QED
  BY <1>4, <1>5, <1>6

\* A root directory with one entry, a file of two clusters.
Single(fat, x, sl) ==
    /\ fat[Root] = Eoc /\ fat[4] = 5 /\ fat[5] = Eoc
    /\ x = [slots |-> sl] /\ sl = [i \in 1..Slots |-> sl[i]]
    /\ sl[2] = [kind |-> "file", name |-> "a", cluster |-> 4, size |-> 2]
    /\ \A i \in 1..Slots : i # 2 => sl[i].kind \notin Entry
    /\ sl[1].kind # "end" /\ \A c \in Cluster : fat[c] # 0 => c \in {2, 4, 5}

LEMMA InitLayout ==
    ASSUME NEW d, NEW sl, NEW fat, fat = FatOf(d, 0), Single(fat, d[Data(Root)], sl)
    PROVE  \E O, ch : /\ Layout(d, O, ch) /\ AllShown(d, O, ch)
                      /\ \A c \in Cluster : fat[c] # 0 => c \in Used(O, ch)
<1>1. 2 \in Cluster /\ 4 \in Cluster /\ 5 \in Cluster /\ 2 \in 1..Slots /\ Root = 2
  BY DEF Cluster, Root
<1>2. PICK a, p, q : a = <<2, 2>> /\ p = <<2>> /\ q = <<4, 5>>
  OBVIOUS
<1>3. a # NoSlot /\ a[1] = 2 /\ a[2] = 2 /\ a \in Cluster \X (1..Slots)
  BY <1>1, <1>2 DEF NoSlot
<1>4. IsChain(fat, Root, p) /\ Within(p) = {2} /\ Len(p) = 1
  <2>1. PICK c : c = Root
    OBVIOUS
  <2>2. c \in Cluster /\ fat[c] = Eoc
    BY <1>1, <2>1 DEF Single
  <2>3. IsChain(fat, c, <<c>>) /\ Within(<<c>>) = {c} /\ Len(<<c>>) = 1
    BY <2>2, ChainSingle
  <2> QED
    BY <1>1, <1>2, <2>1, <2>3
<1>5. IsChain(fat, 4, q) /\ Within(q) = {4, 5} /\ Len(q) = 2
  <2>1. q \in Seq(Cluster) /\ Len(q) = 2 /\ q[1] = 4 /\ q[2] = 5 /\ 1..2 = {1, 2} /\ 1..(2 - 1) = {1}
    BY <1>1, <1>2
  <2>2. fat[4] = 5 /\ fat[5] = Eoc
    BY DEF Single
  <2>3. Within(q) = {4, 5}
    BY <2>1 DEF Within
  <2>4. \A i, j \in 1..Len(q) : q[i] = q[j] => i = j
    BY <2>1
  <2>5. \A i \in 1..(Len(q) - 1) : fat[q[i]] = q[i + 1]
    BY <2>1, <2>2
  <2> QED
    BY <2>1, <2>2, <2>3, <2>4, <2>5 DEF IsChain
<1>6. IsSlots(d[Data(2)])
  <2>1. PICK x : x = d[Data(2)]
    OBVIOUS
  <2>2. x = [slots |-> sl]
    BY <1>1, <2>1 DEF Single
  <2>3. x.slots = sl
    BY <2>2
  <2> QED
    BY <2>1, <2>2, <2>3 DEF IsSlots, Single
<1>7. \A s \in {2} \X (1..Slots) : SlotAt(d, s) = sl[s[2]]
  <2> TAKE s \in {2} \X (1..Slots)
  <2>1. s \in Cluster \X (1..Slots) /\ s[1] = 2
    BY <1>1
  <2>2. d[Data(2)] = [slots |-> sl]
    BY <1>1 DEF Single
  <2>3. d[Data(2)].slots = sl
    BY <2>2
  <2>4. SlotAt(d, s) = d[Data(2)].slots[s[2]]
    BY <1>6, <2>1, SlotIn
  <2> QED
    BY <2>3, <2>4
<1>8. SlotAt(d, a) = sl[2]
  BY <1>1, <1>2, <1>7
<1>9. SlotAt(d, a).kind = "file" /\ SlotAt(d, a).cluster = 4 /\ SlotAt(d, a).size = 2
  BY <1>8 DEF Single
<1>10. Named(d, p) = {a}
  <2>1. ASSUME NEW s \in Named(d, p) PROVE s = a
    <3>1. s \in {2} \X (1..Slots) /\ SlotAt(d, s).kind \in Entry
      BY <1>4 DEF Named
    <3>2. s[2] = 2
      BY <1>7, <3>1 DEF Single
    <3> QED
      BY <1>2, <3>1, <3>2
  <2>2. a \in Named(d, p)
    BY <1>1, <1>2, <1>4, <1>9 DEF Named, Entry
  <2> QED
    BY <2>1, <2>2
<1>11. PICK O, ch : O = {NoSlot, a} /\ ch = [s \in O |-> IF s = NoSlot THEN p ELSE q]
  OBVIOUS
<1>12. ch[NoSlot] = p /\ ch[a] = q /\ HeadIn(d, NoSlot) = Root /\ HeadIn(d, a) = 4 /\ ch = [s \in O |-> ch[s]]
  BY <1>3, <1>9, <1>11 DEF HeadIn
<1>13. Chained(d, O, ch)
  BY <1>4, <1>5, <1>11, <1>12, <1>1 DEF Chained
<1>14. Apart(O, ch)
  <2>1. Within(ch[NoSlot]) \cap Within(ch[a]) = {}
    BY <1>4, <1>5, <1>12
  <2> QED
    BY <1>11, <2>1 DEF Apart
<1>15. Sized(d, O, ch)
  <2>1. SlotAt(d, a).kind \in Entry /\ SlotAt(d, a).size \in Nat
    BY <1>9 DEF Entry
  <2>3. SlotAt(d, a).size <= Len(ch[a])
    <3>1. Len(ch[a]) = 2 /\ SlotAt(d, a).size = 2
      BY <1>5, <1>9, <1>12
    <3> QED
      BY <3>1
  <2>2. O \ {NoSlot} = {a}
    BY <1>3, <1>11
  <2> QED
    BY <2>1, <2>2, <2>3 DEF Sized
<1>16. Listed(d, O, ch) = {NoSlot}
  BY <1>3, <1>9, <1>11 DEF Listed
<1>17. Slotted(d, O, ch)
  BY <1>4, <1>6, <1>9, <1>11, <1>12 DEF Slotted
<1>18. Complete(d, O, ch) /\ Anchored(d, O, ch)
  <2>1. a \in Within(p) \X (1..Slots)
    BY <1>10 DEF Named
  <2> QED
    BY <1>10, <1>11, <1>12, <1>16, <2>1 DEF Complete, Anchored
<1>19. Layout(d, O, ch)
  BY <1>11, <1>12, <1>13, <1>14, <1>15, <1>17, <1>18 DEF Layout
<1>20. AllShown(d, O, ch)
  <2>1. ASSUME NEW x \in Places(p)
        PROVE  x = <<x[1], x[2]>> /\ x[1] = 1 /\ x[2] \in 1..Slots /\ SlotAt(d, SlotOf(p, x)) = sl[x[2]]
    <3>1. x = <<x[1], x[2]>> /\ x[1] = 1 /\ x[2] \in 1..Slots /\ p[1] = 2
      BY <1>2, <1>4 DEF Places
    <3>2. PICK s : s = SlotOf(p, x)
      OBVIOUS
    <3>3. s = <<2, x[2]>>
      BY <3>1, <3>2 DEF SlotOf
    <3>4. s \in {2} \X (1..Slots) /\ s[2] = x[2]
      BY <3>1, <3>3
    <3> QED
      BY <1>7, <3>1, <3>2, <3>4
  <2>2. ASSUME NEW x \in Places(p), SlotAt(d, SlotOf(p, x)).kind \in Entry, NEW y \in Ends(d, p) PROVE Earlier(x, y)
    <3>1. x[1] = 1 /\ x[2] = 2
      BY <2>1, <2>2 DEF Single
    <3>2. y \in Places(p) /\ SlotAt(d, SlotOf(p, y)).kind = "end"
      BY DEF Ends
    <3>3. y[1] = 1 /\ y[2] \in 1..Slots /\ sl[y[2]].kind = "end"
      BY <2>1, <3>2
    <3>4. y[2] # 1 /\ y[2] # 2
      BY <3>3 DEF Single
    <3>5. 2 < y[2]
      BY <3>3, <3>4
    <3> QED
      BY <3>1, <3>3, <3>5 DEF Earlier
  <2>3. Shown(d, p)
    BY <2>2 DEF Shown
  <2> QED
    BY <1>12, <1>16, <2>3 DEF AllShown
<1>21. \A c \in Cluster : fat[c] # 0 => c \in Used(O, ch)
  <2>1. 2 \in Used(O, ch) /\ 4 \in Used(O, ch) /\ 5 \in Used(O, ch)
    BY <1>4, <1>5, <1>11, <1>12 DEF Used
  <2> QED
    BY <2>1 DEF Single
<1> QED
  BY <1>19, <1>20, <1>21

LEMMA VolumeInit == Init => VolumeInductive /\ Listing /\ Only({})
<1> SUFFICES ASSUME Init PROVE VolumeInductive /\ Listing /\ Only({})
  OBVIOUS
<1>1. PICK nx, sl :
        /\ nx = [c \in Cluster |-> CASE c = Root -> Eoc [] c = 4 -> 5 [] c = 5 -> Eoc [] OTHER -> 0]
        /\ sl = [i \in 1..Slots |-> CASE i = 1 -> Long("a")
                                      [] i = 2 -> [kind |-> "file", name |-> "a", cluster |-> 4, size |-> 2]
                                      [] OTHER -> End]
  OBVIOUS
<1>2. disk = Root0(nx, sl)
  BY <1>1 DEF Init
<1>3. 2 \in Cluster /\ 4 \in Cluster /\ 5 \in Cluster /\ 2 \in 1..Slots /\ Root = 2 /\ Eoc = 1
  BY DEF Cluster, Root, Eoc
<1>4. nx[Root] = Eoc /\ nx[4] = 5 /\ nx[5] = Eoc
  BY <1>1, <1>3
<1>5. /\ sl = [i \in 1..Slots |-> sl[i]]
      /\ sl[2] = [kind |-> "file", name |-> "a", cluster |-> 4, size |-> 2]
  BY <1>1, <1>3
<1>6. ASSUME NEW i \in 1..Slots, i # 2 PROVE sl[i].kind \notin Entry
  <2>1. Long("a").kind = "long" /\ End.kind = "end"
    BY DEF Long, End
  <2>2. sl[i] = Long("a") \/ sl[i] = End
    BY <1>1, <1>6
  <2> QED
    BY <2>1, <2>2 DEF Entry
<1>7. PICK O, ch : /\ Layout(disk, O, ch) /\ AllShown(disk, O, ch)
                   /\ \A c \in Cluster : ActiveFat[c] # 0 => c \in Used(O, ch)
  <2>1. PICK d, fat : d = disk /\ fat = FatOf(d, 0)
    OBVIOUS
  <2>2. (\A c \in Cluster : fat[c] = nx[c]) /\ d[Data(Root)] = [slots |-> sl]
    BY <1>2, <2>1, InitBlocks
  <2>3. \A c \in Cluster : fat[c] # 0 => c \in {2, 4, 5}
    BY <1>1, <1>3, <2>2
  <2>4. sl[1].kind # "end"
    <3>1. sl[1] = Long("a")
      BY <1>1, <1>3
    <3> QED
      BY <3>1 DEF Long
  <2>5. Single(fat, d[Data(Root)], sl)
    BY <1>3, <1>4, <1>5, <1>6, <2>2, <2>3, <2>4 DEF Single
  <2>6. \E O, ch : /\ Layout(d, O, ch) /\ AllShown(d, O, ch)
                   /\ \A c \in Cluster : fat[c] # 0 => c \in Used(O, ch)
    BY <2>1, <2>5, InitLayout
  <2> QED
    BY <2>1, <2>6 DEF ActiveFat
<1>8. Tree /\ Listing /\ Only({})
  <2>1. O = Owners(disk) /\ ch = Chains(disk)
    BY <1>7, LayoutOf
  <2> QED
    BY <1>7, <2>1 DEF Tree, Listing, Only, InUse
<1>9. DiskType(disk)
  BY <1>2, InitBlocks
<1>10. /\ todo = <<>> /\ pc = "idle" /\ nextFree = 2 /\ fatCache = Invalid /\ dirCache = Invalid
  BY DEF Init
<1>11. Types
  BY <1>3, <1>9, <1>10, EmptyList DEF Types, Caches, Called, Phases
<1> QED
  BY <1>8, <1>10, <1>11 DEF VolumeInductive, Phase

LEMMA VolumeIs == Spec => []VolumeKept
<1>1. Init => VolumeKept
  BY VolumeInit DEF VolumeKept, Init
<1> QED
  BY <1>1, VolumeStep, PTL DEF Spec

\* On a device that does what it is told in the order it is told, or that has
\* not lost power yet, the layout of the volume survives everything WriteFile,
\* Mkdir and Remove do to it, also when a device error or a power failure cuts
\* them off after any block write: every entry a reader can reach has a whole
\* chain of at least its size, no cluster has two owners, and a directory
\* never holds the bytes of a file.  For every size of volume, number of FAT
\* copies, sizes of files and number of calls, errors and power failures.
THEOREM ChainsStaySound == Spec => [](Ordered => SoundChains)
<1>1. VolumeKept => (Ordered => SoundChains)
  BY LayoutSound DEF VolumeKept, VolumeInductive, Tree
<1> QED
  BY <1>1, VolumeIs, PTL


LEMMA PlaceFacts ==
    ASSUME NEW chain, Len(chain) \in Nat, NEW p \in Places(chain)
    PROVE  /\ SlotOf(chain, p) \in Within(chain) \X (1..Slots) /\ SlotOf(chain, p)[1] = chain[p[1]]
           /\ SlotOf(chain, p)[2] = p[2]
           /\ p = <<p[1], p[2]>> /\ p[1] \in 1..Len(chain) /\ p[2] \in 1..Slots
  BY DEF Places, SlotOf, Within

LEMMA PlaceOf ==
    ASSUME NEW chain, Len(chain) \in Nat, NEW s \in Within(chain) \X (1..Slots)
    PROVE  \E p \in Places(chain) : SlotOf(chain, p) = s
<1>1. s[1] \in Within(chain) /\ s[2] \in 1..Slots /\ s = <<s[1], s[2]>>
  OBVIOUS
<1>2. PICK i \in 1..Len(chain) : s[1] = chain[i]
  BY <1>1 DEF Within
<1>3. PICK p : p = <<i, s[2]>>
  OBVIOUS
<1>4. p \in Places(chain) /\ SlotOf(chain, p) = s
  BY <1>1, <1>2, <1>3 DEF Places, SlotOf
<1> QED
  BY <1>4

LEMMA SamePlace ==
    ASSUME NEW fat, NEW c, NEW chain, IsChain(fat, c, chain), NEW p \in Places(chain), NEW q \in Places(chain),
           SlotOf(chain, p) = SlotOf(chain, q)
    PROVE  p = q
<1>1. Len(chain) \in Nat
  BY DEF IsChain
<1>2. chain[p[1]] = chain[q[1]] /\ p[2] = q[2] /\ p = <<p[1], p[2]>> /\ q = <<q[1], q[2]>>
      /\ p[1] \in 1..Len(chain) /\ q[1] \in 1..Len(chain)
  BY <1>1, PlaceFacts
<1>3. p[1] = q[1]
  BY <1>2 DEF IsChain
<1> QED
  BY <1>2, <1>3

LEMMA PlaceOrder ==
    ASSUME NEW chain, Len(chain) \in Nat, NEW p \in Places(chain), NEW q \in Places(chain)
    PROVE  (p = q \/ Earlier(p, q) \/ Earlier(q, p)) /\ ~(Earlier(p, q) /\ Earlier(q, p)) /\ ~Earlier(p, p)
<1>1. /\ p[1] \in Nat /\ p[2] \in Nat /\ p = <<p[1], p[2]>>
      /\ q[1] \in Nat /\ q[2] \in Nat /\ q = <<q[1], q[2]>>
  BY PlaceFacts
<1> QED
  BY <1>1 DEF Earlier

\* A write that makes neither entries nor ends.
Fewer(d, d2, chain) ==
    \A s \in Within(chain) \X (1..Slots) :
        /\ SlotAt(d2, s).kind \in Entry => SlotAt(d, s).kind \in Entry
        /\ SlotAt(d2, s).kind = "end" => SlotAt(d, s).kind = "end"

LEMMA FewerFacts ==
    ASSUME NEW d, NEW d2, NEW chain, Len(chain) \in Nat, Fewer(d, d2, chain)
    PROVE  /\ Ends(d2, chain) \subseteq Ends(d, chain) /\ (Shown(d, chain) => Shown(d2, chain))
           /\ \A s : Reaches(d, chain, s) => Reaches(d2, chain, s)
<1>1. ASSUME NEW p \in Places(chain)
      PROVE  /\ SlotAt(d2, SlotOf(chain, p)).kind \in Entry => SlotAt(d, SlotOf(chain, p)).kind \in Entry
             /\ SlotAt(d2, SlotOf(chain, p)).kind = "end" => SlotAt(d, SlotOf(chain, p)).kind = "end"
  BY PlaceFacts DEF Fewer
<1>2. Ends(d2, chain) \subseteq Ends(d, chain)
  BY <1>1 DEF Ends
<1> QED
  BY <1>1, <1>2 DEF Shown, Reaches

LEMMA DirectoryFacts ==
    ASSUME Tree, NEW t \in Directories
    PROVE  /\ t \in Owners(disk) /\ Len(Chains(disk)[t]) \in Nat
           /\ Within(Chains(disk)[t]) \subseteq InUse /\ Within(Chains(disk)[t]) \subseteq Cluster
<1>1. PICK O, ch : O = Owners(disk) /\ ch = Chains(disk)
  OBVIOUS
<1>2. Layout(disk, O, ch) /\ t \in O /\ InUse = Used(O, ch)
  BY <1>1 DEF Tree, Directories, Listed, InUse
<1> QED
  BY <1>1, <1>2, OwnChain, UsedBy

LEMMA AsideTidy ==
    ASSUME Tree, Aside
    PROVE  /\ Listing => Listing'
           /\ \A s : Reached(s) => Reached(s)'
           /\ \A c : Full(c) => Full(c)'
           /\ \A s : Emptied(s) => Emptied(s)'
<1>1. Owners(disk') = Owners(disk) /\ Chains(disk') = Chains(disk) /\ Directories' = Directories
  BY AsideTree
<1>2. ASSUME NEW t \in Directories PROVE Fewer(disk, disk', Chains(disk)[t]) /\ Len(Chains(disk)[t]) \in Nat
  <2>1. ASSUME NEW s \in Within(Chains(disk)[t]) \X (1..Slots) PROVE SlotAt(disk', s) = SlotAt(disk, s)
    <3>1. s[1] \in InUse
      BY DirectoryFacts
    <3> QED
      BY <3>1, SlotSame DEF Aside
  <2> QED
    BY <2>1, DirectoryFacts DEF Fewer
<1>3. ASSUME NEW t \in Directories
      PROVE  /\ Shown(disk, Chains(disk)[t]) => Shown(disk', Chains(disk')[t])
             /\ \A s : Reaches(disk, Chains(disk)[t], s) => Reaches(disk', Chains(disk')[t], s)
             /\ Ends(disk', Chains(disk')[t]) \subseteq Ends(disk, Chains(disk)[t])
  <2>1. PICK d2, q : d2 = disk' /\ q = Chains(disk)[t]
    OBVIOUS
  <2>2. Fewer(disk, d2, q) /\ Len(q) \in Nat
    BY <1>2, <2>1
  <2>3. /\ Ends(d2, q) \subseteq Ends(disk, q) /\ (Shown(disk, q) => Shown(d2, q))
        /\ \A s : Reaches(disk, q, s) => Reaches(d2, q, s)
    BY <2>2, FewerFacts
  <2> QED
    BY <1>1, <2>1, <2>3
<1>4. Listing => Listing'
  BY <1>1, <1>3 DEF Listing, AllShown, Directories
<1>5. \A s : Reached(s) => Reached(s)'
  BY <1>1, <1>3 DEF Reached
<1>6. ASSUME NEW c, Full(c) PROVE Full(c)'
  <2>1. PICK t \in Directories : /\ HeadIn(disk, t) # 0 /\ c = Chains(disk)[t][Len(Chains(disk)[t])]
                                 /\ Ends(disk, Chains(disk)[t]) = {}
    BY <1>6 DEF Full
  <2>2. HeadIn(disk', t) = HeadIn(disk, t)
    BY AsideSlots, DirectoryFacts
  <2>3. Ends(disk', Chains(disk')[t]) = {}
    BY <1>3, <2>1
  <2> QED
    BY <1>1, <2>1, <2>2, <2>3 DEF Full
<1>7. \A s : Emptied(s) => Emptied(s)'
  BY <1>1 DEF Emptied
<1> QED
  BY <1>4, <1>5, <1>6, <1>7

LEMMA SameTidy ==
    ASSUME disk' = disk
    PROVE  /\ Listing' = Listing /\ \A X : Only(X)' = Only(X)
           /\ \A s : Reached(s)' = Reached(s) /\ Emptied(s)' = Emptied(s)
           /\ \A c : Full(c)' = Full(c)
  BY DEF Listing, Only, Reached, Emptied, Full, Directories, ActiveFat, InUse

LEMMA AsideOnly ==
    ASSUME Tree, Aside, NEW X, Only(X), \A c \in Cluster \ X : ActiveFat'[c] = ActiveFat[c]
    PROVE  Only(X)'
  BY AsideTree DEF Only

-----------------------------------------------------------------------------
(* How the listing of the directories changes.                             *)

LEMMA ShownQuiet ==
    ASSUME NEW d, NEW d2, NEW O, NEW ch, Layout(d, O, ch), NEW s, NEW e, Marked(d, d2, s, e),
           e.kind \notin Entry, e.kind # "end", NEW t \in O
    PROVE  Fewer(d, d2, ch[t]) /\ Len(ch[t]) \in Nat
<1>1. Within(ch[t]) \subseteq Cluster /\ Len(ch[t]) \in Nat
  BY OwnChain
<1>2. ASSUME NEW r \in Within(ch[t]) \X (1..Slots) PROVE SlotAt(d2, r) = e \/ SlotAt(d2, r) = SlotAt(d, r)
  <2>1. r \in Cluster \X (1..Slots)
    BY <1>1
  <2> QED
    BY <2>1 DEF Marked
<1> QED
  BY <1>1, <1>2 DEF Fewer

LEMMA ShownMarked ==
    ASSUME NEW d, NEW d2, NEW O, NEW ch, Layout(d, O, ch), NEW s, NEW e, Marked(d, d2, s, e),
           e.kind \notin Entry, e.kind # "end", AllShown(d, O, ch),
           NEW O2, NEW ch2, Listed(d2, O2, ch2) \subseteq Listed(d, O, ch),
           \A t \in Listed(d2, O2, ch2) : ch2[t] = ch[t]
    PROVE  AllShown(d2, O2, ch2)
<1>1. ASSUME NEW t \in Listed(d2, O2, ch2) PROVE Shown(d2, ch2[t])
  <2>1. t \in O /\ t \in Listed(d, O, ch) /\ ch2[t] = ch[t]
    BY DEF Listed
  <2>2. Fewer(d, d2, ch[t]) /\ Len(ch[t]) \in Nat
    BY <2>1, ShownQuiet
  <2>3. Shown(d, ch[t])
    BY <2>1 DEF AllShown
  <2> QED
    BY <2>1, <2>2, <2>3, FewerFacts
<1> QED
  BY <1>1 DEF AllShown

LEMMA ShownPublish ==
    ASSUME NEW d, NEW d2, NEW O, NEW ch, Layout(d, O, ch), NEW s, NEW e, Marked(d, d2, s, e),
           NEW q, Publishable(d, O, ch, s, e, q),
           NEW O2, NEW ch2, Joined(O, ch, s, q, O2, ch2),
           AllShown(d, O, ch), NEW t0 \in Listed(d, O, ch), Reaches(d, ch[t0], s)
    PROVE  AllShown(d2, O2, ch2)
<1>1. s \in Cluster \X (1..Slots) /\ SlotAt(d2, s) = e /\ e.kind \in Entry /\ e.kind # "end" /\ s # NoSlot
  <2>1. s \in Cluster \X (1..Slots) /\ SlotAt(d2, s) = e /\ e.kind \in Entry
    BY DEF Marked, Publishable
  <2>2. s # NoSlot
    BY <2>1, ClusterFacts DEF NoSlot
  <2> QED
    BY <2>1, <2>2 DEF Entry
<1>2. t0 \in O /\ Len(ch[t0]) \in Nat /\ Within(ch[t0]) \subseteq Used(O, ch)
  BY OwnChain, UsedBy DEF Listed
<1>3. PICK p0 \in Places(ch[t0]) : SlotOf(ch[t0], p0) = s /\ \A x \in Ends(d, ch[t0]) : ~Earlier(x, p0)
  BY DEF Reaches
<1>4. s[1] \in Within(ch[t0])
  BY <1>2, <1>3, PlaceFacts
<1>5. O2 = O \cup {s} /\ ch2[s] = q /\ \A r \in O : r # s => ch2[r] = ch[r]
  BY DEF Joined
<1>6. ASSUME NEW t \in Listed(d2, O2, ch2), t = s PROVE Shown(d2, ch2[t])
  <2>1. e.kind = "dir" /\ Named(d, q) = {} /\ Within(q) \cap Used(O, ch) = {} /\ Within(q) \subseteq Cluster
    BY <1>1, <1>6 DEF Listed, Publishable
  <2>2. Len(q) \in Nat
    <3>1. q = <<>> \/ q \in Seq(Cluster)
      BY DEF Publishable, IsChain
    <3> QED
      BY <3>1
  <2>3. ASSUME NEW p \in Places(q) PROVE SlotAt(d2, SlotOf(q, p)).kind \notin Entry
    <3>1. PICK r : r = SlotOf(q, p)
      OBVIOUS
    <3>2. r \in Within(q) \X (1..Slots) /\ r[1] \in Within(q)
      BY <2>2, <3>1, PlaceFacts
    <3>3. SlotAt(d, r).kind \notin Entry
      BY <2>1, <3>2 DEF Named
    <3>4. r \in Cluster \X (1..Slots) /\ r # s
      BY <1>2, <1>4, <2>1, <3>2
    <3> QED
      BY <3>1, <3>3, <3>4 DEF Marked
  <2> QED
    BY <1>5, <1>6, <2>3 DEF Shown
<1>7. ASSUME NEW t \in Listed(d2, O2, ch2), t # s PROVE Shown(d2, ch2[t])
  <2>1. t \in O /\ ch2[t] = ch[t] /\ NoSlot \in O /\ ch2[NoSlot] = ch[NoSlot]
    BY <1>1, <1>5, <1>7 DEF Listed, Layout
  <2>2. SlotAt(d2, t) = SlotAt(d, t)
    <3>1. CASE t = NoSlot
      BY <3>1, NoSlotAt
    <3>2. CASE t # NoSlot
      <4>1. t \in Cluster \X (1..Slots)
        BY <2>1, <3>2, OwnSlot
      <4> QED
        BY <1>7, <4>1 DEF Marked
    <3> QED
      BY <3>1, <3>2
  <2>3. t \in Listed(d, O, ch)
    BY <2>1, <2>2 DEF Listed
  <2>4. PICK c : c = ch[t]
    OBVIOUS
  <2>5. Shown(d, c) /\ Len(c) \in Nat /\ Within(c) \subseteq Cluster
    BY <2>1, <2>3, <2>4, OwnChain DEF AllShown
  <2>6. ASSUME NEW p \in Places(c), SlotOf(c, p) # s PROVE SlotAt(d2, SlotOf(c, p)) = SlotAt(d, SlotOf(c, p))
    <3>1. SlotOf(c, p) \in Cluster \X (1..Slots)
      BY <2>5, PlaceFacts
    <3> QED
      BY <2>6, <3>1 DEF Marked
  <2>7. ASSUME NEW x \in Ends(d2, c) PROVE x \in Places(c) /\ SlotOf(c, x) # s /\ x \in Ends(d, c)
    <3>1. x \in Places(c) /\ SlotAt(d2, SlotOf(c, x)).kind = "end"
      BY DEF Ends
    <3>2. SlotOf(c, x) # s
      BY <1>1, <3>1
    <3> QED
      BY <2>6, <3>1, <3>2 DEF Ends
  <2>8. ASSUME NEW p \in Places(c), SlotAt(d2, SlotOf(c, p)).kind \in Entry, NEW x \in Ends(d2, c)
        PROVE  Earlier(p, x)
    <3>1. CASE SlotOf(c, p) # s
      BY <2>5, <2>6, <2>7, <2>8, <3>1 DEF Shown
    <3>2. CASE SlotOf(c, p) = s
      <4>1. s[1] \in Within(c)
        BY <2>5, <3>2, PlaceFacts
      <4>2. t = t0
        BY <1>2, <1>4, <2>1, <2>4, <4>1 DEF Layout, Apart
      <4>3. IsChain(FatOf(d, 0), HeadIn(d, t), c)
        <5>1. HeadIn(d, t) # 0
          <6>1. ASSUME HeadIn(d, t) = 0 PROVE c = <<>>
            BY <2>1, <2>4, <6>1 DEF Layout, Chained
          <6> QED
            BY <4>1, <6>1, EmptyList
        <5> QED
          BY <2>1, <2>4, <5>1, OwnChain
      <4>4. p = p0
        BY <1>3, <2>4, <3>2, <4>2, <4>3, SamePlace
      <4>5. ~Earlier(x, p) /\ x # p /\ x \in Places(c)
        BY <1>3, <2>4, <2>7, <3>2, <4>2, <4>4
      <4> QED
        BY <2>5, <4>5, PlaceOrder
    <3> QED
      BY <3>1, <3>2
  <2> QED
    BY <2>1, <2>4, <2>8 DEF Shown
<1> QED
  BY <1>6, <1>7 DEF AllShown

-----------------------------------------------------------------------------
(* A write keeps the accounts of its phase.                                *)

\* A directory without an end grows by a cleared cluster.
LEMMA ShownExtend ==
    ASSUME NEW d, NEW q \in Seq(Cluster), NEW y \in Cluster, Ends(d, q) = {}, d[Data(y)] = Zero
    PROVE  Shown(d, Longer(q, y)) /\ Reaches(d, Longer(q, y), <<y, 1>>)
<1>1. PICK c, N : c = Longer(q, y) /\ N = Len(q)
  OBVIOUS
<1>2. /\ N \in Nat /\ c \in Seq(Cluster) /\ Len(c) = N + 1 /\ c[N + 1] = y
      /\ \A i \in 1..N : c[i] = q[i]
  <2>1. Len(q) \in Nat
    OBVIOUS
  <2>2. /\ Longer(q, y) \in Seq(Cluster) /\ Len(Longer(q, y)) = Len(q) + 1 /\ Longer(q, y)[Len(q) + 1] = y
        /\ \A i \in 1..Len(q) : Longer(q, y)[i] = q[i]
    BY LongerFacts
  <2> QED
    BY <1>1, <2>1, <2>2
<1>3. IsSlots(d[Data(y)]) /\ \A i \in 1..Slots : d[Data(y)].slots[i].kind = "end"
  BY DEF IsSlots, Zero, End
<1>4. ASSUME NEW p \in Places(c)
      PROVE  /\ p = <<p[1], p[2]>> /\ p[1] \in 1..(N + 1) /\ p[2] \in 1..Slots
             /\ p[1] = N + 1 => SlotAt(d, SlotOf(c, p)).kind = "end"
             /\ p[1] # N + 1 => SlotAt(d, SlotOf(c, p)).kind # "end"
  <2>1. p = <<p[1], p[2]>> /\ p[1] \in 1..(N + 1) /\ p[2] \in 1..Slots
    BY <1>2, PlaceFacts
  <2>2. ASSUME p[1] = N + 1 PROVE SlotAt(d, SlotOf(c, p)).kind = "end"
    <3>1. PICK s : s = SlotOf(c, p)
      OBVIOUS
    <3>2. s = <<y, p[2]>>
      BY <1>2, <2>2, <3>1 DEF SlotOf
    <3>3. s \in Cluster \X (1..Slots) /\ s[1] = y /\ s[2] = p[2]
      BY <2>1, <3>2
    <3>4. SlotAt(d, s) = d[Data(y)].slots[p[2]]
      BY <1>3, <3>3, SlotIn
    <3> QED
      BY <1>3, <2>1, <3>1, <3>4
  <2>3. ASSUME p[1] # N + 1 PROVE SlotAt(d, SlotOf(c, p)).kind # "end"
    <3>1. p[1] \in 1..N
      BY <1>2, <2>1, <2>3
    <3>2. SlotOf(c, p) = SlotOf(q, p)
      BY <1>2, <3>1 DEF SlotOf
    <3>3. p \in Places(q)
      BY <1>1, <2>1, <3>1 DEF Places
    <3> QED
      BY <3>2, <3>3 DEF Ends
  <2> QED
    BY <2>1, <2>2, <2>3
<1>5. ASSUME NEW x \in Ends(d, c) PROVE x \in Places(c) /\ x[1] = N + 1
  BY <1>4 DEF Ends
<1>6. Shown(d, c)
  <2>1. ASSUME NEW p \in Places(c), SlotAt(d, SlotOf(c, p)).kind \in Entry, NEW x \in Ends(d, c) PROVE Earlier(p, x)
    <3>1. p[1] # N + 1
      BY <1>4, <2>1 DEF Entry
    <3>2. p[1] \in 1..(N + 1) /\ x[1] = N + 1
      BY <1>4, <1>5
    <3> QED
      BY <1>2, <3>1, <3>2 DEF Earlier
  <2> QED
    BY <2>1 DEF Shown
<1>7. Reaches(d, c, <<y, 1>>)
  <2>1. PICK p : p = <<N + 1, 1>>
    OBVIOUS
  <2>2. p \in Places(c) /\ SlotOf(c, p) = <<y, 1>> /\ p[1] = N + 1 /\ p[2] = 1
    BY <1>2, <2>1 DEF Places, SlotOf
  <2>3. ASSUME NEW x \in Ends(d, c) PROVE ~Earlier(x, p)
    <3>1. x[1] = N + 1 /\ x[2] \in 1..Slots
      BY <1>4, <1>5
    <3> QED
      BY <1>2, <2>2, <3>1 DEF Earlier
  <2> QED
    BY <2>2, <2>3 DEF Reaches
<1> QED
  BY <1>1, <1>6, <1>7

\* The clusters of an entry that is replaced are the only ones that leave.
LEMMA UsedPublish ==
    ASSUME NEW O, NEW ch, NEW s, NEW q, NEW O2, NEW ch2, Joined(O, ch, s, q, O2, ch2), NEW X,
           s \in O => Within(ch[s]) \subseteq X
    PROVE  Used(O, ch) \cup Within(q) \subseteq Used(O2, ch2) \cup X
<1>1. O2 = O \cup {s} /\ ch2[s] = q /\ \A r \in O : r # s => ch2[r] = ch[r]
  BY DEF Joined
<1>2. Within(q) \subseteq Used(O2, ch2)
  BY <1>1 DEF Used
<1>3. ASSUME NEW r \in O PROVE Within(ch[r]) \subseteq Used(O2, ch2) \cup X
  <2>1. CASE r = s
    BY <1>3, <2>1
  <2>2. CASE r # s
    <3>1. r \in O2 /\ ch2[r] = ch[r]
      BY <1>1, <2>2
    <3>2. Within(ch[r]) \subseteq Used(O2, ch2)
      BY <3>1 DEF Used
    <3> QED
      BY <3>2
  <2> QED
    BY <2>1, <2>2
<1> QED
  BY <1>2, <1>3 DEF Used

LEMMA UsedRemove ==
    ASSUME NEW O, NEW ch, NEW s, NEW O2, NEW ch2, Parted(O, ch, s, O2, ch2),
           \A r \in O : r[1] \notin Within(ch[s])
    PROVE  Used(O, ch) \subseteq Used(O2, ch2) \cup Within(ch[s])
<1>1. ASSUME NEW r \in O PROVE Within(ch[r]) \subseteq Used(O2, ch2) \cup Within(ch[s])
  <2>1. CASE r = s
    BY <2>1
  <2>2. CASE r # s
    <3>1. r \in O2 /\ ch2[r] = ch[r]
      BY <2>2 DEF Parted
    <3>2. Within(ch[r]) \subseteq Used(O2, ch2)
      BY <3>1 DEF Used
    <3> QED
      BY <3>2
  <2> QED
    BY <2>1, <2>2
<1> QED
  BY <1>1 DEF Used

\* A write aside, the request kept.
LEMMA AsideKeeps ==
    ASSUME Tree, Aside, op' = op
    PROVE  /\ Listing => Listing'
           /\ Reached(op.slot) => Reached(op.slot)'
           /\ Full(op.last) => Full(op.last)'
           /\ Emptied(op.slot) => Emptied(op.slot)'
<1>1. PICK s, c : s = op.slot /\ c = op.last
  OBVIOUS
<1>2. (Listing => Listing') /\ (Reached(s) => Reached(s)') /\ (Full(c) => Full(c)') /\ (Emptied(s) => Emptied(s)')
  BY AsideTidy
<1>3. (Reached(s)' => Reached(op.slot)') /\ (Full(c)' => Full(op.last)') /\ (Emptied(s)' => Emptied(op.slot)')
  BY <1>1 DEF Reached, Full, Emptied
<1> QED
  BY <1>1, <1>2, <1>3

LEMMA TidySlot ==
    ASSUME Types, Tree, Stores, Listing, Searching, Only({})
    PROVE  Listing' /\ Only({})'
<1>1. Inert(cmd0) /\ DiskType(disk)
  BY TodoStep DEF Types, Stores, Searching, AllInert
<1>2. Aside /\ ActiveFat' = ActiveFat
  BY <1>1, InertStep
<1>3. Only({})'
  BY <1>2, AsideOnly
<1> QED
  BY <1>2, <1>3, AsideTidy

LEMMA TidyExtend ==
    ASSUME Types, Tree, Stores, Moves, Listing, Growing, Only({op.fresh}), Full(op.last)
    PROVE  Listing' /\ Only({op.fresh})' /\ Full(op.last)'
<1>1. PICK x : x = op.fresh
  OBVIOUS
<1>2. x \in Cluster /\ x \notin InUse /\ Claiming(x) /\ DiskType(disk) /\ IsList(todo)
  BY <1>1 DEF Growing, Spare, Types
<1>3. Aside /\ \A y \in Cluster : y # x => ActiveFat'[y] = ActiveFat[y]
  BY <1>2, ClaimingStep
<1>4. Only({x})'
  BY <1>1, <1>3, AsideOnly
<1>5. Only({op.fresh})'
  BY <1>1, <1>4 DEF Only, Moves
<1> QED
  BY <1>3, <1>5, AsideKeeps DEF Moves

LEMMA TidyLink ==
    ASSUME Types, Tree, Stores, Moves, Listing, Joining, Only(Within(NewChain) \cup {op.fresh}), Reached(op.slot)
    PROVE  Listing' /\ Only(Within(NewChain) \cup {op.fresh})' /\ Reached(op.slot)'
<1>1. PICK x, X : x = op.fresh /\ X = Within(NewChain) \cup {op.fresh}
  OBVIOUS
<1>2. x \in Cluster /\ x \notin InUse /\ Claiming(x) /\ DiskType(disk) /\ IsList(todo) /\ Whole
  BY <1>1 DEF Joining, Spare, Types, Built
<1>3. Aside /\ \A y \in Cluster : y # x => ActiveFat'[y] = ActiveFat[y]
  BY <1>2, ClaimingStep
<1>4. \A y \in Within(NewChain) : ActiveFat'[y] = ActiveFat[y]
  BY <1>1, <1>2, <1>3, WholeCluster DEF Joining, Spare
<1>5. NewChain' = NewChain
  BY <1>2, <1>4, ChainKept DEF Moves
<1>6. Only(X)'
  BY <1>1, <1>3, AsideOnly
<1>7. Only(Within(NewChain) \cup {op.fresh})'
  BY <1>1, <1>5, <1>6 DEF Only, Moves
<1> QED
  BY <1>3, <1>7, AsideKeeps DEF Moves

LEMMA TidyPublish ==
    ASSUME Types, Tree, Stores, Moves, Listing, Ready, Only(Within(NewChain)), Reached(op.slot)
    PROVE  Listing' /\ Only(Within(NewChain))' /\ Reached(op.slot)'
<1>1. Inert(cmd0) /\ DiskType(disk)
  BY TodoStep DEF Types, Stores, Ready, AllInert
<1>2. Aside /\ ActiveFat' = ActiveFat
  BY <1>1, InertStep
<1>3. NewChain' = NewChain
  BY <1>2, ChainKept DEF Ready, Built, Moves
<1>4. PICK X : X = Within(NewChain)
  OBVIOUS
<1>5. Only(X)'
  BY <1>2, <1>4, AsideOnly
<1>6. Only(Within(NewChain))'
  BY <1>3, <1>4, <1>5 DEF Only
<1> QED
  BY <1>2, <1>6, AsideKeeps DEF Moves

LEMMA TidyUnlink ==
    ASSUME Types, Tree, Stores, Moves, Listing, Doomed, Only({}), Emptied(op.slot)
    PROVE  Listing' /\ Only({})' /\ Emptied(op.slot)'
<1>1. Inert(cmd0) /\ DiskType(disk)
  BY TodoStep DEF Types, Stores, Doomed, AllInert
<1>2. Aside /\ ActiveFat' = ActiveFat
  BY <1>1, InertStep
<1>3. Only({})'
  BY <1>2, AsideOnly
<1> QED
  BY <1>2, <1>3, AsideKeeps DEF Moves

LEMMA TidyReturn ==
    ASSUME Types, Tree, Stores, Moves, Listing, Giving, Only(ToFree)
    PROVE  Listing' /\ Only(ToFree)'
<1>1. /\ cmd0 \in Within(todo) /\ DiskType(disk) /\ todo # <<>> /\ Within(todo) = {cmd0} \cup Within(Tail(todo))
  BY TodoStep DEF Types, Stores
<1>2. ToFree' = {c.at : c \in {x \in Within(Tail(todo)) : Sets(x, x.at, 0)}}
  BY DEF ToFree, Moves
<1>3. CASE Inert(cmd0)
  <2>1. Aside /\ ActiveFat' = ActiveFat
    BY <1>1, <1>3, InertStep
  <2>2. ~Sets(cmd0, cmd0.at, 0)
    BY <1>3, Exclusive
  <2>3. ToFree' = ToFree
    BY <1>1, <1>2, <2>2 DEF ToFree
  <2>4. PICK X : X = ToFree
    OBVIOUS
  <2>5. Only(X)'
    BY <2>1, <2>4, AsideOnly
  <2>6. Only(ToFree)'
    BY <2>3, <2>4, <2>5 DEF Only
  <2> QED
    BY <2>1, <2>6, AsideTidy
<1>4. CASE ~Inert(cmd0)
  <2>1. PICK x : x = cmd0.at
    OBVIOUS
  <2>2. Sets(cmd0, x, 0) /\ x \in Cluster /\ x \notin InUse
    BY <1>1, <1>4, <2>1 DEF Giving
  <2>3. Aside /\ ActiveFat'[x] = 0 /\ \A y \in Cluster : y # x => ActiveFat'[y] = ActiveFat[y]
    BY <1>1, <2>2, SetsStep
  <2>4. ToFree \subseteq ToFree' \cup {x}
    BY <1>1, <1>2, <2>1 DEF ToFree
  <2>5. InUse' = InUse
    BY <2>3, AsideTree
  <2>6. Only(ToFree)'
    BY <2>3, <2>4, <2>5 DEF Only
  <2> QED
    BY <2>3, <2>6, AsideTidy
<1> QED
  BY <1>3, <1>4

LEMMA TidyExtending ==
    ASSUME Types, pc # "idle", Tree, Stores, Moves, Listing, Extending, Only({op.fresh}), Full(op.last)
    PROVE  Listing' /\ Only(Within(NewChain))' /\ Reached(op.slot)'
<1>1. PICK t \in Directories : /\ HeadIn(disk, t) # 0 /\ op.last = Chains(disk)[t][Len(Chains(disk)[t])]
                               /\ Ends(disk, Chains(disk)[t]) = {}
  BY DEF Full
<1>2. PICK y, x, q, d2 : y = op.fresh /\ x = op.last /\ q = Chains(disk)[t] /\ d2 = disk'
  OBVIOUS
<1>3. /\ y \in Cluster /\ y \notin InUse /\ disk[Data(y)] = Zero /\ ActiveFat[y] = Eoc /\ op.slot = <<y, 1>>
  BY <1>2 DEF Extending, Spare
<1>4. q \in Seq(Cluster) /\ Len(q) \in Nat /\ Within(q) \subseteq Cluster
  <2>1. IsChain(FatOf(disk, 0), HeadIn(disk, t), q)
    BY <1>1, <1>2, OwnChain DEF Tree, Directories, Listed
  <2> QED
    BY <2>1, ChainBound DEF IsChain
<1>5. /\ Directories' = Directories /\ Owners(disk') = Owners(disk) /\ InUse' = InUse \cup {y}
      /\ Chains(disk')[t] = Longer(q, y)
      /\ \A s \in Owners(disk) : s # t => Chains(disk')[s] = Chains(disk)[s]
      /\ \A c \in Cluster : disk'[Data(c)] = disk[Data(c)]
      /\ \A c \in Cluster : c # x => ActiveFat'[c] = ActiveFat[c]
      /\ x \in InUse
  BY <1>1, <1>2, ExtendTree
<1>6. ASSUME NEW chain, Len(chain) \in Nat, Within(chain) \subseteq Cluster PROVE Fewer(disk, d2, chain)
  <2>1. ASSUME NEW s \in Within(chain) \X (1..Slots) PROVE SlotAt(d2, s) = SlotAt(disk, s)
    <3>1. s[1] \in Cluster
      BY <1>6
    <3> QED
      BY <1>2, <1>5, <3>1, SlotSame
  <2> QED
    BY <2>1 DEF Fewer
<1>7. Shown(d2, Longer(q, y)) /\ Reaches(d2, Longer(q, y), <<y, 1>>)
  <2>1. Ends(d2, q) = {}
    <3>1. Ends(d2, q) \subseteq Ends(disk, q)
      BY <1>4, <1>6, FewerFacts
    <3> QED
      BY <1>1, <1>2, <3>1
  <2>2. d2[Data(y)] = Zero
    BY <1>2, <1>3, <1>5
  <2> QED
    BY <1>3, <1>4, <2>1, <2>2, ShownExtend
<1>8. ASSUME NEW s \in Directories PROVE Shown(disk', Chains(disk')[s])
  <2>1. CASE s = t
    BY <1>2, <1>5, <1>7, <2>1
  <2>2. CASE s # t
    <3>1. PICK c : c = Chains(disk)[s]
      OBVIOUS
    <3>2. s \in Owners(disk) /\ Len(c) \in Nat /\ Within(c) \subseteq Cluster
      BY <3>1, DirectoryFacts
    <3>3. Shown(disk, c)
      BY <3>1 DEF Listing, AllShown, Directories
    <3>4. Shown(d2, c)
      BY <1>6, <3>2, <3>3, FewerFacts
    <3> QED
      BY <1>2, <1>5, <2>2, <3>1, <3>2, <3>4
  <2> QED
    BY <2>1, <2>2
<1>9. Listing'
  BY <1>5, <1>8 DEF Listing, AllShown, Directories
<1>10. Reached(op.slot)'
  <2>1. op'.slot = <<y, 1>>
    BY <1>3 DEF Moves
  <2>2. \E s \in Directories' : Reaches(disk', Chains(disk')[s], <<y, 1>>)
    BY <1>2, <1>5, <1>7
  <2> QED
    BY <2>1, <2>2 DEF Reached
<1>11. Only(Within(NewChain))'
  <2>1. ASSUME NEW c \in Cluster, ActiveFat'[c] # 0 PROVE c \in InUse \cup {y}
    BY <1>2, <1>5, <2>1 DEF Only
  <2> QED
    BY <1>5, <2>1 DEF Only
<1> QED
  BY <1>9, <1>10, <1>11

LEMMA TidySettled ==
    ASSUME Types, pc # "idle", Tree, Stores, Moves, Listing, Settled, Only(Within(NewChain)), Reached(op.slot)
    PROVE  Listing' /\ Only(Within(NewChain))' /\ Reached(op.slot)'
<1>1. Aside /\ ActiveFat' = ActiveFat /\ NewChain' = NewChain
  BY WriteSettled
<1>2. PICK X : X = Within(NewChain)
  OBVIOUS
<1>3. Only(X)'
  BY <1>1, <1>2, AsideOnly
<1>4. Only(Within(NewChain))'
  BY <1>1, <1>2, <1>3 DEF Only
<1> QED
  BY <1>1, <1>4, AsideKeeps DEF Moves

LEMMA TidyLinking ==
    ASSUME Types, pc # "idle", Tree, Stores, Moves, Listing, Linking, Only(Within(NewChain) \cup {op.last}),
           Reached(op.slot)
    PROVE  Listing' /\ Only(Within(NewChain))' /\ Reached(op.slot)'
<1>1. /\ Aside /\ (\A z \in Cluster \ Within(NewChain) : ActiveFat'[z] = ActiveFat[z])
      /\ Within(NewChain') = Within(NewChain) \cup {op.last}
  BY WriteLinking
<1>2. PICK X : X = Within(NewChain) \cup {op.last}
  OBVIOUS
<1>3. \A z \in Cluster \ X : ActiveFat'[z] = ActiveFat[z]
  BY <1>1, <1>2
<1>4. Only(X)'
  BY <1>1, <1>2, <1>3, AsideOnly
<1>5. Only(Within(NewChain))'
  BY <1>1, <1>2, <1>4 DEF Only
<1> QED
  BY <1>1, <1>5, AsideKeeps DEF Moves

LEMMA TidyPublishing ==
    ASSUME Types, pc # "idle", Tree, Stores, Moves, Listing, Publishing, Only(Within(NewChain)), Reached(op.slot)
    PROVE  Listing' /\ Only(Within(Chain(ActiveFat, op.old)))'
<1>1. Publishes
  BY WritePublishing
<1>2. PICK d2, O, ch, s, e, q, O2, ch2 :
         /\ d2 = disk' /\ O = Owners(disk) /\ ch = Chains(disk) /\ s = op.slot /\ e = NewEntry /\ q = NewChain
         /\ O2 = Owners(disk') /\ ch2 = Chains(disk')
  OBVIOUS
<1>3. /\ Layout(disk, O, ch) /\ Marked(disk, d2, s, e) /\ Publishable(disk, O, ch, s, e, q)
      /\ Joined(O, ch, s, q, O2, ch2) /\ (s \in O => HeadIn(disk, s) = op.old)
      /\ ActiveFat' = ActiveFat
  BY <1>1, <1>2 DEF Publishes, Tree
<1>4. AllShown(disk, O, ch) /\ \E t \in Listed(disk, O, ch) : Reaches(disk, ch[t], s)
  BY <1>2 DEF Listing, Reached, Directories
<1>5. PICK t0 \in Listed(disk, O, ch) : Reaches(disk, ch[t0], s)
  BY <1>4
<1>6. AllShown(d2, O2, ch2)
  BY <1>3, <1>4, <1>5, ShownPublish
<1>7. Listing'
  BY <1>2, <1>6 DEF Listing
<1>8. PICK X : X = Within(Chain(ActiveFat, op.old))
  OBVIOUS
<1>9. s \in O => Within(ch[s]) \subseteq X
  BY <1>3, <1>8, OwnChain DEF ActiveFat
<1>10. Used(O, ch) \cup Within(q) \subseteq Used(O2, ch2) \cup X
  BY <1>3, <1>9, UsedPublish
<1>11. InUse = Used(O, ch) /\ InUse' = Used(O2, ch2)
  BY <1>2 DEF InUse
<1>12. \A c \in Cluster : ActiveFat'[c] # 0 => c \in InUse' \cup X
  BY <1>2, <1>3, <1>10, <1>11 DEF Only
<1>13. Within(Chain(ActiveFat, op.old))' = X
  BY <1>3, <1>8 DEF Moves
<1> QED
  BY <1>7, <1>12, <1>13 DEF Only

LEMMA TidyUnlinking ==
    ASSUME Types, pc # "idle", Tree, Stores, Moves, Listing, Unlinking, Only({}), Emptied(op.slot)
    PROVE  Listing' /\ Only(Within(Chain(ActiveFat, op.old)))'
<1>1. Unlinks
  BY WriteUnlinking
<1>2. PICK d2, O, ch, s, O2, ch2, e :
         /\ d2 = disk' /\ O = Owners(disk) /\ ch = Chains(disk) /\ s = op.slot
         /\ O2 = Owners(disk') /\ ch2 = Chains(disk') /\ e = Deleted
  OBVIOUS
<1>3. /\ Layout(disk, O, ch) /\ Marked(disk, d2, s, e) /\ Parted(O, ch, s, O2, ch2)
      /\ Listed(d2, O2, ch2) = Listed(disk, O, ch) \ {s} /\ ActiveFat' = ActiveFat
  BY <1>1, <1>2 DEF Unlinks, Tree, Directories
<1>4. s \in O /\ HeadIn(disk, s) = op.old
  BY <1>2, HoldsPlaced DEF Unlinking
<1>5. AllShown(disk, O, ch) /\ e.kind \notin Entry /\ e.kind # "end"
  BY <1>2 DEF Listing, Deleted, Entry
<1>6. \A t \in Listed(d2, O2, ch2) : ch2[t] = ch[t]
  BY <1>3 DEF Parted, Listed
<1>7. AllShown(d2, O2, ch2)
  <2>1. Listed(d2, O2, ch2) \subseteq Listed(disk, O, ch)
    BY <1>3
  <2> QED
    BY <1>3, <1>5, <1>6, <2>1, ShownMarked
<1>8. Listing'
  BY <1>2, <1>7 DEF Listing
<1>9. ch[s] = Chain(ActiveFat, op.old)
  BY <1>3, <1>4, OwnChain DEF ActiveFat
<1>10. Used(O, ch) \subseteq Used(O2, ch2) \cup Within(ch[s])
  <2>1. \A r \in O : r[1] \notin Within(ch[s])
    BY <1>2 DEF Emptied
  <2> QED
    BY <1>3, <2>1, UsedRemove
<1>11. InUse = Used(O, ch) /\ InUse' = Used(O2, ch2)
  BY <1>2 DEF InUse
<1>12. \A c \in Cluster : ActiveFat'[c] # 0 => c \in InUse' \cup Within(ch[s])
  BY <1>3, <1>10, <1>11 DEF Only
<1>13. Within(Chain(ActiveFat, op.old))' = Within(ch[s])
  BY <1>3, <1>9 DEF Moves
<1> QED
  BY <1>8, <1>12, <1>13 DEF Only

LEMMA TidyClearing ==
    ASSUME Types, pc # "idle", Tree, Stores, Moves, Listing, Clearing, Only(Within(Chain(ActiveFat, op.old)))
    PROVE  Listing' /\ Only(Within(Chain(ActiveFat, op.old)))'
<1>1. (Aside \/ Erases) /\ ActiveFat' = ActiveFat /\ InUse' = InUse
  BY WriteClearing
<1>2. Only(Within(Chain(ActiveFat, op.old)))'
  BY <1>1 DEF Only, Moves
<1>3. CASE Aside
  BY <1>2, <1>3, AsideTidy
<1>4. CASE Erases
  <2>1. PICK s : Marked(disk, disk', s, Deleted)
    BY <1>4 DEF Erases
  <2>2. PICK d2, O, ch, e : d2 = disk' /\ O = Owners(disk) /\ ch = Chains(disk) /\ e = Deleted
    OBVIOUS
  <2>3. Layout(disk, O, ch) /\ Marked(disk, d2, s, e) /\ AllShown(disk, O, ch) /\ e.kind \notin Entry /\ e.kind # "end"
    BY <2>1, <2>2 DEF Tree, Listing, Deleted, Entry
  <2>4. Listed(d2, O, ch) = Listed(disk, O, ch) /\ Owners(disk') = O /\ Chains(disk') = ch
    BY <1>4, <2>2 DEF Erases, Directories
  <2>5. AllShown(d2, O, ch)
    <3>1. Listed(d2, O, ch) \subseteq Listed(disk, O, ch) /\ \A t \in Listed(d2, O, ch) : ch[t] = ch[t]
      BY <2>4
    <3> QED
      BY <2>3, <3>1, ShownMarked
  <2> QED
    BY <1>2, <2>2, <2>4, <2>5 DEF Listing
<1> QED
  BY <1>1, <1>3, <1>4

\* Every write of every phase.
LEMMA TidyWrites ==
    ASSUME VolumeInductive, Tidy, Stores, Moves, pc' = pc
    PROVE  Tidy'
<1>1. Types /\ Tree /\ Phase /\ pc \in Phases /\ pc # "idle" /\ Listing /\ Account
  BY DEF VolumeInductive, Phase, Stores, Types, Tidy
<1>2. op'.do = "mkdir" => op'.old = 0
  BY <1>1 DEF Account, Moves
<1>3. CASE pc = "slot"
  <2>1. Searching /\ Only({})
    BY <1>1, <1>3 DEF Phase, Account
  <2>2. Listing' /\ Only({})'
    BY <1>1, <2>1, TidySlot
  <2> QED
    BY <1>2, <1>3, <2>2 DEF Tidy, Account
<1>4. CASE pc = "extend"
  <2>1. Growing /\ Only({op.fresh}) /\ Full(op.last)
    BY <1>1, <1>4 DEF Phase, Account
  <2>2. Listing' /\ Only({op.fresh})' /\ Full(op.last)'
    BY <1>1, <2>1, TidyExtend
  <2> QED
    BY <1>2, <1>4, <2>2 DEF Tidy, Account
<1>5. CASE pc = "fill"
  <2>1. Listing' /\ Settled' /\ Only(Within(NewChain))' /\ Reached(op.slot)'
    <3>1. CASE Extending /\ Only({op.fresh}) /\ Full(op.last)
      BY <1>1, <3>1, WriteExtending, TidyExtending
    <3>2. CASE Settled /\ Only(Within(NewChain)) /\ Reached(op.slot)
      BY <1>1, <3>2, WriteSettled, TidySettled
    <3>3. CASE Linking /\ Only(Within(NewChain) \cup {op.last}) /\ Reached(op.slot)
      BY <1>1, <3>3, WriteLinking, TidyLinking
    <3> QED
      BY <1>1, <1>5, <3>1, <3>2, <3>3 DEF Account
  <2> QED
    BY <1>2, <1>5, <2>1 DEF Tidy, Account
<1>6. CASE pc = "link"
  <2>1. Joining /\ Only(Within(NewChain) \cup {op.fresh}) /\ Reached(op.slot)
    BY <1>1, <1>6 DEF Phase, Account
  <2>2. Listing' /\ Only(Within(NewChain) \cup {op.fresh})' /\ Reached(op.slot)'
    BY <1>1, <2>1, TidyLink
  <2> QED
    BY <1>2, <1>6, <2>2 DEF Tidy, Account
<1>7. CASE pc = "publish"
  <2>1. Ready /\ Only(Within(NewChain)) /\ Reached(op.slot)
    BY <1>1, <1>7 DEF Phase, Account
  <2>2. Listing' /\ Only(Within(NewChain))' /\ Reached(op.slot)'
    BY <1>1, <2>1, TidyPublish
  <2> QED
    BY <1>2, <1>7, <2>2 DEF Tidy, Account
<1>8. CASE pc = "unlink"
  <2>1. Doomed /\ Only({}) /\ Emptied(op.slot)
    BY <1>1, <1>8 DEF Phase, Account
  <2>2. Listing' /\ Only({})' /\ Emptied(op.slot)'
    BY <1>1, <2>1, TidyUnlink
  <2> QED
    BY <1>2, <1>8, <2>2 DEF Tidy, Account
<1>9. CASE pc = "free"
  <2>1. Listing' /\ Clearing' /\ Only(Within(Chain(ActiveFat, op.old)))'
    <3>1. CASE Publishing /\ Only(Within(NewChain)) /\ Reached(op.slot)
      BY <1>1, <3>1, WritePublishing, TidyPublishing
    <3>2. CASE Unlinking /\ Only({}) /\ Emptied(op.slot)
      BY <1>1, <3>2, WriteUnlinking, TidyUnlinking
    <3>3. CASE Clearing /\ Only(Within(Chain(ActiveFat, op.old)))
      BY <1>1, <3>3, WriteClearing, TidyClearing
    <3> QED
      BY <1>1, <1>9, <3>1, <3>2, <3>3 DEF Account
  <2> QED
    BY <1>2, <1>9, <2>1 DEF Tidy, Account
<1>10. CASE pc \in {"return", "abort"}
  <2>1. Giving /\ Only(ToFree)
    BY <1>1, <1>10 DEF Phase, Account
  <2>2. Listing' /\ Only(ToFree)'
    BY <1>1, <2>1, TidyReturn
  <2> QED
    BY <1>2, <1>10, <2>2 DEF Tidy, Account
<1> QED
  BY <1>1, <1>3, <1>4, <1>5, <1>6, <1>7, <1>8, <1>9, <1>10 DEF Phases

-----------------------------------------------------------------------------
(* The other steps keep the accounts.                                      *)

\* Every entry of a directory is found by reading it.
LEMMA EntriesAll ==
    ASSUME NEW d, NEW O, NEW ch, Layout(d, O, ch), NEW t \in O, Shown(d, ch[t])
    PROVE  Named(d, ch[t]) \subseteq EntriesOf(d, FatOf(d, 0), HeadIn(d, t))
<1>1. PICK c : c = ch[t]
  OBVIOUS
<1>2. c = Chain(FatOf(d, 0), HeadIn(d, t)) /\ Len(c) \in Nat
  BY <1>1, OwnChain
<1>3. ASSUME NEW s \in Named(d, c) PROVE s \in EntriesOf(d, FatOf(d, 0), HeadIn(d, t))
  <2>1. s \in Within(c) \X (1..Slots) /\ SlotAt(d, s).kind \in Entry
    BY DEF Named
  <2>2. PICK p \in Places(c) : SlotOf(c, p) = s
    BY <1>2, <2>1, PlaceOf
  <2>3. p \in ReadDirectory(d, c)
    BY <1>1, <2>1, <2>2 DEF Shown, ReadDirectory
  <2> QED
    BY <1>2, <2>1, <2>2, <2>3 DEF EntriesOf, Entry
<1> QED
  BY <1>1, <1>3

LEMMA ListedReached ==
    ASSUME Tree, Listing, NEW s \in Owners(disk), s # NoSlot
    PROVE  Reached(s)
<1>1. PICK t \in Directories : s \in Within(Chains(disk)[t]) \X (1..Slots)
  BY DEF Tree, Layout, Anchored, Directories
<1>2. PICK c : c = Chains(disk)[t]
  OBVIOUS
<1>3. Len(c) \in Nat /\ Shown(disk, c) /\ SlotAt(disk, s).kind \in Entry
  BY <1>2, DirectoryFacts DEF Listing, AllShown, Directories, Tree, Layout, Sized
<1>4. PICK p \in Places(c) : SlotOf(c, p) = s
  BY <1>1, <1>2, <1>3, PlaceOf
<1>5. ASSUME NEW q \in Ends(disk, c) PROVE ~Earlier(q, p)
  <2>1. q \in Places(c) /\ Earlier(p, q)
    BY <1>3, <1>4 DEF Shown, Ends
  <2> QED
    BY <1>3, <2>1, PlaceOrder
<1>6. Reaches(disk, c, s)
  BY <1>4, <1>5 DEF Reaches
<1> QED
  BY <1>2, <1>6 DEF Reached

\* What Remove has looked at: a file, or a directory without entries.
LEMMA EmptiedBy ==
    ASSUME Tree, Listing, NEW s \in Owners(disk), s # NoSlot,
           SlotAt(disk, s).kind = "dir" => EntriesOf(disk, ActiveFat, SlotAt(disk, s).cluster) = {}
    PROVE  Emptied(s)
<1>1. PICK O, ch : O = Owners(disk) /\ ch = Chains(disk)
  OBVIOUS
<1>2. Layout(disk, O, ch) /\ Directories = Listed(disk, O, ch)
  BY <1>1 DEF Tree, Directories
<1>3. ASSUME NEW r \in O, r[1] \in Within(ch[s]) PROVE FALSE
  <2>1. r # NoSlot
    <3>1. Within(ch[s]) \subseteq Cluster /\ 0 \notin Cluster
      BY <1>1, <1>2, OwnChain, ClusterFacts
    <3>2. NoSlot[1] = 0
      BY DEF NoSlot
    <3> QED
      BY <1>3, <3>1, <3>2
  <2>2. PICK t \in Listed(disk, O, ch) : r \in Within(ch[t]) \X (1..Slots)
    BY <1>2, <2>1 DEF Layout, Anchored
  <2>3. t \in O /\ r[1] \in Within(ch[t])
    BY <2>2 DEF Listed
  <2>4. t = s
    BY <1>1, <1>2, <1>3, <2>3 DEF Layout, Apart
  <2>5. SlotAt(disk, s).kind = "dir" /\ HeadIn(disk, s) = SlotAt(disk, s).cluster
    BY <2>2, <2>4 DEF Listed, HeadIn
  <2>6. Shown(disk, ch[t])
    BY <1>1, <2>2 DEF Listing, AllShown
  <2>7. r \in Named(disk, ch[t])
    BY <1>2, <2>1, <2>2 DEF Named, Layout, Sized
  <2>8. r \in EntriesOf(disk, FatOf(disk, 0), HeadIn(disk, t))
    BY <1>2, <2>3, <2>6, <2>7, EntriesAll
  <2> QED
    BY <2>4, <2>5, <2>8 DEF ActiveFat
<1> QED
  BY <1>1, <1>3 DEF Emptied

LEMMA TidyDone ==
    ASSUME Tidy, Only({}), disk' = disk, NEW outcome, Done(outcome)
    PROVE  Tidy'
<1>1. pc' = "idle" /\ Listing' /\ Only({})'
  BY SameTidy DEF Tidy, Done
<1> QED
  BY <1>1 DEF Tidy, Account

LEMMA TidyBegin ==
    ASSUME VolumeInductive, Tidy, pc = "idle", NEW p, NEW rec, Begin(p, rec), rec.do # "remove",
           rec.do = "mkdir" => rec.old = 0
    PROVE  Tidy'
<1>1. disk' = disk /\ op' = rec /\ pc' = "slot"
  BY BeginStep
<1>2. Listing' /\ Only({})'
  BY <1>1, SameTidy DEF Tidy, Account
<1> QED
  BY <1>1, <1>2 DEF Tidy, Account

LEMMA TidyWriteFile ==
    ASSUME VolumeInductive, Tidy, WriteFile
    PROVE  Tidy'
<1>1. PICK p, s, old, size, new : Begin(p, Request("write", p, s, old, size, new))
  BY DEF WriteFile
<1>2. PICK rec : rec = Request("write", p, s, old, size, new)
  OBVIOUS
<1>3. rec.do = "write" /\ pc = "idle"
  BY <1>2, RequestShape DEF WriteFile, CanBegin, Idle
<1> QED
  BY <1>1, <1>2, <1>3, TidyBegin

LEMMA TidyMkdir ==
    ASSUME VolumeInductive, Tidy, Mkdir
    PROVE  Tidy'
<1>1. PICK p : Begin(p, Request("mkdir", p, NoSlot, 0, 1, [kind |-> "dir"]))
  BY DEF Mkdir
<1>2. PICK rec, new : new = [kind |-> "dir"] /\ rec = Request("mkdir", p, NoSlot, 0, 1, new)
  OBVIOUS
<1>3. rec.do = "mkdir" /\ rec.old = 0 /\ pc = "idle"
  BY <1>2, RequestShape DEF Mkdir, CanBegin, Idle
<1> QED
  BY <1>1, <1>2, <1>3, TidyBegin

LEMMA TidyRemove ==
    ASSUME VolumeInductive, Tidy, Remove
    PROVE  Tidy'
<1>1. FatSeen = ActiveFat /\ DirSeen = disk /\ Tree /\ Listing /\ pc = "idle"
  BY SeenDisk DEF VolumeInductive, Tidy, Remove, CanBegin, Idle
<1>2. PICK p \in Paths :
         LET s == Stat(DirSeen, FatSeen, p)
             e == SlotAt(DirSeen, s)
         IN  /\ s # NoSlot
             /\ e.kind = "dir" => EntriesOf(DirSeen, FatSeen, e.cluster) = {}
             /\ Begin(p, Request("remove", p, s, e.cluster, 0, [kind |-> "none"]))
  BY DEF Remove
<1>3. PICK s, e, new : s = Stat(disk, ActiveFat, p) /\ e = SlotAt(disk, s) /\ new = [kind |-> "none"]
  OBVIOUS
<1>4. PICK rec : rec = Request("remove", p, s, e.cluster, 0, new)
  OBVIOUS
<1>5. s # NoSlot /\ (e.kind = "dir" => EntriesOf(disk, ActiveFat, e.cluster) = {}) /\ Begin(p, rec)
  BY <1>1, <1>2, <1>3, <1>4
<1>6. rec.do = "remove" /\ rec.slot = s
  BY <1>4, RequestShape
<1>7. disk' = disk /\ op' = rec /\ pc' = "unlink" /\ ParentOf(disk, ActiveFat, p) # 0
  BY <1>5, <1>6, BeginStep
<1>8. s \in Owners(disk)
  BY <1>1, <1>3, <1>5, <1>7, StatFacts
<1>9. Emptied(s)
  BY <1>1, <1>3, <1>5, <1>8, EmptiedBy
<1>10. Emptied(op.slot)'
  <2>1. op'.slot = s
    BY <1>6, <1>7
  <2> QED
    BY <1>7, <1>9, <2>1 DEF Emptied
<1>11. Listing' /\ Only({})'
  BY <1>1, <1>7, SameTidy DEF Tidy, Account
<1> QED
  BY <1>6, <1>7, <1>10, <1>11 DEF Tidy, Account

\* A step that leaves the disk alone and goes on with the same slot.
LEMMA TidySame ==
    ASSUME disk' = disk
    PROVE  /\ Listing' = Listing /\ InUse' = InUse /\ ActiveFat' = ActiveFat
           /\ op'.slot = op.slot => Reached(op.slot)' = Reached(op.slot) /\ Emptied(op.slot)' = Emptied(op.slot)
           /\ op'.last = op.last => Full(op.last)' = Full(op.last)
  BY SameTidy, SameDisk DEF Reached, Emptied, Full

LEMMA TidyEmptySlot ==
    ASSUME VolumeInductive, Tidy, EmptySlot
    PROVE  Tidy'
<1>1. /\ pc = "slot" /\ pc # "idle" /\ disk' = disk /\ Searching /\ Listing /\ Only({})
      /\ op.do = "mkdir" => op.old = 0
  BY QuietDisk DEF EmptySlot, At, VolumeInductive, Phase, Tidy, Account
<1>2. Types /\ Tree /\ FatSeen = ActiveFat /\ DirSeen = disk /\ Shape(op)
  BY <1>1, Inductive
<1>3. Listing' /\ Only({})' /\ ActiveFat' = ActiveFat /\ InUse' = InUse
  BY <1>1, SameTidy, SameDisk
<1>4. PICK t \in Directories : HeadIn(disk, t) = op.dir /\ op.dir # 0
  BY <1>1 DEF Searching
<1>5. PICK chain, unused, slot, tail :
         /\ chain = Chains(disk)[t] /\ unused = Unused(disk, chain) /\ slot = SlotOf(chain, First(unused))
         /\ tail = chain[Len(chain)]
  OBVIOUS
<1>6. chain = Chain(FatSeen, op.dir) /\ unused = Unused(DirSeen, chain) /\ Len(chain) \in Nat
  BY <1>2, <1>4, <1>5, OwnChain DEF Tree, Directories, Listed, ActiveFat
<1>7. Ends(disk, chain) \subseteq unused /\ unused \subseteq Places(chain)
  BY <1>5 DEF Ends, Unused
<1>8. CASE op.slot # NoSlot /\ Goto("fill", <<>>) /\ op' = op
  <2>1. pc' = "fill" /\ op' = op
    BY <1>8 DEF Goto
  <2>2. Settled'
    BY <2>1, EmptySlotStep
  <2>3. Reached(op.slot)
    <3>1. op.slot \in Owners(disk)
      BY <1>1, <1>8 DEF Searching, Overwrites, Holds
    <3> QED
      BY <1>1, <1>2, <1>8, <3>1, ListedReached
  <2>4. Reached(op.slot)'
    BY <1>1, <2>1, <2>3, TidySame
  <2>5. Only(Within(NewChain))'
    BY <1>3 DEF Only
  <2> QED
    BY <1>1, <1>3, <2>1, <2>2, <2>4, <2>5 DEF Tidy, Account
<1>9. CASE unused # {} /\ op' = [op EXCEPT !.slot = slot] /\ Goto("fill", <<>>)
  <2>1. pc' = "fill"
    BY <1>9 DEF Goto
  <2>2. Settled'
    BY <2>1, EmptySlotStep
  <2>3. op'.slot = slot /\ op'.do = op.do /\ op'.old = op.old
    <3>1. PICK o, r : o = op /\ r = op'
      OBVIOUS
    <3>2. Shape(o) /\ r = [o EXCEPT !.slot = slot]
      BY <1>2, <1>9, <3>1
    <3> QED
      BY <3>1, <3>2, ShapeSlot
  <2>4. PICK p : p = First(unused)
    OBVIOUS
  <2>5. p \in unused /\ \A q \in unused : q = p \/ Earlier(p, q)
    BY <1>6, <1>7, <1>9, <2>4, FirstFacts
  <2>6. ASSUME NEW q \in Ends(disk, chain) PROVE ~Earlier(q, p)
    <3>1. p \in Places(chain) /\ q \in Places(chain) /\ (q = p \/ Earlier(p, q))
      BY <1>7, <2>5
    <3> QED
      BY <1>6, <3>1, PlaceOrder
  <2>7. Reaches(disk, chain, slot)
    BY <1>5, <1>7, <2>4, <2>5, <2>6 DEF Reaches
  <2>8. Reached(slot)
    BY <1>5, <2>7 DEF Reached
  <2>9. Reached(op.slot)'
    BY <1>1, <2>3, <2>8 DEF Reached, Directories
  <2>10. Only(Within(NewChain))'
    BY <1>3 DEF Only
  <2> QED
    BY <1>1, <1>3, <2>1, <2>2, <2>3, <2>9, <2>10 DEF Tidy, Account
<1>10. CASE unused = {} /\ op' = [op EXCEPT !.fresh = FirstFree, !.last = tail] /\ Goto("extend", Claim(FirstFree))
  <2>1. pc' = "extend" /\ Ends(disk, chain) = {}
    BY <1>7, <1>10 DEF Goto
  <2>2. op'.last = tail /\ op'.do = op.do /\ op'.old = op.old
    <3>1. PICK o, r, x : o = op /\ r = op' /\ x = FirstFree
      OBVIOUS
    <3>2. Shape(o) /\ Grows(o, r, x, tail)
      BY <1>2, <1>10, <3>1 DEF Grows
    <3> QED
      BY <3>1, <3>2, ShapeGrow
  <2>3. Full(tail)
    BY <1>4, <1>5, <2>1 DEF Full
  <2>4. Full(op.last)'
    BY <1>1, <2>2, <2>3 DEF Full, Directories
  <2>5. Only({op.fresh})'
    BY <1>3 DEF Only
  <2> QED
    BY <1>1, <1>3, <2>1, <2>2, <2>4, <2>5 DEF Tidy, Account
<1>11. CASE Done("error")
  BY <1>1, <1>11, TidyDone
<1> QED
  BY <1>5, <1>6, <1>8, <1>9, <1>10, <1>11 DEF EmptySlot

LEMMA TidyGrown ==
    ASSUME VolumeInductive, Tidy, Extend
    PROVE  Tidy'
<1>1. pc = "extend" /\ pc # "idle" /\ disk' = disk /\ Listing /\ Only({op.fresh}) /\ Full(op.last) /\ Growing
  BY QuietDisk DEF Extend, At, VolumeInductive, Phase, Tidy, Account
<1>2. Extending' /\ Shape(op)
  BY <1>1, ExtendStep, Inductive
<1>3. PICK y : y = op.fresh
  OBVIOUS
<1>4. /\ op'.fresh = y /\ op'.last = op.last /\ op'.old = op.old /\ pc' = "fill"
  BY <1>2, <1>3, ShapeSlot DEF Extend, Goto
<1>5. op.old = 0
  BY <1>1 DEF Growing
<1>6. Listing' /\ Full(op.last)' /\ InUse' = InUse /\ ActiveFat' = ActiveFat
  BY <1>1, <1>4, TidySame
<1>7. Only({op.fresh})'
  BY <1>1, <1>3, <1>4, <1>6 DEF Only
<1> QED
  BY <1>2, <1>4, <1>5, <1>6, <1>7 DEF Tidy, Account

\* release queues every entry of the chain.
LEMMA TidyFree ==
    ASSUME VolumeInductive, disk' = disk, NEW x, NEW q, q = Chain(ActiveFat, x),
           q = <<>> \/ IsChain(ActiveFat, x, q), Within(Free(x)) \subseteq Within(todo'), Only(Within(q))
    PROVE  Only(ToFree)'
<1>1. \A y \in Within(q) : \E c \in Within(Free(x)) : Sets(c, c.at, 0) /\ c.at = y
  BY Inductive, FreeList
<1>2. Within(q) \subseteq ToFree'
  BY <1>1 DEF ToFree
<1>3. InUse' = InUse /\ ActiveFat' = ActiveFat
  BY SameDisk
<1> QED
  BY <1>2, <1>3 DEF Only

LEMMA TidyFill ==
    ASSUME VolumeInductive, Tidy, Fill
    PROVE  Tidy'
<1>1. /\ pc = "fill" /\ pc # "idle" /\ disk' = disk /\ Listing /\ Settled /\ Only(Within(NewChain)) /\ Reached(op.slot)
      /\ op.do = "mkdir" => op.old = 0
  BY QuietDisk DEF Fill, At, Tidy, Account, Extending, Linking
<1>2. Shape(op) /\ Whole
  BY <1>1, Inductive DEF Settled, Built
<1>3. CASE op' = [op EXCEPT !.fresh = FirstFree] /\ Goto("link", Claim(FirstFree))
  <2>1. op'.slot = op.slot /\ op'.first = op.first /\ op'.do = op.do /\ op'.old = op.old /\ pc' = "link"
    BY <1>2, <1>3, ShapeFresh DEF Goto
  <2>2. Listing' /\ Reached(op.slot)' /\ InUse' = InUse /\ ActiveFat' = ActiveFat /\ NewChain' = NewChain
    BY <1>1, <2>1, TidySame, SameChain
  <2>3. Only(Within(NewChain) \cup {op.fresh})'
    BY <1>1, <2>2 DEF Only
  <2> QED
    BY <1>1, <2>1, <2>2, <2>3 DEF Tidy, Account
<1>4. CASE Abort
  <2>1. pc' = "abort" /\ todo' = Free(op.first) /\ op' = op
    BY <1>4 DEF Abort, Goto
  <2>2. PICK x, q : x = op.first /\ q = Chain(ActiveFat, op.first)
    OBVIOUS
  <2>3. (q = <<>> \/ IsChain(ActiveFat, x, q)) /\ Only(Within(q))
    <3>1. CASE op.first = 0
      <4>1. q = <<>> /\ NewChain = <<>>
        BY <2>2, <3>1, ChainNone, ClusterFacts DEF NewChain
      <4> QED
        BY <1>1, <4>1
    <3>2. CASE op.first # 0
      BY <1>1, <1>2, <2>2, <3>2 DEF NewChain, Whole
    <3> QED
      BY <3>1, <3>2
  <2>4. Within(Free(x)) \subseteq Within(todo')
    BY <2>1, <2>2
  <2>5. Only(ToFree)'
    BY <1>1, <2>2, <2>3, <2>4, TidyFree
  <2>6. Listing'
    BY <1>1, SameTidy
  <2> QED
    BY <1>1, <2>1, <2>5, <2>6 DEF Tidy, Account
<1>5. CASE Goto("publish", SyncData) /\ op' = op
  <2>1. pc' = "publish" /\ op' = op
    BY <1>5 DEF Goto
  <2>2. Listing' /\ Reached(op.slot)' /\ InUse' = InUse /\ ActiveFat' = ActiveFat /\ NewChain' = NewChain
    BY <1>1, <2>1, TidySame, SameChain
  <2>3. Only(Within(NewChain))'
    BY <1>1, <2>2 DEF Only
  <2> QED
    BY <1>1, <2>1, <2>2, <2>3 DEF Tidy, Account
<1> QED
  BY <1>3, <1>4, <1>5 DEF Fill

LEMMA TidyLinked ==
    ASSUME VolumeInductive, Tidy, Link
    PROVE  Tidy'
<1>1. /\ pc = "link" /\ pc # "idle" /\ disk' = disk /\ Listing /\ Only(Within(NewChain) \cup {op.fresh})
      /\ Reached(op.slot) /\ (op.do = "mkdir" => op.old = 0)
  BY QuietDisk DEF Link, At, Tidy, Account
<1>2. Shape(op) /\ (op.first = 0 => Settled') /\ (op.first # 0 => Linking')
  BY <1>1, Inductive, LinkStep
<1>3. PICK x, y, first : x = op.last /\ y = op.fresh /\ first = (IF op.first = 0 THEN op.fresh ELSE op.first)
  OBVIOUS
<1>4. /\ op'.first = first /\ op'.last = y /\ op'.slot = op.slot /\ op'.do = op.do /\ op'.old = op.old
      /\ pc' = "fill"
  <2>1. PICK o, r, left : o = op /\ r = op' /\ left = op.left - 1
    OBVIOUS
  <2>2. Shape(o) /\ Takes(o, r, first, y, left) /\ pc' = "fill"
    BY <1>2, <1>3, <2>1 DEF Link, Takes, Goto
  <2> QED
    BY <2>1, <2>2, ShapeLink
<1>5. Listing' /\ Reached(op.slot)' /\ InUse' = InUse /\ ActiveFat' = ActiveFat
  BY <1>1, <1>4, TidySame
<1>6. CASE op.first = 0
  <2>1. NewChain = <<>> /\ Within(NewChain) = {}
    BY <1>6, EmptyList DEF NewChain
  <2>2. y \in Cluster /\ y # 0 /\ op'.first # 0
    <3>1. y \in Cluster
      BY <1>1, <1>3 DEF VolumeInductive, Phase, Joining, Spare
    <3> QED
      BY <1>3, <1>4, <1>6, <3>1, ClusterFacts
  <2>3. y \in Within(NewChain')
    <3>1. IsChain(ActiveFat', op'.first, NewChain') /\ NewChain'[Len(NewChain')] = op'.last
      BY <1>2, <1>6, <2>2 DEF Settled, Built, Whole
    <3> QED
      BY <1>4, <3>1 DEF IsChain, Within
  <2>4. Only(Within(NewChain))'
    BY <1>1, <1>3, <1>5, <2>1, <2>3 DEF Only
  <2> QED
    BY <1>1, <1>2, <1>4, <1>5, <1>6, <2>4 DEF Tidy, Account
<1>7. CASE op.first # 0
  <2>1. NewChain' = NewChain
    BY <1>1, <1>3, <1>4, <1>7, SameChain
  <2>2. Only(Within(NewChain) \cup {op.last})'
    BY <1>1, <1>3, <1>4, <1>5, <2>1 DEF Only
  <2> QED
    BY <1>1, <1>2, <1>4, <1>5, <1>7, <2>2 DEF Tidy, Account
<1> QED
  BY <1>6, <1>7

LEMMA TidyPublished ==
    ASSUME VolumeInductive, Tidy, Publish
    PROVE  Tidy'
<1>1. /\ disk' = disk /\ op' = op /\ pc' = "free" /\ pc = "publish" /\ Listing /\ Only(Within(NewChain))
      /\ Reached(op.slot) /\ (op.do = "mkdir" => op.old = 0)
  BY QuietDisk DEF Publish, At, Goto, Tidy, Account
<1>2. Publishing'
  BY PublishStep
<1>3. Listing' /\ Reached(op.slot)' /\ InUse' = InUse /\ ActiveFat' = ActiveFat /\ NewChain' = NewChain
  BY <1>1, TidySame, SameChain
<1>4. Only(Within(NewChain))'
  BY <1>1, <1>3 DEF Only
<1> QED
  BY <1>1, <1>2, <1>3, <1>4 DEF Tidy, Account

LEMMA TidyUnlinked ==
    ASSUME VolumeInductive, Tidy, Unlink
    PROVE  Tidy'
<1>1. /\ disk' = disk /\ op' = op /\ pc' = "free" /\ pc = "unlink" /\ Listing /\ Only({}) /\ Emptied(op.slot)
      /\ (op.do = "mkdir" => op.old = 0)
  BY QuietDisk DEF Unlink, At, Goto, Tidy, Account
<1>2. Unlinking'
  BY UnlinkStep
<1>3. Listing' /\ Emptied(op.slot)' /\ Only({})'
  BY <1>1, TidySame, SameTidy
<1> QED
  BY <1>1, <1>2, <1>3 DEF Tidy, Account

LEMMA TidyRelease ==
    ASSUME VolumeInductive, Tidy, Release
    PROVE  Tidy'
<1>1. /\ pc = "free" /\ pc # "idle" /\ disk' = disk /\ Listing /\ Freed /\ Only(Within(Chain(ActiveFat, op.old)))
      /\ op.do = "mkdir" => op.old = 0
  BY QuietDisk DEF Release, At, Tidy, Account, Publishing, Unlinking, Clearing
<1>2. PICK x, q : x = op.old /\ q = Chain(ActiveFat, op.old)
  OBVIOUS
<1>3. (q = <<>> \/ IsChain(ActiveFat, x, q)) /\ (x = 0 => q = <<>>) /\ FatSeen = ActiveFat
  BY <1>1, <1>2, ChainNone, ClusterFacts, Inductive DEF Freed
<1>4. CASE op.do = "mkdir" /\ Done("ok")
  <2>1. Only({})
    BY <1>1, <1>2, <1>3, <1>4, EmptyList
  <2> QED
    BY <1>1, <1>4, <2>1, TidyDone
<1>5. CASE op.old # 0 /\ ~Sound(FatSeen, op.old)
  <2>1. IsChain(ActiveFat, op.old, Chain(ActiveFat, op.old))
    BY <1>1, <1>5 DEF Freed
  <2> QED
    BY <1>3, <1>5, <2>1, ChainIs
<1>6. CASE Goto("return", Free(op.old) \o SyncDevice) /\ op' = op
  <2>1. pc' = "return" /\ todo' = Free(x) \o SyncDevice /\ op' = op
    BY <1>2, <1>6 DEF Goto
  <2>2. IsList(Free(x))
    BY <1>2, <1>3, FreeList
  <2>3. Within(Free(x)) \subseteq Within(todo')
    BY <2>1, <2>2, SyncList, JoinList
  <2>4. Only(ToFree)'
    BY <1>1, <1>2, <1>3, <2>3, TidyFree
  <2>5. Listing'
    BY <1>1, SameTidy
  <2> QED
    BY <1>1, <2>1, <2>4, <2>5 DEF Tidy, Account
<1> QED
  BY <1>4, <1>5, <1>6 DEF Release

LEMMA TidyReturned ==
    ASSUME VolumeInductive, Tidy, Return
    PROVE  Tidy'
<1>1. disk' = disk /\ todo = <<>> /\ pc \in {"return", "abort"} /\ Only(ToFree)
  BY QuietDisk DEF Return, At, Tidy, Account
<1>2. ToFree = {}
  BY <1>1, EmptyList DEF ToFree
<1>3. PICK outcome : Done(outcome)
  <2>1. PICK v : v = Outcome
    OBVIOUS
  <2>2. Done(v)
    BY <2>1 DEF Return, Done
  <2> QED
    BY <2>2
<1> QED
  BY <1>1, <1>2, <1>3, TidyDone

-----------------------------------------------------------------------------
(* No transfer fails, and power does not: nothing leaks.                   *)

Accounted == faults \in Nat /\ VolumeKept /\ (faults = 0 /\ crashes = 0 => Tidy)

LEMMA KeepsFaults ==
    ASSUME faults \in Nat, Next
    PROVE  /\ faults' = faults \/ faults' = faults + 1
           /\ WriteError \/ SyncError \/ ReadError => faults' # 0
<1> USE DEF counts, Quiet
<1>1. WriteFile \/ Mkdir \/ Remove => faults' = faults
  BY DEF WriteFile, Mkdir, Remove, Begin
<1>2. EmptySlot \/ Extend \/ Fill \/ Link \/ Publish \/ Unlink \/ Release \/ Return => faults' = faults
  BY DEF EmptySlot, Extend, Fill, Link, Publish, Unlink, Release, Return
<1>3. Write \/ Sync \/ Mount => faults' = faults
  BY DEF Write, Sync, Mount
<1>4. WriteError \/ SyncError \/ ReadError => faults' = faults + 1
  BY DEF WriteError, SyncError, ReadError, Fault
<1> QED
  BY <1>1, <1>2, <1>3, <1>4 DEF Next

LEMMA TidyStep ==
    ASSUME VolumeInductive, Tidy, Next, ~WriteError, ~SyncError, ~ReadError, ~Mount
    PROVE  Tidy'
<1>1. CASE Write
  BY <1>1, TidyWrites DEF Write, Store, Stores, Moves
<1>2. CASE Sync
  <2>1. Stores /\ Moves /\ pc' = pc
    BY <1>2 DEF Sync, Stores, Moves, volume
  <2> QED
    BY <2>1, TidyWrites
<1>3. CASE WriteFile \/ Mkdir \/ Remove
  BY <1>3, TidyWriteFile, TidyMkdir, TidyRemove
<1>4. CASE EmptySlot \/ Extend \/ Fill \/ Link
  BY <1>4, TidyEmptySlot, TidyGrown, TidyFill, TidyLinked
<1>5. CASE Publish \/ Unlink \/ Release \/ Return
  BY <1>5, TidyPublished, TidyUnlinked, TidyRelease, TidyReturned
<1> QED
  BY <1>1, <1>2, <1>3, <1>4, <1>5 DEF Next

LEMMA AccountedStep == Accounted /\ [Next]_vars => Accounted'
<1> SUFFICES ASSUME Accounted, [Next]_vars PROVE Accounted'
  OBVIOUS
<1>1. VolumeKept' /\ faults \in Nat /\ crashes \in Nat
  BY VolumeStep DEF Accounted, VolumeKept
<1>2. CASE UNCHANGED vars
  <2>1. disk' = disk /\ todo' = todo /\ pc' = pc /\ op' = op /\ faults' = faults /\ crashes' = crashes
    BY <1>2 DEF vars
  <2>2. Listing' = Listing
    BY <2>1, SameTidy
  <2>3. Account' = Account
    BY <2>1 DEF Account, Only, Full, Reached, Emptied, ToFree, Extending, Settled, Linking, Publishing, Unlinking,
       Clearing, Freed, Mild, NewEntry, Built, Whole, NewChain, Target, Overwrites, Dotted, Spare, Ending, Holds,
       Vacant, Placed, Directories, InUse, ActiveFat
  <2> QED
    BY <1>1, <2>1, <2>2, <2>3 DEF Accounted, Tidy
<1>3. CASE Next
  <2>1. /\ faults' = faults \/ faults' = faults + 1
        /\ WriteError \/ SyncError \/ ReadError => faults' # 0
    BY <1>1, <1>3, KeepsFaults
  <2>2. crashes' = crashes \/ (Mount /\ crashes' = crashes + 1)
    BY <1>3, KeepsDevice
  <2>3. Mount => crashes' = crashes + 1
    BY DEF Mount
  <2>4. ASSUME faults' = 0, crashes' = 0 PROVE Tidy'
    <3>1. faults = 0 /\ crashes = 0 /\ ~WriteError /\ ~SyncError /\ ~ReadError /\ ~Mount
      BY <1>1, <2>1, <2>2, <2>3, <2>4
    <3>2. VolumeInductive /\ Tidy
      BY <3>1 DEF Accounted, VolumeKept, Ordered
    <3> QED
      BY <1>3, <3>1, <3>2, TidyStep
  <2> QED
    BY <1>1, <2>1, <2>4 DEF Accounted
<1> QED
  BY <1>2, <1>3

\* What the accounts say of a volume between calls.
LEMMA TidyIdle ==
    ASSUME VolumeInductive, Tidy, Idle, NEW c \in Cluster, ActiveFat[c] # 0
    PROVE  \E s \in LiveSlots \cup {NoSlot} : c \in ChainSet(s)
<1>1. PICK O, ch : O = Owners(disk) /\ ch = Chains(disk)
  OBVIOUS
<1>2. Layout(disk, O, ch) /\ AllShown(disk, O, ch) /\ c \in Used(O, ch) /\ ActiveFat = FatOf(disk, 0)
  BY <1>1 DEF VolumeInductive, Tree, Tidy, Listing, Account, Only, InUse, Idle, ActiveFat
<1>3. PICK s \in O : c \in Within(ch[s])
  BY <1>2 DEF Used
<1>4. c \in ChainSet(s)
  <2>1. HeadOf(s) = HeadIn(disk, s)
    BY DEF HeadOf, HeadIn
  <2>2. ch[s] = Chain(ActiveFat, HeadOf(s))
    BY <1>2, <2>1, OwnChain
  <2> QED
    BY <1>3, <2>2 DEF ChainSet, Within
<1>5. PICK top : top = EntriesOf(disk, ActiveFat, Root)
  OBVIOUS
<1>6. Named(disk, ch[NoSlot]) \subseteq top
  <2>1. NoSlot \in Listed(disk, O, ch) /\ HeadIn(disk, NoSlot) = Root /\ NoSlot \in O
    BY <1>2, RootListed DEF Layout
  <2>2. Shown(disk, ch[NoSlot])
    BY <1>2, <2>1 DEF AllShown
  <2> QED
    BY <1>2, <1>5, <2>1, <2>2, EntriesAll
<1>7. CASE s = NoSlot
  BY <1>4, <1>7
<1>8. CASE s # NoSlot
  <2>1. PICK t \in Listed(disk, O, ch) : s \in Within(ch[t]) \X (1..Slots)
    BY <1>2, <1>8 DEF Layout, Anchored
  <2>2. s \in Named(disk, ch[t]) /\ t \in O /\ Shown(disk, ch[t])
    BY <1>2, <1>8, <2>1 DEF Named, Layout, Sized, AllShown, Listed
  <2>3. s \in EntriesOf(disk, ActiveFat, HeadIn(disk, t))
    BY <1>2, <2>2, EntriesAll
  <2>4. CASE t = NoSlot
    <3>1. s \in top
      BY <1>6, <2>2, <2>4
    <3> QED
      BY <1>4, <1>5, <3>1 DEF LiveSlots
  <2>5. CASE t # NoSlot
    <3>1. SlotAt(disk, t).kind = "dir" /\ t[1] \in Within(ch[NoSlot]) /\ HeadIn(disk, t) = SlotAt(disk, t).cluster
      BY <2>1, <2>5 DEF Listed, HeadIn
    <3>2. t \in Cluster \X (1..Slots) /\ t = <<t[1], t[2]>>
      BY <1>2, <2>2, <2>5, OwnSlot
    <3>3. t \in Named(disk, ch[NoSlot])
      BY <3>1, <3>2 DEF Named, Entry
    <3>4. t \in top
      BY <1>6, <3>3
    <3>5. s \in LiveSlots
      BY <1>5, <2>3, <3>1, <3>4 DEF LiveSlots
    <3> QED
      BY <1>4, <3>5
  <2> QED
    BY <2>4, <2>5
<1> QED
  BY <1>7, <1>8

\* Between calls of a volume whose device has met no error and lost no power,
\* every cluster the FAT says is taken belongs to an entry that can be
\* reached or to the root directory: WriteFile frees the chain it replaces
\* and gives back what it took when the card is full, Remove frees what it
\* unlinks, and a directory that grows keeps its new cluster.  For every size
\* of volume and of files, and any number of calls.
THEOREM CallsLeakNothing == Spec => []NothingLeaks
<1>1. Init => Accounted
  <2>1. Init => VolumeInductive /\ Listing /\ Only({}) /\ pc = "idle" /\ faults = 0 /\ crashes = 0
    BY VolumeInit DEF Init
  <2> QED
    BY <2>1 DEF Accounted, VolumeKept, Tidy, Account
<1>2. Accounted => NothingLeaks
  BY TidyIdle DEF Accounted, VolumeKept, Ordered, NothingLeaks
<1> QED
  BY <1>1, <1>2, AccountedStep, PTL DEF Spec
=============================================================================
