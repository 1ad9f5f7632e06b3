-------------------------------- MODULE Fat32 --------------------------------
(***************************************************************************)
(* The mutating side of the FAT32 volume: WriteFile, Mkdir and Remove over *)
(* a block device that may fail any transfer and lose power between any    *)
(* two of them.  An operation is a sequence of phases; a phase looks at    *)
(* the volume and queues device commands in todo, and each command is one  *)
(* step, as a transfer is the unit that fails.                             *)
(***************************************************************************)
EXTENDS Integers, Sequences, FiniteSets, FiniteSetsExt

CONSTANTS Clusters,     \* number of data clusters, numbered from 2
          PerSector,    \* FAT entries in a sector
          Copies,       \* enabled FAT copies
          Slots,        \* directory slots in a cluster (one sector each)
          Top, Dirs, Sub,   \* names in the root; those used as directories; names in these
          Sizes,        \* file sizes written, in clusters
          Devices,      \* kinds of device: whether it may hold writes back until Sync
          MaxOps, MaxFaults, MaxCrashes

ASSUME Fat32Assumption ==
    /\ Clusters \in Nat /\ Clusters >= 4 /\ PerSector \in Nat \ {0}
    /\ Slots \in Nat /\ Slots >= 2
    /\ Copies \in 1..2
    /\ Sizes \subseteq Nat
    /\ Devices \subseteq BOOLEAN
    /\ Dirs \subseteq Top

VARIABLES buffered,  \* the kind of device
          disk,      \* what a read returns, block by block
          maybe,     \* what each block may hold after a power failure
          failed, nextFree, fatCache, dirCache,    \* the mounted Volume
          op, pc, todo,                            \* the call under way
          result, files, stable,       \* history: outcome, what the disk shows, what it keeps
          ops, faults, crashes

volume == <<failed, nextFree, fatCache, dirCache>>
call == <<op, pc, todo, result>>
device == <<buffered, disk, maybe>>
counts == <<ops, faults, crashes>>
vars == <<buffered, disk, maybe, failed, nextFree, fatCache, dirCache, op, pc, todo, result, files, stable,
          ops, faults, crashes>>

Paths == {<<n>> : n \in Top} \cup (Dirs \X Sub)
Cluster == 2..(Clusters + 1)
Root == 2
Eoc == 1                      \* 0x0fffffff; 0 is a free entry
FatBlock(t, c) == <<"fat", t, c \div PerSector>>
Data(c) == <<"data", c, 0>>
Info(i) == <<"info", i, 0>>
Sectors == {c \div PerSector : c \in Cluster}
Blocks == {<<"fat", t, s>> : t \in 0..Copies-1, s \in Sectors}
          \cup {Data(c) : c \in Cluster} \cup {Info(i) : i \in 0..1}

End == [kind |-> "end"]
Deleted == [kind |-> "deleted"]
Long(name) == [kind |-> "long", name |-> name]
Foreign == [kind |-> "foreign"]      \* bytes of a file, read as a slot
Dot == [kind |-> "dot"]
Zero == [slots |-> [i \in 1..Slots |-> End]]
Dots == [slots |-> [i \in 1..Slots |-> IF i <= 2 THEN Dot ELSE End]]
Bytes(v, size) == [i \in 1..size |-> [file |-> v, part |-> i]]
NoSlot == <<0, 0>>
NoEntry == [kind |-> "none", name |-> "", cluster |-> 0, size |-> 0]

-----------------------------------------------------------------------------
(* Reading.  Walk ends at Eoc on a sound chain; anything else, a cycle     *)
(* included, is what next and the chain guard answer with ErrCorrupt.      *)

Walk(fat, c) ==
    LET w[i \in 1..(Clusters + 1)] ==
        IF i = 1 THEN c ELSE LET x == w[i - 1] IN IF x \in Cluster THEN fat[x] ELSE x
    IN  w

\* The walk stays at what is not a cluster, so the clusters are its beginning.
Chain(fat, c) ==
    LET w == Walk(fat, c)
    IN  [i \in 1..Cardinality({k \in 1..(Clusters + 1) : w[k] \in Cluster}) |-> w[i]]
Sound(fat, c) == Walk(fat, c)[Clusters + 1] = Eoc

\* fatSector and directorySector answer from their one-sector caches.
Seen(cache, b) == IF cache.lba = b THEN cache.data ELSE disk[b]
Invalid == [lba |-> <<>>, data |-> <<>>]
Load(cache, b) == [lba |-> b, data |-> Seen(cache, b)]

FatSeen == [c \in Cluster |-> Seen(fatCache, FatBlock(0, c)).next[c]]
FatOf(d, t) == [c \in Cluster |-> d[FatBlock(t, c)].next[c]]

\* A directory is read slot by slot along its chain up to the first End.
Places(chain) == (1..Len(chain)) \X (1..Slots)
Earlier(p, q) == p[1] < q[1] \/ (p[1] = q[1] /\ p[2] < q[2])
SlotOf(chain, p) == <<chain[p[1]], p[2]>>

SlotAt(d, s) ==
    IF s = NoSlot THEN NoEntry
    ELSE IF "slots" \in DOMAIN d[Data(s[1])] THEN d[Data(s[1])].slots[s[2]] ELSE Foreign

Ends(d, chain) == {p \in Places(chain) : SlotAt(d, SlotOf(chain, p)).kind = "end"}
Unused(d, chain) == {p \in Places(chain) : SlotAt(d, SlotOf(chain, p)).kind \in {"end", "deleted"}}
First(places) == CHOOSE p \in places : \A q \in places : q = p \/ Earlier(p, q)

ReadDirectory(d, chain) == {p \in Places(chain) : \A q \in Ends(d, chain) : Earlier(p, q)}

EntriesOf(d, fat, dir) ==
    LET chain == Chain(fat, dir) IN
    {s \in {SlotOf(chain, p) : p \in ReadDirectory(d, chain)} : SlotAt(d, s).kind \in {"file", "dir"}}

Find(d, fat, dir, name) ==
    LET hits == {s \in EntriesOf(d, fat, dir) : SlotAt(d, s).name = name}
    IN  IF hits = {} THEN NoSlot ELSE CHOOSE s \in hits : TRUE

\* Stat of the directory a path lies in: its first cluster, or 0.
ParentOf(d, fat, p) ==
    IF Len(p) = 1 THEN Root
    ELSE LET e == SlotAt(d, Find(d, fat, Root, p[1])) IN
         IF e.kind = "dir" THEN e.cluster ELSE 0

Stat(d, fat, p) ==
    LET dir == ParentOf(d, fat, p) IN
    IF dir = 0 THEN NoSlot ELSE Find(d, fat, dir, p[Len(p)])

\* What Open and File.Read return for an entry.
Contents(d, fat, e) ==
    LET chain == Chain(fat, e.cluster) IN
    IF e.kind # "file" THEN [kind |-> e.kind]
    ELSE [kind |-> "file",
          bytes |-> [i \in 1..e.size |->
                        IF i <= Len(chain) THEN d[Data(chain[i])] ELSE [slots |-> <<>>]]]

View(d) ==
    LET fat == FatOf(d, 0) IN [p \in Paths |-> Contents(d, fat, SlotAt(d, Stat(d, fat, p)))]

-----------------------------------------------------------------------------
(* Device commands.                                                        *)

SetFAT(c, n) == [i \in 1..Copies |-> [do |-> "fat", b |-> FatBlock(i - 1, c), at |-> c, to |-> n]]
SetSlot(s, e) == <<[do |-> "slot", b |-> Data(s[1]), at |-> s[2], to |-> e]>>
Put(c, x) == <<[do |-> "put", b |-> Data(c), at |-> 0, to |-> x]>>
Hints == [i \in 1..2 |-> [do |-> "hint", b |-> Info(i - 1), at |-> 0, to |-> [hint |-> "unknown"]]]
NoSync == <<>>
SyncDevice == <<[do |-> "sync", b |-> <<>>, at |-> 0, to |-> 0]>>
\* The data reach the card before the entry that names them.
SyncData == SyncDevice

\* allocate, once it has found a free cluster: claim it, then clear it.
Claim(c) == SetFAT(c, Eoc) \o Put(c, Zero)

\* release of a chain that has been validated.
Free(c) ==
    LET chain == Chain(FatSeen, c) IN
    [k \in 1..(Copies * Len(chain)) |->
        SetFAT(chain[1 + ((k - 1) \div Copies)], 0)[1 + ((k - 1) % Copies)]]

Written(cmd) ==
    CASE cmd.do = "fat" -> [disk[cmd.b] EXCEPT !.next[cmd.at] = cmd.to]
      [] cmd.do = "slot" -> [disk[cmd.b] EXCEPT !.slots[cmd.at] = cmd.to]
      [] OTHER -> cmd.to

\* The cluster at which allocate's scan from nextFree stops, or 0 when full.
Scan == [i \in 1..Clusters |-> 2 + ((nextFree + i - 3) % Clusters)]
Hits == {i \in 1..Clusters : FatSeen[Scan[i]] = 0}
FirstFree == IF Hits = {} THEN 0 ELSE Scan[CHOOSE i \in Hits : \A j \in Hits : i <= j]
After(c) == IF c = Clusters + 1 THEN 2 ELSE c + 1

-----------------------------------------------------------------------------
Idle == pc = "idle"

Done(outcome) ==
    /\ pc' = "idle" /\ todo' = <<>>
    /\ op' = [path |-> <<>>]
    /\ result' = outcome

Goto(phase, cmds) ==
    /\ pc' = phase
    /\ todo' = cmds
    /\ UNCHANGED result

Root0(next, slots) ==
    [b \in Blocks |-> CASE b[1] = "fat" ->
                              [next |-> [c \in {x \in Cluster : x \div PerSector = b[3]} |-> next[c]]]
                        [] b[1] = "info" -> [hint |-> "free"]
                        [] b = Data(Root) -> [slots |-> slots]
                        [] OTHER -> Bytes(0, 2)[1 + (b[2] % 2)]]

\* A volume with one file "a" of two clusters under a long name; the free
\* clusters hold bytes of files removed earlier.
Init ==
    /\ disk = Root0([c \in Cluster |-> CASE c = Root -> Eoc [] c = 4 -> 5 [] c = 5 -> Eoc [] OTHER -> 0],
                    [i \in 1..Slots |-> CASE i = 1 -> Long("a")
                                          [] i = 2 -> [kind |-> "file", name |-> "a", cluster |-> 4, size |-> 2]
                                          [] OTHER -> End])
    /\ maybe = [b \in Blocks |-> {disk[b]}] /\ buffered \in Devices
    /\ failed = FALSE /\ nextFree = 2 /\ fatCache = Invalid /\ dirCache = Invalid
    /\ op = [path |-> <<>>] /\ pc = "idle" /\ todo = <<>> /\ result = "ok"
    /\ files = View(disk) /\ stable = files
    /\ ops = 0 /\ faults = 0 /\ crashes = 0

\* The common beginning of the three operations: look the path up, run
\* beginWrite.  Calls refused for their arguments or for a failed volume
\* change nothing and are not steps.
DirSeen == IF dirCache = Invalid THEN disk ELSE [disk EXCEPT ![dirCache.lba] = dirCache.data]
CanBegin == Idle /\ ops < MaxOps /\ ~failed
Begin(p, rec) ==
    /\ ParentOf(DirSeen, FatSeen, p) # 0
    /\ op' = rec
    /\ ops' = ops + 1
    /\ Goto(IF rec.do = "remove" THEN "unlink" ELSE "slot", Hints)
    /\ dirCache' = Load(dirCache, Data(ParentOf(DirSeen, FatSeen, p)))
    /\ fatCache' = Load(fatCache, FatBlock(0, ParentOf(DirSeen, FatSeen, p)))
    /\ UNCHANGED <<device, failed, nextFree, files, stable, faults, crashes>>

Request(do, p, s, old, size, new) ==
    [do |-> do, path |-> p, dir |-> ParentOf(DirSeen, FatSeen, p), slot |-> s, old |-> old,
     first |-> 0, last |-> 0, fresh |-> 0, left |-> size, size |-> size, new |-> new]

WriteFile == CanBegin /\
    \E p \in Paths, size \in Sizes :
        LET s == Stat(DirSeen, FatSeen, p)
            e == SlotAt(DirSeen, s)
        IN  /\ e.kind # "dir"
            /\ Begin(p, Request("write", p, s, e.cluster, size,
                                [kind |-> "file", bytes |-> Bytes(ops + 1, size)]))

Mkdir == CanBegin /\
    \E p \in Paths :
        /\ Stat(DirSeen, FatSeen, p) = NoSlot
        /\ Begin(p, Request("mkdir", p, NoSlot, 0, 1, [kind |-> "dir"]))

Remove == CanBegin /\
    \E p \in Paths :
        LET s == Stat(DirSeen, FatSeen, p)
            e == SlotAt(DirSeen, s)
        IN  /\ s # NoSlot
            /\ e.kind = "dir" => EntriesOf(DirSeen, FatSeen, e.cluster) = {}
            /\ Begin(p, Request("remove", p, s, e.cluster, 0, [kind |-> "none"]))

-----------------------------------------------------------------------------
(* The phases, each once the commands of the one before are done.          *)

At(phase) == pc = phase /\ todo = <<>>
Quiet == UNCHANGED <<device, failed, files, stable, counts>>

\* emptySlot: an unused slot of the directory, or a new cluster linked to it.
EmptySlot ==
    LET chain == Chain(FatSeen, op.dir)
        unused == Unused(DirSeen, chain)
        slot == SlotOf(chain, First(unused))
        tail == chain[Len(chain)]
    IN  /\ At("slot") /\ Quiet
        /\ \/ /\ op.slot # NoSlot
              /\ Goto("fill", <<>>)
              /\ UNCHANGED <<op, nextFree, fatCache, dirCache>>
           \/ /\ op.slot = NoSlot /\ unused # {}
              /\ op' = [op EXCEPT !.slot = slot]
              /\ Goto("fill", <<>>)
              /\ dirCache' = Load(dirCache, Data(slot[1]))
              /\ UNCHANGED <<nextFree, fatCache>>
           \/ /\ op.slot = NoSlot /\ unused = {} /\ FirstFree # 0
              /\ op' = [op EXCEPT !.fresh = FirstFree, !.last = tail]
              /\ nextFree' = After(FirstFree)
              /\ Goto("extend", Claim(FirstFree))
              /\ dirCache' = Load(dirCache, Data(tail))
              /\ fatCache' = Load(fatCache, FatBlock(0, FirstFree))
           \/ /\ op.slot = NoSlot /\ unused = {} /\ FirstFree = 0
              /\ Done("error")
              /\ dirCache' = Load(dirCache, Data(tail))
              /\ fatCache' = Load(fatCache, FatBlock(0, Scan[Clusters]))
              /\ UNCHANGED nextFree

Extend ==
    /\ At("extend") /\ Quiet
    /\ op' = [op EXCEPT !.slot = <<op.fresh, 1>>]
    /\ Goto("fill", SetFAT(op.last, op.fresh))
    /\ UNCHANGED <<nextFree, fatCache, dirCache>>

AbortLeaks == Goto("abort", <<>>) /\ UNCHANGED op
Abort == Goto("abort", Free(op.first)) /\ UNCHANGED op

\* The loop of WriteFile: allocate, link, write; then Sync.  An error of
\* allocate gives the clusters of the new chain back.
Fill ==
    /\ At("fill") /\ Quiet
    /\ UNCHANGED dirCache
    /\ \/ /\ op.left > 0 /\ FirstFree # 0
          /\ op' = [op EXCEPT !.fresh = FirstFree]
          /\ nextFree' = After(FirstFree)
          /\ Goto("link", Claim(FirstFree))
          /\ fatCache' = Load(fatCache, FatBlock(0, FirstFree))
       \/ /\ op.left > 0 /\ FirstFree = 0
          /\ Abort
          /\ fatCache' = Load(fatCache, FatBlock(0, Scan[Clusters]))
          /\ UNCHANGED nextFree
       \/ /\ op.left = 0
          /\ Goto("publish", SyncData)
          /\ UNCHANGED <<op, nextFree, fatCache>>

Link ==
    /\ At("link") /\ Quiet
    /\ op' = [op EXCEPT !.first = IF @ = 0 THEN op.fresh ELSE @, !.last = op.fresh, !.left = @ - 1]
    /\ Goto("fill", (IF op.first = 0 THEN <<>> ELSE SetFAT(op.last, op.fresh))
                    \o Put(op.fresh, IF op.do = "mkdir" THEN Dots
                                     ELSE op.new.bytes[op.size - op.left + 1]))
    /\ UNCHANGED <<nextFree, fatCache, dirCache>>

Publish ==
    /\ At("publish") /\ Quiet
    /\ Goto("free", SetSlot(op.slot, [kind |-> op.new.kind, name |-> op.path[Len(op.path)],
                                      cluster |-> op.first, size |-> op.size]) \o SyncDevice)
    /\ UNCHANGED <<op, nextFree, fatCache, dirCache>>

\* Remove marks the entry and the slots of its long name, then syncs.
Unlink ==
    LET before == <<op.slot[1], op.slot[2] - 1>>
        long == IF op.slot[2] > 1 /\ SlotAt(DirSeen, before) = Long(op.path[Len(op.path)])
                THEN SetSlot(before, Deleted) ELSE <<>>
    IN  /\ At("unlink") /\ Quiet
        /\ Goto("free", SetSlot(op.slot, Deleted) \o long \o SyncDevice)
        /\ UNCHANGED <<op, nextFree, fatCache, dirCache>>

\* Release the old chain and sync; Mkdir returns as soon as it has published.
Release ==
    /\ At("free") /\ Quiet
    /\ \/ /\ op.do = "mkdir"
          /\ Done("ok")
       \/ /\ op.do # "mkdir" /\ op.old # 0 /\ ~Sound(FatSeen, op.old)
          /\ Done("error")
       \/ /\ op.do # "mkdir" /\ (op.old = 0 \/ Sound(FatSeen, op.old))
          /\ Goto("return", Free(op.old) \o SyncDevice)
          /\ UNCHANGED op
    /\ UNCHANGED <<nextFree, fatCache, dirCache>>

Outcome == IF pc = "return" THEN "ok" ELSE "error"

Return ==
    /\ At("return") \/ At("abort")
    /\ Done(Outcome)
    /\ Quiet
    /\ UNCHANGED <<nextFree, fatCache, dirCache>>

-----------------------------------------------------------------------------
(* Executing a command.                                                    *)

cmd0 == todo[1]
ForgetDirectory == fatCache' = fatCache /\ dirCache' = Invalid
Forget == fatCache' = Invalid /\ dirCache' = Invalid
Store(x) ==
    /\ disk' = [disk EXCEPT ![cmd0.b] = x]
    /\ files' = View(disk')
    /\ maybe' = [maybe EXCEPT ![cmd0.b] = IF buffered THEN @ \cup {x} ELSE {x}]
    /\ UNCHANGED buffered

Write ==
    /\ todo # <<>> /\ cmd0.do # "sync"
    /\ Store(Written(cmd0))
    /\ Forget
    /\ todo' = Tail(todo)
    /\ UNCHANGED <<failed, nextFree, op, pc, result, stable, counts>>

Sync ==
    /\ todo # <<>> /\ cmd0.do = "sync"
    /\ maybe' = [b \in Blocks |-> {disk[b]}]
    /\ stable' = files
    /\ todo' = Tail(todo)
    /\ UNCHANGED <<buffered, disk, volume, op, pc, result, files, counts>>

Fault == faults < MaxFaults /\ faults' = faults + 1 /\ UNCHANGED <<stable, ops, crashes, nextFree>>

\* A failed transfer leaves the block old or new and poisons the volume.
WriteError ==
    /\ todo # <<>> /\ cmd0.do # "sync" /\ Fault
    /\ \E x \in {disk[cmd0.b], Written(cmd0)} : Store(x)
    /\ Forget
    /\ failed' = TRUE
    /\ Done("error")

SyncError ==
    /\ todo # <<>> /\ cmd0.do = "sync" /\ Fault
    /\ failed' = TRUE
    /\ Done("error")
    /\ UNCHANGED <<device, files, fatCache, dirCache>>

\* The read of a read-modify-write fails.  Only WriteFile's publish poisons
\* the volume for it; an error of allocate gives the new chain back.
ReadError ==
    /\ todo # <<>> /\ cmd0.do \in {"fat", "slot", "hint"} /\ Fault
    /\ failed' = (pc = "free" /\ op.do = "write")
    /\ IF pc = "link" THEN Abort ELSE Done("error")
    /\ UNCHANGED <<device, files, fatCache, dirCache>>

\* What the card may hold once power has failed: of the blocks written since
\* the last Sync, each is any one of the versions it went through.
Torn ==
    FoldSet(LAMBDA b, ds : {[d EXCEPT ![b] = x] : d \in ds, x \in maybe[b]},
            {disk}, {b \in Blocks : Cardinality(maybe[b]) > 1})

\* Power fails and the card is mounted again.
Mount ==
    /\ crashes < MaxCrashes /\ crashes' = crashes + 1
    /\ IF buffered THEN disk' \in Torn ELSE UNCHANGED disk
    /\ maybe' = [b \in Blocks |-> {disk'[b]}]
    /\ failed' = FALSE /\ nextFree' = 2 /\ Forget
    /\ Done("error")
    /\ files' = View(disk') /\ stable' = files'
    /\ UNCHANGED <<buffered, ops, faults>>

Next ==
    \/ WriteFile \/ Mkdir \/ Remove
    \/ EmptySlot \/ Extend \/ Fill \/ Link \/ Publish \/ Unlink \/ Release \/ Return
    \/ Write \/ Sync \/ WriteError \/ SyncError \/ ReadError \/ Mount

Spec == Init /\ [][Next]_vars
-----------------------------------------------------------------------------
(* Properties.                                                             *)

\* WriteFile, Mkdir and Remove show a path's old or its new contents whole at
\* every moment, power failures and device errors included, and what
\* returned without an error stays.
Promise == INSTANCE OldOrNew WITH
    durable <- stable, None <- [path |-> <<>>],
    request <- IF Idle THEN [path |-> <<>>] ELSE [path |-> op.path, new |-> op.new]
KeepsOldOrNew == Promise!Spec

ActiveFat == FatOf(disk, 0)
LiveSlots ==
    LET top == EntriesOf(disk, ActiveFat, Root) IN
    top \cup UNION {EntriesOf(disk, ActiveFat, SlotAt(disk, s).cluster) :
                      s \in {t \in top : SlotAt(disk, t).kind = "dir"}}
HeadOf(s) == IF s = NoSlot THEN Root ELSE SlotAt(disk, s).cluster
ChainSet(s) == LET chain == Chain(ActiveFat, HeadOf(s)) IN {chain[i] : i \in 1..Len(chain)}

\* After any prefix of the block writes, and after a power failure, the chain
\* of every entry is whole and long enough, no cluster belongs to two of
\* them, and directories hold slots, never bytes of a former owner.
SoundChains ==
    LET live == LiveSlots \cup {NoSlot} IN
    /\ \A s \in live : HeadOf(s) # 0 => Sound(ActiveFat, HeadOf(s))
    /\ \A s, t \in live : s # t => ChainSet(s) \cap ChainSet(t) = {}
    /\ \A s \in live \ {NoSlot} : SlotAt(disk, s).size <= Cardinality(ChainSet(s))
    /\ \A s \in live : (s = NoSlot \/ SlotAt(disk, s).kind = "dir") =>
          \A c \in ChainSet(s) : "slots" \in DOMAIN disk[Data(c)]

\* Between calls of a volume that met no device error, every allocated
\* cluster belongs to an entry: also a WriteFile that ends with ErrFull
\* gives all it took back.
NothingLeaks ==
    (Idle /\ faults = 0 /\ crashes = 0) =>
        \A c \in Cluster : ActiveFat[c] # 0 => \E s \in LiveSlots \cup {NoSlot} : c \in ChainSet(s)

\* The comment of setFAT: a partial metadata failure poisons the mount, so a
\* volume that still takes writes has equal FAT copies.
PartialFailurePoisons ==
    (Idle /\ ~failed) => \A t \in 0..(Copies - 1) : FatOf(disk, t) = ActiveFat
=============================================================================
