# TLA+ models of renvo

renvo is a Go-like compiler with its own runtime, standard library and device
libraries. Most of the repository translates programs. This project models the
parts that keep state while other things happen: the goroutine runtime, the
synchronization package on top of it, the managed heap, the FAT32 volume and the
TCP, HTTP and DHCP endpoints of the device library.

## 1. Inventory

| Component | Source | State | Operations | Hard behaviour | What makes it correct |
|---|---|---|---|---|---|
| Serial goroutine handler | `x/runtime/serial/serial.go` | job queue, current context, channels with ring buffer and waiter lists, select bindings, `selectNext` | `Spawn`, `Drain`, `ChanCreate/Send/Receive/Select/Close` | every blocked call is a point where others run; one operation completes another's waiter; two ways of running goroutines | no missed rendezvous, no lost or repeated wakeup, a select commits one case, values conserved and in order |
| Runtime hooks | `x/runtime/runtime.go`, `heap.go` | the installed handler | dispatch, `StackInit`, `StackSwitch`, `Call` | context switches | the handler's assumptions on them |
| `sync` | `std/sync/sync_renvo.go` | flags, counters and wake channels | `Mutex`, `RWMutex`, `WaitGroup`, `Once`, `Cond` | hand-over before the receiver runs; counters that must match blocked receivers | exclusion, wakers never block, nobody left waiting |
| Managed heap | `internal/managedheap` | segments, blocks with flags, reserved bytes | `Alloc`, `Mark`, `Collect`, `Close` | fixed-point marking, failed root enumeration, growth at the limit | reachable blocks survive, `reserved <= limit`, blocks tile a segment |
| FAT32 volume | `device/fat32` | FAT copies, directory entries, caches, `failed` | `Mount`, `WriteFile`, `Mkdir`, `Remove`, reads | device errors and power failure between writes | old or new file whole, no cluster in two chains, caches not stale |
| TCP echo / stream | `device/tcpip/echo.go`, `stream.go` | one connection, one pending segment, timers | `Handle`, `Poll` | loss, duplication, reordering, late acknowledgements, wrapping clock | bytes once and in order, slot freed in the end |
| HTTP endpoint | `device/tcpip/http.go` | slots over streams | `Handle`, `Poll` | slot exhaustion, slow peers | one response per request, slots come back |
| DHCP client | `device/tcpip/dhcp.go` | lease, timers, retries | `Handle`, `Poll`, `Stop` | late or missing answers, expiry | no expired or conflicting address in use |
| I2C, input filters, USB HID | `device/i2c`, `device/input`, `device/esp32s3/usbhid` | bus and endpoint state | transactions, sampling, enumeration | error paths, time-outs | bus released, no stuck endpoint |
| Starlark, VM, REPL | `std/starlark`, `std/vm`, `internal/repl` | interpreter state | evaluation | sequential | language semantics |
| Compiler, back ends, linkers, build, emulators, forms, tools | rest of `internal`, `backend`, `backends`, `rfe`, `emulators`, `forms`, `cmd`, `tools` | one translation unit | pure translation, I/O, user interface | none that is a matter of states | translation correctness |

Interaction: compiled programs call `x/runtime`, which forwards to the installed
handler; the handler calls back goroutine entries and switches stacks. `sync` is
ordinary code over channels: its wake channels are the handler's unbuffered
channels, and it relies on serialization (no preemption between two channel
operations). The device components are polled by one loop and share no state
with the handler.

The hazards this list gives rise to are in `PROJECT.json`, each at its line,
with the properties that cover it or the reason why none does yet.

## 2. Plan

1. **Serial** with **GoChannel** (abstract channel) and **Ring**/**Fifo**: done.
2. **Mutex, Once, Cond, RWMutex, WaitGroup**: done; `Once` and `Cond` compose
   `Mutex`.
3. **Fat32** over a device that fails or loses power between blocks, with
   **OldOrNew** as what it promises, and **ChainGuard**: done.
4. **ManagedHeap**, reachability being what `Collect` is held against: done.
5. **Tcp**, the echo and stream endpoint with the HTTP server's slots over a lossy
   network: done.
6. **Dhcp**: timers, retries and late answers: done.
7. Theorems: the invariants of `Serial` and its refinement of `GoChannel`, of `Ring`, of
   the sync package, of `ManagedHeap`, of `ChainGuard` and the chains of `Fat32`, of
   `Dhcp` with the pacing behind `KeepsAddress`, and of `Tcp`: done. Next: the refinement
   of `OldOrNew`.
8. **I2C** and the input filters, as far as they have control.

## 3. Modules

| Module | Models | Composes |
|---|---|---|
| `Serial` | `serial.go`: scheduler, channels, select | instantiates `GoChannel` as what it implements |
| `GoChannel` | what Go promises of a channel | |
| `Ring` | `pushBuffer`, `popBuffer`: head, length, slots | instantiates `Fifo` as what it implements |
| `Fifo` | a bounded queue | |
| `Mutex` | `sync.Mutex` | |
| `Once`, `Cond` | `sync.Once`, `sync.Cond` | extend `Mutex`, whose actions they call |
| `RWMutex`, `WaitGroup` | `sync.RWMutex`, `sync.WaitGroup` | |
| `Fat32` | `device/fat32`: the mutating operations and the reads they rest on | instantiates `OldOrNew` as what it implements |
| `OldOrNew` | what a caller of the volume may rely on | |
| `ChainGuard` | `chainGuard` and the first loop of `release` | |
| `ManagedHeap` | `internal/managedheap/heap.go` | |
| `Dhcp` | `device/tcpip/dhcp.go` with a server and a network | |
| `Tcp` | `echo.go`, `stream.go`, and slots and responses of `http.go`, with clients and a network | |
| `MCSerial`, `MCDhcp`, `MCTcp` | constants of the small instances | extend `Serial`, `Dhcp`, `Tcp` |
| `MCSync` | a program that uses one of the sync types | `Mutex` with `Cond`, `Once`, `RWMutex`, `WaitGroup` |
| `MCFat32` | operations on a sound volume, or the walk along a damaged FAT | `Fat32`, `ChainGuard` |
| `SerialProofs` | theorems about `Serial`: blocking and waking, values, refinement | |
| `RingProofs` | theorems about `Ring` | |
| `MutexProofs`, `SyncProofs` | theorems about the sync package | the second extends the first, and instantiates it for the lock of a `Once` |
| `FatProofs` | theorems about `ChainGuard` and `Fat32` | |
| `HeapProofs`, `DhcpProofs`, `TcpProofs` | theorems about `ManagedHeap`, `Dhcp`, `Tcp` | |

### Serial

One step is what a context does between two points where another can run, i.e.
one whole handler call up to the place where it blocks. `stack` is the contexts
under way: with stacks, the main program and at most one goroutine on top;
without, every goroutine that a blocked operation runs nested. `jobs` is
`Handler.jobs` from `jobHead`. `pc` says what a context does, `wait` is its last
channel operation with the outcome it reports. `queue` is the union of the
`senders` and `receivers` lists. Both lists grow only at their end, by the
operation that starts, so a ticket per operation gives their order, and it also
serves as the identity of a select group and the value of a send. `bindings` is
the union of `channel.selects`. `sent` and `rcvd` are histories.

`Spawn`, `Drain`, `ChanCreate`, `ChanSend`, `ChanReceive`, `ChanSelect`,
`ChanClose` are the handler's methods; `RunOne`, `RunNone`, `Resume` are the
iterations of `waitFor` and `runOne`; `Finish` is the end of an entry;
`BlockForever` an operation on a nil channel. `ChanClose` wakes senders and
receivers in two loops; what it makes of them is one step.

Abstracted: element sizes and byte copies, stack memory, `compactJobs` (the
queue from `jobHead` on does not change). `selectNext` is an integer of the
target's width, `IntMax` being its largest value. With stacks only the main program calls
`Drain`: `runOne` saves its caller in `h.scheduler`, so that a goroutine's call would
overwrite the main program saved there, and which stack goes on then is beyond the model.

### Ring

Head, length and slots as in the code. `Contents` maps them to a sequence, which
is what `Serial` uses. A push comes only from callers that have checked for room,
`fillBufferFromSender` included.

### The sync package

Because goroutines are serialized, a call is one step up to the receive that
blocks it. Of the wake channels the modules use what `Serial` shows: receivers
are served in order and a send blocks exactly when nobody receives. A send that
would block its caller is recorded (`stuck`, `sending`); the properties say that
there is none, so what would follow is not modelled. The sets `holds`, `reading`,
`writing` are histories: the tasks that were granted the lock, from the moment of
the hand-over on. Callers unlock only what they hold, take one lock each, and
balance their `Add`s; calls that panic change nothing and are not taken.

### Fat32, OldOrNew and ChainGuard

An operation is a sequence of phases. A phase looks at the volume through the
caches, as the code does, and queues the device commands it is about to issue in
`todo`; each command is one step, because a transfer is the unit that can fail
and power can fail between any two. `disk` is what a read returns; `maybe` is
what a block may hold after a power failure (one value on a synchronous device,
everything written since the last `Sync` on one that holds writes back). `failed`,
`nextFree` and the two one-sector caches are the fields of `Volume`. `WriteFile`,
`Mkdir` and `Remove` look the path up and run `beginWrite`; `EmptySlot`, `Extend` (the
new cluster is linked to a full directory once it is cleared), `Fill`, `Link`, `Publish`,
`Unlink`, `Release`, `Return` are what follows; `Write`, `Sync`,
`WriteError`, `SyncError` and `ReadError` execute a command; `Mount` is a power
failure, which leaves one of the disks in `Torn`, and the next mount. Only the two failures the code does not answer by
poisoning the volume, an error of a read before a write and `ErrFull`, leave it
writable.

A sector is a cluster, a directory slot holds one entry, and names are model
strings; 8.3 names, checksums and the geometry checks of `Mount` are left out. A
long name takes one slot. The free clusters of the first volume hold bytes of
former files, so that a missing clear shows. `files` and `stable` are histories:
what a reader sees, and what has been synced. `OldOrNew` is the promise: one
request at a time, each path old or new at every moment, what has returned
without an error stays.

The mounted volume's chains are sound, so `Release` never meets a corrupt one in
these runs. `ChainGuard` covers what happens on damaged ones: an arbitrary FAT and
the guard alone.

### ManagedHeap

Addresses count alignment units; both headers take one unit. `segs` is the list
of segments, `blk` the block headers by address, `mem` the words. The tracing
loop is taken block by block (`Scan`, `EndPass`) and the sweep segment by segment,
`pc` being where the call under way stands. Mark is conservative: any word that
falls into a payload marks its block. `Reach`, what the program can get at, is the
least set that holds what the roots point into and is closed under the words of
its blocks; the code knows nothing of it. `RunSpan` is the walk of the sweep over one run of
free blocks, adding up their spans header by header. The program (external) holds pointers in
roots and in words it reaches, and only stores pointers it has; the memory
provider (external) hands out any free region or none. The guards against
overflow at the end of the address space are abstracted, `limit.go` is not modelled.

### Dhcp

One step is one call of `Poll` or `Handle`, or a step of the server, the neighbours
or the clock (external). Time is in ticks and the client is polled at least once
in each, as its documentation asks. A message carries the transaction number and
the tick it was sent in, and lives for `Delay` ticks; unless `Reliable` it may be
lost, repeated and overtaken. `expiry` is the history of what the server granted,
counted on the server's side. `Overlap` says whether an answer may still be under
way when the client sends its next request. Messages are valid ones; the parsing
of options and the checksums are left out. `Routed` says whether the lease leaves a next
hop to the server; without one `Poll` sends nothing while renewing, and the request
is the broadcast of rebinding. Ticks stand for seconds; `tick`, which makes them of milliseconds and
keeps the remainder, is left out: as `requestStart` is a whole second, a lease ends up to a
second early by it, never late.

### Tcp

An operation maps a slot to the slot it leaves and the segment it returns, as the
methods of `Echo` do, so that `Receive` can chain `Handle`, `prepare` and
`streamOutput` as `HTTP.Handle` does. With `Streaming` false it is the echo endpoint.
A byte is a pair of its owner and its position. Clients (external) send any part
of their stream again, with any window, and abort; the networks keep a segment
until it is lost, so it arrives any number of times. Clocks are free: a
retransmission, the request timeout and the idle timeout may happen at any step.
The advertised window, ARP, ICMP, parsing and formatting are left out; a client
is not held to the window, so the endpoint meets segments it has no room for.

## 4. Runs

| Run | Instance | Shows |
|---|---|---|
| `serial_stacks` | stacks; 2 goroutines and main, 2 unbuffered channels, selects over both, 5 operations | registration, wakeups, outcomes |
| `serial_nested` | no stacks; 1 channel of capacity 0 or 1, made and closed at any time, selects naming it twice, 5 operations, `selectNext` wrapping | rendezvous, wakeups, conservation, order, refinement of `GoChannel` |
| `serial_liveness` | stacks; 1 channel of capacity 0 or 1, 4 operations, fairness | whoever is runnable runs |
| `serial_select_overflow` | 1 goroutine, int of two bits | **violation**, see below |
| `ring` | capacities 0 to 4, three values | the ring is a bounded queue |
| `sync` | 4 tasks; a `Mutex` with a `Cond`, a `Once`, an `RWMutex`, or a `WaitGroup` with 4 calls of `Add` or `Go` and deltas up to 2 | exclusion, wakers never block, `f` called once, no early return, whoever waits is served |
| `fat32` | 5 clusters, 2 FAT copies, directories of 2 slots, one subdirectory, 3 operations (2 on a device that holds writes back), 1 device error, 1 power failure; and every FAT of 4 clusters | chains whole and disjoint, nothing leaks, old or new contents; the walk ends, only loops are refused |
| `fat32_copies` | 2 operations, 1 device error | **violation**, see below |
| `managed_heap` | 2 roots, 12 units of memory, a limit of 2 segments, 2 stores | reachable blocks stay, garbage goes, blocks tile their segments, the limit holds |
| `dhcp` | leases of 6 ticks, usable and unusable renewal times, 12 ticks, 1 conflict, messages lost and repeated; or leases of 16 ticks or infinite, 30 ticks, answers within 1 tick each way, with and without a next hop | no address beyond its lease; an address once bound is kept |
| `dhcp_late` | the first with answers still under way at the next request, 9 ticks | **violation**, see below |
| `tcp` | echo: 1 client, 2 bytes, segments up to 2, answers of 1, windows 0 and 2; HTTP: 2 clients, 1 slot, response of 2 segments; sequence numbers wrapping | read once and in order; requests not mixed |

Where a run names several instances, the initial state chooses one (`uses`,
`damaged`, `buffered`, `link`, `server`) and nothing changes it. The types of the
sync package share no state, so programs that use one of them at a time show all
that each can do.

**Bounds.** Five operations let a select register on two channels, another
context complete one case, and a third operation meet a sibling left behind; the
mutants show that the properties fail within that bound when the code is wrong.
A refill needs three (fill the slot, block, receive). Two goroutines and
the main program are three contexts, enough for two to compete for the third.
Capacities 0 and 1 cover rendezvous, free, full and refill; longer buffers are
the business of `Ring`. In `serial_stacks` the constraint `SetUpFirst` keeps
programs that make their channels and goroutines first; the runs with one channel
have no such constraint. Goroutines are symmetric (not used for liveness). The
sync run has no bound but the number of tasks, except `MaxAdds`. The `Capacities`
of `ring` let the head pass the end of the slots any number of times.

In `fat32` five clusters make `ErrFull` happen (the file of two clusters, a
copy of it and a grown directory do not fit), two slots make a directory grow, and three
operations let a cluster be freed, taken again and freed by another. One device
error is all a volume can see before it is poisoned or the operation ends; a
second would only repeat it in a later one. On a device that holds writes back the
constraint `Scope` leaves out directories that grow, see the notes below. In `managed_heap` twelve units hold
three segments, the limit two, so that growth is clipped, refused and possible
again after a sweep; two stores make a chain of two blocks, in either address
order, which a single pass cannot follow. The lease of six ticks in `dhcp` has room for
renewing, rebinding and expiry, and `MaxTime` for a second lease; `MaxXid` bounds
the transactions. Two more links answer in time, one with a next hop to the server, where renewal
starts with ARP, one without. `MCIss` starts the first connection's sequence numbers two below
the wrap, and `Modulus` is more than twice what a connection uses, as 2^32 is.
`MaxUp` and `MaxDown` bound the segments under way; a full network loses the next.

**Deadlock** is not checked where a program may really stop: everybody blocked on
channels or in `Cond.Wait`, the main program ended, nothing left to add, an
unbuffered channel's ring, the operations, ticks or connections of a run used up, a
walk that has ended. It is checked for
`managed_heap`; that nobody waits for ever in `sync` is what its liveness properties
say.

**Fairness.** The runtime is cooperative: a goroutine that has control keeps it
until it blocks or ends. `FairSpec` assumes that the scheduler's loops go on and
that a goroutine in control comes to its next runtime call. The sync modules
assume that who holds a lock, or runs `f`, or owes a `Done`, gets there in the
end, and that a woken task runs (what `serial_liveness` shows, with stacks; the
liveness results of the sync modules are for targets with stacks). Nothing assumes
that a task ever calls `Signal`, `Lock` or `Wait`. `ChainGuard` assumes that the
loop of `release` goes on, which is one call on one thread.

**Findings.** `serial_select_overflow`: `ChanSelect` indexes the ready list with
`selectNext % len(ready)` and never bounds `selectNext`. Where `int` has 32 bits
it turns negative after 2^31 ready selects, the remainder can be negative, and the
index panics. The run shows it with a shorter int; `serial_nested` shows that
wakeups stay right across the wrap.

`fat32_copies`: the comment of `setFAT` says that a partial metadata failure poisons
the mount. An error of a write does, but `setFAT` reads each copy before writing it,
and an error of that read is returned as it is. After the first copy was written
the copies differ and the volume goes on taking writes. `fat32` shows that
the active copy, which is the one read, stays sound all the same.

`dhcp_late`: an ACK dates the lease from `requestStart`, the last request sent. The
requests of one transaction share their number, so an ACK of an earlier one is
accepted too, and if the later one was lost the client counts from a moment after
the server did. `dhcp` shows that without such an overlap the client is never late.

**Noted, without a run.** Without stacks a goroutine that was completed but lies
under one that is still blocked cannot go on. A stream of writers starves readers
of an `RWMutex`; `ReadersGranted` states what remains. The stream endpoint has no
probe for a zero window: a lost update stalls a response until the idle timeout.
In FIN-WAIT-2 a peer that keeps sending keeps its slot. `emptySlot` links a new
directory cluster without a `Sync` after clearing it, which only matters on a
device that reorders writes, against the contract of `block.Device`.

## 5. Proofs

All theorems hold for every value of the constants, under the named assumptions
of the modules: those of `Serial` (`Main \notin Jobs`, capacities are naturals, select
shapes are sequences of cases), of `Ring` (`Zero \in Values`), `SyncAssumption` (the
bounds of the `WaitGroup` program are naturals), `HeapAssumption`, `DhcpAssumption`,
`TcpAssumption` (types and signs of the parameters), `Fat32Assumption` (at least four
clusters, which the file of the first volume takes up with the root, and two slots to a
directory cluster; a FAT32 volume has 65525 clusters and sixteen slots in a sector), and `StreamsShort` and
`NumbersApart` for `Tcp`, see below. TLC evaluates each of them on the instances of
section 4. The bounds (`MaxOps`, `MaxTime`, ...) are constants too, so a theorem holds
for every one of them.

* `SerialProofs`: `TypeCorrect`, `RendezvousCorrect`, `RegistrationCorrect`. Neither
  of the last two invariants is inductive alone: whether a waiter may stay depends on
  the waiters left by others. The inductive invariant `Inductive` joins type,
  rendezvous, registration, `Tickets` (only the cases of one select share a
  ticket, so removing a group removes exactly that operation) and `Bounded` (so
  that a full buffer stays full when a slot is refilled). The proof has one lemma
  per action; that the oldest waiter exists rests on the well-foundedness of the
  naturals. `WakeupsKept` (`NoLostWakeup`) adds `WakeInductive`: the run queue has no
  job twice and none that is under way, the stack of contexts has the shape of its way
  of running goroutines, and with stacks a goroutine that blocks has been switched away from.
  Its second part has `ValuesConserved`, `ServiceOrdered`, `OutcomesAgree`,
  `RefinesGoChannel`. Operations, select cases and closes change a channel in nine
  ways; `StepKinds` shows that every step is one of these effects, and each
  result is then proved effect by effect instead of action by action. The
  refinement maps every step to a step of `GoChannel` or a stutter.
* `RingProofs`: `RingImplementsFifo`, by two lemmas: a push writes a slot that is
  none of those in use, so the contents are appended to; a pop moves the head, so
  the contents lose their first. Both rest on `Wraps`, what `%` does to an index
  below twice the capacity. `RingTypeCorrect`: indices stay in range.
* `MutexProofs`: `MutexExclusion`, `UnlockNeverBlocks`. The strengthening
  `QueueOfOthers` says that receivers are distinct and no holders. The type
  invariant `MutexTypeOK` is a conjunct of the inductive invariant.
* `SyncProofs`, for the programs of `MCSync`: `OnceCallsOnce`, `OnceReturnsAfterCall`,
  `CondListsSleepers`, `CondSignalNeverBlocks`, `RWMutexExcludes`, `RWMutexWakes`,
  `WaitGroupDone`, and `WaitGroupWaits`, an action property. A step of a program is a step of the
  type it uses and leaves the others alone. `Once` needs the exclusion of its own lock,
  which `MutexProofs` provides; `Cond` and `RWMutex` need that their counters are the lengths of
  queues of distinct tasks, which is what makes the wakers' sends find a receiver;
  the loops of `Broadcast`, `RWMutex.Unlock` and `Add` empty such a queue in one step.
* `FatProofs`: `GuardRefusesOnlyLoops`. The checkpoint of the guard is always a
  cluster the walk has accepted (`Remembers`), so meeting it again is a loop.

  `ChainsStaySound`: `SoundChains` holds whenever the device is `Ordered`, i.e. writes through,
  or has not lost power so far. A device that holds writes back may lose the clearing of a
  directory's new cluster and keep the link to it (section 4, notes), so the hypothesis cannot
  be dropped; what remains true of such a device under the constraint `Scope` is the business
  of run `fat32`. The invariant `VolumeInductive` is `Types /\ Tree /\ Phase`. `Tree` says
  that the disk has a `Layout`: owners (the root and every entry) and a chain for each that
  is linked by the FAT from its first cluster to the end-of-chain mark, long enough for the
  size, disjoint from all others, and of slots if it is a directory's. Owners are counted
  behind the end of a directory too, since overwriting an end shows what lies behind it.
  `Phase` says what the commands still queued in each phase will do: a new chain is apart from
  everything owned until its entry is written, a chain is given back only when nothing
  names it any more. A chain is described by its links (`IsChain`) rather
  than by the walk; that the walk finds exactly such a chain is proved once, by the least
  position at which they would differ, and what one changed entry of the FAT does to a
  chain follows from its links. A power failure or a device error at any point leaves a
  disk that has a layout, which is all the next call needs.

  `CallsLeakNothing` (`NothingLeaks`) adds `Tidy`, which holds while no transfer has failed and
  power has not: `Listing` (no entry lies behind the end of its directory, so that what is owned
  can be reached) and `Account`, which names for every phase the clusters that are
  allocated without belonging to an entry: the fresh one, the new chain, the one being
  freed. When the call returns there are none.
* `DhcpProofs`: `AddressInTime`: if no answer is under way when the client
  asks again (`~Overlap`) and every lease is longer than a round trip (`LongEnough`),
  the client never uses an address that the server's count has expired. Without
  `Overlap` excluded this is false, as `dhcp_late` shows; `OverrunBounded` says how wrong it can
  then be: by less than `Delay`. `LeaseInductive` keeps, for each REQUEST and ACK under way
  and for the lease in use, how far the client's `requestStart` and the server's
  moment of granting lie apart. `AddressKept` (`KeepsAddress`, an action property) holds for
  `Suitable` links: where the link is reliable, no other host claims the address, the jitter of a
  pause is bounded, and a lease is longer than the time by which its renewal is under way and four
  message times more. On a link that is not `Routed` the time to ask is that of rebinding, and `Patient` are
  the states, renewing among them, in which nothing is asked yet. Some such condition is needed, as a
  lease shorter than a round trip
  is bound to run out; both reliable links of run `dhcp` are suitable. `KeepInductive` bounds the time
  of probing, says that a lease past its renewal time has its renewal under way, and that
  this message or the one it answers was sent early enough (`Coming`).
* `HeapProofs`: `ReachableStaysAllocated` (`NoDanglingPointer`, also between the steps
  of a collection) and `BlocksTileSegments` (`SegmentsTiled`). The merge is proved from the walk:
  `RunSpanIsGap` says that what it adds up from a block on is the distance to the next live block, as the
  blocks tile the segment. The invariant
  `HeapInductive` has the layout (`Placed`: each block ends where the next or the segment
  ends), and what the phases of `Collect` know: `Traced` says that all a scanned
  block or a root points at is marked, and that a pass without progress has left no
  marked block unscanned behind its cursor, so that the pass that ends without
  progress has closed the marks; `Sweeping` says that segments already swept hold no marks.
  `Kept` is the set of blocks that will be left when the collection under way is over; `Safe`
  says that whatever a root or a kept block holds points into a kept block, so `Reach`, the
  least such set, is kept. Without `Kept` the invariant breaks when a sweep starts, as
  garbage may point at blocks that are already gone. `CollectionReclaims` (`ReclaimsGarbage`, an
  action property) is the other direction: `Justified` says that whatever is marked, or kept
  by the sweep under way, is in every closed set, hence in `Reach`; this needs no path
  to each mark. `HeapWithinBudget` (`WithinBudget`): `Budgeted` carries a table of partial
  sums over the segments (`Totals`), which each growth extends and each release shifts, so that
  `reserved` is always what they add up to.
* `TcpProofs`: `RequestBufferIntact` (`RequestsIntact`) and `StreamDelivered`
  (`DeliveredInOrder`). In the invariant `TcpInductive` whatever a slot, a client or a
  segment holds is a piece of a stream that lies where its sequence number says,
  counted from the initial number of a connection accepted so far (`Part`); the slot's
  own counters agree with it (`Reading`, `Sending`). Sequence numbers wrap, so every
  step rests on `DiffIs`: the signed distance of two numbers that lie less than half of the
  space apart is the distance of the bytes. `StreamsShort` says that a connection uses less than
  half of the numbers, as is true of any stream below 2 GiB. `ReadInductive` adds what a
  client has read. It alone needs `NumbersApart`: a segment of an
  earlier connection must not fit into the numbers of the present one. The code starts
  connections at `now*64000 + serial`, which keeps the numbers of one client's connections apart
  as long as a stream is shorter than 64000 bytes for each millisecond between
  their starts; TCP in general assumes it of its users.

Model-checked only, and why:

* liveness under fairness (`EventuallyRuns`, `LockGranted`, `WokenRelocks`, `DoReturns`,
  `WritersGranted`, `ReadersGranted`, `WaitReturns`, `WalkEnds`): the prover has no
  support for fairness and `ENABLED`;
* `KeepsOldOrNew` of `Fat32`: it compares what a reader sees of every path before and after each
  block write. `Tree` says which clusters an entry has, not that a directory has each name
  once nor which bytes the new chain holds so far; both would have to be carried along;
* `SoundChains` on a device that holds writes back, after a power failure.

## 6. Not modelled

The compiler, its back ends, linkers, emulators and tools are by far the largest
part of the repository. They translate one input into one output in one thread, or do
I/O around that: there is no state for a model checker to explore, and what would
have to be shown, that a translation preserves meaning, is out of reach of small
instances. Generated code, forms and examples likewise; the host variant of
`sync` forwards to Go's library. Of the modelled components the byte-level
encodings are left out: names and checksums of FAT32, options and checksums of the
network protocols, HTTP parsing and formatting, the parsing of the heap limit.
I2C, the input filters and USB HID are in the plan. `PROJECT.json` gives the
reason for each.
