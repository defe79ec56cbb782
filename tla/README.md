# Ferrox in TLA+

A verification project for Ferrox, an order matching engine in Rust. It models
the program's own logic in TLA+, model-checks it with TLC on small instances,
and proves the central results with TLAPS for every instance. Paths such as
`ring.rs` are relative to the repository's `src/`.

## 1. The system

Two threads and some files:

    TCP client -> ingestion thread -> ring buffer -> matching thread -> UDP reports
                                                        |    |
                                               write-ahead   engine: book, levels, arena
                                               log, snapshots

The ingestion thread decodes commands and pushes them into a lock-free ring. The
matching thread pops a command, appends it to the log, executes it on the engine,
sends a report for each fill, and now and then saves a snapshot of the book. On
start the engine is rebuilt from the newest good snapshot and the log after it.

### Inventory

| Part | State | Operations | Hard to get right | Correct when |
| --- | --- | --- | --- | --- |
| Ring (`ring.rs`) | slots, two atomic cursors, each side's cached cursors | `push`, `pop`, drop of a handle, drop of the buffer | interleaving, stale loads, memory order, wraparound, the last drop | no race, each value owned once, a bounded FIFO queue |
| Arena (`arena.rs`) | nodes, free list, counts; per level head, tail, count, quantity | `alloc`, `dealloc`, `push_back`, `pop_front`, `remove` | links between lists, exhaustion, overflow of the quantity | the lists partition the nodes; levels agree with their queues |
| Book (`book.rs`) | level maps, cached best prices, id index | `insert_order`, `cancel_order`, `reduce_front_quantity`, `peek_front`, `all_resting_orders` | four redundant structures kept in step | index exact, best prices right, book not crossed |
| Engine (`matching.rs`) | book, buffer of fills | `add_order`, `cancel_order`, `restore_from_orders` | errors after trades, self-trade in mid-sweep, termination | price-time priority; every trade reported |
| Log (`wal.rs`) | mapped file, `write_pos`, `mapped_size`, `record_count` | `open`, `append`, growth, iteration, `truncate_to` | a crash between any two writes, leftovers of earlier runs | what is recovered is what was appended |
| Snapshots (`snapshot.rs`) | files named by record count | `capture`, `save`, `load_latest`, `restore` | which file is newest, checksum, order of orders | a restored book equals the captured one |
| Recovery (`recovery.rs`) | engine and log being rebuilt | `recover` | snapshot and log of different lengths | the state equals a replay of the log |
| Gateway (`gateway.rs`) | shutdown flag, sequence number, commands since the snapshot | `handle_client`, `process_command`, `matching_loop`, `run` | shutdown race, ignored errors, back-pressure | no command lost; logged before executed |
| Feed (`examples/subscriber.rs`, `relay.rs`) | expected sequence number | receive | loss, repetition, reordering, wrapping numbers | the gaps logged are the reports lost |
| Protocol (`protocol.rs`) | none | encode, decode | reused buffers, ends of the ranges, fields that are not carried | decoding inverts encoding |
| Allocation counter (`alloc_track.rs`) | flag, three counters | `alloc`, `dealloc`, `start_tracking`, `stop_tracking` | relaxed atomics, late additions | counts the measured calls |
| Load generator, ring benchmark (`examples/`) | loop counters, sockets | `run_direct`, `run_tcp`; `run_u64`, `run_order`, `run_latency` | a thread that only pushes, spinning, a timeout | ends; its figures agree with the engine |

`PROJECT.json` lists the hazards line by line, with the properties that cover
each.

## 2. Modules

| Module | Models | Role |
| --- | --- | --- |
| `BoundedFifo` | what the ring promises | abstract specification |
| `Ring` | `ring.rs` | detailed specification, refines `BoundedFifo` |
| `Arena` | `arena.rs` | operators on the node pool |
| `ArenaProofs`, `QueueProofs` | | lemmas about lists of nodes, and about where every node is |
| `OrderBook` | `book.rs`, `order.rs` | state and operations of the book, over `Arena` |
| `BookProofs` | | lemmas about the operations of the book |
| `Matching` | `matching.rs`, capture and restore of `snapshot.rs` | the engine, over `OrderBook` |
| `PriceTimeBook` | what the engine promises | abstract specification |
| `MatchingRefinement` | | the mapping under which `Matching` refines `PriceTimeBook` |
| `MatchingProofs`, `PriceTimeProofs` | | theorems about `Matching`, and about the refinement |
| `MCMatching`, `MCPriceTimeBook` | | small instances; the second also defines price-time priority without a loop |
| `DurableLog` | what the log promises | abstract specification |
| `Wal` | `wal.rs`, crashes, damage | detailed specification, refines `DurableLog` |
| `WalProofs` | | theorems about `Wal` |
| `Protocol`, `Codec` | `protocol.rs` | encoders and decoders as operators; a buffer they reuse |
| `Session` | reading in `handle_client` | byte stream to commands, over `Protocol` |
| `MCWire` | | small instance of `Session`, `Codec` and `Feed` |
| `Gateway` | `run`, `handle_client`, `matching_loop` | both threads, extends `Ring` |
| `GatewayProofs` | | theorems about `Ring` and `Gateway` |
| `Engine` | the engine at one price, as a function | what `MCRecovery` replays; checked against `PriceTimeBook` |
| `Recovery`, `MCRecovery` | `recovery.rs`, `snapshot.rs`, logging in `gateway.rs` | persistence, for any engine; with `Engine` for TLC |
| `Feed` | reports: `gateway.rs`, `relay.rs`, `subscriber.rs` | two hops of datagrams |
| `ServiceProofs` | | theorems about `Recovery`, `Codec` and `Feed` |
| `AllocTrack` | `alloc_track.rs` | counters and their users |
| `LoadGen`, `LoadTcp` | `run_direct`, `run_tcp` of `loadgen.rs` | the two modes of the load generator |
| `RingBench` | `ring_throughput.rs` | composed with `Ring` |
| `Measurement` | `main` of `loadgen.rs` | which of the last four modules runs |

How they fit together: `Session` delivers commands, `Gateway` carries them through the ring
to the matching thread, `Recovery` says what processing one does to the log, the
snapshots and the book, `Matching` what it does inside the engine, and `Feed` follows the
reports out. Each boundary is one fact of a module used by the next: `Gateway`
extends `Ring` and `RingBench` instantiates it; `Recovery` uses that `Wal` recovers a prefix of the records
appended (`ImplementsDurableLog`), and `MCRecovery` an engine that `price_time`
compares with `PriceTimeBook`.

### Ring

`push` is three or four steps: the check against the cached tail (`PushBegin`), the
reload and second check (`PushReload`), the slot write, the store of `head`; `pop`
is the mirror image. Dropping each handle is a step, and the drop loop of the
buffer is one step per slot. The cached copy of a side's *own* cursor always equals
the cursor and is not a variable.

Memory order is modelled by what it allows. A load of the other side's cursor
returns any value it has held since this side's last load. An acquire load of a
released cursor moves `knownHead` or `knownTail`, the point up to which the other
side's slot accesses happen before what follows; an access beyond it is a data race,
and `NoDataRace` says there is none. Cursors live modulo `Capacity * Laps`, as `usize`
cursors live modulo 2^64, a multiple of every power of two. The mapping to the queue
keeps a value that was read but not yet released in the queue until `tail` is stored.

### Arena, book and engine

`Arena` is a set of functions, so that an operation of the book is one action built
from them. Bids and asks are the two entries of `levels` and `best`; the duplicated
code for the sides is one definition. `add_order` is split at its loop: `AddOrder`
enters it, `Fill` is one iteration, and `FullyFilled`, `CancelledSelfTrade`, `RestOrder`
and `RejectOrder` are the ways out. `RejectOrder` is the `?` after `insert_order`.
`CaptureAndRestart`, `RestoreInsert` and `RestoreDone` are a snapshot restored into
a new engine of the same capacity. There is no action for a failed restore: if an
insert could fail there, the checked deadlock freedom would fail.

Left out: timestamps (carried, never read by the book), the taker's id in a fill
(constant during a call), and the content of freed nodes (overwritten before it is
read). `PriceLevelNotFound`, `FillExceedsQuantity` and a missing front order cannot
occur while `LevelsWellFormed` and `BestIsBest` hold, so they have no action.
The aggregate quantity of a level is kept modulo `QtyModulus`, the release build's
wrapping arithmetic.

The refinement maps each level to the sequence of its orders. Arena, index and cached
prices disappear, so `ImplementsPriceTime` says that they never influence a trade.

### Log

A new-order record takes 48 bytes and a cancel 24, so the file is a sequence of
24-byte cells. `append` writes the length, the checksum and the payload in steps of
their own, and `open` changes the length of the file in steps of its own; `ProcessDies` is
possible between any two. The file survives and the fields of `Wal` do not: this is
a crash of the process, the failure the repository claims to handle
(`docs/VERIFICATION.md` claims nothing for power loss). A checksum is taken to be
right exactly for a record written completely and unchanged. `AppendFails` covers
both failures of `ensure_capacity`, with the file already extended or not. `Corrupt`
changes or cuts the closed file, as `tests/crash_recovery.rs` does.

`truncate_to` zeroes one cell per step before it moves the end of the log (`TruncateBegin`,
`ZeroCell`, `TruncateReturns`), and a crash may come in between.

The records are multiples of 8 bytes, so the padding branch of `append` never runs.
Recovery calls `truncate_to` only for an error of the iterator, and `IteratorAgrees` shows
that after `open` there is none; in `Wal` it may be called at any time.

### Protocol and session

`Protocol` writes and reads each field at its offset and width, little-endian, with two's
complement for prices. Only the base is changed: a byte has `Byte` values, 4 in the runs,
which keeps the numbers within TLC's integers and the structure of the layout intact.
`decode_new_order` returns timestamp 0, as the code does. `Codec` encodes messages of
all kinds into one buffer. In `Session` the client's messages are bytes on a wire;
`Deliver` extends what has arrived by any amount, `Disconnect` ends the connection in
one of the three ways the code tells apart, and `ReadSome`, `DecodeMessage` and `ReadFails`
are the loop of `handle_client`. `MCWire` puts the two and `Feed` side by side for one run; they
share no state, so `Codec` and `Feed` take their steps only beside a client that sends nothing,
each with the other in its initial state.

### Gateway

`Gateway` extends `Ring`: the values in the ring are the numbers of the commands, and every push and pop takes the
ring's steps, stale loads included. `runPc` is the position in `run` and `handle_client`:
`Spawn`, `BindListener`, `Accept`, `ReadCommand`, `PushCommand` (retried while the
ring is full), `ClientLeaves` or `ClientFails`, `StoreFlag` (the store of `handle_client` and
the one of `run`), `Join`. `loopPc` is the position in `matching_loop`. The load of the flag may
return an old value; one that returns the new value is an acquire, after which `PopCommand`
sees the final head. `Panics` are the commands whose processing may panic: the thread
unwinds, drops the consumer and is noticed only by `Join`.

### Recovery

The state on disk is the log as a sequence of records and a function from record counts to
snapshot files. A command is `LogCommand` or `SkipLog` (no log, or a failed append, which
the code ignores), `Apply`, and when one is due `Save` or `SaveFails`; `Crash` is possible between
any two. `RecoverBegin` picks the file `load_latest` would, `ReplayRecord` is one
iteration of the replay, `RecoverDone` starts the loop, and `RecoverFails` and
`ReplayForeign` are the errors `run` answers with an empty book and no log. The
constant `Faults` switches failing appends and saves, failing recoveries, damaged snapshots, a
log cut above or below the newest snapshot, and records that do not decode. The
engine is a parameter `Execute`, of which `TimestampBlind` says that it ignores timestamps;
TLC evaluates that assumption for the engine of `MCRecovery` over all its books.
There are two history variables: `reference`, the books of a fresh engine fed the log, and `base`, the
length of the log at the last start or failed save. A file name is its digits, in base
`NameBase` padded to `NameDigits`, compared as text.

### Feed

`Report` numbers and sends a fill, `Relay` forwards, `Receive` is one iteration of the
subscriber; `MulticastFault` and `UnicastFault` lose, double, swap or shorten
datagrams of a hop and `Restart` sets the sender's number to zero. A report also carries its
place in the stream, for the properties only; place 0 is a datagram too short to decode.
`restarted` is a history variable.

### Measurement programs

`AllocTrack` has one step per access to an atomic; a relaxed load of `TRACKING` by a
thread other than the one that stores it returns any value it has had. `LoadGen` and `LoadTcp` choose the
program's constants in `Init`, within the relations the code's own values satisfy. All
orders have one quantity and their own trader, so an order fills with exactly one other or rests, and a
count per level is the book. `RingBench` runs the benchmark's loops on the ring's steps.
`Measurement` is their union for one run: `which` is the program that runs, and the
variables of the others stay `Off`.

## 3. Runs

| Run | Checks | Distinct states |
| --- | --- | --- |
| `ring` | types, ownership of slots, no data race, clean drop, bounded FIFO | 56,800 |
| `matching` | arena partition, levels, index, best prices, not crossed, exact restore, price-time book | 160,736 |
| `matching_full` | running out of nodes never refuses an order that has traded; calls and restores return | 105,860 |
| `price_time` | the matching loop against a loop-free definition; fills are the trades; `Engine` agrees | 232,656 |
| `wal` | mapping backed, zero beyond the end, scan and iterator agree, acknowledged survives, durable log | 515,710 |
| `wire` | decoding inverts encoding, nothing of an earlier message stays in a buffer; exactly the messages that arrived whole are decoded, and `handle_client` returns; the gaps a subscriber logs are the reports lost | 568,353 |
| `gateway` | commands executed in order, none left at shutdown, all executed unless the matching thread panics, `run` returns | 1,558 |
| `recovery` | the book is that of the log; snapshots match their counts; the newest is loaded; a running gateway's snapshots keep up | 895,176 |
| `measurement` | reported results are right, statistics contain the measured calls and at most the overlapping ones, the programs end | 302,262 |
| `matching_refused` | *violated*: an order refused with an error has not traded | |
| `wal_damage` | *violated*: damage loses at most one acknowledged record | |
| `recovery_replay` | *violated*: a restart replays at most one interval of records | |

**Bounds.** `ring`: 4 slots and a modulus of 8, so every cursor wraps while the ring
is in any state of filling; two values tell orders apart; nothing else is bounded.
`matching`: 3 nodes, 3 ids, 2 prices, 2 traders and quantities up to 2. Three nodes
give a list with a head, a middle and a tail; two prices give a better and a worse
level; a quantity modulus of 3 makes level quantities overflow. The state space is
finite without further bounds: command sequences of any length are covered.
`matching_full` has 2 nodes for 3 ids. Ids and traders are only compared for
equality, so permuting them is sound; `matching_full`, which checks liveness, uses no symmetry.
`price_time`: all uncrossed books of up to 3 orders of quantity up to 2, against any
order of quantity up to 4, which can sweep all three or stop at any of them.
`wal`: an initial mapping of 2 cells, 4 commands, one act of damage and one `truncate_to`,
enough to grow twice, to crash repeatedly in every place, and for an old
record to line up with a new one. `MaxSerial`, `MaxDamage` and `MaxTruncate` are bounds of
the model. `wire`: every field at both ends of its range; two messages of four kinds (an
order, an order of quantity zero, a cancel, a type the gateway does not know), cut anywhere; 4
reports over a modulus of 3, so that the number wraps and a whole cycle of it can be lost, two
datagrams per hop and 3 reports printed, so that a loss can follow a repeated or late report.
`gateway`: a ring of 2 slots and 5 commands, so that it fills, empties and wraps; every
interleaving of the shutdown with pushes and pops; panics at the first, third or fourth
command, before, at and after the wrap. `recovery`: 4 commands, 3 starts, an interval of 2:
two snapshots to choose from, a crash in a recovery after a crash; `recovery_replay` is the same
without faults. `measurement`: up to 12 orders and 5 levels in the direct mode, up
to 6 orders, 3 levels and every size of the buffers in the TCP mode; 6 values through 2
slots; two measurements of allocations, one other thread and two calls each, so that a
late addition of the first measurement falls into the second.

**Fairness.** `matching_full`: weak fairness of the steps inside a call; the matching thread
runs the loop without waiting for anyone. `wire`: weak fairness of the reader's steps; the
network is not fair. `gateway`, and the ring benchmark in `measurement`: both threads are
scheduled (weak fairness), and a thread that loads a location again and again sees the
store in the end (strong fairness of the loads that return the newest value), as the memory
model asks of an implementation. The client is not fair: it may never leave. The direct
mode of the load generator is one thread; the TCP mode has two that are scheduled.

**Deadlock** is checked except where the program or its bounded input ends: `ring` once both
handles are dropped, `price_time` with the answer to its order, `gateway` and
`measurement` when the program returns, `recovery` and `recovery_replay` when the commands and
starts are used up.

Each property comes with a variant of an operation, such as `OpenKeepTail` or
`DeallocLosesRest`, that contains a plausible mistake and violates it. The variants
are not part of any specification.

### What the violated runs show

* `matching_refused`. `add_order` notices a duplicate id only on inserting what is
  left of the order, after it has traded. The error carries no fills and the gateway
  sends reports only for `Ok`, so the trades stand unreported, where
  `docs/SYSTEM_DESIGN.md:142` has a report for each trade. The other late error,
  `ArenaFull`, cannot follow a trade, as `matching_full` checks.
* `wal_damage`. The log ends at its first bad record, so one damaged record costs
  all that follow. `docs/SYSTEM_DESIGN.md:360` promises "at most one order lost" for
  power loss and disk failure.
* `recovery_replay`. With no fault but a crash, a restart replays more records than an interval.
  The loop that drains the ring at shutdown (`gateway.rs:205`) does not count its commands
  towards a snapshot, and the counter starts at zero with each process (`gateway.rs:178`),
  whatever lies beyond the newest snapshot. TLC's trace is of the first kind; without `StartDrain`
  it finds one of the second, a crash after one command and another after two more.
  `docs/SYSTEM_DESIGN.md:342` says "worst case replays 10,000 orders", one interval.

### What does not hold, and is assumed

The properties of `Recovery`, `Gateway` and `Feed` come with conditions. Each stands for something
the code does differently from a document or a comment:

* *No append fails.* `process_command` ignores a failed append, so a command can be executed
  and reported and be gone after a crash, where `docs/SYSTEM_DESIGN.md:293` has every order
  on disk first. With `"append"` among the `Faults` of `MCRecovery.cfg`, TLC finds
  `BookIsReplay` violated.
* *The log is not cut below a snapshot.* `recover` does not compare a snapshot's record count
  with the log. If damage cuts the log below it, the book is not that of the log, and the
  records appended next are skipped by the recovery after, where `tests/crash_recovery.rs:7`
  asks for the book of the surviving prefix "whether or not a snapshot was used". With `"cut"`
  among the `Faults`, TLC finds `SnapshotsArePrefixes` violated and, checked alone,
  `BookIsReplay`.
* *Books are compared without timestamps* (`Strip`). Log records carry none;
  `docs/SYSTEM_DESIGN.md:317` and `:344` call the recovered state identical and bit-exact.
* *`wal_on`.* When recovery fails, `run` starts with an empty book and no log, although
  `recovery.rs:90` says "starting with a guessed book is worse than not starting". What
  holds is that such a process leaves the disk alone.
* *`SnapshotsKeepUp` is about one process that is not draining*, and counts from its start or last
  failed save when that is later than the newest intact snapshot. It bounds what one process
  adds; the replay after several has no bound, as `recovery_replay` shows.
* *Names within the padding.* `LatestIsNewest` fails once a count has more digits than the name
  is padded to (`NameDigits = 1` shows it; in the code it takes 10^10 records), where
  `snapshot.rs:106` says that sorting puts the most recent last.
* *`ReceivedIsExecuted` excepts a panic.* With the matching thread gone, a push into a full ring is
  retried for ever, and the panic is seen only by the join behind it.
  `docs/SYSTEM_DESIGN.md:336` says orders are delayed, not dropped.
* *`GapsExact` charges a cycle for each repeated or late report.* The subscriber has no case for a
  number below the expected one: it prints the report and logs a gap of almost 2^32, where
  `docs/SYSTEM_DESIGN.md:281` has it discarded. The property says that this is all it costs. Restarts
  are excepted: numbers start over with the process, where `:273` has them increase.

## 4. Proofs

### Ring and gateway

`GatewayProofs` proves, for every `Capacity > 0`, `Laps > 1`, set of values and with the
cursor cache on or off (`RingAssumption`):

* `TypeCorrect`: `Spec => []TypeOK`
* `RaceFree`: `Spec => []NoDataRace`
* `Ownership`: `Spec => []SlotOwnership`
* `DropClean`: `Spec => []DropLeaksNothing`
* `Refinement`: `Spec => ImplementsFifo`

None of these is inductive alone. The inductive invariant is
`TypeOK /\ CursorInv /\ SlotInv`. `CursorInv` says that the cached tail, the tail, the
cached head and the head come in this cyclic order within one capacity, and that each
side is synchronised with exactly the cursor it loaded. `SlotInv` says which slots own a
value: those from the oldest cursor to the head, give or take the one slot each side is
working on. The lemmas before it are about wrapped arithmetic: adding one to a cursor,
what a stale load can return, and that cursors less than a capacity apart use
different slots. That needs the modulus to be a multiple of the capacity. At least two
laps are assumed so that a full ring and an empty one differ; on a 64-bit machine
there are 2^64 / capacity.

The refinement proof follows the content of the ring as a sequence. `PushPublish` appends to it,
`PopPublish` and `DropSlot` remove its first element, the drop of the second handle is
`Close`, and every other step leaves it alone (`StepContent`).

The same module proves two theorems about the two threads, for every number of commands, every
set of them that may panic (`GatewayAssumption`) and every ring as above:

* `ExecutesInOrder`: `GatewaySpec => []ExecutedInOrder`
* `NothingIsLeft`: `GatewaySpec => []NothingLeftInRing`

The invariant is that of the ring with `GatewayInv`, which relates the threads to the content of
the ring. `OrderInv` says that the commands executed, the one taken out and not yet executed, and
those in the ring are together the commands published so far, in order. `HandlesInv` says
where each thread can be in its half of the ring. `ShutdownInv` is the argument for the shutdown:
the flag is stored after the last push, a loop that has seen it loads the final head,
and so the ring it finds empty stays empty. `ThreadsUseRing` shows that each step of a thread is a
step of the ring, except for the return of `run` before the threads start (`UdpFails`), which
frees both handles at once; what the other steps do to the content is then `StepContent`. Both
results are about the ring's own steps and stale loads, not about the abstract queue.

### Arena, book and engine

Five modules, each extending the one before, end in nine theorems about `Matching`, the last in
`PriceTimeProofs` and the others in `MatchingProofs`, for every capacity of the arena, width of a
quantity, finite set of prices, and sets of ids and traders:

* `EngineTyped`: `Spec => []TypeOK`
* `NodesPartitioned`: `Spec => []ListsPartitionArena`
* `QueuesWellFormed`: `Spec => []LevelsWellFormed`
* `IndexAgrees`: `Spec => []IndexExact`
* `BestPricesRight`: `Spec => []BestIsBest`
* `NeverCrossed`: `Spec => []NotCrossed`
* `ArenaFullIsClean`: `Spec => []ArenaFullTradesNothing`
* `RestoredAsCaptured`: `Spec => []RestoreExact`
* `PriceTimeImplemented`: `Spec => ImplementsPriceTime`

They rest on `ArenaAssumption` and `BookAssumption` (the sizes are numbers, prices are integers
and finitely many) and on what the markers are: what stands for "no price", "no order"
(`MarkerAssumption`), "no level" and "no snapshot" (`SnapshotAssumption`) is not a price, an
order, a level or a snapshot, as `None` is not `Some`.

*Lists.* The links of the arena mean something only as whole lists, so the invariant says
which sequences they spell. `Linked(st, s)` says that the nodes of `s` are distinct and joined
by `next`, and `IsQueue` adds the back links and that the orders are of one side and price;
`LevelOf` is the level that describes a queue. `ArenaProofs` shows what `push_back`, `remove`,
`alloc`, `dealloc` and a reduction do to such a sequence, the head, the middle and the tail
alike. What the recursive functions compute (`Chain` follows the links, `Total` adds up
the quantities, modulo the width) is proved by induction over the naturals, stated for
sets (`SetInduction`), and from the existence of a solution of a finite recursion
(`FiniteRecursion`).

*Placement.* `Placed(a, free, q)` in `QueueProofs` says where every node is: `free` is the free
list, `q[side][price]` are the queues, and each node is on the list its order calls for, an
empty one on the free list. Lemmas `Place`, `Unplace` and `Reduce` show that an insertion,
a removal and a reduction move or change one node and leave the other lists alone. That the
lists are disjoint needs no clause of its own: a node's order has one side and one price.

*The book.* `BookInv` in `BookProofs` is `Arranged /\ Positive /\ Indexed /\ Bests`: there are
such lists and the levels describe them, no resting order is used up, the index is exact, the
best prices are right. It is inductive, and its parts need each other: that a level is removed with
its last order needs the count of the queue, that the order of an indexed id can be found needs
the placement, that the next best price is right needs the levels.
`InsertKeeps`, `CancelKeeps` and `ReduceKeeps` carry it over the three operations, and
`PartitionHolds`, `WellFormedHolds` and `BookTyped` draw the run's invariants from it.

*The engine.* `MatchingInv` adds what holds between the steps of a call. `FullInv` is the
argument for `ArenaFullTradesNothing`: a taker with trades and something left has freed its
last maker's node. `RestoreInv` says that a snapshot's orders do not cross and that the
restored book has levels only at their prices, without which `NotCrossed` would not
survive a restore.

*Restore.* `ReplayInv` in `MatchingProofs` says that the snapshot lists the queues of some book
and that each queue of the restored book has those of the first `restored` orders that belong
in it, in that order (`Belonging`). `AllFromIs` shows that the queues can be read off the
list of all orders, whatever the number of levels; with it a completed replay has the
captured queues, and so lists the captured orders and has the captured best prices.

*Refinement.* Each action of the engine is a step of `PriceTimeBook` (`FillImplements`,
`RestImplements`, `CancelImplements`, `CaptureImplements`, `AnswersImplement`), and a step of a
restore is one it does not see (`RestoreStutters`), as the queues of the abstract book are then
those of the snapshot. `CrossingIs` shows that the cached best price gives the maker the
queues call for, `RestingIdsAre` and `FullIs` that the index and the free list give
its answers; the latter counts, by a bijection of the places in the queues with
the nodes that hold orders (`PlacesAreNodes`).

### Log

`WalProofs` proves of the log, for every initial size of the mapping and any number of
commands, truncations and acts of damage (`WalAssumption`):

* `MappingStaysBacked`: `WalSpec => []MappingBacked`
* `ZerosBeyondEnd`: `WalSpec => []ZeroBeyondEnd`
* `IteratorMatchesScan`: `WalSpec => []IteratorAgrees`
* `AckedAlwaysSurvive`: `WalSpec => []AckedSurvives`
* `WalRefines`: `WalSpec => ImplementsDurableLog`

They rest on one inductive invariant, `WalInv` (theorem `WalInvariant`). `FieldsInv` and `ScanInv`
relate the fields of `Wal` to the file and to what a scan of it would find, at each point of each
call; `TailInv` gives the cells beyond the log: those the record being appended has written, then
zeros; `SerialInv` says that no record is of a later command, and that the record just completed is
the current one, so that it is added once; `AckedInv` is `AckedSurvives` with what a truncation has
decided to keep. The first three need each other. A record becomes readable with its last write
and not before, because the cells around it are zero; and they are zero because every earlier
`append` ended at the end of the log.

What `scan_records` and the iterator compute is the other half of the proof. Both are recursive
functions over the file, so `ScanEquations` and `IterateEquations` first show that the recursions
have a solution (`UpwardRecursion`, by induction over the distance to the end of the file). A *walk* is
a sequence of records with their offsets, each valid and starting where the one before ends;
`ScanIs` shows that the scan returns the one walk from 0 that cannot be continued, and `IterateIs`
that the iterator yields what follows the first `start_record` of it. `WalkStays`, `WalkGrows` and
`WalkShrinks` say what a change of the file does to the walk: nothing when the cells it covers stay, one
record more when the next becomes valid, a prefix when any cell is zeroed, damaged or cut off.
Each action then has a lemma that gives the invariant and the step of `DurableLog` at once.

### Recovery

`ServiceProofs` proves three theorems about `Recovery`, for every engine, set of commands, interval, number of
starts and file-name padding. They rest on `RecoveryAssumption` and on `TimestampBlind`.

* `RecoveryExact`: if `"append"` and `"cut"` are not among the faults, `Spec => []BookIsReplay`
* `SnapshotsExact`: under the same condition, `Spec => []SnapshotsArePrefixes`
* `SnapshotsInTime`: `Spec => []SnapshotsKeepUp`, with any faults

With either of the two faults left in, the first two do not hold (section 3).

None of these is inductive: a crash forgets the book, and what is right in the middle of
a command or of a replay is something else. `DiskInv` says that the log, the reference
books and the snapshots hang together: each reference book is the one before with one more
record, and each snapshot is the reference book of its count. `EngineInv` gives the
book at every position: during a replay it is the reference book of the records read so
far, and after logging it is the one that becomes the last reference book when
the current command is executed. Lemmas `ExtendDisk`, `SaveDisk`, `CorruptDisk` and `CutDisk`
carry `DiskInv` over the four ways the disk changes. The order of the file names plays
no part: any intact snapshot would do. `SnapshotsInTime` has an invariant of its own
(`CounterTypes /\ CounterInv`): the counter of `matching_loop`, with the record just logged, covers
every record beyond some intact snapshot or `base`, and it is below the interval except
where a save follows.

### Feed and protocol

`ServiceProofs` also proves `GapsCounted`, `FeedSpec => []GapsExact`, for every modulus above 1 and
every combination of faults (`FeedAssumption`). Its invariant adds that everything in flight is
a report with a number below the modulus (`Types`) and `Numbered`: until the gateway is restarted a
report's number, at the sender, in a hop and at the subscriber, is its place in the stream,
wrapped. `NextTypes` and `NextNumbered` carry these through losing, doubling and swapping
in a hop. `PrintOne` says what one more report printed does to the steps and the setbacks, and
`GapLogged` that the gap logged for it is the distance of the two places, plus a cycle when it
is a setback (`WrappedDistance`).

`EncodingIsCanonical`, `CodecSpec => []Canonical`, holds for every number of values of a byte.
What the buffer held is quantified over: two buffers of the same length agree after the fill
(`FillSame`), every write keeps them in agreement (`WriteSame`), so each encoder gives the same
bytes from both (`EncodersSame`). The invariant is the length of the buffer. `CodecSpec` is the
part of `MCWire`'s specification that is about the buffer.

### Only model-checked

* Liveness (`CallsReturn`, `ReturnsAfterDisconnect`, `RunReturns`, `ReceivedIsExecuted`,
  `ProgramsEnd`): fairness is outside the prover's reach.
* `LatestIsNewest` and the round trip of the protocol: both are about powers of a base, which the
  prover's arithmetic does not know.
* `PriceTimePriority`, `FillsAreTrades`, `EngineAgrees`: they compare the matching loop with
  recursive definitions in modules that only TLC uses.
* The framing of a session (`FramesExact`), which rests on that round trip, and the measurement
  programs (`ResultsRight`, `StatsBounded`).

## 5. Not modelled

* `metrics.rs` wraps the hdrhistogram crate and has no state or control of its own; `main.rs`
  and `lib.rs` build a configuration and call `gateway::run`.
* The fuzz targets, `verify/ring-standalone`, the unit and integration tests and
  `scripts/` drive the code modelled here.
* The C++ ring and the criterion benchmarks are not part of the engine.
* Of the load generator and the ring benchmark: clocks, pinning, statistics, printing.
* Time. `handle_client` reads a clock for an order's timestamp, and nothing compares it.
* Power loss: which pages of the mapped file reach the disk is up to the kernel.
* The rest of `run` when `bind` or `accept` fails after the matching thread was spawned
  (`ListenerFails`): the thread polls until the process ends, and no property is about it.

## 6. Open

Proofs about the framing in `Session` and about `AllocTrack`.
