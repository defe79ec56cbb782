------------------------------- MODULE LoadGen -------------------------------
(***************************************************************************)
(* run_direct of examples/loadgen.rs: asks are preloaded into the engine,  *)
(* bids pushed into the ring, all by one thread, and only then popped and  *)
(* matched, some to warm up and the rest measured.                         *)
(*                                                                         *)
(* All orders have one quantity and traders of their own, so a bid fills   *)
(* with exactly one ask, of the best level it reaches, or rests; the book  *)
(* is the number of orders at each level.  The engine is the one of module *)
(* Matching at these inputs and the ring, used by one thread, is the queue *)
(* of module BoundedFifo.  The constants of the program are chosen by Init *)
(* within its own relations: the orders fit the ring and the arena.        *)
(***************************************************************************)
EXTENDS Integers, Sequences, FiniteSetsExt

CONSTANTS MaxOrders,   \* ORDER_COUNT is at most this
          MaxLevels    \* and PRICE_LEVELS this

VARIABLES config,     \* the program's constants
          phase,      \* where run_direct is
          i,          \* the loop variable of the phase
          asks, bids, \* resting orders at each level
          ring,       \* the levels of the bids in the ring, oldest first
          warmup_done, measured_count, fill_count,
          seq,        \* the number of the last report
          refused     \* how many orders the engine has refused

vars == <<config, phase, i, asks, bids, ring, warmup_done, measured_count,
          fill_count, seq, refused>>

\* The ring and the arena have room for the orders, or for one more.
Configs ==
  {c \in [ORDER_COUNT : 1 .. MaxOrders, WARMUP_COUNT : 0 .. MaxOrders,
          PRICE_LEVELS : 1 .. MaxLevels,
          RING_CAPACITY : 1 .. MaxOrders + 1, ARENA_CAPACITY : 1 .. MaxOrders + 1] :
     /\ c.WARMUP_COUNT <= c.ORDER_COUNT
     /\ {c.RING_CAPACITY, c.ARENA_CAPACITY} \subseteq c.ORDER_COUNT .. c.ORDER_COUNT + 1}

Levels == 0 .. config.PRICE_LEVELS - 1

Orders(side) == MapThenSumSet(LAMBDA l : side[l], Levels)

SlotsNeverFreed == Orders(asks) + Orders(bids) + seq

\* Orders in the arena: a filled one has given its slot back.
Occupied == Orders(asks) + Orders(bids)

Init ==
  /\ config \in Configs
  /\ phase = "preload" /\ i = 0
  /\ asks = [l \in Levels |-> 0] /\ bids = [l \in Levels |-> 0]
  /\ ring = << >>
  /\ warmup_done = 0 /\ measured_count = 0 /\ fill_count = 0
  /\ seq = 0 /\ refused = 0

\* The price of the i-th order of a phase.
Price == i % config.PRICE_LEVELS

\* The asks are added; a refused one panics in the unwrap.
Preload ==
  /\ phase = "preload" /\ i < config.ORDER_COUNT
  /\ IF Occupied < config.ARENA_CAPACITY
       THEN asks' = [asks EXCEPT ![Price] = @ + 1] /\ i' = i + 1 /\ UNCHANGED phase
       ELSE phase' = "panicked" /\ UNCHANGED <<asks, i>>
  /\ UNCHANGED <<config, bids, ring, warmup_done, measured_count, fill_count, seq, refused>>

Preloaded ==
  /\ phase = "preload" /\ i = config.ORDER_COUNT
  /\ phase' = "push" /\ i' = 0
  /\ UNCHANGED <<config, asks, bids, ring, warmup_done, measured_count, fill_count, seq, refused>>

\* Whether a push succeeds.
RingHasRoom == Len(ring) < config.RING_CAPACITY

\* A push that finds the ring full is tried again, with nobody to pop.
Push ==
  /\ phase = "push" /\ i < config.ORDER_COUNT
  /\ RingHasRoom
  /\ ring' = Append(ring, Price)
  /\ i' = i + 1
  /\ UNCHANGED <<config, phase, asks, bids, warmup_done, measured_count, fill_count, seq, refused>>

\* drop(producer)
Pushed ==
  /\ phase = "push" /\ i = config.ORDER_COUNT
  /\ phase' = "warmup"
  /\ UNCHANGED <<config, i, asks, bids, ring, warmup_done, measured_count, fill_count, seq, refused>>

\* The levels with an ask for a bid at this one.
Reachable(level) == {l \in Levels : l <= level /\ asks[l] > 0}

\* Whether the next bid in the ring fills.
Fills == Reachable(Head(ring)) # {}

\* The next bid is popped and added to the engine, and its fill encoded.
Match ==
  /\ ring # << >>
  /\ ring' = Tail(ring)
  /\ \/ /\ Fills
        /\ asks' = [asks EXCEPT ![Min(Reachable(Head(ring)))] = @ - 1]
        /\ seq' = seq + 1
        /\ UNCHANGED <<bids, refused>>
     \/ /\ ~Fills
        /\ IF Occupied < config.ARENA_CAPACITY
             THEN bids' = [bids EXCEPT ![Head(ring)] = @ + 1] /\ UNCHANGED refused
             ELSE refused' = refused + 1 /\ UNCHANGED bids
        /\ UNCHANGED <<asks, seq>>

Warmup ==
  /\ phase = "warmup" /\ warmup_done < config.WARMUP_COUNT
  /\ Match
  /\ warmup_done' = warmup_done + 1
  /\ UNCHANGED <<config, phase, i, measured_count, fill_count>>

WarmedUp ==
  /\ phase = "warmup" /\ (warmup_done = config.WARMUP_COUNT \/ ring = << >>)
  /\ phase' = "measure"
  /\ UNCHANGED <<config, i, asks, bids, ring, warmup_done, measured_count, fill_count, seq, refused>>

Measure ==
  /\ phase = "measure"
  /\ Match
  /\ measured_count' = measured_count + 1
  /\ fill_count' = fill_count + IF Fills THEN 1 ELSE 0
  /\ UNCHANGED <<config, phase, i, warmup_done>>

Measured ==
  /\ phase = "measure" /\ ring = << >>
  /\ phase' = "done"
  /\ UNCHANGED <<config, i, asks, bids, ring, warmup_done, measured_count, fill_count, seq, refused>>

Next ==
  \/ Preload \/ Preloaded \/ Push \/ Pushed
  \/ Warmup \/ WarmedUp \/ Measure \/ Measured

\* One thread, which keeps running.
Spec == Init /\ [][Next]_vars /\ WF_vars(Next)
-----------------------------------------------------------------------------
\* The engine refuses no order, although bids come to rest while asks are
\* still there and the arena may be no larger than the preloaded asks: at
\* every moment the bids have freed at least as many slots as they took.
NothingRefused == refused = 0 /\ phase # "panicked"

\* The printed results agree with the book: "Orders resting", which is
\* computed as measured_count - fill_count, with the warm-up bids that rest
\* makes all the bids in the book.
ResultsMatchBook ==
  phase = "done" =>
    /\ (measured_count - fill_count) + (warmup_done - (seq - fill_count)) = Orders(bids)
    /\ measured_count + warmup_done = config.ORDER_COUNT
    /\ fill_count <= measured_count /\ seq - fill_count <= warmup_done
=============================================================================
