------------------------------ MODULE OrderBook ------------------------------
(***************************************************************************)
(* The limit order book of src/book.rs: a map of price levels per side, a  *)
(* cached best price per side, and an index from order ids to arena nodes. *)
(* The two sides of the code (bids, best_bid and asks, best_ask) are the   *)
(* two entries of the functions levels and best.  An operation that can    *)
(* fail is an action for the case it succeeds in, and a condition for each *)
(* error the matching engine can meet.                                     *)
(***************************************************************************)
EXTENDS Arena

CONSTANTS Ids, Traders, Prices, MaxQuantity,
          NoLevel,   \* a price without a level in the map
          NoPrice    \* Option::None of a best price

ASSUME BookAssumption ==
  /\ Prices \subseteq Int
  /\ MaxQuantity \in Nat \ {0}
  /\ NoPrice \notin Prices
  /\ IsFiniteSet(Prices)

Sides == {"Bid", "Ask"}
Opposite(side) == IF side = "Bid" THEN "Ask" ELSE "Bid"

\* order.rs: Order, without the timestamp, which the engine only carries.
Orders == [id : Ids, trader_id : Traders, side : Sides, price : Prices,
           quantity : 1 .. MaxQuantity]

\* What is left of an order, down to nothing.
Takers == [id : Ids, trader_id : Traders, side : Sides, price : Prices,
           quantity : 0 .. MaxQuantity]

VARIABLES arena, levels, best, order_index

bookVars == <<arena, levels, best, order_index>>

\* Whether price p is nearer the other side of the book than q.
Better(side, p, q) == IF side = "Bid" THEN p > q ELSE p < q

\* The prices that have a level.
Keys(side) == {p \in Prices : levels[side][p] # NoLevel}

\* keys().next_back() of the bids, keys().next() of the asks.
BestOf(side, keys) ==
  IF keys = {} THEN NoPrice
  ELSE CHOOSE p \in keys : \A q \in keys \ {p} : Better(side, p, q)

\* OrderBook::with_capacity.
EmptyBook ==
  /\ arena = NewArena
  /\ levels = [s \in Sides |-> [p \in Prices |-> NoLevel]]
  /\ best = [s \in Sides |-> NoPrice]
  /\ order_index = [id \in Ids |-> ARENA_NULL]

ResetBook ==
  /\ arena' = NewArena
  /\ levels' = [s \in Sides |-> [p \in Prices |-> NoLevel]]
  /\ best' = [s \in Sides |-> NoPrice]
  /\ order_index' = [id \in Ids |-> ARENA_NULL]
-----------------------------------------------------------------------------
(* insert_order *)

DuplicateOrderId(o) == order_index[o.id] # ARENA_NULL
ArenaFull == Exhausted(arena)

BestAfterInsertLast(side, price) == price

\* update_best_after_insert.
BestAfterInsert(side, price) ==
  IF best[side] = NoPrice \/ Better(side, price, best[side]) THEN price ELSE best[side]

InsertOrder(o) ==
  LET level == IF levels[o.side][o.price] = NoLevel THEN NewLevel
                                                    ELSE levels[o.side][o.price]
      pushed == PushBack(Alloc(arena, o), level, arena.free_head)
  IN /\ ~DuplicateOrderId(o) /\ ~ArenaFull
     /\ arena' = pushed.arena
     /\ levels' = [levels EXCEPT ![o.side][o.price] = pushed.level]
     /\ order_index' = [order_index EXCEPT ![o.id] = arena.free_head]
     /\ best' = [best EXCEPT ![o.side] = BestAfterInsert(o.side, o.price)]
-----------------------------------------------------------------------------
(* cancel_order and reduce_front_quantity *)

\* Puts a changed level back; an empty one leaves the map, and the best
\* price of its side is recomputed.
StoreLevel(side, price, level) ==
  IF level.count = 0
    THEN /\ levels' = [levels EXCEPT ![side][price] = NoLevel]
         /\ best' = [best EXCEPT ![side] = BestOf(side, Keys(side) \ {price})]
    ELSE /\ levels' = [levels EXCEPT ![side][price] = level]
         /\ UNCHANGED best

OrderNotFound(id) == order_index[id] = ARENA_NULL

CancelOrder(id) ==
  LET index == order_index[id]
      order == arena.storage[index].order
      removed == Remove(arena, levels[order.side][order.price], index)
  IN /\ ~OrderNotFound(id)
     /\ order_index' = [order_index EXCEPT ![id] = ARENA_NULL]
     /\ arena' = Dealloc(removed.arena, index)
     /\ StoreLevel(order.side, order.price, removed.level)

\* peek_front, for a level that exists and is not empty.
PeekFront(side, price) == arena.storage[levels[side][price].head].order

ReduceFrontKeepsIndex(side, price, fill_qty) ==
  LET level == [levels[side][price] EXCEPT !.qty = (@ - fill_qty) % QtyModulus]
      front == level.head
      reduced == [arena EXCEPT !.storage[front].order.quantity = @ - fill_qty]
      popped == PopFront(reduced, level)
  IN IF reduced.storage[front].order.quantity = 0
       THEN /\ arena' = Dealloc(popped.arena, front)
            /\ UNCHANGED order_index
            /\ StoreLevel(side, price, popped.level)
       ELSE /\ arena' = reduced
            /\ levels' = [levels EXCEPT ![side][price] = level]
            /\ UNCHANGED <<best, order_index>>

ReduceFrontLeaksNode(side, price, fill_qty) ==
  LET level == [levels[side][price] EXCEPT !.qty = (@ - fill_qty) % QtyModulus]
      front == level.head
      reduced == [arena EXCEPT !.storage[front].order.quantity = @ - fill_qty]
      popped == PopFront(reduced, level)
  IN IF reduced.storage[front].order.quantity = 0
       THEN /\ arena' = popped.arena
            /\ order_index' = [order_index EXCEPT ![arena.storage[front].order.id] = ARENA_NULL]
            /\ StoreLevel(side, price, popped.level)
       ELSE /\ arena' = reduced
            /\ levels' = [levels EXCEPT ![side][price] = level]
            /\ UNCHANGED <<best, order_index>>

ReduceFrontQuantity(side, price, fill_qty) ==
  LET level == [levels[side][price] EXCEPT !.qty = (@ - fill_qty) % QtyModulus]
      front == level.head
      reduced == [arena EXCEPT !.storage[front].order.quantity = @ - fill_qty]
      popped == PopFront(reduced, level)
  IN IF reduced.storage[front].order.quantity = 0
       THEN /\ arena' = Dealloc(popped.arena, front)
            /\ order_index' = [order_index EXCEPT ![arena.storage[front].order.id] = ARENA_NULL]
            /\ StoreLevel(side, price, popped.level)
       ELSE /\ arena' = reduced
            /\ levels' = [levels EXCEPT ![side][price] = level]
            /\ UNCHANGED <<best, order_index>>
-----------------------------------------------------------------------------
(* all_resting_orders *)

\* The orders of a level, first in first.
Queue(side, price) ==
  IF levels[side][price] = NoLevel THEN << >>
  ELSE LET chain == Chain(arena, levels[side][price].head)
       IN [k \in DOMAIN chain |-> arena.storage[chain[k]].order]

\* The prices with a level, from the best: asks from the lowest, bids from
\* the highest.
FromBest(side) ==
  [k \in 1 .. Cardinality(Keys(side)) |->
     CHOOSE p \in Keys(side) : Cardinality({q \in Keys(side) : Better(side, q, p)}) = k - 1]

\* The sequences of a sequence, one after the other.
Concatenation(seqs) ==
  LET first[k \in 0 .. Len(seqs)] == IF k = 0 THEN << >> ELSE first[k - 1] \o seqs[k]
  IN first[Len(seqs)]

RestingOrders(side) ==
  LET prices == FromBest(side)
  IN Concatenation([k \in DOMAIN prices |-> Queue(side, prices[k])])

AllRestingOrders == RestingOrders("Ask") \o RestingOrders("Bid")

\* Those of the first n orders that belong on a side at a price, in the same
\* order.
Belonging(orders, n, side, price) ==
  LET kept[k \in 0 .. n] ==
        IF k = 0 THEN << >>
        ELSE IF orders[k].side = side /\ orders[k].price = price
               THEN Append(kept[k - 1], orders[k])
               ELSE kept[k - 1]
  IN kept[n]
-----------------------------------------------------------------------------
Nodes == [order : Orders \cup {NoOrder}, prev : Indices \cup {ARENA_NULL},
          next : Indices \cup {ARENA_NULL}]

Levels == [head : Indices \cup {ARENA_NULL}, tail : Indices \cup {ARENA_NULL},
           count : 0 .. ArenaCapacity, qty : 0 .. QtyModulus - 1]

\* The markers are none of the values they stand in for.
ASSUME MarkerAssumption ==
  NoOrder \notin Takers /\ NoLevel \notin [head : Int, tail : Int, count : Int, qty : Int]

BookTypeOK ==
  /\ arena \in [storage : [Indices -> Nodes], free_head : Indices \cup {ARENA_NULL},
                count : 0 .. ArenaCapacity]
  /\ levels \in [Sides -> [Prices -> Levels \cup {NoLevel}]]
  /\ best \in [Sides -> Prices \cup {NoPrice}]
  /\ order_index \in [Ids -> Indices \cup {ARENA_NULL}]

\* No node is lost and none is used twice: the free list and the queues of
\* the levels together pass through every node exactly once, and the arena
\* counts the nodes in the queues.  alloc, dealloc and the unlinking of
\* pop_front and remove have to agree for this.
ListsPartitionArena ==
  LET chains == [l \in {l \in Sides \X Prices : l[2] \in Keys(l[1])} |->
                   Chain(arena, levels[l[1]][l[2]].head)]
      free == Chain(arena, arena.free_head)
      visits(i) == {v \in (DOMAIN chains) \X (1 .. ArenaCapacity + 1) :
                      v[2] \in DOMAIN chains[v[1]] /\ chains[v[1]][v[2]] = i}
  IN /\ \A i \in Indices :
          Cardinality(visits(i)) + Cardinality({k \in DOMAIN free : free[k] = i}) = 1
     /\ arena.count = ArenaCapacity - Len(free)

\* The sum of a sequence.
Total(quantities) ==
  LET sum[k \in 0 .. Len(quantities)] == IF k = 0 THEN 0 ELSE sum[k - 1] + quantities[k]
  IN sum[Len(quantities)]

\* Every level in the map is a proper doubly linked queue of orders that
\* belong in it, and its count and aggregate quantity are those of the
\* queue (the quantity modulo the width of its integer).
LevelsWellFormed ==
  \A s \in Sides : \A p \in Keys(s) :
    LET level == levels[s][p]
        chain == Chain(arena, level.head)
        order(k) == arena.storage[chain[k]].order
    IN /\ level.count = Len(chain) /\ level.count > 0
       /\ level.tail = chain[Len(chain)]
       /\ \A k \in DOMAIN chain :
            /\ arena.storage[chain[k]].prev = IF k = 1 THEN ARENA_NULL ELSE chain[k - 1]
            /\ order(k).side = s /\ order(k).price = p /\ order(k).quantity > 0
       /\ level.qty = Total([k \in DOMAIN chain |-> order(k).quantity]) % QtyModulus

\* The id index and the arena agree: an id is indexed at a node exactly when
\* that node holds the order with this id.  An id is therefore at rest once.
IndexExact ==
  \A id \in Ids, i \in Indices :
    order_index[id] = i <=> arena.storage[i].order # NoOrder /\ arena.storage[i].order.id = id

\* The cached best prices are those of the level maps.
BestIsBest == \A s \in Sides : best[s] = BestOf(s, Keys(s))

\* The book is never crossed, not even between two fills of an order:
\* every bid at rest is below every ask at rest.
NotCrossed == \A p \in Keys("Bid"), q \in Keys("Ask") : p < q
=============================================================================
