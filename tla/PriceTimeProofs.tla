--------------------------- MODULE PriceTimeProofs ---------------------------
(***************************************************************************)
(* The engine implements the price-time priority book, for every capacity  *)
(* and every set of orders.                                                *)
(***************************************************************************)
EXTENDS MatchingRefinement, MatchingProofs

(* The queues of the abstract book *)

\* Outside a restore the abstract queues are those of the levels.
LEMMA QueuesOutside ==
  ~Restoring => Queues = BookQueues
  BY DEF Queues, BookQueues

\* The abstract queues when the book stays the same, and when one queue of it
\* changes.
LEMMA QueuesStay ==
  ASSUME ~Restoring, ~Restoring', UNCHANGED bookVars
  PROVE  Queues' = Queues
  <1>1. \A s \in Sides, p \in Prices : Queue(s, p)' = Queue(s, p)
    BY DEF bookVars, Queue
  <1>2. Queues = BookQueues /\ Queues' = BookQueues'
    BY QueuesOutside, Zenon DEF Queues, BookQueues
  <1>3. BookQueues' = [s \in Sides |-> [p \in Prices |-> Queue(s, p)']]
    BY DEF BookQueues
  <1> QED BY <1>1, <1>2, <1>3, Zenon DEF BookQueues

\* One queue of the book changes, and one of the abstract ones.
LEMMA QueuesChange ==
  ASSUME ~Restoring, ~Restoring', NEW side \in Sides, NEW price \in Prices, NEW new,
         QueuesSet(side, price, new)
  PROVE  Queues' = [Queues EXCEPT ![side][price] = new]
  <1>1. Queues = BookQueues /\ Queues' = BookQueues'
    BY QueuesOutside DEF Queues, BookQueues
  <1>2. BookQueues' = [s \in Sides |-> [p \in Prices |->
                         IF s = side /\ p = price THEN new ELSE Queue(s, p)]]
    BY DEF BookQueues, QueuesSet
  <1> QED BY <1>1, <1>2, Zenon DEF BookQueues

\* The first order of a queue is the one peek_front finds.
LEMMA FrontIsHead ==
  ASSUME BookInv, NEW s \in Sides, NEW p \in Keys(s)
  PROVE  Head(Queue(s, p)) = PeekFront(s, p)
  <1>1. PICK free, q : Placed(arena, free, q) /\ LevelsAre(levels, arena.storage, q)
    BY DEF BookInv, Arranged
  <1>2. p \in Prices /\ levels[s][p] # NoLevel
    BY DEF Keys
  <1>3. PICK w : w = q[s][p]
    BY Zenon
  <1>4. w \in Seq(Indices) /\ Len(w) \in Nat
    BY <1>1, <1>2, <1>3, QueueNode, Zenon DEF Placed
  <1>5. w # << >> /\ levels[s][p] = LevelOf(arena.storage, w)
    BY <1>1, <1>2, <1>3, Zenon DEF LevelsAre
  <1>6. levels[s][p].head = w[1] /\ 1 \in 1 .. Len(w)
    <2>1. Len(w) # 0
      BY <1>4, <1>5, EmptySequence, Zenon
    <2> QED BY <1>4, <1>5, <2>1, SMTT(30) DEF LevelOf, First
  <1>7. PICK z : z = Queue(s, p)
    BY Zenon
  <1>8. z = [k \in 1 .. Len(w) |-> arena.storage[w[k]].order]
    <2>1. Queue(s, p) = QueueOf(arena, levels, s, p)
      BY Zenon DEF Queue, QueueOf
    <2>2. QueueOf(arena, levels, s, p) = OrdersAt(arena.storage, q[s][p])
      BY <1>1, <1>2, QueueOfIs, SMTT(30)
    <2> QED BY <1>3, <1>7, <2>1, <2>2, Zenon DEF OrdersAt
  <1>9. z \in Seq(Orders) /\ z # << >>
    BY <1>2, <1>7, QueueIs, Zenon
  <1>10. Head(z) = z[1]
    BY <1>9, SMTT(30)
  <1> QED BY <1>6, <1>7, <1>8, <1>10, Zenon DEF PeekFront

\* The taker crosses the best price of the other side exactly when it crosses
\* some order there, and then trades with the first at that price.
LEMMA CrossingIs ==
  ASSUME MatchingInv, ~Restoring, taker \in Takers
  PROVE  /\ Crosses <=> PT!Crossed # {}
         /\ Crosses => PT!BestCrossed = best[MakerSide] /\ PT!Maker = Maker
  <1>1. BookInv /\ Queues = BookQueues
    BY QueuesOutside, Zenon DEF MatchingInv
  <1>2. PICK side \in Sides : side = MakerSide /\ side = PT!Opposite(taker.side)
    BY Zenon DEF MakerSide, Opposite, PT!Opposite, Takers, Sides
  <1>3. taker.side \in {"Bid", "Ask"} /\ taker.price \in Int /\ Keys(side) \subseteq Int
        /\ Keys(side) \subseteq Prices
    BY BookAssumption, Zenon DEF Takers, Sides, Keys
  <1>4. \A p : p \in PT!Crossed <=> p \in Keys(side) /\ PT!Accepts(taker.side, taker.price, p)
    <2>1. \A p \in Prices : Queues[side][p] # << >> <=> p \in Keys(side)
      <3>1. \A p \in Prices : Queues[side][p] = Queue(side, p)
        BY <1>1, Zenon DEF BookQueues
      <3> QED BY <1>1, <3>1, QueueIs, Zenon
    <2> QED BY <1>2, <1>3, <2>1, Zenon DEF PT!Crossed
  <1>5. PICK b : b = best[side]
    BY Zenon
  <1>6. /\ b # NoPrice => b \in Keys(side)
        /\ \A p \in Keys(side) : b # NoPrice /\ (p = b \/ Better(side, b, p))
    BY <1>1, <1>5, BestPrice, Zenon
  <1>7. Crosses <=> b # NoPrice /\ PT!Accepts(taker.side, taker.price, b)
    BY <1>2, <1>3, <1>5, <1>6, SMTT(30) DEF Crosses, Better, PT!Accepts
  <1>8. \A p \in Keys(side) : PT!Accepts(taker.side, p, b)
    BY <1>2, <1>3, <1>6, SMTT(30) DEF PT!Accepts, Better, MakerSide, Opposite
  <1>9. \A p \in Keys(side) : PT!Accepts(taker.side, taker.price, p) =>
                                PT!Accepts(taker.side, taker.price, b)
    BY <1>3, <1>6, <1>8, SMTT(30) DEF PT!Accepts
  <1>10. Crosses <=> PT!Crossed # {}
    BY <1>4, <1>6, <1>7, <1>9, Zenon
  <1>11. ASSUME Crosses PROVE PT!BestCrossed = b /\ PT!Maker = Maker
    <2>1. b \in PT!Crossed /\ \A r \in PT!Crossed : PT!Accepts(taker.side, r, b)
      BY <1>4, <1>6, <1>7, <1>8, <1>11, Zenon
    <2>2. \A p \in PT!Crossed : (\A r \in PT!Crossed : PT!Accepts(taker.side, r, p)) => p = b
      <3> TAKE p \in PT!Crossed
      <3>1. PT!Accepts(taker.side, p, b) /\ p \in Int /\ b \in Int
        BY <1>3, <1>4, <1>8, <2>1, Zenon
      <3>2. PT!Accepts(taker.side, b, p) => p = b
        BY <1>3, <3>1, SMTT(30) DEF PT!Accepts
      <3> QED BY <2>1, <3>2, Zenon
    <2>3. PT!BestCrossed = b
      BY <2>1, <2>2, Zenon DEF PT!BestCrossed
    <2>4. b \in Keys(side) /\ b \in Prices
      BY <1>3, <1>4, <2>1, SMTT(30)
    <2>5. PT!Maker = Head(Queue(side, b))
      BY <1>1, <1>2, <2>3, <2>4, Zenon DEF PT!Maker, BookQueues
    <2>6. Maker = PeekFront(side, b)
      BY <1>2, <1>5, Zenon DEF Maker
    <2> QED BY <1>1, <2>3, <2>4, <2>5, <2>6, FrontIsHead, SMTT(30)
  <1> QED BY <1>2, <1>5, <1>10, <1>11, Zenon

\* The places of the abstract book are the nodes with orders: x is the place
\* of node at[x].
Stands(at, a) ==
  /\ at \in Injection(PT!Places, Indices)
  /\ \A x \in PT!Places : PT!At(x) = a.storage[at[x]].order
  /\ \A i \in Indices : a.storage[i].order # NoOrder <=> \E x \in PT!Places : at[x] = i

\* Every resting order has one node and one place.
LEMMA PlacesAreNodes ==
  ASSUME BookInv, ~Restoring
  PROVE  \E at : Stands(at, arena)
  <1>1. PICK free, q : Placed(arena, free, q) /\ LevelsAre(levels, arena.storage, q)
    BY Zenon DEF BookInv, Arranged
  <1>2. PICK st : st = arena.storage
    BY Zenon
  <1>3. ASSUME NEW s \in Sides, NEW p \in Prices
        PROVE  /\ q[s][p] \in Seq(Indices) /\ Holds(st, q[s][p], s, p)
               /\ Linked(st, q[s][p]) /\ Len(q[s][p]) \in 0 .. ArenaCapacity
               /\ Queues[s][p] = [k \in 1 .. Len(q[s][p]) |-> st[q[s][p][k]].order]
    <2>1. PICK w : w = q[s][p]
      BY Zenon
    <2>2. w \in Seq(Indices) /\ Holds(st, w, s, p) /\ IsQueue(st, w, s, p)
      BY <1>1, <1>2, <2>1, QueueNode, Zenon DEF Placed
    <2>3. Linked(st, w)
      BY <2>2, Zenon DEF IsQueue
    <2>4. Len(w) \in 0 .. ArenaCapacity
      BY <2>3, LinkedBound, Zenon
    <2>5. Queues[s][p] = OrdersAt(st, w)
      <3>1. Queues[s][p] = Queue(s, p)
        BY QueuesOutside, SMTT(30) DEF BookQueues
      <3>2. Queue(s, p) = QueueOf(arena, levels, s, p)
        BY Zenon DEF Queue, QueueOf
      <3> QED BY <1>1, <1>2, <2>1, <3>1, <3>2, QueueOfIs, SMTT(30)
    <2> QED BY <2>1, <2>2, <2>3, <2>4, <2>5, Zenon DEF OrdersAt
  <1>4. ASSUME NEW x
        PROVE  x \in PT!Places <=> /\ x = <<x[1], x[2], x[3]>> /\ x[1] \in Sides /\ x[2] \in Prices
                                   /\ x[3] \in 1 .. Len(q[x[1]][x[2]])
    <2>1. x \in PT!Places <=> /\ x = <<x[1], x[2], x[3]>> /\ x[1] \in Sides /\ x[2] \in Prices
                              /\ x[3] \in 1 .. ArenaCapacity /\ x[3] <= Len(Queues[x[1]][x[2]])
      BY SMTT(30) DEF PT!Places, PT!Sides, Sides
    <2>2. ASSUME NEW s \in Sides, NEW p \in Prices, NEW k
          PROVE  k \in 1 .. ArenaCapacity /\ k <= Len(Queues[s][p]) <=> k \in 1 .. Len(q[s][p])
      <3>1. PICK n \in 0 .. ArenaCapacity : n = Len(q[s][p])
        BY <1>3, Zenon
      <3>2. PICK z : z = Queues[s][p] /\ z = [j \in 1 .. n |-> st[q[s][p][j]].order]
        BY <1>3, <3>1, Zenon
      <3>3. Len(z) = n
        BY <3>2, SMTT(30)
      <3> QED BY <3>1, <3>2, <3>3, ArenaAssumption, SMTT(30)
    <2> QED BY <2>1, <2>2, Zenon
  <1> DEFINE at == [x \in PT!Places |-> q[x[1]][x[2]][x[3]]]
  <1>5. ASSUME NEW x \in PT!Places
        PROVE  /\ at[x] \in Indices /\ st[at[x]].order # NoOrder
               /\ st[at[x]].order.side = x[1] /\ st[at[x]].order.price = x[2]
               /\ PT!At(x) = st[at[x]].order
    <2>1. PICK s \in Sides, p \in Prices : s = x[1] /\ p = x[2]
      BY <1>4, Zenon
    <2>w. PICK w : w = q[s][p]
      BY Zenon
    <2>2. w = q[s][p] /\ Holds(st, w, s, p) /\ Queues[s][p] = [k \in 1 .. Len(w) |-> st[w[k]].order]
      BY <1>3, <2>w, SMTT(30)
    <2>3. PICK k \in 1 .. Len(w) : k = x[3] /\ at[x] = w[k]
      BY <1>4, <2>1, <2>2, Zenon
    <2>4. PT!At(x) = st[w[k]].order
      BY <2>1, <2>2, <2>3, ZenonT(30) DEF PT!At
    <2> QED BY <2>1, <2>2, <2>3, <2>4, Zenon DEF Holds
  <1>6. ASSUME NEW x \in PT!Places, NEW y \in PT!Places, at[x] = at[y] PROVE x = y
    <2>1. x[1] = y[1] /\ x[2] = y[2]
      <3>1. st[at[x]].order.side = x[1] /\ st[at[x]].order.price = x[2]
        BY <1>5, Zenon
      <3>2. st[at[y]].order.side = y[1] /\ st[at[y]].order.price = y[2]
        BY <1>5, Zenon
      <3> HIDE DEF at
      <3> QED BY <1>6, <3>1, <3>2, SMTT(30)
    <2>2. PICK s \in Sides, p \in Prices : s = x[1] /\ p = x[2] /\ s = y[1] /\ p = y[2]
      BY <1>4, <2>1, Zenon
    <2>3. PICK w : w = q[s][p] /\ Linked(st, w)
      BY <1>3, Zenon
    <2>4. /\ x[3] \in 1 .. Len(w) /\ y[3] \in 1 .. Len(w) /\ w[x[3]] = w[y[3]]
      BY <1>4, <1>6, <2>2, <2>3, Zenon
    <2>5. x[3] = y[3]
      BY <2>3, <2>4, Zenon DEF Linked
    <2>6. x = <<x[1], x[2], x[3]>> /\ y = <<y[1], y[2], y[3]>>
      BY <1>4, Zenon
    <2> QED BY <2>1, <2>5, <2>6, Zenon
  <1>7. at \in Injection(PT!Places, Indices)
    <2>1. at \in [PT!Places -> Indices]
      BY <1>5, Zenon
    <2> HIDE DEF at
    <2> QED BY <1>6, <2>1, Zenon DEF Injection, IsInjective
  <1>8. ASSUME NEW i \in Indices, st[i].order # NoOrder PROVE \E x \in PT!Places : at[x] = i
    <2>1. PICK o : o = st[i].order /\ o \in Takers
      BY <1>1, <1>2, <1>8, SMTT(30) DEF Placed, Arenas, Slots
    <2>2. PICK s \in Sides, p \in Prices : s = o.side /\ p = o.price
      BY <2>1, Zenon DEF Takers
    <2>3. PICK k \in 1 .. Len(q[s][p]) : q[s][p][k] = i
      BY <1>1, <1>2, <1>8, <2>1, <2>2, ZenonT(30) DEF Placed, EveryNode, InList
    <2>4. <<s, p, k>> \in PT!Places
      BY <1>4, <2>3, Zenon
    <2>5. at[<<s, p, k>>] = i
      BY <2>3, <2>4, Zenon
    <2> QED BY <2>4, <2>5, Zenon
  <1> HIDE DEF at
  <1>9. Stands(at, arena)
    BY <1>2, <1>5, <1>7, <1>8, Zenon DEF Stands
  <1> QED BY <1>9, Zenon

\* order_index has the ids of the abstract book.
LEMMA RestingIdsAre ==
  ASSUME BookInv, ~Restoring, NEW id \in Ids
  PROVE  id \in PT!RestingIds <=> order_index[id] # ARENA_NULL
  <1>1. PICK at : Stands(at, arena)
    BY PlacesAreNodes, Zenon
  <1>2. /\ at \in [PT!Places -> Indices]
        /\ \A x \in PT!Places : PT!At(x) = arena.storage[at[x]].order
        /\ \A i \in Indices : arena.storage[i].order # NoOrder <=> \E x \in PT!Places : at[x] = i
    BY <1>1, Zenon DEF Stands, Injection
  <1>3. order_index[id] \in Links /\ IndexExact
    BY Zenon DEF BookInv, Indexed
  <1>4. ASSUME id \in PT!RestingIds PROVE order_index[id] # ARENA_NULL
    <2>1. PICK x \in PT!Places : PT!At(x).id = id
      BY <1>4, Zenon DEF PT!RestingIds
    <2>2. PICK i \in Indices : i = at[x]
      BY <1>2, Zenon
    <2>3. arena.storage[i].order # NoOrder /\ arena.storage[i].order.id = id
      BY <1>2, <2>1, <2>2, Zenon
    <2>4. order_index[id] = i
      BY <1>3, <2>3, SMTT(30) DEF IndexExact
    <2> QED BY <2>4, IndexFacts, Zenon
  <1>5. ASSUME order_index[id] # ARENA_NULL PROVE id \in PT!RestingIds
    <2>1. PICK i \in Indices : order_index[id] = i
      BY <1>3, <1>5, Zenon DEF Links
    <2>2. arena.storage[i].order # NoOrder /\ arena.storage[i].order.id = id
      BY <1>3, <2>1, Zenon DEF IndexExact
    <2>3. PICK x \in PT!Places : at[x] = i
      BY <1>2, <2>2, Zenon
    <2>4. PT!At(x).id = id
      BY <1>2, <2>2, <2>3, Zenon
    <2> QED BY <2>3, <2>4, Zenon DEF PT!RestingIds
  <1> QED BY <1>4, <1>5, Zenon

\* The arena has no free node when the abstract book is full.
LEMMA FullIs ==
  ASSUME BookInv, ~Restoring
  PROVE  PT!Full <=> ArenaFull
  <1>1. PICK at : Stands(at, arena)
    BY PlacesAreNodes, Zenon
  <1>2. /\ at \in Injection(PT!Places, Indices)
        /\ at \in [PT!Places -> Indices]
        /\ \A i \in Indices : arena.storage[i].order # NoOrder <=> \E x \in PT!Places : at[x] = i
    BY <1>1, Zenon DEF Stands, Injection
  <1>3. PICK free, q : Placed(arena, free, q)
    BY Zenon DEF BookInv, Arranged
  <1>4. /\ free \in Seq(Indices) /\ arena.free_head = First(free)
        /\ \A k \in 1 .. Len(free) : arena.storage[free[k]].order = NoOrder
        /\ \A i \in Indices : arena.storage[i].order = NoOrder => InList(i, free)
    BY <1>3, Zenon DEF Placed, FreeListIs, Linked, EveryNode
  <1>5. ArenaFull <=> free = << >>
    <2>1. free # << >> => free[1] \in Indices
      BY <1>4, SMTT(30)
    <2> QED BY <1>4, <2>1, IndexFacts, Zenon DEF ArenaFull, Exhausted, First
  <1>6. free = << >> <=> \A i \in Indices : arena.storage[i].order # NoOrder
    <2>1. free = << >> => \A i \in Indices : arena.storage[i].order # NoOrder
      BY <1>4, SMTT(30) DEF InList
    <2>2. free # << >> => free[1] \in Indices /\ arena.storage[free[1]].order = NoOrder
      BY <1>4, SMTT(30)
    <2> QED BY <2>1, <2>2, Zenon
  <1>7. ArenaFull <=> at \in Surjection(PT!Places, Indices)
    BY <1>2, <1>5, <1>6, Zenon DEF Surjection
  <1>8. /\ IsFiniteSet(Indices) /\ Cardinality(Indices) = ArenaCapacity
    BY IndexFacts, Zenon
  <1>9. /\ IsFiniteSet(PT!Places) /\ Cardinality(PT!Places) <= ArenaCapacity
        /\ Cardinality(PT!Places) = ArenaCapacity <=> at \in Surjection(PT!Places, Indices)
    BY <1>2, <1>8, FS_Injection, Zenon
  <1>10. Cardinality(PT!Places) \in Nat
    BY <1>9, FS_CardinalityType, Zenon
  <1>11. ArenaCapacity \in Nat
    BY ArenaAssumption, Zenon
  <1>12. PT!Full <=> Cardinality(PT!Places) >= ArenaCapacity
    BY ZenonT(20) DEF PT!Full, PT!Cardinality, Cardinality
  <1>13. Cardinality(PT!Places) >= ArenaCapacity <=> Cardinality(PT!Places) = ArenaCapacity
    BY <1>9, <1>10, <1>11, SMTT(30)
  <1> QED BY <1>7, <1>9, <1>12, <1>13, Zenon
-----------------------------------------------------------------------------
(* The engine implements the price-time priority book *)

\* A new engine is the empty book.
LEMMA InitImplements ==
  Init => PT!Init
  <1> SUFFICES ASSUME Init PROVE PT!Init
    BY Zenon
  <1>1. ~Restoring
    BY Zenon DEF Init, Restoring
  <1>2. \A s \in Sides, p \in Prices : Queue(s, p) = << >>
    BY Zenon DEF Init, EmptyBook, Queue
  <1>3. Queues = [s \in Sides |-> [p \in Prices |-> << >>]]
    BY <1>1, <1>2, Zenon DEF Queues
  <1> QED BY <1>3, Zenon DEF Init, PT!Init, PT!Sides, Sides

\* A command that is not a restore neither starts nor finishes one.
LEMMA StaysOutside ==
  ASSUME MatchingInv, Idle \/ taker # NoOrder, UNCHANGED restoreVars
  PROVE  ~Restoring /\ ~Restoring'
  <1>1. ~Restoring
    BY CallsOutsideRestore, Zenon
  <1> QED BY <1>1, Zenon DEF restoreVars, Restoring

\* The steps that leave the queues alone: the entry of add_order, the answer
\* to an order of quantity zero, and the ways out with nothing to insert.
LEMMA AnswersImplement ==
  ASSUME MatchingInv
  PROVE  /\ \A o \in Orders : AddOrder(o) => PT!Submit(o)
         /\ AddZeroQuantity => PT!RejectZero
         /\ FullyFilled => PT!Complete
         /\ CancelledSelfTrade => PT!StopSelfTrade
         /\ RejectOrder => PT!Reject
  <1>1. ASSUME NEW o \in Orders, AddOrder(o) PROVE PT!Submit(o)
    <2>1. Queues' = Queues
      BY <1>1, StaysOutside, QueuesStay, SMTT(30) DEF AddOrder
    <2> QED BY <1>1, <2>1, Zenon DEF AddOrder, Idle, PT!Submit
  <1>2. ASSUME AddZeroQuantity PROVE PT!RejectZero
    <2>1. Queues' = Queues
      BY <1>2, StaysOutside, QueuesStay, SMTT(30) DEF AddZeroQuantity
    <2> QED BY <1>2, <2>1, Zenon DEF AddZeroQuantity, Idle, PT!RejectZero
  <1>3. ASSUME FullyFilled PROVE PT!Complete
    <2>1. Queues' = Queues
      BY <1>3, StaysOutside, QueuesStay, SMTT(30) DEF FullyFilled, Return
    <2> QED BY <1>3, <2>1, Zenon DEF FullyFilled, Return, PT!Complete, PT!Answer
  <1>4. taker # NoOrder => taker \in Takers /\ ~Restoring /\ BookInv
    BY CallsOutsideRestore, Zenon DEF MatchingInv, CallInv
  <1>5. ASSUME CancelledSelfTrade PROVE PT!StopSelfTrade
    <2>1. Queues' = Queues
      BY <1>5, StaysOutside, QueuesStay, SMTT(30) DEF CancelledSelfTrade, Matchable, Return
    <2>2. PT!Crossed # {} /\ PT!Maker = Maker
      BY <1>4, <1>5, CrossingIs, SMTT(30) DEF CancelledSelfTrade, Matchable
    <2>3. taker # NoOrder /\ taker.quantity > 0 /\ Maker.trader_id = taker.trader_id
      BY <1>5, Zenon DEF CancelledSelfTrade, Matchable
    <2>4. PT!Matching
      BY <2>3, Zenon DEF PT!Matching
    <2>5. PT!Answer("CancelledSelfTrade")
      BY <1>5, Zenon DEF CancelledSelfTrade, Return, PT!Answer
    <2> QED BY <2>1, <2>2, <2>3, <2>4, <2>5, Zenon DEF PT!StopSelfTrade
  <1>6. ASSUME RejectOrder PROVE PT!Reject
    <2>1. Queues' = Queues
      BY <1>6, StaysOutside, QueuesStay, Zenon DEF RejectOrder, Unmatched, Return
    <2>2. taker # NoOrder /\ taker.quantity > 0 /\ ~Crosses
      BY <1>6, Zenon DEF RejectOrder, Unmatched
    <2>3. PT!Crossed = {} /\ PT!Matching
      BY <1>4, <2>2, CrossingIs, SMTT(30) DEF PT!Matching
    <2>4. taker.id \in Ids
      BY <1>4, <2>2, Zenon DEF Takers
    <2>5. /\ taker.id \in PT!RestingIds <=> DuplicateOrderId(taker)
          /\ PT!Full <=> ArenaFull
      BY <1>4, <2>2, <2>4, RestingIdsAre, FullIs, Zenon DEF DuplicateOrderId
    <2>6. \/ DuplicateOrderId(taker) /\ PT!Answer("DuplicateOrderId")
          \/ ~DuplicateOrderId(taker) /\ ArenaFull /\ PT!Answer("ArenaFull")
      BY <1>6, Zenon DEF RejectOrder, Return, PT!Answer
    <2> QED BY <2>1, <2>3, <2>5, <2>6, Zenon DEF PT!Reject
  <1> QED BY <1>1, <1>2, <1>3, <1>5, <1>6, Zenon

\* insert_order of what is left of the taker.
LEMMA RestImplements ==
  ASSUME MatchingInv, RestOrder
  PROVE  PT!Rest
  <1>1. taker # NoOrder /\ taker.quantity > 0 /\ ~Crosses /\ InsertOrder(taker)
    BY Zenon DEF RestOrder, Unmatched
  <1>2. taker \in Takers /\ BookInv /\ ~Restoring
    BY <1>1, CallsOutsideRestore, SMTT(30) DEF MatchingInv, CallInv
  <1>3. ~Restoring'
    BY <1>1, StaysOutside, SMTT(30) DEF RestOrder, Return
  <1>4. Inserted(taker)
    BY <1>1, <1>2, InsertKeeps, SMTT(30)
  <1>5. PICK side \in Sides, price \in Prices : side = taker.side /\ price = taker.price
    BY <1>2, Zenon DEF Takers
  <1>6. QueuesSet(side, price, Append(Queue(side, price), taker))
    BY <1>2, <1>4, <1>5, InsertQueues, Zenon
  <1>7. Queue(side, price) = Queues[side][price]
    BY <1>2, Zenon DEF Queues
  <1>8. Queues' = [Queues EXCEPT ![side][price] = Append(@, taker)]
    BY <1>2, <1>3, <1>6, <1>7, QueuesChange, Zenon
  <1>9. PT!Crossed = {} /\ PT!Matching
    BY <1>1, <1>2, CrossingIs, SMTT(30) DEF PT!Matching
  <1>10. taker.id \notin PT!RestingIds /\ ~PT!Full
    <2>1. ~DuplicateOrderId(taker) /\ ~ArenaFull /\ taker.id \in Ids
      BY <1>1, <1>2, Zenon DEF InsertOrder, Takers
    <2> QED BY <1>2, <2>1, RestingIdsAre, FullIs, SMTT(30) DEF DuplicateOrderId
  <1>11. PT!Answer(IF fills = << >> THEN "Resting" ELSE "PartiallyFilled")
    BY Zenon DEF RestOrder, Return, PT!Answer
  <1> QED BY <1>5, <1>8, <1>9, <1>10, <1>11, SMTT(30) DEF PT!Rest

\* One iteration of the matching loop is one trade with the front of the best
\* queue.
LEMMA FillImplements ==
  ASSUME MatchingInv, Fill
  PROVE  PT!Trade
  <1>1. /\ taker # NoOrder /\ taker.quantity > 0 /\ Crosses
        /\ Maker.trader_id # taker.trader_id
    BY Zenon DEF Fill, Matchable
  <1>2. taker \in Takers /\ BookInv /\ ~Restoring
    BY <1>1, CallsOutsideRestore, Zenon DEF MatchingInv, CallInv
  <1>3. ~Restoring'
    BY <1>1, StaysOutside, Zenon DEF Fill
  <1>4. PICK side \in Sides : side = MakerSide /\ side = PT!Opposite(taker.side)
    BY <1>2, Zenon DEF MakerSide, Opposite, PT!Opposite, Takers, Sides
  <1>5. PICK price \in Keys(side) : price = best[side] /\ price \in Prices
    BY <1>1, <1>2, <1>4, BestPrice, Zenon DEF Crosses, Keys
  <1>6. PICK m \in Orders : m = Maker /\ m = PeekFront(side, price) /\ m.price = price
    BY <1>2, <1>4, <1>5, FrontIs, SMTT(30) DEF Maker
  <1>7. PT!Crossed # {} /\ PT!BestCrossed = price /\ PT!Maker = m
    BY <1>1, <1>2, <1>4, <1>5, <1>6, CrossingIs, Zenon
  <1>8. taker.quantity \in Nat /\ m.quantity \in Nat
    BY <1>2, BookAssumption, SMTT(30) DEF Takers, Orders
  <1>9. PICK amount \in Nat :
          /\ amount = IF taker.quantity < m.quantity THEN taker.quantity ELSE m.quantity
          /\ amount <= m.quantity
    BY <1>8, SMTT(30)
  <1>10. /\ ReduceFrontQuantity(side, price, amount)
         /\ fills' = Append(fills, [maker_order_id |-> m.id, price |-> m.price,
                                    quantity |-> amount,
                                    maker_fully_filled |-> m.quantity = amount])
         /\ taker' = [taker EXCEPT !.quantity = @ - amount]
         /\ reply' = reply
    BY <1>4, <1>5, <1>6, <1>9, Zenon DEF Fill
  <1>11. FrontReduced(side, price, amount)
    BY <1>2, <1>6, <1>9, <1>10, ReduceKeeps, Zenon
  <1>12. PICK rest : rest = [m EXCEPT !.quantity = @ - amount]
    BY Zenon
  <1>13. rest.quantity = 0 <=> amount = m.quantity
    <2>1. rest.quantity = m.quantity - amount
      BY <1>12 DEF Orders
    <2> QED BY <1>8, <2>1, SMTT(30)
  <1>14. PICK w : w = Queue(side, price) /\ w = Queues[side][price]
    BY <1>2, <1>5, Zenon DEF Queues
  <1>15. QueuesSet(side, price, IF amount = m.quantity THEN Tail(w) ELSE <<rest>> \o Tail(w))
    BY <1>5, <1>6, <1>11, <1>12, <1>14, ReduceQueues, Zenon
  <1>16. PICK new : /\ new = IF rest.quantity = 0 THEN Tail(w) ELSE <<rest>> \o Tail(w)
                    /\ QueuesSet(side, price, new)
    BY <1>13, <1>15, ZenonT(30)
  <1>17. Queues' = [Queues EXCEPT ![side][price] = new]
    BY <1>2, <1>3, <1>5, <1>16, QueuesChange, SMTT(30)
  <1>18. Queues' = [Queues EXCEPT ![side][price] =
                      IF rest.quantity = 0 THEN Tail(@) ELSE <<rest>> \o Tail(@)]
    BY <1>14, <1>16, <1>17, Zenon
  <1>19. fills' = Append(fills, PT!FillOf(amount))
    <2>1. (m.quantity = amount) = (amount = m.quantity)
      BY Zenon
    <2>2. PT!FillOf(amount) = [maker_order_id |-> m.id, price |-> price, quantity |-> amount,
                               maker_fully_filled |-> amount = m.quantity]
      BY <1>7, Zenon DEF PT!FillOf
    <2> QED BY <1>6, <1>10, <2>1, <2>2, Zenon
  <1>20. PT!Matching
    BY <1>1, Zenon DEF PT!Matching
  <1>21. PT!Maker.trader_id # taker.trader_id
    BY <1>1, <1>6, <1>7, SMTT(30)
  <1> QED BY <1>4, <1>7, <1>9, <1>10, <1>12, <1>18, <1>19, <1>20, <1>21, Zenon DEF PT!Trade

\* cancel_order takes the order out of its queue, wherever it stands.
LEMMA CancelImplements ==
  ASSUME MatchingInv, NEW id \in Ids, Cancel(id)
  PROVE  PT!Cancel(id)
  <1>1. taker = NoOrder /\ Idle /\ UNCHANGED <<taker, fills>> /\ UNCHANGED restoreVars
    BY Zenon DEF Cancel, Idle
  <1>2. BookInv /\ ~Restoring /\ ~Restoring'
    BY <1>1, StaysOutside, Zenon DEF MatchingInv
  <1>3. CASE CancelOrder(id) /\ reply' = "Cancelled"
    <2>1. Removed(id)
      BY <1>2, <1>3, CancelKeeps, SMTT(30)
    <2>2. PICK side \in Sides, price \in Prices : \E k \in 1 .. Len(Queue(side, price)) :
             /\ Len(Queue(side, price)) <= ArenaCapacity
             /\ Queue(side, price)[k].id = id
             /\ QueuesSet(side, price, Cut(Queue(side, price), k))
      BY <2>1, RemoveQueues, Zenon
    <2>3. PICK w : w = Queue(side, price) /\ w = Queues[side][price]
      BY <1>2, Zenon DEF Queues
    <2>4. PICK k \in 1 .. Len(w) : /\ Len(w) <= ArenaCapacity
                                   /\ w[k].id = id
                                   /\ QueuesSet(side, price, Cut(w, k))
      BY <2>2, <2>3, Zenon
    <2>5. w \in Seq(Orders)
      BY <1>2, <2>3, QueueIs, Zenon
    <2>6. k \in 1 .. ArenaCapacity /\ k <= Len(w)
      BY <2>4, <2>5, ArenaAssumption, SMTT(30)
    <2>7. PICK x : x = <<side, price, k>>
      BY Zenon
    <2>8. /\ x[1] = side /\ x[2] = price /\ x[3] = k
          /\ x \in Sides \X Prices \X (1 .. ArenaCapacity)
      BY <2>6, <2>7, SMTT(30)
    <2>9. x \in PT!Places /\ PT!At(x).id = id
      BY <2>3, <2>4, <2>6, <2>8, SMTT(30) DEF PT!Places, PT!At, PT!Sides, Sides
    <2>10. Queues' = [Queues EXCEPT ![side][price] = Cut(w, k)]
      BY <1>2, <2>4, QueuesChange, Zenon
    <2>11. Cut(w, k) = PT!Without(w, k)
      BY Zenon DEF Cut, PT!Without
    <2>12. Queues' = [Queues EXCEPT ![x[1]][x[2]] = PT!Without(@, x[3])]
      BY <2>3, <2>8, <2>10, <2>11, Zenon
    <2> QED BY <1>1, <1>3, <2>9, <2>12, Zenon DEF PT!Cancel
  <1>4. CASE OrderNotFound(id) /\ reply' = "OrderNotFound" /\ UNCHANGED bookVars
    <2>1. Queues' = Queues
      BY <1>2, <1>4, QueuesStay, Zenon
    <2>2. id \notin PT!RestingIds
      BY <1>2, <1>4, RestingIdsAre, SMTT(30) DEF OrderNotFound
    <2> QED BY <1>1, <1>4, <2>1, <2>2, SMTT(30) DEF PT!Cancel
  <1> QED BY <1>3, <1>4, SMTT(30) DEF Cancel

\* A captured snapshot stands for the queues it was captured from.
LEMMA CaptureImplements ==
  ASSUME MatchingInv, CaptureAndRestart
  PROVE  PT!Restart
  <1>1. BookInv /\ ~Restoring
    BY CallsOutsideRestore, Zenon DEF MatchingInv, CaptureAndRestart
  <1>2. PICK all, B : all = AllRestingOrders /\ B = BookQueues
    BY Zenon
  <1>3. Proper(B) /\ all = AllFrom(B)
    BY <1>1, <1>2, CapturedIs, Zenon
  <1>4. all \in Seq(Orders) /\ \A s \in Sides, p \in Prices : Sorted(all, s, p) = B[s][p]
    BY <1>3, AllFromIs, Zenon
  <1>5. Restoring' /\ snapshot'.orders = all
    <2>1. best \in [Sides -> Prices \cup {NoPrice}]
      BY <1>1, BookTyped, Zenon DEF BookTypeOK
    <2>2. snapshot' \in [orders : Seq(Orders), best : [Sides -> Prices \cup {NoPrice}]]
      BY <1>2, <1>4, <2>1, SMTT(30) DEF CaptureAndRestart
    <2>3. snapshot'.orders = all
      BY <1>2, Zenon DEF CaptureAndRestart
    <2> QED BY <2>2, <2>3, SnapshotAssumption, SMTT(30) DEF Restoring
  <1>6. \A s \in Sides, p \in Prices :
          Belonging(snapshot'.orders, Len(snapshot'.orders), s, p) = B[s][p]
    BY <1>4, <1>5, Zenon DEF Sorted
  <1>7. Queues' = [s \in Sides |-> [p \in Prices |-> B[s][p]]]
    BY <1>5, <1>6, Zenon DEF Queues
  <1>8. Queues = B
    BY <1>1, <1>2, QueuesOutside, Zenon
  <1>9. B = [s \in Sides |-> [p \in Prices |-> B[s][p]]]
    BY <1>2, Zenon DEF BookQueues
  <1> QED BY <1>7, <1>8, <1>9, SMTT(30) DEF CaptureAndRestart, Idle, PT!Restart

\* A restore has no effect the caller sees, and leaves the queues as they were
\* captured.
LEMMA RestoreStutters ==
  ASSUME MatchingInv, ReplayInv, RestoreInsert \/ RestoreDone
  PROVE  UNCHANGED PT!vars
  <1>1. UNCHANGED <<taker, fills, reply>> /\ Restoring
    BY Zenon DEF RestoreInsert, RestoreDone, callVars
  <1>2. CASE RestoreInsert
    <2>1. snapshot' = snapshot
      BY <1>2, Zenon DEF RestoreInsert
    <2>2. Queues' = Queues
      BY <1>1, <2>1, SMTT(30) DEF Queues, Restoring, Belonging
    <2> QED BY <1>1, <2>2, Zenon DEF PT!vars
  <1>3. CASE RestoreDone
    <2>1. ~Restoring' /\ restored = Len(snapshot.orders) /\ UNCHANGED bookVars
      BY <1>3, Zenon DEF RestoreDone, Restoring
    <2>2. \A s \in Sides, p \in Prices : Queue(s, p)' = Queue(s, p)
      BY <2>1, Zenon DEF bookVars, Queue
    <2>3. \A s \in Sides, p \in Prices :
            Queue(s, p) = Belonging(snapshot.orders, Len(snapshot.orders), s, p)
      BY <1>1, <2>1, Zenon DEF ReplayInv, Replayed
    <2>4. Queues = [s \in Sides |-> [p \in Prices |-> Queue(s, p)]]
      BY <1>1, <2>3, SMTT(30) DEF Queues
    <2>5. Queues' = [s \in Sides |-> [p \in Prices |-> Queue(s, p)']]
      BY <2>1, Zenon DEF Queues
    <2>6. Queues' = Queues
      BY <2>2, <2>4, <2>5, SMTT(30)
    <2> QED BY <1>1, <2>6, SMTT(30) DEF PT!vars
  <1> QED BY <1>2, <1>3, Zenon

\* Every step of the engine is a step of the price-time priority book, or one
\* that it does not see.
LEMMA StepImplements ==
  MatchingInv /\ ReplayInv /\ [Next]_vars => [PT!Next]_(PT!vars)
  <1> SUFFICES ASSUME MatchingInv, ReplayInv, [Next]_vars PROVE [PT!Next]_(PT!vars)
    BY Zenon
  <1>1. ASSUME NEW o \in Orders, AddOrder(o) PROVE PT!Next
    <2>1. o \in PT!Orders
      BY Zenon DEF Orders, PT!Orders, Sides, PT!Sides
    <2>2. PT!Submit(o)
      BY <1>1, AnswersImplement, SMTT(30)
    <2> QED BY <2>1, <2>2, Zenon DEF PT!Next
  <1>2. CASE AddZeroQuantity
    BY <1>2, AnswersImplement, SMTT(30) DEF PT!Next
  <1>3. CASE Fill
    BY <1>3, FillImplements, Zenon DEF PT!Next
  <1>4. CASE FullyFilled
    BY <1>4, AnswersImplement, SMTT(30) DEF PT!Next
  <1>5. CASE CancelledSelfTrade
    BY <1>5, AnswersImplement, SMTT(30) DEF PT!Next
  <1>6. CASE RestOrder
    BY <1>6, RestImplements, Zenon DEF PT!Next
  <1>7. CASE RejectOrder
    BY <1>7, AnswersImplement, Zenon DEF PT!Next
  <1>8. ASSUME NEW id \in Ids, Cancel(id) PROVE PT!Next
    BY <1>8, CancelImplements, SMTT(30) DEF PT!Next
  <1>9. CASE CaptureAndRestart
    BY <1>9, CaptureImplements, Zenon DEF PT!Next
  <1>10. CASE RestoreInsert \/ RestoreDone
    BY <1>10, RestoreStutters, SMTT(30)
  <1>11. CASE UNCHANGED vars
    <2>1. UNCHANGED <<taker, fills, reply, snapshot>> /\ UNCHANGED bookVars
      BY <1>11, Zenon DEF vars, callVars, restoreVars
    <2>2. \A s \in Sides, p \in Prices : Queue(s, p)' = Queue(s, p)
      BY <2>1, SMTT(30) DEF bookVars, Queue
    <2>3. Queues' = Queues
      BY <2>1, <2>2, SMTT(30) DEF Queues, Restoring, Belonging
    <2> QED BY <2>1, <2>3, SMTT(30) DEF PT!vars
  <1> QED
    BY <1>1, <1>2, <1>3, <1>4, <1>5, <1>6, <1>7, <1>8, <1>9, <1>10, <1>11, SMTT(30) DEF Next

\* The engine with its arena, its index and its cached best prices implements
\* the book of first-in first-out queues: every trade is with the oldest order
\* at the best crossing price, every answer is the one the queues call for,
\* and a restore from a snapshot loses and reorders nothing.
THEOREM PriceTimeImplemented ==
  Spec => ImplementsPriceTime
  <1>1. Spec => PT!Init /\ [][PT!Next]_(PT!vars)
    BY InitImplements, StepImplements, ReplayAlways, PTL DEF Spec
  <1> QED BY <1>1, Zenon DEF ImplementsPriceTime, PT!Spec
=============================================================================
