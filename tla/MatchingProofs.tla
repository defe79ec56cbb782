---------------------------- MODULE MatchingProofs ----------------------------
(***************************************************************************)
(* The matching engine over the order book, proved for every capacity of   *)
(* the arena, width of a quantity and set of prices, ids and traders: the  *)
(* invariants of the book under every command, and a restore that gives    *)
(* back the book that was captured.                                        *)
(***************************************************************************)
EXTENDS Matching, BookProofs

(* The orders of a snapshot *)

\* What all_resting_orders returns: orders with something left, at prices that
\* have a level.
AtLevels == {o \in Orders : o.price \in Keys(o.side)}

\* all_resting_orders returns only such orders.
LEMMA CaptureIs ==
  BookInv => AllRestingOrders \in Seq(AtLevels)
  <1> SUFFICES ASSUME BookInv PROVE AllRestingOrders \in Seq(AtLevels)
    OBVIOUS
  <1>1. PICK free, q : Placed(arena, free, q) /\ LevelsAre(levels, arena.storage, q)
    BY DEF BookInv, Arranged
  <1>2. ASSUME NEW s \in Sides, NEW p \in Keys(s) PROVE Queue(s, p) \in Seq(AtLevels)
    <2>1. p \in Prices /\ levels[s][p] # NoLevel
      BY DEF Keys
    <2>2. PICK w : w = q[s][p]
      OBVIOUS
    <2>3. w \in Seq(Indices) /\ Len(w) \in Nat /\ Holds(arena.storage, w, s, p)
      BY <1>1, <2>1, <2>2, QueueNode, Zenon DEF Placed
    <2>4. Chain(arena, levels[s][p].head) = w
      BY <1>1, <2>2, ArrangedChains, Zenon
    <2>5. DOMAIN w = 1 .. Len(w)
      BY <2>3, SeqIsFunction, Zenon
    <2>6. \A k \in 1 .. Len(w) : arena.storage[w[k]].order \in AtLevels
      <3> TAKE k \in 1 .. Len(w)
      <3>1. PICK o : o = arena.storage[w[k]].order
        BY Zenon
      <3>2. o \in Takers /\ o.side = s /\ o.price = p /\ o.quantity > 0
        BY <2>3, <3>1, Zenon DEF Holds, BookInv, Positive
      <3>3. o \in Orders
        BY <3>2, BookAssumption DEF Takers, Orders
      <3> QED BY <3>1, <3>2, <3>3, Zenon DEF AtLevels
    <2>7. Queue(s, p) = [k \in 1 .. Len(w) |-> arena.storage[w[k]].order]
      BY <2>1, <2>4, <2>5, Zenon DEF Queue
    <2> HIDE DEF AtLevels
    <2>8. [k \in 1 .. Len(w) |-> arena.storage[w[k]].order] \in [1 .. Len(w) -> AtLevels]
      BY <2>6, Zenon
    <2> QED BY <2>3, <2>7, <2>8, FunctionIsSeq, SMTT(30)
  <1>3. ASSUME NEW s \in Sides PROVE RestingOrders(s) \in Seq(AtLevels)
    <2>1. PICK n \in Nat : FromBest(s) \in [1 .. n -> Keys(s)]
      <3>1. Keys(s) \in SUBSET Prices /\ FromBest(s) = FromKeys(s, Keys(s))
        BY DEF Keys, FromBest, FromKeys
      <3> QED BY <3>1, FromKeysIs DEF Lists
    <2>2. PICK parts : parts = [k \in 1 .. n |-> Queue(s, FromBest(s)[k])]
      BY Zenon
    <2>3. parts \in [1 .. n -> Seq(AtLevels)]
      BY <1>2, <2>1, <2>2, SMTT(30)
    <2>4. RestingOrders(s) = Concatenation(parts)
      BY <2>1, <2>2, Zenon DEF RestingOrders
    <2>5. PICK f : Joins(f, n, parts, AtLevels) /\ Concatenation(parts) = f[n]
      BY <2>3, ConcatenationIs, Zenon
    <2>6. f \in [0 .. n -> Seq(AtLevels)] /\ n \in 0 .. n
      BY <2>5 DEF Joins
    <2> QED BY <2>4, <2>5, <2>6, Zenon
  <1>4. RestingOrders("Ask") \in Seq(AtLevels) /\ RestingOrders("Bid") \in Seq(AtLevels)
    BY <1>3, Zenon DEF Sides
  <1> QED BY <1>4 DEF AllRestingOrders
-----------------------------------------------------------------------------
(* The queues of orders *)

\* The orders of a list of nodes, and the queue of a level in any state.
OrdersAt(st, w) == [k \in 1 .. Len(w) |-> st[w[k]].order]

\* The same as Queue, of any arena and levels.
QueueOf(a, lv, side, price) ==
  IF lv[side][price] = NoLevel THEN << >>
  ELSE LET chain == Chain(a, lv[side][price].head)
       IN [k \in DOMAIN chain |-> a.storage[chain[k]].order]

\* The queue of a level has the orders of its nodes.
LEMMA QueueOfIs ==
  ASSUME NEW a, NEW lv, NEW free, NEW q, Placed(a, free, q), LevelsAre(lv, a.storage, q),
         NEW s \in Sides, NEW p \in Prices
  PROVE  QueueOf(a, lv, s, p) = OrdersAt(a.storage, q[s][p])
  <1>1. PICK w : w = q[s][p]
    OBVIOUS
  <1>2. w \in Seq(Indices) /\ Len(w) \in Nat /\ IsQueue(a.storage, w, s, p)
    BY <1>1, QueueNode, Zenon DEF Placed
  <1>3. lv[s][p] = IF w = << >> THEN NoLevel ELSE LevelOf(a.storage, w)
    BY <1>1, Zenon DEF LevelsAre
  <1>4. CASE w = << >>
    <2>1. OrdersAt(a.storage, w) = << >>
      BY <1>4 DEF OrdersAt
    <2> QED BY <1>1, <1>3, <1>4, <2>1, Zenon DEF QueueOf
  <1>5. CASE w # << >>
    <2>1. lv[s][p] # NoLevel
      BY <1>2, <1>3, <1>5, LevelOfIs, SMTT(30)
    <2>2. lv[s][p].head = First(w)
      BY <1>3, <1>5, SMTT(30) DEF LevelOf
    <2>3. Chain(a, lv[s][p].head) = w
      BY <1>2, <2>2, ChainIs, Zenon DEF IsQueue
    <2>4. DOMAIN w = 1 .. Len(w)
      BY <1>2, SeqIsFunction, Zenon
    <2> QED BY <1>1, <2>1, <2>3, <2>4, Zenon DEF QueueOf, OrdersAt
  <1> QED BY <1>4, <1>5, Zenon

\* One queue gets a new value, the others keep theirs.
QueuesSet(side, price, new) ==
  \A t \in Sides, p \in Prices :
    Queue(t, p)' = IF t = side /\ p = price THEN new ELSE Queue(t, p)

\* A node that was free or in this queue is in no other queue.
LEMMA RearrangedQueues ==
  ASSUME NEW side \in Sides, NEW price \in Prices, NEW w, NEW w2, NEW i, NEW v,
         Rearranged(side, price, w, w2, i, v),
         arena.storage[i].order # NoOrder =>
           arena.storage[i].order.side = side /\ arena.storage[i].order.price = price
  PROVE  /\ QueuesSet(side, price, OrdersAt(arena'.storage, w2))
         /\ Queue(side, price) = OrdersAt(arena.storage, w)
         /\ w \in Seq(Indices) /\ Holds(arena.storage, w, side, price)
         /\ Linked(arena.storage, w) /\ i \in Indices
         /\ \A j \in Indices : arena'.storage[j].order = IF j = i THEN v ELSE arena.storage[j].order
  <1>1. PICK free, q, free2, q2 :
          /\ Placed(arena, free, q) /\ LevelsAre(levels, arena.storage, q)
          /\ Placed(arena', free2, q2) /\ LevelsAre(levels', arena'.storage, q2)
          /\ w = q[side][price] /\ RequeuedEffect(q, q2, side, price, w2)
          /\ i \in Indices
          /\ \A j \in Indices : arena'.storage[j].order = IF j = i THEN v ELSE arena.storage[j].order
    BY Zenon DEF Rearranged
  <1>2. ASSUME NEW t \in Sides, NEW p \in Prices
        PROVE  Queue(t, p) = OrdersAt(arena.storage, q[t][p])
    <2>1. Queue(t, p) = QueueOf(arena, levels, t, p)
      BY Zenon DEF Queue, QueueOf
    <2> QED BY <1>1, <2>1, QueueOfIs, SMTT(30)
  <1>3. ASSUME NEW t \in Sides, NEW p \in Prices
        PROVE  Queue(t, p)' = OrdersAt(arena'.storage, q2[t][p])
    <2>1. Queue(t, p)' = QueueOf(arena', levels', t, p)
      BY Zenon DEF Queue, QueueOf
    <2> QED BY <1>1, <2>1, QueueOfIs, SMTT(30)
  <1>4. ASSUME NEW t \in Sides, NEW p \in Prices, ~(t = side /\ p = price)
        PROVE  Queue(t, p)' = Queue(t, p)
    <2>1. PICK u : u = q[t][p] /\ u = q2[t][p]
      BY <1>1, <1>4, Zenon DEF RequeuedEffect
    <2>2. u \in Seq(Indices) /\ Holds(arena.storage, u, t, p)
      BY <1>1, <2>1, QueueNode, Zenon DEF Placed
    <2>3. \A k \in 1 .. Len(u) : u[k] \in Indices /\ u[k] # i
      BY <1>4, <2>2, Zenon DEF Holds
    <2>4. \A k \in 1 .. Len(u) : arena'.storage[u[k]].order = arena.storage[u[k]].order
      BY <1>1, <2>3, Zenon
    <2>5. OrdersAt(arena'.storage, u) = OrdersAt(arena.storage, u)
      BY <2>4, Zenon DEF OrdersAt
    <2>6. Queue(t, p) = OrdersAt(arena.storage, u)
      BY <1>2, <2>1, Zenon
    <2>7. Queue(t, p)' = OrdersAt(arena'.storage, u)
      BY <1>3, <2>1
    <2> QED BY <2>5, <2>6, <2>7, Zenon
  <1>5. Queue(side, price)' = OrdersAt(arena'.storage, w2)
    BY <1>1, <1>3, Zenon DEF RequeuedEffect
  <1>6. QueuesSet(side, price, OrdersAt(arena'.storage, w2))
    BY <1>4, <1>5, Zenon DEF QueuesSet
  <1>7. w \in Seq(Indices) /\ Holds(arena.storage, w, side, price) /\ Linked(arena.storage, w)
    BY <1>1, QueueNode, SMTT(30) DEF Placed, IsQueue
  <1> QED BY <1>1, <1>2, <1>6, <1>7, Zenon

\* insert_order appends to the queue of the order's side and price.
LEMMA InsertQueues ==
  ASSUME NEW o \in Takers, Inserted(o)
  PROVE  QueuesSet(o.side, o.price, Append(Queue(o.side, o.price), o))
  <1>1. PICK side \in Sides, price \in Prices : side = o.side /\ price = o.price
    BY DEF Takers
  <1>2. PICK w, h : /\ Rearranged(side, price, w, Append(w, h), h, o)
                    /\ arena.storage[h].order = NoOrder
    BY <1>1, Zenon DEF Inserted
  <1>3. /\ QueuesSet(side, price, OrdersAt(arena'.storage, Append(w, h)))
        /\ Queue(side, price) = OrdersAt(arena.storage, w)
        /\ w \in Seq(Indices) /\ Holds(arena.storage, w, side, price) /\ h \in Indices
        /\ \A j \in Indices : arena'.storage[j].order = IF j = h THEN o ELSE arena.storage[j].order
    BY <1>2, RearrangedQueues, SMTT(30)
  <1>4. PICK n \in Nat : n = Len(w)
    BY <1>3
  <1>5. PICK u : u = Append(w, h)
    BY Zenon
  <1>6. Len(u) = n + 1 /\ u[n + 1] = h /\ \A k \in 1 .. n : u[k] = w[k]
    BY <1>3, <1>4, <1>5, AppendIs, SMTT(30)
  <1>7. \A k \in 1 .. n : /\ w[k] \in Indices /\ w[k] # h
                          /\ arena'.storage[w[k]].order = arena.storage[w[k]].order
    BY <1>2, <1>3, <1>4, Zenon DEF Holds
  <1>8. PICK z : z = OrdersAt(arena.storage, w)
    OBVIOUS
  <1>9. z = [k \in 1 .. n |-> arena.storage[w[k]].order]
    BY <1>4, <1>8, Zenon DEF OrdersAt
  <1>10. OrdersAt(arena'.storage, u) = [k \in 1 .. n + 1 |-> IF k = n + 1 THEN o ELSE z[k]]
    <2>1. \A k \in 1 .. n + 1 : arena'.storage[u[k]].order = IF k = n + 1 THEN o ELSE z[k]
      <3> TAKE k \in 1 .. n + 1
      <3>1. CASE k = n + 1
        BY <1>3, <1>6, <3>1, Zenon
      <3>2. CASE k # n + 1
        <4>1. k \in 1 .. n
          BY <3>2, SMTT(30)
        <4> QED BY <1>6, <1>7, <1>9, <3>2, <4>1, Zenon
      <3> QED BY <3>1, <3>2, Zenon
    <2> QED BY <1>6, <2>1, Zenon DEF OrdersAt
  <1>11. Append(z, o) = [k \in 1 .. n + 1 |-> IF k = n + 1 THEN o ELSE z[k]]
    <2>1. PICK T : \A k \in 1 .. n : z[k] \in T /\ o \in T
      <3>1. \A k \in 1 .. n : z[k] \in {z[j] : j \in 1 .. n} \cup {o}
        BY Zenon
      <3>2. PICK T : T = {z[j] : j \in 1 .. n} \cup {o}
        BY Zenon
      <3> QED BY <3>1, <3>2, Zenon
    <2> QED BY <1>9, <2>1, SMTT(30)
  <1> QED BY <1>1, <1>3, <1>5, <1>8, <1>10, <1>11, Zenon

\* cancel_order takes the order out of its queue.
LEMMA RemoveQueues ==
  ASSUME NEW id \in Ids, Removed(id)
  PROVE  \E side \in Sides, price \in Prices :
           \E x \in 1 .. Len(Queue(side, price)) :
             /\ Len(Queue(side, price)) <= ArenaCapacity
             /\ Queue(side, price)[x].id = id
             /\ QueuesSet(side, price, Cut(Queue(side, price), x))
  <1>1. PICK side \in Sides, price \in Prices : \E w : \E x \in 1 .. Len(w) :
          /\ Rearranged(side, price, w, Cut(w, x), w[x], NoOrder)
          /\ arena.storage[w[x]].order.id = id
    BY Zenon DEF Removed
  <1>2. PICK w : \E x \in 1 .. Len(w) :
          /\ Rearranged(side, price, w, Cut(w, x), w[x], NoOrder)
          /\ arena.storage[w[x]].order.id = id
    BY <1>1, Zenon
  <1>3. PICK x \in 1 .. Len(w) :
          /\ Rearranged(side, price, w, Cut(w, x), w[x], NoOrder)
          /\ arena.storage[w[x]].order.id = id
    BY <1>2, Zenon
  <1>4. w \in Seq(Indices) /\ Holds(arena.storage, w, side, price)
    <2>1. PICK free, q : Placed(arena, free, q) /\ w = q[side][price]
      BY <1>3, Zenon DEF Rearranged
    <2>2. QueuesAre(arena.storage, q)
      BY <2>1, Zenon DEF Placed
    <2> QED BY <2>1, <2>2, QueueNode, Zenon
  <1>5. arena.storage[w[x]].order.side = side /\ arena.storage[w[x]].order.price = price
    BY <1>4, Zenon DEF Holds
  <1>6. PICK i, u : i = w[x] /\ u = Cut(w, x)
    BY Zenon
  <1>7. /\ QueuesSet(side, price, OrdersAt(arena'.storage, u))
        /\ Queue(side, price) = OrdersAt(arena.storage, w)
        /\ Linked(arena.storage, w) /\ i \in Indices
        /\ \A j \in Indices : arena'.storage[j].order = IF j = i THEN NoOrder ELSE arena.storage[j].order
    BY <1>3, <1>5, <1>6, RearrangedQueues, SMTT(30)
  <1>8. PICK n \in Nat : n = Len(w) /\ n <= ArenaCapacity /\ x \in 1 .. n
    BY <1>4, <1>7, LinkedBound, SMTT(30)
  <1>9. Len(u) = n - 1 /\ \A k \in 1 .. n - 1 : u[k] = IF k < x THEN w[k] ELSE w[k + 1]
    BY <1>6, <1>8, SMTT(30) DEF Cut
  <1>10. PICK z : z = OrdersAt(arena.storage, w)
    BY Zenon
  <1>11. z = [k \in 1 .. n |-> arena.storage[w[k]].order] /\ Len(z) = n
    BY <1>8, <1>10, SMTT(30) DEF OrdersAt
  <1>12. OrdersAt(arena'.storage, u) = Cut(z, x)
    <2>1. \A k \in 1 .. n - 1 :
            arena'.storage[u[k]].order = IF k < x THEN z[k] ELSE z[k + 1]
      <3> TAKE k \in 1 .. n - 1
      <3>1. \A m \in 1 .. n : m # x => w[m] \in Indices /\ w[m] # i
        BY <1>4, <1>6, <1>7, <1>8, SMTT(30) DEF Linked
      <3>2. \A m \in 1 .. n : m # x => arena'.storage[w[m]].order = z[m]
        BY <1>7, <1>11, <3>1, Zenon
      <3>3. CASE k < x
        BY <1>9, <3>2, <3>3, SMTT(30)
      <3>4. CASE ~(k < x)
        <4>1. k + 1 \in 1 .. n /\ k + 1 # x
          BY <1>8, <3>4, SMTT(30)
        <4> QED BY <1>9, <3>2, <3>4, <4>1, Zenon
      <3> QED BY <3>3, <3>4, Zenon
    <2> QED BY <1>9, <1>11, <2>1, Zenon DEF OrdersAt, Cut
  <1>13. z[x].id = id
    BY <1>3, <1>8, <1>11, Zenon
  <1>14. /\ x \in 1 .. Len(Queue(side, price)) /\ Len(Queue(side, price)) <= ArenaCapacity
         /\ Queue(side, price)[x].id = id
    BY <1>7, <1>8, <1>10, <1>11, <1>13, Zenon
  <1>15. QueuesSet(side, price, Cut(Queue(side, price), x))
    BY <1>6, <1>7, <1>10, <1>12, Zenon
  <1> QED BY <1>14, <1>15, Zenon

\* reduce_front_quantity changes the first order of a queue, or takes it out
\* when nothing is left of it.
LEMMA ReduceQueues ==
  ASSUME NEW side \in Sides, NEW price \in Prices, NEW amount \in Nat, NEW m,
         m = PeekFront(side, price), FrontReduced(side, price, amount)
  PROVE  /\ Queue(side, price) # << >> /\ Head(Queue(side, price)) = m
         /\ QueuesSet(side, price, IF amount = m.quantity THEN Tail(Queue(side, price))
                                   ELSE <<[m EXCEPT !.quantity = @ - amount]>>
                                          \o Tail(Queue(side, price)))
  <1>1. PICK w : /\ 1 \in 1 .. Len(w) /\ arena.storage[w[1]].order = m
                 /\ IF amount = m.quantity
                      THEN Rearranged(side, price, w, Cut(w, 1), w[1], NoOrder)
                      ELSE Rearranged(side, price, w, w, w[1], [m EXCEPT !.quantity = @ - amount])
    BY Zenon DEF FrontReduced
  <1>2. w \in Seq(Indices) /\ Holds(arena.storage, w, side, price)
    <2>1. CASE amount = m.quantity
      BY <1>1, <2>1, QueueNode, Zenon DEF Rearranged, Placed
    <2>2. CASE amount # m.quantity
      BY <1>1, <2>2, QueueNode, SMTT(30) DEF Rearranged, Placed
    <2> QED BY <2>1, <2>2, Zenon
  <1>3. arena.storage[w[1]].order.side = side /\ arena.storage[w[1]].order.price = price
    BY <1>1, <1>2, Zenon DEF Holds
  <1>4. PICK i : i = w[1]
    BY Zenon
  <1>5. PICK n \in Nat : n = Len(w) /\ n >= 1
    BY <1>1, <1>2, SMTT(30)
  <1>6. PICK z : z = OrdersAt(arena.storage, w)
    BY Zenon
  <1>7. /\ z = [k \in 1 .. n |-> arena.storage[w[k]].order] /\ Len(z) = n
        /\ z # << >> /\ Head(z) = m /\ Len(Tail(z)) = n - 1
        /\ Tail(z) = [k \in 1 .. n - 1 |-> z[k + 1]]
    <2>1. z = [k \in 1 .. n |-> arena.storage[w[k]].order]
      BY <1>5, <1>6, Zenon DEF OrdersAt
    <2>2. PICK T : \A k \in 1 .. n : arena.storage[w[k]].order \in T
      <3>1. PICK T : T = {arena.storage[w[k]].order : k \in 1 .. n}
        BY Zenon
      <3> QED BY <3>1, SMTT(30)
    <2>3. z \in [1 .. n -> T]
      BY <2>1, <2>2
    <2>4. z \in Seq(T) /\ Len(z) = n
      BY <2>3, FunctionIsSeq, Zenon
    <2>5. z # << >> /\ Head(z) = z[1] /\ Len(Tail(z)) = n - 1
          /\ Tail(z) = [k \in 1 .. n - 1 |-> z[k + 1]]
      <3>1. z # << >>
        BY <1>5, <2>4, SMTT(30)
      <3>2. Head(z) = z[1]
        BY <2>4, <3>1, SMTT(30)
      <3>3. Tail(z) \in Seq(T) /\ Len(Tail(z)) = n - 1
        BY <2>4, <3>1, SMTT(30)
      <3>4. \A k \in 1 .. n - 1 : Tail(z)[k] = z[k + 1]
        BY <2>4, <3>1, SMTT(30)
      <3>5. Tail(z) = [k \in 1 .. n - 1 |-> z[k + 1]]
        <4>1. Tail(z) \in [1 .. n - 1 -> T]
          BY <3>3, SeqIsFunction, Zenon
        <4> QED BY <3>4, <4>1, Zenon
      <3> QED BY <3>1, <3>2, <3>3, <3>5, Zenon
    <2>6. z[1] = m
      BY <1>1, <1>5, <2>1, SMTT(30)
    <2> QED BY <2>1, <2>4, <2>5, <2>6, Zenon
  <1>8. CASE amount = m.quantity
    <2>1. PICK u : u = Cut(w, 1)
      BY Zenon
    <2>2. /\ QueuesSet(side, price, OrdersAt(arena'.storage, u))
          /\ Queue(side, price) = OrdersAt(arena.storage, w)
          /\ Linked(arena.storage, w)
          /\ \A j \in Indices : arena'.storage[j].order = IF j = i THEN NoOrder ELSE arena.storage[j].order
      BY <1>1, <1>3, <1>4, <1>8, <2>1, RearrangedQueues, SMTT(30)
    <2>3. Len(u) = n - 1 /\ \A k \in 1 .. n - 1 : u[k] = w[k + 1]
      BY <1>5, <2>1, SMTT(30) DEF Cut
    <2>4. \A k \in 1 .. n - 1 : arena'.storage[u[k]].order = z[k + 1]
      <3> TAKE k \in 1 .. n - 1
      <3>1. k + 1 \in 1 .. n /\ k + 1 # 1 /\ 1 \in 1 .. n
        BY <1>5, SMTT(30)
      <3>2. w[k + 1] \in Indices /\ w[k + 1] # i
        BY <1>2, <1>4, <1>5, <2>2, <3>1, SMTT(30) DEF Linked
      <3> QED BY <1>7, <2>2, <2>3, <3>1, <3>2, Zenon
    <2>5. OrdersAt(arena'.storage, u) = Tail(z)
      BY <1>7, <2>3, <2>4, SMTT(30) DEF OrdersAt
    <2> QED BY <1>6, <1>7, <1>8, <2>2, <2>5, Zenon
  <1>9. CASE amount # m.quantity
    <2>1. PICK v : v = [m EXCEPT !.quantity = @ - amount]
      BY Zenon
    <2>2. /\ QueuesSet(side, price, OrdersAt(arena'.storage, w))
          /\ Queue(side, price) = OrdersAt(arena.storage, w)
          /\ Linked(arena.storage, w) /\ i \in Indices
          /\ \A j \in Indices : arena'.storage[j].order = IF j = i THEN v ELSE arena.storage[j].order
      BY <1>1, <1>3, <1>4, <1>9, <2>1, RearrangedQueues, SMTT(30)
    <2>3. \A k \in 1 .. n : arena'.storage[w[k]].order = IF k = 1 THEN v ELSE z[k]
      <3> TAKE k \in 1 .. n
      <3>1. w[k] \in Indices /\ (w[k] = i <=> k = 1)
        BY <1>2, <1>4, <1>5, <2>2, SMTT(30) DEF Linked
      <3> QED BY <1>7, <2>2, <3>1, Zenon
    <2>4. OrdersAt(arena'.storage, w) = [k \in 1 .. n |-> IF k = 1 THEN v ELSE z[k]]
      BY <1>5, <2>3, Zenon DEF OrdersAt
    <2>5. <<v>> \o Tail(z) = [k \in 1 .. n |-> IF k = 1 THEN v ELSE z[k]]
      <3>1. PICK t : t = Tail(z) /\ Len(t) = n - 1 /\ t = [k \in 1 .. n - 1 |-> z[k + 1]]
        BY <1>7, Zenon
      <3>2. <<v>> \o t = [k \in 1 .. Len(<<v>>) + Len(t) |->
                            IF k <= Len(<<v>>) THEN <<v>>[k] ELSE t[k - Len(<<v>>)]]
        OBVIOUS
      <3>3. <<v>> \o t = [k \in 1 .. n |-> IF k <= 1 THEN v ELSE t[k - 1]]
        BY <1>5, <3>1, <3>2, SMTT(30)
      <3>4. \A k \in 1 .. n : (k <= 1 <=> k = 1) /\ (k # 1 => t[k - 1] = z[k])
        BY <3>1
      <3> QED BY <3>1, <3>3, <3>4, Zenon
    <2>6. QueuesSet(side, price, <<v>> \o Tail(Queue(side, price)))
      <3>1. PICK new : new = OrdersAt(arena'.storage, w) /\ QueuesSet(side, price, new)
        BY <2>2, Zenon
      <3>2. new = <<v>> \o Tail(z)
        BY <2>4, <2>5, <3>1, Zenon
      <3>3. new = <<v>> \o Tail(Queue(side, price))
        BY <1>6, <2>2, <3>2, Zenon
      <3> QED BY <3>1, <3>3, Zenon
    <2> QED BY <1>6, <1>7, <1>9, <2>1, <2>2, <2>6, Zenon
  <1> QED BY <1>8, <1>9, Zenon
-----------------------------------------------------------------------------
(* The invariant *)

\* The variables of a call.
CallInv ==
  /\ fills \in Seq(Fills)
  /\ reply \in OrderStatuses \cup MatchingErrors \cup {"none", "Cancelled"}
  /\ taker \in Takers \cup {NoOrder}
  /\ taker # NoOrder => reply = "none" /\ snapshot = NoSnapshot

\* A call that has traded and has something left finds a free node.
FullInv ==
  /\ ArenaFullTradesNothing
  /\ taker # NoOrder /\ fills # << >> /\ taker.quantity > 0 => ~ArenaFull

\* A snapshot's orders do not cross each other, and a book that is being
\* restored has levels only at their prices.
Uncrossed(orders) ==
  \A j, k \in 1 .. Len(orders) :
    orders[j].side = "Bid" /\ orders[k].side = "Ask" => orders[j].price < orders[k].price

\* Every level is at the price of one of the orders.
PricedBy(orders) ==
  \A s \in Sides : \A p \in Keys(s) :
    \E k \in 1 .. Len(orders) : orders[k].side = s /\ orders[k].price = p

\* The book being restored has as many orders as have been inserted.
RestoreInv ==
  /\ snapshot = NoSnapshot => restored = 0
  /\ Restoring => /\ restored = arena.count
                  /\ snapshot.orders \in Seq(Orders)
                  /\ Uncrossed(snapshot.orders) /\ PricedBy(snapshot.orders)

\* What every step of the engine keeps.
MatchingInv == BookInv /\ CallInv /\ FullInv /\ RestoreInv /\ NotCrossed

\* The best price of a side that has a level.
LEMMA BestPrice ==
  ASSUME BookInv, NEW s \in Sides
  PROVE  /\ best[s] # NoPrice => best[s] \in Keys(s)
         /\ \A p \in Keys(s) : best[s] # NoPrice /\ (p = best[s] \/ Better(s, best[s], p))
  <1>1. Keys(s) \in SUBSET Prices /\ NoPrice \notin Keys(s)
    BY BookAssumption, Zenon DEF Keys
  <1>2. best[s] = BestOf(s, Keys(s))
    BY Zenon DEF BookInv, Bests, BestIsBest
  <1>3. Keys(s) = {} => best[s] = NoPrice
    BY <1>1, <1>2, BestOfIs, Zenon
  <1>4. Keys(s) # {} => IsBest(s, Keys(s), best[s])
    BY <1>1, <1>2, BestOfIs, Zenon
  <1> QED BY <1>1, <1>3, <1>4, Zenon DEF IsBest

\* peek_front of a level finds an order of this level.
LEMMA FrontIs ==
  ASSUME BookInv, NEW s \in Sides, NEW p \in Keys(s)
  PROVE  PeekFront(s, p) \in Orders /\ PeekFront(s, p).price = p
  <1>1. PICK free, q : Placed(arena, free, q) /\ LevelsAre(levels, arena.storage, q)
    BY Zenon DEF BookInv, Arranged
  <1>2. p \in Prices /\ levels[s][p] # NoLevel
    BY DEF Keys
  <1>3. PICK w : w = q[s][p]
    OBVIOUS
  <1>4. w \in Seq(Indices) /\ Len(w) \in Nat /\ Holds(arena.storage, w, s, p)
    BY <1>1, <1>2, <1>3, QueueNode, Zenon DEF Placed
  <1>5. w # << >> /\ levels[s][p] = LevelOf(arena.storage, w)
    BY <1>1, <1>2, <1>3, Zenon DEF LevelsAre
  <1>6. levels[s][p].head = w[1] /\ 1 \in 1 .. Len(w)
    <2>1. Len(w) # 0
      BY <1>4, <1>5, EmptySequence, Zenon
    <2> QED BY <1>4, <1>5, <2>1, SMTT(30) DEF LevelOf, First
  <1>7. PICK o : o = PeekFront(s, p)
    BY Zenon
  <1>8. w[1] \in Indices /\ o = arena.storage[w[1]].order
    BY <1>4, <1>6, <1>7, Zenon DEF PeekFront, Holds
  <1>9. o \in Takers /\ o # NoOrder /\ o.price = p
    BY <1>4, <1>6, <1>8, Zenon DEF Holds
  <1>10. o.quantity > 0
    BY <1>8, <1>9, Zenon DEF BookInv, Positive
  <1>11. o \in Orders
    BY <1>9, <1>10, BookAssumption, SMTT(30) DEF Takers, Orders
  <1> QED BY <1>7, <1>9, <1>11, Zenon

\* A step that leaves the book alone keeps what is known of it.
LEMMA BookUnchanged ==
  ASSUME BookInv, UNCHANGED bookVars
  PROVE  BookInv' /\ KeysKept /\ (ArenaFull' <=> ArenaFull)
  <1>1. UNCHANGED <<arena, levels, best, order_index>>
    BY Zenon DEF bookVars
  <1>2. Arranged' /\ Positive'
    BY <1>1, Zenon DEF BookInv, Arranged, Positive
  <1>3. \A t \in Sides : Keys(t)' = Keys(t)
    BY <1>1, Zenon DEF Keys
  <1>4. Indexed'
    BY <1>1, Zenon DEF BookInv, Indexed, IndexExact
  <1>5. Bests'
    <2>1. BestIsBest' <=> \A t \in Sides : best'[t] = BestOf(t, Keys(t)')
      BY DEF BestIsBest, BestOf, Better
    <2> QED BY <1>1, <1>3, <2>1, Zenon DEF BookInv, Bests, BestIsBest
  <1>6. KeysKept
    BY <1>3, Zenon DEF KeysKept
  <1> QED BY <1>1, <1>2, <1>4, <1>5, <1>6, Zenon DEF BookInv, ArenaFull

\* Fewer levels do not cross.
LEMMA StillUncrossed ==
  ASSUME NotCrossed, KeysKept
  PROVE  NotCrossed'
  BY DEF NotCrossed, KeysKept, Sides

\* An order that crosses no level of the other side can be put in the book.
LEMMA RestUncrossed ==
  ASSUME NotCrossed, NEW o \in Takers, KeysAdded(o.side, o.price),
         o.side = "Bid" => \A r \in Keys("Ask") : o.price < r,
         o.side = "Ask" => \A r \in Keys("Bid") : r < o.price
  PROVE  NotCrossed'
  <1>1. o.side \in {"Bid", "Ask"}
    BY Zenon DEF Takers, Sides
  <1>2. CASE o.side = "Bid"
    <2>1. Keys("Bid")' = Keys("Bid") \cup {o.price} /\ Keys("Ask")' = Keys("Ask")
      BY <1>2, Zenon DEF KeysAdded, Sides
    <2> QED BY <1>2, <2>1, Zenon DEF NotCrossed
  <1>3. CASE o.side = "Ask"
    <2>1. Keys("Ask")' = Keys("Ask") \cup {o.price} /\ Keys("Bid")' = Keys("Bid")
      BY <1>3, Zenon DEF KeysAdded, Sides
    <2> QED BY <1>3, <2>1, Zenon DEF NotCrossed
  <1> QED BY <1>1, <1>2, <1>3, Zenon

\* In an empty book nothing crosses.
LEMMA EmptyUncrossed ==
  EmptyBook => NotCrossed /\ arena.count = 0 /\ \A s \in Sides : Keys(s) = {}
  <1> SUFFICES ASSUME EmptyBook
               PROVE  NotCrossed /\ arena.count = 0 /\ \A s \in Sides : Keys(s) = {}
    OBVIOUS
  <1>1. \A s \in Sides : Keys(s) = {}
    BY Zenon DEF EmptyBook, Keys
  <1>2. arena.count = 0
    BY DEF EmptyBook, NewArena
  <1> QED BY <1>1, <1>2, Zenon DEF NotCrossed, Sides
-----------------------------------------------------------------------------
(* The steps *)

\* The engine starts with the invariant.
LEMMA MatchingInit ==
  Init => MatchingInv
  <1> SUFFICES ASSUME Init PROVE MatchingInv
    OBVIOUS
  <1>1. BookInv /\ NotCrossed
    BY NewBook, EmptyUncrossed, Zenon DEF Init
  <1>2. CallInv
    BY DEF Init, CallInv
  <1>3. FullInv
    BY DEF Init, FullInv, ArenaFullTradesNothing
  <1>4. RestoreInv
    BY DEF Init, RestoreInv, Restoring
  <1> QED BY <1>1, <1>2, <1>3, <1>4, Zenon DEF MatchingInv

\* Entering add_order.
LEMMA AddOrderKeeps ==
  ASSUME MatchingInv, NEW o \in Orders, AddOrder(o)
  PROVE  MatchingInv'
  <1> USE DEF MatchingInv
  <1>1. BookInv' /\ KeysKept /\ (ArenaFull' <=> ArenaFull)
    BY BookUnchanged, Zenon DEF AddOrder
  <1>2. NotCrossed'
    BY <1>1, StillUncrossed, Zenon
  <1>3. CallInv'
    <2>1. o \in Takers
      BY DEF Orders, Takers
    <2> QED BY <2>1 DEF AddOrder, CallInv, Idle, restoreVars
  <1>4. FullInv'
    BY DEF AddOrder, FullInv, ArenaFullTradesNothing
  <1>5. RestoreInv'
    BY DEF AddOrder, Idle, RestoreInv, restoreVars, Restoring
  <1> QED BY <1>1, <1>2, <1>3, <1>4, <1>5, Zenon

\* A step of a command that changes neither the book nor the taker, when no
\* call runs.
LEMMA ReplyKeeps ==
  ASSUME MatchingInv, Idle, UNCHANGED <<bookVars, taker, fills, restoreVars>>,
         reply' \in {"ZeroQuantity", "OrderNotFound"}
  PROVE  MatchingInv'
  <1> USE DEF MatchingInv
  <1>1. BookInv' /\ KeysKept /\ (ArenaFull' <=> ArenaFull)
    BY BookUnchanged, Zenon
  <1>2. NotCrossed'
    BY <1>1, StillUncrossed, Zenon
  <1>3. CallInv'
    BY DEF CallInv, Idle, MatchingErrors, BookErrors
  <1>4. FullInv'
    BY Zenon DEF Idle, FullInv, ArenaFullTradesNothing
  <1>5. RestoreInv'
    BY DEF Idle, RestoreInv, restoreVars, Restoring
  <1> QED BY <1>1, <1>2, <1>3, <1>4, <1>5, Zenon

\* A command that cancels an order.
LEMMA CancelledKeeps ==
  ASSUME MatchingInv, Idle, NEW id \in Ids, CancelOrder(id), reply' = "Cancelled",
         UNCHANGED <<taker, fills, restoreVars>>
  PROVE  MatchingInv'
  <1> USE DEF MatchingInv
  <1>1. BookInv' /\ KeysKept
    BY CancelKeeps, Zenon
  <1>2. NotCrossed'
    BY <1>1, StillUncrossed, Zenon
  <1>3. CallInv'
    BY DEF CallInv, Idle
  <1>4. FullInv'
    BY DEF Idle, FullInv, ArenaFullTradesNothing
  <1>5. RestoreInv'
    BY Zenon DEF Idle, RestoreInv, restoreVars, Restoring
  <1> QED BY <1>1, <1>2, <1>3, <1>4, <1>5, SMTT(30)

\* One iteration of the matching loop.  What it trades is no more than the
\* front order has, and if some of the taker is left the maker's node has
\* become free.
LEMMA FillKeeps ==
  ASSUME MatchingInv, Fill
  PROVE  MatchingInv'
  <1> USE DEF MatchingInv
  <1>1. taker \in Takers /\ taker.quantity > 0 /\ taker # NoOrder
    BY Zenon DEF Fill, Matchable, CallInv
  <1>2. PICK side \in Sides : side = MakerSide
    BY <1>1, Zenon DEF MakerSide, Opposite, Takers, Sides
  <1>3. PICK price \in Keys(side) : side = MakerSide /\ price = best[MakerSide]
    BY <1>2, BestPrice, Zenon DEF Fill, Matchable, Crosses
  <1>4. PICK m \in Orders : m = Maker /\ m = PeekFront(side, price) /\ m.price = price
    BY <1>3, FrontIs, Zenon DEF Maker
  <1>5. PICK t \in Nat : t = taker.quantity /\ t > 0 /\ t <= MaxQuantity
    BY <1>1, BookAssumption, SMTT(30) DEF Takers
  <1>6. m.quantity \in Nat /\ m.quantity > 0 /\ m.quantity <= MaxQuantity
    BY BookAssumption DEF Orders
  <1>7. PICK amount \in Nat :
          /\ amount = IF taker.quantity < Maker.quantity THEN taker.quantity ELSE Maker.quantity
          /\ amount > 0 /\ amount <= m.quantity /\ amount <= t
          /\ amount < t => amount = m.quantity
    BY <1>4, <1>5, <1>6, SMTT(30)
  <1>8. /\ ReduceFrontQuantity(side, price, amount)
        /\ fills' = Append(fills, [maker_order_id |-> m.id, price |-> m.price,
                                   quantity |-> amount,
                                   maker_fully_filled |-> m.quantity = amount])
        /\ taker' = [taker EXCEPT !.quantity = @ - amount]
        /\ UNCHANGED <<reply, restoreVars>>
    BY <1>3, <1>4, <1>7, Zenon DEF Fill
  <1>9. /\ BookInv' /\ KeysKept
        /\ amount = m.quantity => ~ArenaFull'
    BY <1>4, <1>7, <1>8, ReduceKeeps, Zenon
  <1>10. NotCrossed'
    BY <1>9, StillUncrossed, Zenon
  <1>11. taker' \in Takers /\ taker'.quantity = t - amount
    BY <1>1, <1>5, <1>7, <1>8, BookAssumption, SMTT(30) DEF Takers
  <1>12. taker' # NoOrder
    BY <1>11, MarkerAssumption, Zenon
  <1>13. fills' \in Seq(Fills)
    <2>1. amount \in 1 .. MaxQuantity /\ m.id \in Ids /\ m.price \in Prices
      BY <1>6, <1>7, BookAssumption, SMTT(30) DEF Orders
    <2>2. PICK b \in BOOLEAN : b = (m.quantity = amount)
      BY Zenon
    <2>3. PICK f \in Fills : f = [maker_order_id |-> m.id, price |-> m.price,
                                  quantity |-> amount, maker_fully_filled |-> b]
      BY <2>1, Zenon DEF Fills
    <2>4. fills' = Append(fills, f)
      BY <1>8, <2>2, <2>3, SMTT(30)
    <2> QED BY <2>4 DEF CallInv
  <1>14. CallInv'
    BY <1>1, <1>8, <1>11, <1>13, Zenon DEF CallInv, restoreVars
  <1>15. FullInv'
    <2>1. reply' = "none"
      BY <1>1, <1>8, Zenon DEF CallInv
    <2>2. taker'.quantity > 0 => ~ArenaFull'
      BY <1>5, <1>6, <1>7, <1>9, <1>11, SMTT(30)
    <2> QED BY <2>1, <2>2, Zenon DEF FullInv, ArenaFullTradesNothing
  <1>16. RestoreInv'
    <2>1. snapshot = NoSnapshot /\ restored = 0 /\ snapshot' = snapshot /\ restored' = restored
      BY <1>1, <1>8, Zenon DEF CallInv, RestoreInv, restoreVars
    <2> QED BY <2>1, Zenon DEF RestoreInv, Restoring
  <1> QED BY <1>9, <1>10, <1>14, <1>15, <1>16, Zenon

\* The ways out of add_order that leave the book alone.
LEMMA ReturnKeeps ==
  ASSUME MatchingInv, taker # NoOrder, UNCHANGED bookVars,
         NEW r \in {"FullyFilled", "CancelledSelfTrade", "DuplicateOrderId", "ArenaFull"},
         r = "ArenaFull" => taker.quantity > 0 /\ ArenaFull,
         Return(r)
  PROVE  MatchingInv'
  <1> USE DEF MatchingInv
  <1>1. BookInv' /\ KeysKept /\ (ArenaFull' <=> ArenaFull)
    BY BookUnchanged, Zenon
  <1>2. NotCrossed'
    BY <1>1, StillUncrossed, Zenon
  <1>3. CallInv'
    BY DEF CallInv, Return, MatchingErrors, BookErrors, OrderStatuses
  <1>4. FullInv'
    BY Zenon DEF Return, FullInv, ArenaFullTradesNothing
  <1>5. RestoreInv'
    BY DEF Return, CallInv, RestoreInv, restoreVars, Restoring
  <1> QED BY <1>1, <1>2, <1>3, <1>4, <1>5, SMTT(30)

\* What is left of the taker comes to rest: no level of the other side
\* crosses it.
LEMMA RestOrderKeeps ==
  ASSUME MatchingInv, RestOrder
  PROVE  MatchingInv'
  <1> USE DEF MatchingInv
  <1>1. taker \in Takers /\ taker.quantity > 0 /\ taker # NoOrder
    BY Zenon DEF RestOrder, Unmatched, CallInv
  <1>2. BookInv' /\ KeysAdded(taker.side, taker.price)
    BY <1>1, InsertKeeps, Zenon DEF RestOrder
  <1>3. NotCrossed'
    <2>1. taker.side \in {"Bid", "Ask"} /\ taker.price \in Int
      BY <1>1, BookAssumption, Zenon DEF Takers, Sides
    <2>2. \A s \in Sides : Keys(s) \subseteq Int
      BY BookAssumption, Zenon DEF Keys
    <2>3. ASSUME taker.side = "Bid", NEW r \in Keys("Ask") PROVE taker.price < r
      <3>1. /\ best["Ask"] # NoPrice /\ best["Ask"] \in Keys("Ask")
            /\ r = best["Ask"] \/ best["Ask"] < r
        BY BestPrice, Zenon DEF Better, Sides
      <3>2. best["Ask"] > taker.price
        BY <2>3, <3>1, Zenon DEF RestOrder, Unmatched, Crosses, MakerSide, Opposite, Better
      <3> QED BY <2>1, <2>2, <3>1, <3>2 DEF Sides
    <2>4. ASSUME taker.side = "Ask", NEW r \in Keys("Bid") PROVE r < taker.price
      <3>1. /\ best["Bid"] # NoPrice /\ best["Bid"] \in Keys("Bid")
            /\ r = best["Bid"] \/ best["Bid"] > r
        BY BestPrice, Zenon DEF Better, Sides
      <3>2. best["Bid"] < taker.price
        BY <2>4, <3>1, Zenon DEF RestOrder, Unmatched, Crosses, MakerSide, Opposite, Better
      <3> QED BY <2>1, <2>2, <3>1, <3>2, SMTT(30) DEF Sides
    <2> QED BY <1>1, <1>2, <2>3, <2>4, RestUncrossed, SMTT(30)
  <1>4. CallInv'
    BY DEF RestOrder, CallInv, Return, MatchingErrors, BookErrors, OrderStatuses
  <1>5. FullInv'
    BY Zenon DEF RestOrder, Return, FullInv, ArenaFullTradesNothing
  <1>6. RestoreInv'
    BY <1>1, Zenon DEF RestOrder, Return, CallInv, RestoreInv, restoreVars, Restoring
  <1> QED BY <1>2, <1>3, <1>4, <1>5, <1>6, Zenon

\* Capturing a book and starting an empty one.
LEMMA CaptureKeeps ==
  ASSUME MatchingInv, CaptureAndRestart
  PROVE  MatchingInv'
  <1> USE DEF MatchingInv
  <1>1. EmptyBook'
    BY DEF CaptureAndRestart, ResetBook, EmptyBook
  <1>2. BookInv'
    BY <1>1, NewBook, PTL
  <1>3. NotCrossed' /\ arena'.count = 0 /\ \A s \in Sides : Keys(s)' = {}
    <2>1. (NotCrossed /\ arena.count = 0 /\ \A s \in Sides : Keys(s) = {})'
      BY <1>1, EmptyUncrossed, PTL
    <2> QED BY <2>1, Zenon
  <1>4. CallInv'
    BY DEF CaptureAndRestart, Idle, CallInv
  <1>5. FullInv'
    BY Zenon DEF CaptureAndRestart, FullInv, ArenaFullTradesNothing
  <1>6. PICK all : all = AllRestingOrders /\ all \in Seq(AtLevels)
    BY CaptureIs, Zenon
  <1>7. all \in Seq(Orders)
    BY <1>6 DEF AtLevels
  <1>8. Uncrossed(all)
    <2> SUFFICES ASSUME NEW j \in 1 .. Len(all), NEW k \in 1 .. Len(all),
                        all[j].side = "Bid", all[k].side = "Ask"
                 PROVE  all[j].price < all[k].price
      BY Zenon DEF Uncrossed
    <2>1. all[j] \in AtLevels /\ all[k] \in AtLevels
      BY <1>6
    <2>2. all[j].price \in Keys("Bid") /\ all[k].price \in Keys("Ask")
      BY <2>1, Zenon DEF AtLevels
    <2> QED BY <2>2, Zenon DEF NotCrossed
  <1>9. snapshot'.orders = all /\ restored' = 0
    BY <1>6, Zenon DEF CaptureAndRestart
  <1>10. RestoreInv'
    BY <1>3, <1>7, <1>8, <1>9, Zenon DEF RestoreInv, Uncrossed, PricedBy
  <1> QED BY <1>2, <1>3, <1>4, <1>5, <1>10, Zenon

\* One iteration of the loop of restore_from_orders.
LEMMA RestoreInsertKeeps ==
  ASSUME MatchingInv, RestoreInsert
  PROVE  MatchingInv'
  <1> USE DEF MatchingInv
  <1>1. PICK all \in Seq(Orders) : /\ all = snapshot.orders /\ restored = arena.count
                                   /\ Uncrossed(all) /\ PricedBy(all)
    BY Zenon DEF RestoreInsert, RestoreInv
  <1>2. PICK n \in Nat : n = restored
    <2>1. BookTypeOK
      BY BookTyped, Zenon
    <2> QED BY <1>1, <2>1, ArenaAssumption, SMTT(30) DEF BookTypeOK
  <1>3. PICK x \in 1 .. Len(all) : x = n + 1
    BY <1>1, <1>2, SMTT(30) DEF RestoreInsert
  <1>4. PICK o \in Orders : o = all[x] /\ InsertOrder(o)
    BY <1>1, <1>2, <1>3, SMTT(30) DEF RestoreInsert
  <1>5. o \in Takers /\ o.quantity > 0
    BY BookAssumption, SMTT(30) DEF Orders, Takers
  <1>6. BookInv' /\ KeysAdded(o.side, o.price) /\ arena'.count = arena.count + 1
    BY <1>4, <1>5, InsertKeeps, Zenon
  <1>7. NotCrossed'
    <2>1. ASSUME o.side = "Bid", NEW r \in Keys("Ask") PROVE o.price < r
      <3>1. PICK k \in 1 .. Len(all) : all[k].side = "Ask" /\ all[k].price = r
        BY <1>1, Zenon DEF PricedBy, Sides
      <3> QED BY <1>1, <1>4, <2>1, <3>1, Zenon DEF Uncrossed
    <2>2. ASSUME o.side = "Ask", NEW r \in Keys("Bid") PROVE r < o.price
      <3>1. PICK k \in 1 .. Len(all) : all[k].side = "Bid" /\ all[k].price = r
        BY <1>1, Zenon DEF PricedBy, Sides
      <3> QED BY <1>1, <1>4, <2>2, <3>1, Zenon DEF Uncrossed
    <2> QED BY <1>5, <1>6, <2>1, <2>2, RestUncrossed, Zenon
  <1>8. taker = NoOrder /\ UNCHANGED <<taker, fills, reply, snapshot>>
    BY Zenon DEF RestoreInsert, Restoring, CallInv, callVars
  <1>9. CallInv'
    BY <1>8, Zenon DEF CallInv
  <1>10. FullInv'
    BY <1>8, Zenon DEF FullInv, ArenaFullTradesNothing
  <1>11. PricedBy(all)'
    <2> SUFFICES ASSUME NEW s \in Sides, NEW p \in Keys(s)'
                 PROVE  \E k \in 1 .. Len(all) : all[k].side = s /\ all[k].price = p
      BY Zenon DEF PricedBy
    <2>1. p \in Keys(s) \/ (s = o.side /\ p = o.price)
      BY <1>6, Zenon DEF KeysAdded
    <2> QED BY <1>1, <1>4, <2>1, Zenon DEF PricedBy
  <1>12. RestoreInv'
    <2>1. restored' = arena'.count
      BY <1>1, <1>6, Zenon DEF RestoreInsert
    <2>2. snapshot # NoSnapshot
      BY DEF RestoreInsert, Restoring
    <2> QED BY <1>1, <1>8, <1>11, <2>1, <2>2, SMTT(30) DEF RestoreInv, Restoring, PricedBy, Uncrossed
  <1> QED BY <1>6, <1>7, <1>9, <1>10, <1>12, SMTT(30)

\* The end of a restore.
LEMMA RestoreDoneKeeps ==
  ASSUME MatchingInv, RestoreDone
  PROVE  MatchingInv'
  <1> USE DEF MatchingInv
  <1>1. BookInv' /\ KeysKept /\ (ArenaFull' <=> ArenaFull)
    BY BookUnchanged, Zenon DEF RestoreDone
  <1>2. NotCrossed'
    BY <1>1, StillUncrossed, Zenon
  <1>3. CallInv'
    BY Zenon DEF RestoreDone, CallInv, callVars
  <1>4. FullInv'
    BY <1>1, Zenon DEF RestoreDone, FullInv, ArenaFullTradesNothing, callVars
  <1>5. RestoreInv'
    BY Zenon DEF RestoreDone, RestoreInv, Restoring
  <1> QED BY <1>1, <1>2, <1>3, <1>4, <1>5, Zenon

\* Every step of the engine keeps the invariant.
LEMMA MatchingStep ==
  MatchingInv /\ [Next]_vars => MatchingInv'
  <1> SUFFICES ASSUME MatchingInv, [Next]_vars PROVE MatchingInv'
    OBVIOUS
  <1>1. ASSUME NEW o \in Orders, AddOrder(o) PROVE MatchingInv'
    BY <1>1, AddOrderKeeps, Zenon
  <1>2. CASE AddZeroQuantity
    BY <1>2, ReplyKeeps, Zenon DEF AddZeroQuantity
  <1>3. CASE Fill
    BY <1>3, FillKeeps, Zenon
  <1>4. CASE FullyFilled
    <2>1. taker # NoOrder /\ UNCHANGED bookVars /\ Return("FullyFilled")
      BY <1>4, Zenon DEF FullyFilled
    <2> QED BY <2>1, ReturnKeeps, Zenon
  <1>5. CASE CancelledSelfTrade
    <2>1. taker # NoOrder /\ UNCHANGED bookVars /\ Return("CancelledSelfTrade")
      BY <1>5, Zenon DEF CancelledSelfTrade, Matchable
    <2> QED BY <2>1, ReturnKeeps, Zenon
  <1>6. CASE RestOrder
    BY <1>6, RestOrderKeeps
  <1>7. CASE RejectOrder
    <2>1. taker # NoOrder /\ taker.quantity > 0 /\ UNCHANGED bookVars
      BY <1>7, Zenon DEF RejectOrder, Unmatched
    <2>2. Return("DuplicateOrderId") \/ (ArenaFull /\ Return("ArenaFull"))
      BY <1>7, Zenon DEF RejectOrder
    <2> QED BY <2>1, <2>2, ReturnKeeps, Zenon
  <1>8. ASSUME NEW id \in Ids, Cancel(id) PROVE MatchingInv'
    <2>1. CASE CancelOrder(id) /\ reply' = "Cancelled"
      BY <1>8, <2>1, CancelledKeeps, Zenon DEF Cancel
    <2>2. CASE reply' = "OrderNotFound" /\ UNCHANGED bookVars
      BY <1>8, <2>2, ReplyKeeps, SMTT(30) DEF Cancel
    <2> QED BY <1>8, <2>1, <2>2, Zenon DEF Cancel
  <1>9. CASE CaptureAndRestart
    BY <1>9, CaptureKeeps
  <1>10. CASE RestoreInsert
    BY <1>10, RestoreInsertKeeps
  <1>11. CASE RestoreDone
    BY <1>11, RestoreDoneKeeps
  <1>12. CASE UNCHANGED vars
    <2>1. UNCHANGED <<bookVars, taker, fills, reply, snapshot, restored>>
      BY <1>12, Zenon DEF vars, callVars, restoreVars
    <2>2. BookInv' /\ KeysKept /\ (ArenaFull' <=> ArenaFull) /\ NotCrossed'
      BY <2>1, BookUnchanged, StillUncrossed, Zenon DEF MatchingInv
    <2>3. CallInv' /\ FullInv'
      BY <2>1, <2>2, Zenon DEF MatchingInv, CallInv, FullInv, ArenaFullTradesNothing
    <2>4. RestoreInv'
      <3>1. UNCHANGED <<arena, levels>>
        BY <2>1, Zenon DEF bookVars
      <3> QED BY <2>1, <3>1, SMTT(30) DEF MatchingInv, RestoreInv, Restoring, PricedBy, Uncrossed, Keys
    <2> QED BY <2>2, <2>3, <2>4, Zenon DEF MatchingInv
  <1> QED BY <1>1, <1>2, <1>3, <1>4, <1>5, <1>6, <1>7, <1>8, <1>9, <1>10, <1>11, <1>12, SMTT(30) DEF Next

\* The invariant holds in every state of the engine.
LEMMA MatchingAlways ==
  Spec => []MatchingInv
  <1> QED BY MatchingInit, MatchingStep, PTL DEF Spec
-----------------------------------------------------------------------------
(* The theorems *)

\* The variables of the engine have the types they are declared with, and
\* add_order only returns the errors that MatchingError lets it return.
THEOREM EngineTyped ==
  Spec => []TypeOK
  <1>1. MatchingInv => TypeOK
    <2> SUFFICES ASSUME MatchingInv PROVE TypeOK
      OBVIOUS
    <2>1. BookTypeOK
      BY BookTyped, Zenon DEF MatchingInv
    <2>2. \A k \in DOMAIN fills : fills[k] \in Fills
      <3>1. fills \in Seq(Fills)
        BY DEF MatchingInv, CallInv
      <3> QED BY <3>1
    <2>3. restored \in 0 .. ArenaCapacity
      <3>1. arena.count \in 0 .. ArenaCapacity
        BY <2>1, Zenon DEF BookTypeOK
      <3>2. restored = 0 \/ restored = arena.count
        BY DEF MatchingInv, RestoreInv, Restoring
      <3> QED BY <3>1, <3>2, ArenaAssumption, SMTT(30)
    <2> QED BY <2>1, <2>2, <2>3, Zenon DEF MatchingInv, CallInv, TypeOK
  <1> QED BY <1>1, MatchingAlways, PTL

\* The free list and the queues of the levels pass through every node of the
\* arena exactly once, whatever sequence of insertions, cancels, fills and
\* restores has relinked them.
THEOREM NodesPartitioned ==
  Spec => []ListsPartitionArena
  <1>1. MatchingInv => ListsPartitionArena
    BY PartitionHolds, Zenon DEF MatchingInv
  <1> QED BY <1>1, MatchingAlways, PTL

\* Every level is a doubly linked queue of orders of its side and price with
\* something left, and its count and aggregate quantity are those of the
\* queue.
THEOREM QueuesWellFormed ==
  Spec => []LevelsWellFormed
  <1>1. MatchingInv => LevelsWellFormed
    BY WellFormedHolds, SMTT(30) DEF MatchingInv
  <1> QED BY <1>1, MatchingAlways, PTL

\* order_index finds every order at rest, and nothing else.
THEOREM IndexAgrees ==
  Spec => []IndexExact
  <1>1. MatchingInv => IndexExact
    BY Zenon DEF MatchingInv, BookInv, Indexed
  <1> QED BY <1>1, MatchingAlways, PTL

\* The cached best prices are the best prices of the maps.
THEOREM BestPricesRight ==
  Spec => []BestIsBest
  <1>1. MatchingInv => BestIsBest
    BY SMTT(30) DEF MatchingInv, BookInv, Bests
  <1> QED BY <1>1, MatchingAlways, PTL

\* Bids at rest stay below asks at rest, during a call of add_order and
\* during a restore as well.
THEOREM NeverCrossed ==
  Spec => []NotCrossed
  <1>1. MatchingInv => NotCrossed
    BY Zenon DEF MatchingInv
  <1> QED BY <1>1, MatchingAlways, PTL

\* An add_order that fails because the arena is full has not traded.
THEOREM ArenaFullIsClean ==
  Spec => []ArenaFullTradesNothing
  <1>1. MatchingInv => ArenaFullTradesNothing
    BY Zenon DEF MatchingInv, FullInv
  <1> QED BY <1>1, MatchingAlways, PTL
-----------------------------------------------------------------------------
(* Restoring a captured book *)

\* What is at rest in a book.
LEMMA QueueIs ==
  ASSUME BookInv, NEW s \in Sides, NEW p \in Prices
  PROVE  /\ Queue(s, p) \in Seq(Orders)
         /\ \A k \in 1 .. Len(Queue(s, p)) : Belongs(Queue(s, p)[k], s, p)
         /\ Queue(s, p) # << >> <=> p \in Keys(s)
  <1>1. PICK free, q : Placed(arena, free, q) /\ LevelsAre(levels, arena.storage, q)
    BY DEF BookInv, Arranged
  <1>2. PICK w, st : w = q[s][p] /\ st = arena.storage
    BY Zenon
  <1>3. w \in Seq(Indices) /\ Holds(st, w, s, p)
    BY <1>1, <1>2, QueueNode, Zenon DEF Placed
  <1>4. PICK n \in Nat : n = Len(w)
    BY <1>3
  <1>5. PICK z : z = Queue(s, p)
    BY Zenon
  <1>6. z = [k \in 1 .. n |-> st[w[k]].order]
    <2>1. Queue(s, p) = QueueOf(arena, levels, s, p)
      BY Zenon DEF Queue, QueueOf
    <2>2. QueueOf(arena, levels, s, p) = OrdersAt(arena.storage, q[s][p])
      BY <1>1, QueueOfIs, SMTT(30)
    <2> QED BY <1>2, <1>4, <1>5, <2>1, <2>2, Zenon DEF OrdersAt
  <1>7. \A k \in 1 .. n : st[w[k]].order \in Orders /\ Belongs(st[w[k]].order, s, p)
    <2> TAKE k \in 1 .. n
    <2>1. PICK o : o = st[w[k]].order
      BY Zenon
    <2>2. w[k] \in Indices /\ o \in Takers /\ o # NoOrder /\ o.side = s /\ o.price = p
      BY <1>3, <1>4, <2>1, Zenon DEF Holds
    <2>3. o.quantity > 0
      BY <1>2, <2>1, <2>2, Zenon DEF BookInv, Positive
    <2>4. o \in Orders
      BY <2>2, <2>3, BookAssumption, SMTT(30) DEF Takers, Orders
    <2> QED BY <2>1, <2>2, <2>4, Zenon DEF Belongs
  <1>8. z \in [1 .. n -> Orders] /\ \A k \in 1 .. n : Belongs(z[k], s, p)
    BY <1>6, <1>7, Zenon
  <1>9. z \in Seq(Orders) /\ Len(z) = n
    BY <1>8, FunctionIsSeq, Zenon
  <1>10. z # << >> <=> p \in Keys(s)
    <2>1. w = << >> <=> levels[s][p] = NoLevel
      <3>1. LevelOf(st, w) # NoLevel
        BY <1>1, <1>2, QueueNode, LevelOfIs, Zenon DEF Placed
      <3>2. levels[s][p] = IF w = << >> THEN NoLevel ELSE LevelOf(st, w)
        BY <1>1, <1>2, Zenon DEF LevelsAre
      <3> QED BY <3>1, <3>2, Zenon
    <2>2. w = << >> <=> n = 0
      BY <1>3, <1>4, EmptySequence, Zenon
    <2>3. z = << >> <=> n = 0
      BY <1>9, EmptySequence, Zenon
    <2> QED BY <2>1, <2>2, <2>3, SMTT(30) DEF Keys
  <1> QED BY <1>5, <1>8, <1>9, <1>10, Zenon

\* The queues of the levels.
BookQueues == [s \in Sides |-> [p \in Prices |-> Queue(s, p)]]

\* all_resting_orders lists the queues, and the cached best prices are those
\* of the queues.
LEMMA CapturedIs ==
  ASSUME BookInv
  PROVE  /\ Proper(BookQueues)
         /\ AllRestingOrders = AllFrom(BookQueues) /\ best = BestFrom(BookQueues)
  <1>1. PICK B : B = BookQueues
    BY Zenon
  <1>2. \A s \in Sides, p \in Prices : B[s][p] = Queue(s, p)
    BY <1>1, Zenon DEF BookQueues
  <1>3. Proper(B)
    <2>1. PICK T : T = Seq(Orders)
      BY Zenon
    <2>2. \A s \in Sides, p \in Prices : Queue(s, p) \in T
      BY <2>1, QueueIs, Zenon
    <2>3. B \in [Sides -> [Prices -> T]]
      BY <1>1, <2>2, Zenon DEF BookQueues
    <2>4. ASSUME NEW s \in Sides, NEW p \in Prices, NEW k \in 1 .. Len(B[s][p])
          PROVE  Belongs(B[s][p][k], s, p)
      BY <1>2, <2>4, QueueIs, Zenon
    <2> QED BY <2>1, <2>3, <2>4, Zenon DEF Proper
  <1>4. ASSUME NEW s \in Sides PROVE Occupied(B, s) = Keys(s)
    <2>1. \A p \in Prices : B[s][p] # << >> <=> p \in Keys(s)
      BY <1>2, QueueIs, Zenon
    <2> QED BY <2>1, Zenon DEF Occupied, Keys
  <1>5. ASSUME NEW s \in Sides PROVE RestingOrders(s) = ListFrom(B, s)
    <2>1. PICK F : F = FromKeys(s, Keys(s))
      BY Zenon
    <2>2. FromBest(s) = F
      BY <2>1, Zenon DEF FromBest, FromKeys
    <2>3. Keys(s) \in SUBSET Prices
      BY Zenon DEF Keys
    <2>4. PICK n \in Nat : Lists(F, n, Keys(s))
      BY <2>1, <2>3, FromKeysIs, Zenon
    <2>5. \A k \in DOMAIN F : F[k] \in Prices
      BY <2>3, <2>4, Zenon DEF Lists
    <2>6. [k \in DOMAIN F |-> Queue(s, F[k])] = [k \in DOMAIN F |-> B[s][F[k]]]
      BY <1>2, <2>5, Zenon
    <2> QED BY <1>4, <2>1, <2>2, <2>6, Zenon DEF RestingOrders, ListFrom
  <1>6. AllRestingOrders = AllFrom(B)
    <2>1. RestingOrders("Ask") = ListFrom(B, "Ask") /\ RestingOrders("Bid") = ListFrom(B, "Bid")
      BY <1>5, Zenon DEF Sides
    <2> QED BY <2>1, Zenon DEF AllRestingOrders, AllFrom
  <1>7. best = BestFrom(B)
    <2>1. best \in [Sides -> Prices \cup {NoPrice}] /\ \A s \in Sides : best[s] = BestOf(s, Keys(s))
      BY Zenon DEF BookInv, Bests, BestIsBest
    <2>2. PICK b : b = BestFrom(B)
      OBVIOUS
    <2>3. b = [s \in Sides |-> BestOf(s, Occupied(B, s))]
      BY <2>2, Zenon DEF BestFrom
    <2>4. \A s \in Sides : b[s] = BestOf(s, Keys(s))
      BY <1>4, <2>3, Zenon
    <2> QED BY <2>1, <2>2, <2>3, <2>4, Zenon
  <1> QED BY <1>1, <1>3, <1>6, <1>7, Zenon

\* A captured book: the orders and the best prices of some queues.
IsCapture(orders, bests) == \E B : Proper(B) /\ orders = AllFrom(B) /\ bests = BestFrom(B)

\* The first n orders are in the book.
Replayed(orders, n) ==
  \A s \in Sides, p \in Prices : Queue(s, p) = Belonging(orders, n, s, p)

\* What a restore is about: the snapshot was captured, and the book has those
\* of its orders that have been inserted, each in its queue.
ReplayInv ==
  Restoring => IsCapture(snapshot.orders, snapshot.best) /\ Replayed(snapshot.orders, restored)

\* The capture, and an empty book.
LEMMA CaptureReplays ==
  ASSUME MatchingInv, CaptureAndRestart
  PROVE  ReplayInv'
  <1>1. PICK all : all = AllRestingOrders
    BY Zenon
  <1>2. snapshot'.orders = all /\ snapshot'.best = best /\ restored' = 0
    BY <1>1, Zenon DEF CaptureAndRestart
  <1>3. IsCapture(all, best) /\ all \in Seq(Orders)
    <2>1. BookInv
      BY DEF MatchingInv
    <2>2. PICK B : B = BookQueues
      BY Zenon
    <2>3. Proper(B) /\ all = AllFrom(B) /\ best = BestFrom(B)
      BY <1>1, <2>1, <2>2, CapturedIs, Zenon
    <2>4. all \in Seq(Orders)
      BY <2>3, AllFromIs, Zenon
    <2> QED BY <2>3, <2>4, Zenon DEF IsCapture
  <1>4. ASSUME NEW s \in Sides, NEW p \in Prices PROVE Queue(s, p)' = Belonging(all, 0, s, p)
    <2>1. levels'[s][p] = NoLevel
      BY Zenon DEF CaptureAndRestart, ResetBook
    <2>2. Queue(s, p)' = << >>
      BY <2>1, Zenon DEF Queue
    <2>3. Belonging(all, 0, s, p) = << >>
      BY <1>3, BelongingStep, Zenon
    <2> QED BY <2>2, <2>3, Zenon
  <1>5. Replayed(all, 0)'
    BY <1>4, Zenon DEF Replayed, Belonging
  <1>6. Replayed(snapshot.orders, restored)'
    BY <1>2, <1>5, Zenon DEF Replayed
  <1> QED BY <1>2, <1>3, <1>6, SMTT(30) DEF ReplayInv

\* The next order of the snapshot joins its queue.
LEMMA InsertReplays ==
  ASSUME MatchingInv, ReplayInv, RestoreInsert
  PROVE  ReplayInv'
  <1>1. PICK all \in Seq(Orders) : /\ all = snapshot.orders /\ restored = arena.count
    BY Zenon DEF RestoreInsert, MatchingInv, RestoreInv
  <1>2. PICK n \in Nat : n = restored
    <2>1. BookTypeOK
      BY BookTyped, Zenon DEF MatchingInv
    <2> QED BY <1>1, <2>1, ArenaAssumption, SMTT(30) DEF BookTypeOK
  <1>3. PICK x \in 1 .. Len(all) : x = n + 1
    BY <1>1, <1>2, SMTT(30) DEF RestoreInsert
  <1>4. PICK o \in Orders : o = all[x] /\ InsertOrder(o)
    BY <1>1, <1>2, <1>3, SMTT(30) DEF RestoreInsert
  <1>5. o \in Takers /\ o.quantity > 0
    BY BookAssumption, SMTT(30) DEF Orders, Takers
  <1>6. Inserted(o)
    BY <1>4, <1>5, InsertKeeps, Zenon DEF MatchingInv
  <1>7. QueuesSet(o.side, o.price, Append(Queue(o.side, o.price), o))
    BY <1>5, <1>6, InsertQueues, SMTT(30)
  <1>8. snapshot' = snapshot /\ restored' = x /\ Restoring
    BY <1>2, <1>3, Zenon DEF RestoreInsert
  <1>9. IsCapture(all, snapshot.best) /\ Replayed(all, n)
    BY <1>1, <1>2, <1>8, SMTT(30) DEF ReplayInv
  <1>10. ASSUME NEW s \in Sides, NEW p \in Prices PROVE Queue(s, p)' = Belonging(all, x, s, p)
    <2>1. Queue(s, p) = Belonging(all, n, s, p)
      BY <1>9, Zenon DEF Replayed
    <2>2. Queue(s, p)' = Chosen(Queue(s, p), o, s, p)
      <3>1. PICK c, e : c = Queue(s, p) /\ e = Queue(s, p)'
        BY Zenon
      <3>2. CASE Belongs(o, s, p)
        <4>1. s = o.side /\ p = o.price
          BY <3>2, Zenon DEF Belongs
        <4>2. Queue(s, p)' = Append(Queue(s, p), o)
          BY <1>7, <4>1, Zenon DEF QueuesSet
        <4> QED BY <3>2, <4>2, Zenon DEF Chosen
      <3>3. CASE ~Belongs(o, s, p)
        <4>1. Queue(s, p)' = Queue(s, p)
          BY <1>7, <3>3, Zenon DEF QueuesSet, Belongs
        <4> QED BY <3>3, <4>1, Zenon DEF Chosen
      <3> QED BY <3>2, <3>3, Zenon
    <2>3. Belonging(all, x, s, p) = Chosen(Belonging(all, n, s, p), all[x], s, p)
      BY <1>3, BelongingNext, SMTT(30)
    <2> QED BY <1>4, <2>1, <2>2, <2>3, Zenon
  <1>11. Replayed(all, x)'
    BY <1>10, Zenon DEF Replayed, Belonging
  <1>12. IsCapture(all, snapshot.best)'
    BY <1>8, <1>9, SMTT(30) DEF IsCapture
  <1>13. (IsCapture(snapshot.orders, snapshot.best) /\ Replayed(snapshot.orders, restored))'
    BY <1>1, <1>8, <1>9, <1>11, <1>12, SMTT(30) DEF Replayed
  <1> QED BY <1>13, Zenon DEF ReplayInv

\* The commands and the steps of add_order run outside a restore.
LEMMA CallsOutsideRestore ==
  ASSUME MatchingInv, Idle \/ taker # NoOrder
  PROVE  ~Restoring /\ (UNCHANGED restoreVars => ReplayInv')
  <1>1. snapshot = NoSnapshot
    BY DEF MatchingInv, CallInv, Idle
  <1>2. UNCHANGED restoreVars => snapshot' = NoSnapshot
    BY <1>1, Zenon DEF restoreVars
  <1> QED BY <1>1, <1>2, Zenon DEF Restoring, ReplayInv

\* Every step keeps what is known of a restore.
LEMMA ReplayStep ==
  MatchingInv /\ ReplayInv /\ [Next]_vars => ReplayInv'
  <1> SUFFICES ASSUME MatchingInv, ReplayInv, [Next]_vars PROVE ReplayInv'
    BY Zenon
  <1>1. ASSUME NEW o \in Orders, AddOrder(o) PROVE ReplayInv'
    BY <1>1, CallsOutsideRestore, Zenon DEF AddOrder
  <1>2. CASE AddZeroQuantity
    BY <1>2, CallsOutsideRestore, Zenon DEF AddZeroQuantity
  <1>3. CASE Fill
    BY <1>3, CallsOutsideRestore, Zenon DEF Fill, Matchable
  <1>4. CASE FullyFilled
    BY <1>4, CallsOutsideRestore, Zenon DEF FullyFilled, Return
  <1>5. CASE CancelledSelfTrade
    BY <1>5, CallsOutsideRestore, Zenon DEF CancelledSelfTrade, Matchable, Return
  <1>6. CASE RestOrder
    BY <1>6, CallsOutsideRestore, Zenon DEF RestOrder, Unmatched, Return
  <1>7. CASE RejectOrder
    BY <1>7, CallsOutsideRestore, Zenon DEF RejectOrder, Unmatched, Return
  <1>8. ASSUME NEW id \in Ids, Cancel(id) PROVE ReplayInv'
    BY <1>8, CallsOutsideRestore, Zenon DEF Cancel
  <1>9. CASE CaptureAndRestart
    BY <1>9, CaptureReplays, Zenon
  <1>10. CASE RestoreInsert
    BY <1>10, InsertReplays, Zenon
  <1>11. CASE RestoreDone
    BY <1>11, Zenon DEF RestoreDone, ReplayInv, Restoring
  <1>12. CASE UNCHANGED vars
    <2>1. UNCHANGED <<arena, levels, snapshot, restored>>
      BY <1>12, Zenon DEF vars, bookVars, restoreVars
    <2>2. \A s \in Sides, p \in Prices : Queue(s, p)' = Queue(s, p)
      BY <2>1, Zenon DEF Queue
    <2> QED BY <2>1, <2>2, Zenon DEF ReplayInv, Replayed, IsCapture, Restoring
  <1> QED BY <1>1, <1>2, <1>3, <1>4, <1>5, <1>6, <1>7, <1>8, <1>9, <1>10, <1>11, <1>12, SMTT(30) DEF Next

\* Both invariants hold in every state of the engine.
LEMMA ReplayAlways ==
  Spec => [](MatchingInv /\ ReplayInv)
  <1>1. Init => ReplayInv
    BY Zenon DEF Init, ReplayInv, Restoring
  <1> QED BY <1>1, MatchingInit, MatchingStep, ReplayStep, PTL DEF Spec

\* When restore_from_orders has inserted every order of a snapshot, the engine
\* lists the orders that were captured, in the captured order, and has the
\* captured best prices.
THEOREM RestoredAsCaptured ==
  Spec => []RestoreExact
  <1>1. MatchingInv /\ ReplayInv => RestoreExact
    <2> SUFFICES ASSUME MatchingInv, ReplayInv, Restoring, restored = Len(snapshot.orders)
                 PROVE  AllRestingOrders = snapshot.orders /\ best = snapshot.best
      BY Zenon DEF RestoreExact
    <2>1. PICK all, bests : all = snapshot.orders /\ bests = snapshot.best
      BY Zenon
    <2>2. PICK B : Proper(B) /\ all = AllFrom(B) /\ bests = BestFrom(B)
      BY <2>1, Zenon DEF ReplayInv, IsCapture
    <2>3. \A s \in Sides, p \in Prices : Queue(s, p) = Sorted(all, s, p)
      BY <2>1, Zenon DEF ReplayInv, Replayed, Sorted
    <2>4. \A s \in Sides, p \in Prices : Queue(s, p) = B[s][p]
      BY <2>2, <2>3, AllFromIs, Zenon
    <2>5. PICK T : T = Seq(Orders)
      BY Zenon
    <2>6. B \in [Sides -> [Prices -> T]]
      BY <2>2, <2>5, Zenon DEF Proper
    <2>7. BookQueues = B
      BY <2>4, <2>6, Zenon DEF BookQueues
    <2>8. BookInv
      BY DEF MatchingInv
    <2> QED BY <2>1, <2>2, <2>7, <2>8, CapturedIs, Zenon
  <1> QED BY <1>1, ReplayAlways, PTL
=============================================================================
