------------------------------ MODULE BookProofs ------------------------------
(***************************************************************************)
(* The order book: what insert_order, cancel_order and                     *)
(* reduce_front_quantity keep of the levels, the index, the best prices    *)
(* and the arena, and what follows from it.                                *)
(***************************************************************************)
EXTENDS QueueProofs

(* The best prices *)

\* A price that every other is worse than.
IsBest(side, keys, p) == p \in keys /\ \A r \in keys \ {p} : Better(side, p, r)

\* A side with a level has a best price, and only one.
LEMMA BestOfIs ==
  ASSUME NEW side, NEW keys \in SUBSET Prices
  PROVE  /\ keys = {} => BestOf(side, keys) = NoPrice
         /\ keys # {} => IsBest(side, keys, BestOf(side, keys))
         /\ \A p : IsBest(side, keys, p) => BestOf(side, keys) = p
  <1>1. IsFiniteSet(keys) /\ keys \subseteq Int
    BY BookAssumption, FS_Subset, FS_CardinalityType, Zenon
  <1>2. ASSUME keys # {} PROVE IsBest(side, keys, BestOf(side, keys))
    <2>1. PICK h \in keys : \A x \in keys : x <= h
      BY <1>1, <1>2, FiniteBounds, Zenon
    <2>2. PICK l \in keys : \A x \in keys : l <= x
      BY <1>1, <1>2, FiniteBounds, Zenon
    <2>3. \E p \in keys : \A r \in keys \ {p} : Better(side, p, r)
      <3>1. CASE side = "Bid"
        <4>1. \A r \in keys \ {h} : h > r
          BY <1>1, <2>1
        <4> QED BY <3>1, <4>1 DEF Better
      <3>2. CASE side # "Bid"
        <4>1. \A r \in keys \ {l} : l < r
          BY <1>1, <2>2
        <4> QED BY <3>2, <4>1 DEF Better
      <3> QED BY <3>1, <3>2
    <2> QED BY <1>2, <2>3 DEF BestOf, IsBest
  <1>3. ASSUME NEW p, IsBest(side, keys, p) PROVE BestOf(side, keys) = p
    <2>1. keys # {} /\ IsBest(side, keys, BestOf(side, keys))
      BY <1>2, <1>3, Zenon DEF IsBest
    <2>2. PICK b : b = BestOf(side, keys)
      OBVIOUS
    <2>3. ASSUME b # p PROVE FALSE
      <3>1. b \in Int /\ p \in Int /\ Better(side, b, p) /\ Better(side, p, b)
        BY <1>1, <1>3, <2>1, <2>2, <2>3, Zenon DEF IsBest
      <3> QED BY <3>1 DEF Better
    <2> QED BY <2>2, <2>3
  <1>4. keys = {} => BestOf(side, keys) = NoPrice
    BY DEF BestOf
  <1> QED BY <1>2, <1>3, <1>4, Zenon

\* An added price is the best one, or the best one is still there.
LEMMA BestAfterAdding ==
  ASSUME NEW side, NEW keys \in SUBSET Prices, NEW p \in Prices, NEW b, b = BestOf(side, keys)
  PROVE  BestOf(side, keys \cup {p}) = IF b = NoPrice \/ Better(side, p, b) THEN p ELSE b
  <1>1. PICK more \in SUBSET Prices : more = keys \cup {p}
    BY Zenon
  <1>2. keys \subseteq Int /\ p \in Int
    BY BookAssumption
  <1>3. CASE keys = {}
    <2>1. b = NoPrice
      BY <1>3, BestOfIs
    <2>2. IsBest(side, more, p)
      BY <1>1, <1>3 DEF IsBest
    <2> QED BY <1>1, <2>1, <2>2, BestOfIs, Zenon
  <1>4. CASE keys # {}
    <2>1. IsBest(side, keys, b)
      BY <1>4, BestOfIs
    <2>2. b \in keys /\ b # NoPrice /\ b \in Int
      BY <1>2, <2>1, BookAssumption, Zenon DEF IsBest
    <2>3. CASE Better(side, p, b)
      <3>1. ASSUME NEW r \in more \ {p} PROVE Better(side, p, r)
        <4>1. r = b \/ (Better(side, b, r) /\ r \in Int)
          BY <1>1, <1>2, <2>1, Zenon DEF IsBest
        <4> QED BY <1>2, <2>2, <2>3, <4>1, SMTT(30) DEF Better
      <3>2. IsBest(side, more, p)
        BY <1>1, <3>1, Zenon DEF IsBest
      <3> QED BY <1>1, <2>3, <3>2, BestOfIs, Zenon
    <2>4. CASE ~Better(side, p, b)
      <3>1. ASSUME NEW r \in more \ {b} PROVE Better(side, b, r)
        <4>1. CASE r \in keys
          BY <2>1, <3>1, <4>1, Zenon DEF IsBest
        <4>2. CASE r = p
          BY <1>2, <2>2, <2>4, <3>1, <4>2 DEF Better
        <4> QED BY <1>1, <4>1, <4>2, Zenon
      <3>2. IsBest(side, more, b)
        BY <1>1, <2>2, <3>1, Zenon DEF IsBest
      <3> QED BY <1>1, <2>2, <2>4, <3>2, BestOfIs, Zenon
    <2> QED BY <2>3, <2>4, Zenon
  <1> QED BY <1>3, <1>4, Zenon
-----------------------------------------------------------------------------
(* The levels *)

\* The map has the level of every queue that is not empty.
LevelsAre(lv, st, q) ==
  /\ lv \in [Sides -> [Prices -> Levels \cup {NoLevel}]]
  /\ \A s \in Sides, p \in Prices :
       lv[s][p] = IF q[s][p] = << >> THEN NoLevel ELSE LevelOf(st, q[s][p])

\* The level of a queue is a level, and empty when the queue is.
LEMMA LevelOfIs ==
  ASSUME NEW st, NEW s, NEW side, NEW price, IsQueue(st, s, side, price)
  PROVE  /\ LevelOf(st, s) \in Levels /\ LevelOf(st, s) # NoLevel
         /\ LevelOf(st, s).count = 0 <=> s = << >>
         /\ s # << >> => /\ LevelOf(st, s).head = s[1] /\ 1 \in 1 .. Len(s)
                         /\ LevelOf(st, s).tail = s[Len(s)]
  <1>1. /\ s \in Seq(Indices) /\ Len(s) \in 0 .. ArenaCapacity
        /\ Total(Quantities(st, s)) \in Int
    <2>1. Linked(st, s)
      BY Zenon DEF IsQueue
    <2>2. s \in Seq(Indices)
      BY <2>1, Zenon DEF Linked
    <2>3. Len(s) \in 0 .. ArenaCapacity
      BY <2>1, LinkedBound, Zenon
    <2>4. Total(Quantities(st, s)) \in Int
      BY QuantitiesType, Zenon
    <2> QED BY <2>2, <2>3, <2>4, Zenon
  <1>2. PICK t \in Int : t = Total(Quantities(st, s))
    BY <1>1
  <1>3. t % QtyModulus \in 0 .. QtyModulus - 1
    BY ModFacts, ArenaAssumption
  <1>4. First(s) \in Indices \cup {ARENA_NULL} /\ Last(s) \in Indices \cup {ARENA_NULL}
    <2>1. CASE s = << >>
      BY <2>1 DEF First, Last
    <2>2. CASE s # << >>
      <3>1. Len(s) \in 1 .. Len(s) /\ 1 \in 1 .. Len(s)
        BY <1>1, <2>2
      <3>2. s[1] \in Indices /\ s[Len(s)] \in Indices
        BY <1>1, <3>1
      <3> QED BY <2>2, <3>2, Zenon DEF First, Last
    <2> QED BY <2>1, <2>2
  <1>5. LevelOf(st, s) \in Levels
    BY <1>1, <1>2, <1>3, <1>4, Zenon DEF LevelOf, Levels
  <1>6. Levels \subseteq [head : Int, tail : Int, count : Int, qty : Int]
    <2>1. /\ Indices \cup {ARENA_NULL} \subseteq Int /\ 0 .. ArenaCapacity \subseteq Int
          /\ 0 .. QtyModulus - 1 \subseteq Int
      BY IndexFacts
    <2> QED BY <2>1 DEF Levels
  <1>7. LevelOf(st, s).count = 0 <=> s = << >>
    BY <1>1 DEF LevelOf
  <1>8. ASSUME s # << >>
        PROVE  /\ LevelOf(st, s).head = s[1] /\ 1 \in 1 .. Len(s)
               /\ LevelOf(st, s).tail = s[Len(s)]
    BY <1>1, <1>8 DEF LevelOf, First, Last
  <1> QED BY <1>5, <1>6, <1>7, <1>8, MarkerAssumption, Zenon

\* A new level is that of the empty queue.
LEMMA NewLevelIs ==
  ASSUME NEW st
  PROVE  NewLevel = LevelOf(st, << >>)
  <1>1. PICK f : f = Quantities(st, << >>)
    OBVIOUS
  <1>2. f \in [1 .. 0 -> Int]
    BY <1>1 DEF Quantities
  <1>3. PICK t : Sums(t, f, 0) /\ Total(f) = t[0]
    BY <1>2, TotalSums, Zenon
  <1>4. Total(f) = 0
    BY <1>3 DEF Sums
  <1>5. 0 % QtyModulus = 0
    <2>1. 0 = (QtyModulus * 0) + 0 /\ 0 \in 0 .. QtyModulus - 1
      BY ArenaAssumption
    <2> QED BY <2>1, ModUnique, ArenaAssumption
  <1> QED BY <1>1, <1>4, <1>5, Zenon DEF NewLevel, LevelOf, First, Last
-----------------------------------------------------------------------------
(* The book *)

\* The nodes are placed and the levels describe their queues; no order is
\* used up; the index and the best prices are right.
Arranged == \E free, q : Placed(arena, free, q) /\ LevelsAre(levels, arena.storage, q)
Positive == \A i \in Indices :
              arena.storage[i].order # NoOrder => arena.storage[i].order.quantity > 0
Indexed == order_index \in [Ids -> Links] /\ IndexExact
Bests == best \in [Sides -> Prices \cup {NoPrice}] /\ BestIsBest

\* What every operation of the book keeps.
BookInv == Arranged /\ Positive /\ Indexed /\ Bests

\* A change of one level in the map.
LevelSet(side, price, v) ==
  /\ levels' \in [Sides -> [Prices -> Levels \cup {NoLevel}]]
  /\ \A t \in Sides, p \in Prices :
       levels'[t][p] = IF t = side /\ p = price THEN v ELSE levels[t][p]

\* A write of one entry of the map changes that level alone.
LEMMA LevelSetIs ==
  ASSUME levels \in [Sides -> [Prices -> Levels \cup {NoLevel}]],
         NEW side \in Sides, NEW price \in Prices, NEW v \in Levels \cup {NoLevel},
         levels' = [levels EXCEPT ![side][price] = v]
  PROVE  LevelSet(side, price, v)
  BY DEF LevelSet

\* The levels describe the queues again when the changed queue has its level,
\* or none if it is empty.
LEMMA LevelSetKeeps ==
  ASSUME NEW a2, NEW q, NEW q2, LevelsAre(levels, arena.storage, q),
         NEW side \in Sides, NEW price \in Prices, NEW level, NEW v,
         QueueMoved(arena, a2, q, q2, side, price, level), LevelSet(side, price, v),
         v = IF q2[side][price] = << >> THEN NoLevel ELSE level
  PROVE  LevelsAre(levels', a2.storage, q2)
  <1>1. levels' \in [Sides -> [Prices -> Levels \cup {NoLevel}]]
    BY DEF LevelSet
  <1>2. ASSUME NEW t \in Sides, NEW p \in Prices
        PROVE  levels'[t][p] = IF q2[t][p] = << >> THEN NoLevel ELSE LevelOf(a2.storage, q2[t][p])
    <2>1. CASE t = side /\ p = price
      BY <2>1, Zenon DEF LevelSet, QueueMoved
    <2>2. CASE ~(t = side /\ p = price)
      <3>1. levels'[t][p] = levels[t][p]
        BY <2>2, Zenon DEF LevelSet
      <3>2. q2[t][p] = q[t][p] /\ LevelOf(a2.storage, q[t][p]) = LevelOf(arena.storage, q[t][p])
        BY <2>2, Zenon DEF QueueMoved
      <3>3. levels[t][p] = IF q[t][p] = << >> THEN NoLevel ELSE LevelOf(arena.storage, q[t][p])
        BY DEF LevelsAre
      <3> QED BY <3>1, <3>2, <3>3, Zenon
    <2> QED BY <2>1, <2>2, Zenon
  <1> QED BY <1>1, <1>2, Zenon DEF LevelsAre

\* What becomes of the keys.
KeysAdded(side, price) ==
  \A t \in Sides : Keys(t)' = IF t = side THEN Keys(t) \cup {price} ELSE Keys(t)

\* No side has a new price.
KeysKept == \A t \in Sides : Keys(t)' \subseteq Keys(t)

\* A level that is written is a key, and one that is taken out is not.
LEMMA LevelSetKeys ==
  ASSUME NEW side \in Sides, NEW price \in Prices, NEW v, LevelSet(side, price, v), NEW t \in Sides
  PROVE  Keys(t)' = IF t # side THEN Keys(t)
                    ELSE IF v = NoLevel THEN Keys(t) \ {price} ELSE Keys(t) \cup {price}
  <1>1. Keys(t)' = {p \in Prices : levels'[t][p] # NoLevel}
    BY DEF Keys
  <1>2. \A p \in Prices : levels'[t][p] = IF t = side /\ p = price THEN v ELSE levels[t][p]
    BY DEF LevelSet
  <1>3. CASE t # side
    BY <1>1, <1>2, <1>3, Zenon DEF Keys
  <1>4. CASE t = side /\ v = NoLevel
    BY <1>1, <1>2, <1>4 DEF Keys
  <1>5. CASE t = side /\ v # NoLevel
    BY <1>1, <1>2, <1>5, Zenon DEF Keys
  <1> QED BY <1>3, <1>4, <1>5, Zenon

\* Putting a changed level back keeps the map and the best prices right.
LEMMA StoreKeeps ==
  ASSUME NEW a2, NEW free2, NEW q, NEW q2, LevelsAre(levels, arena.storage, q),
         QueuesAre(arena.storage, q), Bests, Placed(a2, free2, q2),
         NEW side \in Sides, NEW price \in Prices, q[side][price] # << >>, NEW level,
         QueueMoved(arena, a2, q, q2, side, price, level), StoreLevel(side, price, level)
  PROVE  LevelsAre(levels', a2.storage, q2) /\ Bests' /\ KeysKept
  <1>1. PICK s : s = q2[side][price] /\ IsQueue(a2.storage, s, side, price)
    BY Zenon DEF Placed, QueuesAre
  <1>2. level = LevelOf(a2.storage, s)
    BY <1>1, Zenon DEF QueueMoved
  <1>3. level \in Levels /\ level # NoLevel /\ (level.count = 0 <=> s = << >>)
    BY <1>1, <1>2, LevelOfIs
  <1>4. PICK v \in Levels \cup {NoLevel} : v = IF s = << >> THEN NoLevel ELSE level
    BY <1>3, Zenon
  <1>5. levels \in [Sides -> [Prices -> Levels \cup {NoLevel}]]
    BY DEF LevelsAre
  <1>6. levels' = [levels EXCEPT ![side][price] = v]
    BY <1>3, <1>4, Zenon DEF StoreLevel
  <1>7. LevelSet(side, price, v)
    BY <1>5, <1>6, LevelSetIs, Zenon
  <1>8. LevelsAre(levels', a2.storage, q2)
    BY <1>1, <1>4, <1>7, LevelSetKeeps, Zenon
  <1>9. price \in Keys(side)
    <2>1. IsQueue(arena.storage, q[side][price], side, price)
      BY DEF QueuesAre
    <2>2. levels[side][price] = LevelOf(arena.storage, q[side][price])
      BY DEF LevelsAre
    <2> QED BY <2>1, <2>2, LevelOfIs DEF Keys
  <1>10. best \in [Sides -> Prices \cup {NoPrice}] /\ \A t \in Sides : best[t] = BestOf(t, Keys(t))
    BY DEF Bests, BestIsBest
  <1>11. PICK left \in SUBSET Prices : left = Keys(side) \ {price}
    BY Zenon DEF Keys
  <1>12. best' = IF s = << >> THEN [best EXCEPT ![side] = BestOf(side, left)] ELSE best
    BY <1>3, <1>11, Zenon DEF StoreLevel
  <1>13. BestOf(side, left) \in Prices \cup {NoPrice}
    BY BestOfIs DEF IsBest
  <1>14. best' \in [Sides -> Prices \cup {NoPrice}]
    BY <1>10, <1>12, <1>13, Zenon
  <1>15. ASSUME NEW t \in Sides PROVE best'[t] = BestOf(t, Keys(t)')
    <2>1. CASE t # side
      <3>1. Keys(t)' = Keys(t)
        BY <1>7, <2>1, LevelSetKeys, SMTT(30)
      <3>2. best'[t] = best[t]
        BY <1>10, <1>12, <2>1, Zenon
      <3> QED BY <1>10, <3>1, <3>2, Zenon
    <2>2. CASE t = side /\ s = << >>
      <3>1. Keys(t)' = left
        BY <1>4, <1>7, <1>11, <2>2, LevelSetKeys, SMTT(30)
      <3>2. best'[t] = BestOf(side, left)
        BY <1>10, <1>12, <2>2, Zenon
      <3> QED BY <2>2, <3>1, <3>2, Zenon
    <2>3. CASE t = side /\ s # << >>
      <3>1. Keys(t)' = Keys(t) \cup {price}
        BY <1>3, <1>4, <1>7, <2>3, LevelSetKeys, SMTT(30)
      <3>2. Keys(t)' = Keys(t)
        BY <1>9, <2>3, <3>1, Zenon
      <3>3. best'[t] = best[t]
        BY <1>12, <2>3, Zenon
      <3> QED BY <1>10, <3>2, <3>3, SMTT(30)
    <2> QED BY <2>1, <2>2, <2>3, Zenon
  <1>16. BestIsBest'
    <2>1. BestIsBest' <=> \A t \in Sides : best'[t] = BestOf(t, Keys(t)')
      BY DEF BestIsBest, BestOf, Better
    <2> QED BY <1>15, <2>1, Zenon
  <1>17. Bests'
    BY <1>14, <1>16, Zenon DEF Bests
  <1>18. KeysKept
    BY <1>7, <1>9, LevelSetKeys DEF KeysKept
  <1> QED BY <1>8, <1>17, <1>18, Zenon

\* One queue has changed, from the nodes w to the nodes w2, and so has the
\* order of one node.
Rearranged(side, price, w, w2, i, v) ==
  \E free, q, free2, q2 :
    /\ Placed(arena, free, q) /\ LevelsAre(levels, arena.storage, q)
    /\ Placed(arena', free2, q2) /\ LevelsAre(levels', arena'.storage, q2)
    /\ w = q[side][price] /\ RequeuedEffect(q, q2, side, price, w2)
    /\ i \in Indices
    /\ \A j \in Indices : arena'.storage[j].order = IF j = i THEN v ELSE arena.storage[j].order

\* What insert_order, cancel_order and reduce_front_quantity do to the queues.
Inserted(o) ==
  \E w, h : /\ Rearranged(o.side, o.price, w, Append(w, h), h, o)
            /\ arena.storage[h].order = NoOrder

\* One order has left its queue, from wherever it stood.
Removed(id) ==
  \E side \in Sides, price \in Prices : \E w : \E x \in 1 .. Len(w) :
    /\ Rearranged(side, price, w, Cut(w, x), w[x], NoOrder)
    /\ arena.storage[w[x]].order.id = id

\* The front order has left its queue, or has less.
FrontReduced(side, price, amount) ==
  \E w : /\ 1 \in 1 .. Len(w) /\ arena.storage[w[1]].order = PeekFront(side, price)
         /\ IF amount = PeekFront(side, price).quantity
              THEN Rearranged(side, price, w, Cut(w, 1), w[1], NoOrder)
              ELSE Rearranged(side, price, w, w, w[1],
                              [PeekFront(side, price) EXCEPT !.quantity = @ - amount])

\* insert_order keeps the book right.
LEMMA InsertKeeps ==
  ASSUME BookInv, NEW o \in Takers, o.quantity > 0, InsertOrder(o)
  PROVE  /\ BookInv' /\ KeysAdded(o.side, o.price) /\ arena'.count = arena.count + 1
         /\ Inserted(o)
  <1>1. PICK free, q : Placed(arena, free, q) /\ LevelsAre(levels, arena.storage, q)
    BY DEF BookInv, Arranged
  <1>2. Positive /\ Indexed /\ Bests
    BY DEF BookInv
  <1>3. PICK side \in Sides, price \in Prices, id \in Ids :
          side = o.side /\ price = o.price /\ id = o.id
    BY DEF Takers
  <1>4. PICK s : s = q[side][price] /\ IsQueue(arena.storage, s, side, price) /\ s \in Seq(Indices)
    BY <1>1, QueueNode, Zenon DEF Placed
  <1>5. PICK h : h = arena.free_head
    OBVIOUS
  <1>6. PICK level : /\ level = IF levels[side][price] = NoLevel THEN NewLevel
                                                                 ELSE levels[side][price]
                     /\ level = LevelOf(arena.storage, s)
    <2>1. levels[side][price] = IF s = << >> THEN NoLevel ELSE LevelOf(arena.storage, s)
      BY <1>1, <1>4, Zenon DEF LevelsAre
    <2>2. LevelOf(arena.storage, s) # NoLevel
      BY <1>4, LevelOfIs
    <2>3. NewLevel = LevelOf(arena.storage, << >>)
      BY NewLevelIs
    <2> QED BY <2>1, <2>2, <2>3, Zenon
  <1>7. PICK r : r = PushBack(Alloc(arena, o), level, h)
    OBVIOUS
  <1>8. /\ order_index[id] = ARENA_NULL /\ h # ARENA_NULL
        /\ arena' = r.arena
        /\ levels' = [levels EXCEPT ![side][price] = r.level]
        /\ order_index' = [order_index EXCEPT ![id] = h]
        /\ best' = [best EXCEPT ![side] = BestAfterInsert(side, price)]
    BY <1>3, <1>5, <1>6, <1>7, Zenon DEF InsertOrder, DuplicateOrderId, ArenaFull, Exhausted
  <1>9. PICK q2 : q2 = Requeued(q, side, price, Append(s, h))
    OBVIOUS
  <1>10. /\ h \in Indices /\ arena.storage[h].order = NoOrder
         /\ Placed(r.arena, Tail(free), q2)
         /\ QueueMoved(arena, r.arena, q, q2, side, price, r.level)
         /\ q2[side][price] = Append(s, h) /\ r.arena.count = arena.count + 1
         /\ \A j \in Indices : r.arena.storage[j].order = IF j = h THEN o ELSE arena.storage[j].order
    <2>1. r = PushBack(Alloc(arena, o), LevelOf(arena.storage, q[o.side][o.price]), h)
      BY <1>3, <1>4, <1>6, <1>7, ZenonT(30)
    <2>2. q2 = Requeued(q, o.side, o.price, Append(q[o.side][o.price], h))
      BY <1>3, <1>4, <1>9, Zenon
    <2>3. arena.free_head # ARENA_NULL
      BY <1>5, <1>8, Zenon
    <2>4. Placing(arena, r, q, q2, o, h)
      BY <1>5, <2>1, <2>2, <2>3, ZenonT(30) DEF Placing
    <2>5. PlaceEffect(arena, r, free, q, q2, o, h)
      BY <1>1, <2>4, Place, ZenonT(30)
    <2> QED BY <1>3, <1>4, <2>5, Zenon DEF PlaceEffect
  <1>11. Append(s, h) # << >>
    BY <1>4, <1>10, AppendIs, SMTT(30)
  <1>12. r.level \in Levels /\ r.level # NoLevel
    <2>1. r.level = LevelOf(r.arena.storage, q2[side][price])
      BY <1>10, Zenon DEF QueueMoved
    <2>2. IsQueue(r.arena.storage, q2[side][price], side, price)
      BY <1>10, Zenon DEF Placed, QueuesAre
    <2> QED BY <2>1, <2>2, LevelOfIs, SMTT(30)
  <1>13. LevelSet(side, price, r.level)
    <2>1. levels \in [Sides -> [Prices -> Levels \cup {NoLevel}]]
      BY <1>1, Zenon DEF LevelsAre
    <2>2. r.level \in Levels \cup {NoLevel}
      BY <1>12, Zenon
    <2> QED BY <1>8, <2>1, <2>2, LevelSetIs, Zenon
  <1>14. LevelsAre(levels', r.arena.storage, q2)
    <2>1. r.level = IF q2[side][price] = << >> THEN NoLevel ELSE r.level
      BY <1>10, <1>11, Zenon
    <2> QED BY <1>1, <1>10, <1>13, <2>1, LevelSetKeeps, ZenonT(30)
  <1>15. Arranged'
    BY <1>8, <1>10, <1>14, Zenon DEF Arranged
  <1>16. Positive'
    <2> SUFFICES ASSUME NEW j \in Indices, arena'.storage[j].order # NoOrder
                 PROVE  arena'.storage[j].order.quantity > 0
      BY Zenon DEF Positive
    <2>1. arena'.storage[j].order = IF j = h THEN o ELSE arena.storage[j].order
      BY <1>8, <1>10, Zenon
    <2> QED BY <1>2, <2>1, Zenon DEF Positive
  <1>17. order_index \in [Ids -> Links] /\ IndexExact
    BY <1>2, Zenon DEF Indexed
  <1>18. order_index' \in [Ids -> Links]
    BY <1>8, <1>10, <1>17, Zenon DEF Links
  <1>19. ASSUME NEW d \in Ids, NEW j \in Indices
         PROVE  order_index'[d] = j <=> arena'.storage[j].order # NoOrder /\ arena'.storage[j].order.id = d
    <2>1. arena'.storage[j].order = IF j = h THEN o ELSE arena.storage[j].order
      BY <1>8, <1>10, Zenon
    <2>2. order_index'[d] = IF d = id THEN h ELSE order_index[d]
      BY <1>8, <1>17, Zenon
    <2>3. o # NoOrder
      BY MarkerAssumption, Zenon
    <2>4. order_index[d] = j <=> arena.storage[j].order # NoOrder /\ arena.storage[j].order.id = d
      BY <1>17 DEF IndexExact
    <2>5. ARENA_NULL \notin Indices
      BY IndexFacts
    <2>6. CASE j = h
      BY <1>3, <1>10, <2>1, <2>2, <2>3, <2>4, <2>6, Zenon
    <2>7. CASE j # h
      BY <1>8, <2>1, <2>2, <2>4, <2>5, <2>7, SMTT(30)
    <2> QED BY <2>6, <2>7, Zenon
  <1>20. Indexed'
    <2>1. IndexExact'
      BY <1>19, Zenon DEF IndexExact
    <2> QED BY <1>18, <2>1, Zenon DEF Indexed
  <1>21. best \in [Sides -> Prices \cup {NoPrice}] /\ \A t \in Sides : best[t] = BestOf(t, Keys(t))
    BY <1>2, Zenon DEF Bests, BestIsBest
  <1>22. best' \in [Sides -> Prices \cup {NoPrice}]
    <2>1. BestAfterInsert(side, price) \in Prices \cup {NoPrice}
      BY <1>21, Zenon DEF BestAfterInsert
    <2> QED BY <1>8, <1>21, <2>1, Zenon
  <1>23. ASSUME NEW t \in Sides PROVE best'[t] = BestOf(t, Keys(t)')
    <2>1. CASE t # side
      <3>1. Keys(t)' = Keys(t)
        BY <1>13, <2>1, LevelSetKeys, SMTT(30)
      <3>2. best'[t] = best[t]
        BY <1>8, <1>21, <2>1, Zenon
      <3> QED BY <1>21, <3>1, <3>2, SMTT(30)
    <2>2. CASE t = side
      <3>1. PICK keys \in SUBSET Prices : keys = Keys(side)
        BY Zenon DEF Keys
      <3>2. Keys(side)' = keys \cup {price}
        BY <1>12, <1>13, <3>1, LevelSetKeys, SMTT(30)
      <3>3. best'[side] = BestAfterInsert(side, price)
        BY <1>8, <1>21, Zenon
      <3>4. PICK b : b = BestOf(side, keys) /\ b = best[side]
        BY <1>21, <3>1
      <3>5. BestOf(side, keys \cup {price}) = IF b = NoPrice \/ Better(side, price, b) THEN price ELSE b
        BY <3>4, BestAfterAdding, Zenon
      <3>6. best'[side] = BestOf(side, keys \cup {price})
        BY <3>3, <3>4, <3>5, ZenonT(30) DEF BestAfterInsert
      <3> QED BY <2>2, <3>2, <3>6, Zenon
    <2> QED BY <2>1, <2>2, Zenon
  <1>24. Bests'
    <2>1. BestIsBest' <=> \A t \in Sides : best'[t] = BestOf(t, Keys(t)')
      BY DEF BestIsBest, BestOf, Better
    <2> QED BY <1>22, <1>23, <2>1, SMTT(30) DEF Bests
  <1>25. KeysAdded(o.side, o.price)
    BY <1>3, <1>12, <1>13, LevelSetKeys, SMTT(30) DEF KeysAdded
  <1>26. Inserted(o)
    <2>1. RequeuedEffect(q, q2, side, price, Append(s, h))
      <3>1. Append(s, h) \in Seq(Indices) /\ QueuesAre(arena.storage, q)
        BY <1>1, <1>4, <1>10, AppendIs, ZenonT(30) DEF Placed
      <3> QED BY <1>9, <3>1, RequeuedIs, Zenon
    <2>2. Rearranged(side, price, s, Append(s, h), h, o)
      BY <1>1, <1>4, <1>8, <1>10, <1>14, <2>1, ZenonT(30) DEF Rearranged
    <2> QED BY <1>3, <1>10, <2>2, Zenon DEF Inserted
  <1> QED BY <1>8, <1>10, <1>15, <1>16, <1>20, <1>24, <1>25, <1>26, ZenonT(30) DEF BookInv

\* The id index after a node is freed.
NodeFreed(a, a2, i) ==
  \A j \in Indices : a2.storage[j].order = IF j = i THEN NoOrder ELSE a.storage[j].order

\* Freeing a node and forgetting its id keeps the index exact.
LEMMA Unindexed ==
  ASSUME NEW a2, NEW i \in Indices, NEW id \in Ids, Indexed,
         arena.storage[i].order # NoOrder, arena.storage[i].order.id = id,
         NodeFreed(arena, a2, i), arena' = a2,
         order_index' = [order_index EXCEPT ![id] = ARENA_NULL]
  PROVE  Indexed'
  <1>1. order_index \in [Ids -> Links] /\ IndexExact
    BY DEF Indexed
  <1>2. order_index' \in [Ids -> Links]
    BY <1>1, Zenon DEF Links
  <1>3. ASSUME NEW d \in Ids, NEW j \in Indices
        PROVE  order_index'[d] = j <=> arena'.storage[j].order # NoOrder /\ arena'.storage[j].order.id = d
    <2>1. order_index'[d] = IF d = id THEN ARENA_NULL ELSE order_index[d]
      BY <1>1, Zenon
    <2>2. order_index[d] = j <=> arena.storage[j].order # NoOrder /\ arena.storage[j].order.id = d
      BY <1>1, Zenon DEF IndexExact
    <2>3. order_index[id] = i
      BY <1>1 DEF IndexExact
    <2>4. j # ARENA_NULL
      BY IndexFacts, Zenon
    <2>5. CASE j = i
      BY <2>1, <2>2, <2>4, <2>5, Zenon DEF NodeFreed
    <2>6. CASE j # i
      BY <2>1, <2>2, <2>3, <2>4, <2>6, ZenonT(30) DEF NodeFreed
    <2> QED BY <2>5, <2>6, Zenon
  <1>4. IndexExact'
    BY <1>3, Zenon DEF IndexExact
  <1> QED BY <1>2, <1>4, Zenon DEF Indexed

\* cancel_order keeps the book right.
LEMMA CancelKeeps ==
  ASSUME BookInv, NEW id \in Ids, CancelOrder(id)
  PROVE  BookInv' /\ KeysKept /\ Removed(id)
  <1>1. PICK free, q : Placed(arena, free, q) /\ LevelsAre(levels, arena.storage, q)
    BY DEF BookInv, Arranged
  <1>2. Positive /\ Indexed /\ Bests
    BY DEF BookInv
  <1>3. PICK i \in Indices : /\ i = order_index[id]
                             /\ arena.storage[i].order # NoOrder /\ arena.storage[i].order.id = id
    <2>1. order_index[id] \in Links /\ order_index[id] # ARENA_NULL
      BY <1>2, Zenon DEF Indexed, CancelOrder, OrderNotFound
    <2>2. order_index[id] \in Indices
      BY <2>1, Zenon DEF Links
    <2> QED BY <1>2, <2>2, Zenon DEF Indexed, IndexExact
  <1>4. PICK o \in Takers : o = arena.storage[i].order
    <2>1. arena.storage[i] \in Slots
      BY <1>1, Zenon DEF Placed, Arenas
    <2> QED BY <1>3, <2>1, Zenon DEF Slots
  <1>5. PICK side \in Sides, price \in Prices : side = o.side /\ price = o.price
    BY DEF Takers
  <1>6. PICK s : s = q[side][price] /\ IsQueue(arena.storage, s, side, price)
    BY <1>1 DEF Placed, QueuesAre
  <1>7. PICK x \in 1 .. Len(s) : i = s[x]
    <2>1. InList(i, s)
      BY <1>1, <1>3, <1>4, <1>5, <1>6, ZenonT(30) DEF Placed, EveryNode
    <2> QED BY <2>1 DEF InList
  <1>8. s # << >> /\ levels[side][price] = LevelOf(arena.storage, s)
    <2>1. s # << >>
      BY <1>7
    <2> QED BY <1>1, <1>6, <2>1, Zenon DEF LevelsAre
  <1>9. PICK r, d, q2 : /\ r = Remove(arena, LevelOf(arena.storage, s), i)
                        /\ d = Dealloc(r.arena, i) /\ q2 = Requeued(q, side, price, Cut(s, x))
    OBVIOUS
  <1>10. /\ order_index' = [order_index EXCEPT ![id] = ARENA_NULL]
         /\ arena' = d /\ StoreLevel(side, price, r.level)
    BY <1>3, <1>4, <1>5, <1>8, <1>9, Zenon DEF CancelOrder
  <1>11. UnplaceEffect(arena, r, d, free, q, q2, side, price, s, x)
    <2>1. Unplacing(arena, r, d, q, q2, side, price, s, x, i)
      BY <1>6, <1>7, <1>9, Zenon DEF Unplacing
    <2> QED BY <1>1, <2>1, Unplace, Zenon
  <1>12. /\ Placed(d, <<i>> \o free, q2)
         /\ QueueMoved(arena, d, q, q2, side, price, r.level)
         /\ \A j \in Indices : d.storage[j].order = IF j = i THEN NoOrder ELSE arena.storage[j].order
    BY <1>7, <1>11, Zenon DEF UnplaceEffect
  <1>13. LevelsAre(levels', d.storage, q2) /\ Bests' /\ KeysKept
    <2>1. QueuesAre(arena.storage, q)
      BY <1>1, Zenon DEF Placed
    <2>2. q[side][price] # << >>
      BY <1>6, <1>8, Zenon
    <2> QED BY <1>1, <1>2, <1>10, <1>12, <2>1, <2>2, StoreKeeps, ZenonT(30)
  <1>14. Arranged'
    BY <1>10, <1>12, <1>13, Zenon DEF Arranged
  <1>15. Positive'
    BY <1>2, <1>10, <1>12, ZenonT(30) DEF Positive
  <1>16. Indexed'
    <2>1. NodeFreed(arena, d, i)
      BY <1>12, Zenon DEF NodeFreed
    <2> QED BY <1>2, <1>3, <1>10, <2>1, Unindexed, ZenonT(30)
  <1>17. Removed(id)
    <2>1. RequeuedEffect(q, q2, side, price, Cut(s, x))
      <3>1. QueuesAre(arena.storage, q) /\ q2[side][price] = Cut(s, x) /\ QueuesAre(d.storage, q2)
        BY <1>1, <1>11, <1>12, ZenonT(30) DEF Placed, UnplaceEffect
      <3>2. Cut(s, x) \in Seq(Indices)
        BY <3>1, QueueNode, Zenon
      <3> QED BY <1>9, <3>1, <3>2, RequeuedIs, ZenonT(30)
    <2>2. Rearranged(side, price, s, Cut(s, x), i, NoOrder)
      BY <1>1, <1>6, <1>10, <1>12, <1>13, <2>1, ZenonT(30) DEF Rearranged
    <2> QED BY <1>3, <1>7, <2>2, Zenon DEF Removed
  <1> QED BY <1>13, <1>14, <1>15, <1>16, <1>17, ZenonT(30) DEF BookInv

\* Two changes of the same queue.
LEMMA QueueMovedTwice ==
  ASSUME NEW a, NEW a2, NEW a3, NEW q, NEW q2, NEW side \in Sides, NEW price \in Prices,
         NEW l, NEW m, QueueMoved(a, a2, q, q, side, price, l),
         QueueMoved(a2, a3, q, q2, side, price, m)
  PROVE  QueueMoved(a, a3, q, q2, side, price, m)
  BY DEF QueueMoved

\* reduce_front_quantity keeps the book right, for an amount the front order has.
LEMMA ReduceKeeps ==
  ASSUME BookInv, NEW side \in Sides, NEW price \in Keys(side), NEW amount \in Nat,
         amount <= PeekFront(side, price).quantity,
         ReduceFrontQuantity(side, price, amount)
  PROVE  /\ BookInv' /\ KeysKept
         /\ amount = PeekFront(side, price).quantity => ~ArenaFull'
         /\ FrontReduced(side, price, amount)
  <1>1. PICK free, q : Placed(arena, free, q) /\ LevelsAre(levels, arena.storage, q)
    BY DEF BookInv, Arranged
  <1>2. Positive /\ Indexed /\ Bests /\ price \in Prices
    BY Zenon DEF BookInv, Keys
  <1>3. PICK s : /\ s = q[side][price] /\ IsQueue(arena.storage, s, side, price)
                 /\ Holds(arena.storage, s, side, price)
    BY <1>1, <1>2, QueueNode, Zenon DEF Placed
  <1>4. s # << >> /\ levels[side][price] = LevelOf(arena.storage, s)
    <2>1. levels[side][price] # NoLevel
      BY Zenon DEF Keys
    <2> QED BY <1>1, <1>2, <1>3, <2>1, ZenonT(30) DEF LevelsAre
  <1>5. LevelOf(arena.storage, s).head = s[1] /\ 1 \in 1 .. Len(s)
    BY <1>3, <1>4, LevelOfIs, SMTT(30)
  <1>6. PICK i \in Indices : i = s[1] /\ arena.storage[i].order \in Takers
                             /\ arena.storage[i].order # NoOrder
    BY <1>3, <1>5, Zenon DEF Holds
  <1>7. /\ PeekFront(side, price) = arena.storage[i].order
        /\ amount <= arena.storage[i].order.quantity
    BY <1>4, <1>5, <1>6, Zenon DEF PeekFront
  <1>8. PICK a2 : a2 = [arena EXCEPT !.storage[i].order.quantity = @ - amount]
    BY Zenon
  <1>9. arena \in Arenas
    BY <1>1, Zenon DEF Placed
  <1>10. QuantityTaken(arena, a2, i, amount)
    BY <1>6, <1>7, <1>8, <1>9, QuantityTakenIs, ZenonT(30)
  <1>11. PICK level : level = [LevelOf(arena.storage, s) EXCEPT !.qty = (@ - amount) % QtyModulus]
    BY Zenon
  <1>12. Placed(a2, free, q) /\ QueueMoved(arena, a2, q, q, side, price, level)
    <2>1. StandsAt(q, side, price, s, 1, i)
      BY <1>3, <1>5, <1>6, Zenon DEF StandsAt
    <2> QED BY <1>1, <1>2, <1>3, <1>5, <1>6, <1>10, <1>11, <2>1, Reduce, ZenonT(30)
  <1>13. level.head = i
    BY <1>5, <1>6, <1>11, Zenon DEF LevelOf
  <1>14. level = LevelOf(a2.storage, s)
    BY <1>3, <1>12, Zenon DEF QueueMoved
  <1>15. CASE a2.storage[i].order.quantity # 0
    <2>1. arena' = a2 /\ levels' = [levels EXCEPT ![side][price] = level]
          /\ best' = best /\ order_index' = order_index
      BY <1>4, <1>8, <1>11, <1>13, <1>15, ZenonT(30) DEF ReduceFrontQuantity
    <2>2. IsQueue(a2.storage, s, side, price)
      BY <1>2, <1>3, <1>12, Zenon DEF Placed, QueuesAre
    <2>3. level \in Levels /\ level # NoLevel
      BY <1>14, <2>2, LevelOfIs, Zenon
    <2>4. LevelSet(side, price, level)
      <3>1. levels \in [Sides -> [Prices -> Levels \cup {NoLevel}]]
        BY <1>1, Zenon DEF LevelsAre
      <3>2. level \in Levels \cup {NoLevel}
        BY <2>3, Zenon
      <3> QED BY <1>2, <2>1, <3>1, <3>2, LevelSetIs, ZenonT(30)
    <2>5. LevelsAre(levels', a2.storage, q)
      <3>1. level = IF q[side][price] = << >> THEN NoLevel ELSE level
        BY <1>3, <1>4, Zenon
      <3> QED BY <1>1, <1>2, <1>12, <2>4, <3>1, LevelSetKeeps, SMTT(30)
    <2>6. Arranged'
      BY <1>12, <2>1, <2>5, Zenon DEF Arranged
    <2>7. Positive'
      <3> SUFFICES ASSUME NEW j \in Indices, a2.storage[j].order # NoOrder
                   PROVE  a2.storage[j].order.quantity > 0
        BY <2>1, Zenon DEF Positive
      <3>1. CASE j = i
        <4>1. a2.storage[i].order.quantity \in 0 .. MaxQuantity
          BY <1>10, Zenon DEF QuantityTaken, Takers
        <4> QED BY <1>15, <3>1, <4>1, SMTT(30)
      <3>2. CASE j # i
        BY <1>2, <1>10, <3>2, Zenon DEF Positive, QuantityTaken
      <3> QED BY <3>1, <3>2, Zenon
    <2>8. Indexed'
      <3>1. order_index \in [Ids -> Links] /\ IndexExact
        BY <1>2, Zenon DEF Indexed
      <3>2. ASSUME NEW d \in Ids, NEW j \in Indices
            PROVE  order_index[d] = j <=> a2.storage[j].order # NoOrder /\ a2.storage[j].order.id = d
        <4>1. order_index[d] = j <=> arena.storage[j].order # NoOrder /\ arena.storage[j].order.id = d
          BY <3>1, Zenon DEF IndexExact
        <4>2. CASE j = i
          <5>1. a2.storage[j].order # NoOrder /\ a2.storage[j].order.id = arena.storage[j].order.id
            BY <1>10, <4>2, MarkerAssumption, Zenon DEF QuantityTaken
          <5> QED BY <1>6, <4>1, <4>2, <5>1, Zenon
        <4>3. CASE j # i
          BY <1>10, <4>1, <4>3, Zenon DEF QuantityTaken
        <4> QED BY <4>2, <4>3, Zenon
      <3>3. IndexExact'
        BY <2>1, <3>2, Zenon DEF IndexExact
      <3> QED BY <2>1, <3>1, <3>3, Zenon DEF Indexed
    <2>9. Bests'
      <3>1. price \in Keys(side) /\ best \in [Sides -> Prices \cup {NoPrice}]
            /\ \A t \in Sides : best[t] = BestOf(t, Keys(t))
        BY <1>2, Zenon DEF Bests, BestIsBest
      <3>2. \A t \in Sides : Keys(t)' = Keys(t)
        BY <1>2, <2>3, <2>4, <3>1, LevelSetKeys, SMTT(30)
      <3>3. BestIsBest' <=> \A t \in Sides : best'[t] = BestOf(t, Keys(t)')
        BY Zenon DEF BestIsBest, BestOf, Better
      <3> QED BY <2>1, <3>1, <3>2, <3>3, ZenonT(30) DEF Bests
    <2>10. KeysKept
      BY <1>2, <2>3, <2>4, LevelSetKeys, SMTT(30) DEF KeysKept
    <2>11. amount # PeekFront(side, price).quantity
      <3>1. a2.storage[i].order.quantity = arena.storage[i].order.quantity - amount
        BY <1>10, Zenon DEF QuantityTaken
      <3> QED BY <1>7, <1>15, <3>1, SMTT(30)
    <2>12. FrontReduced(side, price, amount)
      <3>1. QueuesAre(arena.storage, q) /\ q \in [Sides -> [Prices -> Seq(Indices)]]
        BY <1>1, Zenon DEF Placed, QueuesAre
      <3>2. RequeuedEffect(q, q, side, price, s)
        BY <1>3, <3>1, Zenon DEF RequeuedEffect
      <3>3. PICK v : v = [PeekFront(side, price) EXCEPT !.quantity = @ - amount]
        BY Zenon
      <3>4. \A j \in Indices : a2.storage[j].order = IF j = i THEN v ELSE arena.storage[j].order
        BY <1>7, <1>10, <3>3, Zenon DEF QuantityTaken
      <3>5. Rearranged(side, price, s, s, i, v)
        BY <1>1, <1>3, <1>12, <2>1, <2>5, <3>2, <3>4, ZenonT(30) DEF Rearranged
      <3> QED BY <1>5, <1>6, <1>7, <2>11, <3>3, <3>5, ZenonT(30) DEF FrontReduced
    <2> QED BY <2>6, <2>7, <2>8, <2>9, <2>10, <2>11, <2>12, ZenonT(30) DEF BookInv
  <1>16. CASE a2.storage[i].order.quantity = 0
    <2>1. PICK r, d, q2 : /\ r = Remove(a2, LevelOf(a2.storage, s), i)
                          /\ d = Dealloc(r.arena, i) /\ q2 = Requeued(q, side, price, Cut(s, 1))
      BY Zenon
    <2>2. PopFront(a2, level) = r
      <3>1. arena.storage[i].prev = ARENA_NULL
        BY <1>3, <1>5, <1>6, Zenon DEF IsQueue
      <3>2. a2.storage[level.head].prev = ARENA_NULL
        BY <1>10, <1>13, <3>1, Zenon DEF QuantityTaken
      <3> QED BY <1>13, <1>14, <2>1, <3>2, PopFrontIsRemove, ZenonT(30)
    <2>3. PICK id \in Ids : id = arena.storage[i].order.id
      BY <1>6, Zenon DEF Takers
    <2>4. /\ arena' = d /\ StoreLevel(side, price, r.level)
          /\ order_index' = [order_index EXCEPT ![id] = ARENA_NULL]
      BY <1>4, <1>8, <1>11, <1>13, <1>16, <2>1, <2>2, <2>3, ZenonT(30) DEF ReduceFrontQuantity
    <2>5. UnplaceEffect(a2, r, d, free, q, q2, side, price, s, 1)
      <3>1. Unplacing(a2, r, d, q, q2, side, price, s, 1, i)
        BY <1>3, <1>5, <1>6, <2>1, ZenonT(30) DEF Unplacing
      <3> QED BY <1>2, <1>3, <1>5, <1>12, <3>1, Unplace, ZenonT(30)
    <2>6. /\ Placed(d, <<i>> \o free, q2)
          /\ QueueMoved(a2, d, q, q2, side, price, r.level)
          /\ \A j \in Indices : d.storage[j].order = IF j = i THEN NoOrder ELSE a2.storage[j].order
      BY <1>6, <2>5, Zenon DEF UnplaceEffect
    <2>7. QueueMoved(arena, d, q, q2, side, price, r.level)
      BY <1>2, <1>12, <2>6, QueueMovedTwice, ZenonT(30)
    <2>8. LevelsAre(levels', d.storage, q2) /\ Bests' /\ KeysKept
      <3>1. QueuesAre(arena.storage, q)
        BY <1>1, Zenon DEF Placed
      <3>2. q[side][price] # << >>
        BY <1>3, <1>4, Zenon
      <3> QED BY <1>1, <1>2, <2>4, <2>6, <2>7, <3>1, <3>2, StoreKeeps, ZenonT(30)
    <2>9. Arranged'
      BY <2>4, <2>6, <2>8, Zenon DEF Arranged
    <2>10. \A j \in Indices : d.storage[j].order = IF j = i THEN NoOrder ELSE arena.storage[j].order
      BY <1>10, <2>6, Zenon DEF QuantityTaken
    <2>11. Positive'
      BY <1>2, <2>4, <2>10, Zenon DEF Positive
    <2>12. Indexed'
      <3>1. NodeFreed(arena, d, i)
        BY <2>10, Zenon DEF NodeFreed
      <3> QED BY <1>2, <1>6, <2>3, <2>4, <3>1, Unindexed, ZenonT(30)
    <2>13. ~ArenaFull'
      <3>1. d.free_head = i
        BY <2>1, Zenon DEF Dealloc
      <3> QED BY <2>4, <3>1, IndexFacts, Zenon DEF ArenaFull, Exhausted
    <2>14. amount = PeekFront(side, price).quantity
      <3>1. /\ a2.storage[i].order.quantity = arena.storage[i].order.quantity - amount
            /\ arena.storage[i].order.quantity \in 0 .. MaxQuantity
        BY <1>6, <1>10, Zenon DEF QuantityTaken, Takers
      <3> QED BY <1>7, <1>16, <3>1, BookAssumption, SMTT(30)
    <2>15. FrontReduced(side, price, amount)
      <3>1. /\ QueuesAre(arena.storage, q) /\ q2[side][price] = Cut(s, 1)
            /\ QueuesAre(d.storage, q2)
        BY <1>1, <2>5, <2>6, Zenon DEF Placed, UnplaceEffect
      <3>2. Cut(s, 1) \in Seq(Indices)
        BY <1>2, <3>1, QueueNode, ZenonT(30)
      <3>3. RequeuedEffect(q, q2, side, price, Cut(s, 1))
        BY <1>2, <2>1, <3>1, <3>2, RequeuedIs, SMTT(30)
      <3>4. Rearranged(side, price, s, Cut(s, 1), i, NoOrder)
        BY <1>1, <1>3, <2>4, <2>6, <2>8, <2>10, <3>3, ZenonT(30) DEF Rearranged
      <3> QED BY <1>5, <1>6, <1>7, <2>14, <3>4, SMTT(30) DEF FrontReduced
    <2> QED BY <2>8, <2>9, <2>11, <2>12, <2>13, <2>15, ZenonT(30) DEF BookInv
  <1> QED BY <1>15, <1>16, Zenon
-----------------------------------------------------------------------------
(* What BookInv says *)

\* Following the links from the free head and from the head of a level gives
\* the lists the nodes are placed in.
LEMMA ArrangedChains ==
  ASSUME NEW free, NEW q, Placed(arena, free, q), LevelsAre(levels, arena.storage, q)
  PROVE  /\ Chain(arena, arena.free_head) = free
         /\ \A s \in Sides : \A p \in Keys(s) :
              q[s][p] # << >> /\ Chain(arena, levels[s][p].head) = q[s][p]
  <1>1. Chain(arena, arena.free_head) = free
    BY ChainIs, Zenon DEF Placed, FreeListIs
  <1>2. ASSUME NEW s \in Sides, NEW p \in Keys(s)
        PROVE  q[s][p] # << >> /\ Chain(arena, levels[s][p].head) = q[s][p]
    <2>1. p \in Prices /\ levels[s][p] # NoLevel
      BY Zenon DEF Keys
    <2>2. PICK w : w = q[s][p] /\ IsQueue(arena.storage, w, s, p)
      BY <2>1, Zenon DEF Placed, QueuesAre
    <2>3. w # << >> /\ levels[s][p] = LevelOf(arena.storage, w)
      BY <2>1, <2>2, Zenon DEF LevelsAre
    <2>4. levels[s][p].head = First(w)
      BY <2>3 DEF LevelOf
    <2>5. Linked(arena.storage, w)
      BY <2>2, Zenon DEF IsQueue
    <2> QED BY <2>2, <2>3, <2>4, <2>5, ChainIs, Zenon
  <1> QED BY <1>1, <1>2, Zenon

\* The free list and the queues of the levels hold every node once, and count
\* is the number of orders.
LEMMA PartitionHolds ==
  ASSUME BookInv
  PROVE  ListsPartitionArena
  <1>1. PICK free, q : Placed(arena, free, q) /\ LevelsAre(levels, arena.storage, q)
    BY DEF BookInv, Arranged
  <1>2. PICK st \in [Indices -> Slots] : st = arena.storage
    BY <1>1, Zenon DEF Placed, Arenas
  <1>3. /\ FreeListIs(arena, free) /\ QueuesAre(st, q) /\ EveryNode(st, free, q)
    BY <1>1, <1>2, Zenon DEF Placed
  <1>4. /\ free \in Seq(Indices) /\ Len(free) \in Nat /\ DOMAIN free = 1 .. Len(free)
        /\ \A j, k \in 1 .. Len(free) : free[j] = free[k] => j = k
        /\ \A k \in 1 .. Len(free) : st[free[k]].order = NoOrder
    BY <1>2, <1>3, SMTT(30) DEF FreeListIs, Linked
  <1> DEFINE L == {l \in Sides \X Prices : l[2] \in Keys(l[1])}
             chains == [l \in L |-> Chain(arena, levels[l[1]][l[2]].head)]
             visits(i) == {v \in (DOMAIN chains) \X (1 .. ArenaCapacity + 1) :
                             v[2] \in DOMAIN chains[v[1]] /\ chains[v[1]][v[2]] = i}
             at(i) == {k \in DOMAIN free : free[k] = i}
  <1>5. ASSUME NEW l \in L
        PROVE  /\ l[1] \in Sides /\ l[2] \in Prices /\ l = <<l[1], l[2]>>
               /\ chains[l] = q[l[1]][l[2]]
    <2>1. l[1] \in Sides /\ l[2] \in Prices /\ l = <<l[1], l[2]>> /\ l[2] \in Keys(l[1])
      OBVIOUS
    <2>2. Chain(arena, levels[l[1]][l[2]].head) = q[l[1]][l[2]]
      BY <1>1, <2>1, ArrangedChains, SMTT(30)
    <2> QED BY <2>1, <2>2, Zenon
  <1>6. DOMAIN chains = L
    BY Zenon
  <1> HIDE DEF chains, L
  <1>7. ASSUME NEW i, NEW v \in visits(i)
        PROVE  /\ v[1] \in L /\ v = <<v[1], v[2]>>
               /\ v[2] \in 1 .. Len(q[v[1][1]][v[1][2]]) /\ q[v[1][1]][v[1][2]][v[2]] = i
               /\ st[i].order # NoOrder
               /\ st[i].order.side = v[1][1] /\ st[i].order.price = v[1][2]
    <2>1. v[1] \in L /\ v = <<v[1], v[2]>> /\ v[2] \in DOMAIN chains[v[1]] /\ chains[v[1]][v[2]] = i
      BY <1>6
    <2>a. PICK s \in Sides, p \in Prices :
            s = v[1][1] /\ p = v[1][2] /\ q[s][p] = chains[v[1]]
      BY <1>5, <2>1, Zenon
    <2>2. PICK w : w = q[s][p] /\ s = v[1][1] /\ p = v[1][2] /\ w = chains[v[1]]
      BY <2>a, Zenon
    <2>3. w \in Seq(Indices) /\ Holds(st, w, s, p)
      BY <1>3, <2>2, QueueNode, SMTT(30)
    <2>4. v[2] \in 1 .. Len(w) /\ w[v[2]] = i
      BY <2>1, <2>2, <2>3, SMTT(30)
    <2>5. st[i].order # NoOrder /\ st[i].order.side = s /\ st[i].order.price = p
      BY <2>3, <2>4, Zenon DEF Holds
    <2> QED BY <2>1, <2>2, <2>4, <2>5, Zenon
  <1>8. ASSUME NEW i \in Indices PROVE Cardinality(visits(i)) + Cardinality(at(i)) = 1
    <2>1. CASE st[i].order = NoOrder
      <3>1. visits(i) = {}
        BY <1>7, <2>1, Zenon
      <3>2. PICK k \in 1 .. Len(free) : free[k] = i
        BY <1>3, <2>1, Zenon DEF EveryNode, InList
      <3>3. at(i) = {k}
        BY <1>4, <3>2, Zenon
      <3>4. Cardinality(visits(i)) = 0 /\ Cardinality(at(i)) = 1
        BY <3>1, <3>3, FS_EmptySet, FS_Singleton, ZenonT(30)
      <3> QED BY <3>4, SMTT(30)
    <2>2. CASE st[i].order # NoOrder
      <3>1. at(i) = {}
        BY <1>4, <2>2, Zenon
      <3>2. PICK s \in Sides, p \in Prices : s = st[i].order.side /\ p = st[i].order.price
        <4>1. st[i].order \in Takers
          BY <2>2, Zenon DEF Slots
        <4> QED BY <4>1, Zenon DEF Takers
      <3>3. PICK w : w = q[s][p] /\ w \in Seq(Indices) /\ IsQueue(st, w, s, p)
        BY <1>3, QueueNode, Zenon
      <3>4. PICK k \in 1 .. Len(w) : w[k] = i
        BY <1>3, <2>2, <3>2, <3>3, ZenonT(30) DEF EveryNode, InList
      <3>5. \A j \in 1 .. Len(w) : w[j] = i => j = k
        BY <3>3, <3>4, ZenonT(30) DEF IsQueue, Linked
      <3>6. Len(w) \in 0 .. ArenaCapacity
        BY <3>3, LinkedBound, Zenon DEF IsQueue
      <3>7. levels[s][p] # NoLevel
        <4>1. w # << >>
          BY <3>4, SMTT(30)
        <4>2. levels[s][p] = LevelOf(st, w)
          BY <1>1, <1>2, <3>3, <4>1, ZenonT(30) DEF LevelsAre
        <4> QED BY <3>3, <4>2, LevelOfIs, SMTT(30)
      <3>8. PICK l \in L : l = <<s, p>>
        BY <3>7, Zenon DEF L, Keys
      <3>9. chains[l] = w /\ DOMAIN chains[l] = 1 .. Len(w)
        BY <1>5, <3>3, <3>8, SMTT(30)
      <3>10. <<l, k>> \in visits(i)
        <4>1. k \in 1 .. ArenaCapacity + 1
          BY <3>6, ArenaAssumption, SMTT(30)
        <4> QED BY <1>6, <3>4, <3>9, <4>1, ZenonT(30)
      <3>11. ASSUME NEW v \in visits(i) PROVE v = <<l, k>>
        <4>1. /\ v[1] \in L /\ v = <<v[1], v[2]>>
              /\ v[2] \in 1 .. Len(q[v[1][1]][v[1][2]]) /\ q[v[1][1]][v[1][2]][v[2]] = i
              /\ s = v[1][1] /\ p = v[1][2]
          BY <1>7, <3>2, SMTT(30)
        <4>2. v[1] = l
          BY <1>5, <3>8, <4>1, Zenon
        <4>3. v[2] = k
          BY <3>3, <3>5, <4>1, Zenon
        <4> QED BY <4>1, <4>2, <4>3, ZenonT(30)
      <3>12. visits(i) = {<<l, k>>}
        BY <3>10, <3>11, Zenon
      <3>13. Cardinality(visits(i)) = 1 /\ Cardinality(at(i)) = 0
        BY <3>1, <3>12, FS_EmptySet, FS_Singleton, ZenonT(30)
      <3> QED BY <3>13
    <2> QED BY <2>1, <2>2, Zenon
  <1>9. Chain(arena, arena.free_head) = free
    BY <1>1, ArrangedChains, Zenon
  <1>10. arena.count = ArenaCapacity - Len(free)
    BY <1>3, Zenon DEF FreeListIs
  <1> QED BY <1>8, <1>9, <1>10, Zenon DEF ListsPartitionArena, chains, L

\* Every level has the ends, the count, the total and the back links of its
\* queue, and orders of its side and price.
LEMMA WellFormedHolds ==
  ASSUME BookInv
  PROVE  LevelsWellFormed
  <1>1. PICK free, q : Placed(arena, free, q) /\ LevelsAre(levels, arena.storage, q)
    BY DEF BookInv, Arranged
  <1>2. PICK st : st = arena.storage
    BY Zenon
  <1> DEFINE level(s, p) == levels[s][p]
             chain(s, p) == Chain(arena, level(s, p).head)
             order(s, p, k) == arena.storage[chain(s, p)[k]].order
  <1>3. ASSUME NEW s \in Sides, NEW p \in Keys(s)
        PROVE  /\ level(s, p).count = Len(chain(s, p)) /\ level(s, p).count > 0
               /\ level(s, p).tail = chain(s, p)[Len(chain(s, p))]
               /\ \A k \in DOMAIN chain(s, p) :
                    /\ arena.storage[chain(s, p)[k]].prev =
                         IF k = 1 THEN ARENA_NULL ELSE chain(s, p)[k - 1]
                    /\ order(s, p, k).side = s /\ order(s, p, k).price = p
                    /\ order(s, p, k).quantity > 0
               /\ level(s, p).qty = Total([k \in DOMAIN chain(s, p) |-> order(s, p, k).quantity])
                                     % QtyModulus
    <2>1. PICK w : w = q[s][p] /\ w = chain(s, p) /\ w # << >> /\ p \in Prices
      BY <1>1, ArrangedChains, SMTT(30) DEF Keys
    <2>2. IsQueue(st, w, s, p) /\ Holds(st, w, s, p) /\ w \in Seq(Indices)
      BY <1>1, <1>2, <2>1, QueueNode, ZenonT(30) DEF Placed
    <2>3. level(s, p) = LevelOf(st, w)
      BY <1>1, <1>2, <2>1, Zenon DEF LevelsAre
    <2>4. level(s, p).count = Len(w) /\ level(s, p).tail = w[Len(w)]
          /\ level(s, p).qty = Total(Quantities(st, w)) % QtyModulus
      <3>1. /\ LevelOf(st, w).count = Len(w) /\ LevelOf(st, w).tail = Last(w)
            /\ LevelOf(st, w).qty = Total(Quantities(st, w)) % QtyModulus
        BY Zenon DEF LevelOf
      <3>2. Last(w) = w[Len(w)]
        BY <2>1, Zenon DEF Last
      <3> QED BY <2>3, <3>1, <3>2, Zenon
    <2>5. Len(w) > 0 /\ DOMAIN w = 1 .. Len(w)
      BY <2>1, <2>2, SMTT(30)
    <2>6. ASSUME NEW k \in DOMAIN w
          PROVE  /\ st[w[k]].prev = IF k = 1 THEN ARENA_NULL ELSE w[k - 1]
                 /\ st[w[k]].order.side = s /\ st[w[k]].order.price = p
                 /\ st[w[k]].order.quantity > 0
      <3>1. st[w[k]].prev = IF k = 1 THEN ARENA_NULL ELSE w[k - 1]
        BY <2>2, <2>5, Zenon DEF IsQueue
      <3>2. PICK i \in Indices : i = w[k] /\ st[i].order # NoOrder
                                 /\ st[i].order.side = s /\ st[i].order.price = p
        BY <2>2, <2>5, Zenon DEF Holds
      <3>3. st[i].order.quantity > 0
        BY <1>2, <3>2, Zenon DEF BookInv, Positive
      <3> QED BY <3>1, <3>2, <3>3, Zenon
    <2>7. Quantities(st, w) = [k \in DOMAIN chain(s, p) |-> order(s, p, k).quantity]
      BY <1>2, <2>1, <2>5, Zenon DEF Quantities
    <2>8. \A k \in DOMAIN chain(s, p) :
            /\ arena.storage[chain(s, p)[k]].prev = IF k = 1 THEN ARENA_NULL ELSE chain(s, p)[k - 1]
            /\ order(s, p, k).side = s /\ order(s, p, k).price = p
            /\ order(s, p, k).quantity > 0
      BY <1>2, <2>1, <2>6, ZenonT(30)
    <2>9. level(s, p).count = Len(chain(s, p)) /\ level(s, p).count > 0
          /\ level(s, p).tail = chain(s, p)[Len(chain(s, p))]
      BY <2>1, <2>4, <2>5, ZenonT(30)
    <2>10. level(s, p).qty = Total([k \in DOMAIN chain(s, p) |-> order(s, p, k).quantity])
                             % QtyModulus
      BY <2>4, <2>7, Zenon
    <2> HIDE DEF level, chain, order
    <2> QED BY <2>8, <2>9, <2>10, ZenonT(30)
  <1> QED BY <1>3, Zenon DEF LevelsWellFormed

\* The book has its type.
LEMMA BookTyped ==
  ASSUME BookInv
  PROVE  BookTypeOK
  <1>1. PICK free, q : Placed(arena, free, q) /\ LevelsAre(levels, arena.storage, q)
    BY DEF BookInv, Arranged
  <1>2. arena \in Arenas /\ Linked(arena.storage, free) /\ arena.count = ArenaCapacity - Len(free)
    BY <1>1, Zenon DEF Placed, FreeListIs
  <1>3. arena.count \in 0 .. ArenaCapacity
    <2>1. Len(free) \in 0 .. ArenaCapacity
      BY <1>2, LinkedBound, Zenon
    <2> QED BY <1>2, <2>1, ArenaAssumption, SMTT(30)
  <1>4. ASSUME NEW i \in Indices PROVE arena.storage[i] \in Nodes
    <2>1. PICK v \in Slots : v = arena.storage[i]
      BY <1>2 DEF Arenas
    <2>2. v.order \in Orders \cup {NoOrder}
      <3>1. CASE v.order = NoOrder
        BY <3>1, Zenon
      <3>2. CASE v.order # NoOrder
        <4>1. v.order \in Takers /\ v.order.quantity > 0
          BY <2>1, <3>2, Zenon DEF BookInv, Positive, Slots
        <4>2. v.order.quantity \in 1 .. MaxQuantity
          BY <4>1, BookAssumption DEF Takers
        <4> QED BY <4>1, <4>2, Zenon DEF Takers, Orders
      <3> QED BY <3>1, <3>2, Zenon
    <2> QED BY <2>1, <2>2, Zenon DEF Slots, Nodes, Links
  <1>5. arena.storage \in [Indices -> Nodes]
    BY <1>2, <1>4, Zenon DEF Arenas
  <1>6. arena \in [storage : [Indices -> Nodes], free_head : Indices \cup {ARENA_NULL},
                   count : 0 .. ArenaCapacity]
    BY <1>2, <1>3, <1>5, Zenon DEF Arenas, Links
  <1>7. levels \in [Sides -> [Prices -> Levels \cup {NoLevel}]]
    BY <1>1, Zenon DEF LevelsAre
  <1> QED BY <1>6, <1>7, Zenon DEF BookInv, Indexed, Bests, BookTypeOK, Links

\* An empty book: every node is in the free list, in the order of the
\* indices, and there is no level.
LEMMA NewBook ==
  EmptyBook => BookInv
  <1> SUFFICES ASSUME EmptyBook PROVE BookInv
    OBVIOUS
  <1>1. PICK free : free = [k \in 1 .. ArenaCapacity |-> k - 1]
    BY Zenon
  <1>2. PICK q : q = [s \in Sides |-> [p \in Prices |-> << >>]]
    BY Zenon
  <1>3. PICK C \in Nat : C = ArenaCapacity
    BY ArenaAssumption, Zenon
  <1>4. /\ free \in Seq(Indices) /\ Len(free) = C
        /\ \A k \in 1 .. C : free[k] = k - 1
    <2>1. \A k \in 1 .. C : k - 1 \in Indices
      BY <1>3 DEF Indices
    <2> QED BY <1>1, <1>3, <2>1, FunctionIsSeq, Zenon
  <1>5. /\ \A i \in Indices : i \in Int /\ i >= 0 /\ i < C
        /\ \A i \in Int : i >= 0 /\ i < C => i \in Indices
    BY <1>3 DEF Indices
  <1>6. /\ arena = NewArena /\ arena.count = 0
        /\ arena.free_head = IF C = 0 THEN ARENA_NULL ELSE 0
        /\ \A i \in Indices : /\ arena.storage[i].order = NoOrder
                              /\ arena.storage[i].next = IF i + 1 < C THEN i + 1 ELSE ARENA_NULL
    BY <1>3, SMTT(30) DEF EmptyBook, NewArena
  <1>7. arena \in Arenas
    <2>1. \A i \in Indices : (IF i + 1 < C THEN i + 1 ELSE ARENA_NULL) \in Links
      BY <1>5 DEF Links
    <2>2. (IF C = 0 THEN ARENA_NULL ELSE 0) \in Links
      BY <1>3, <1>5, SMTT(30) DEF Links
    <2> QED BY <1>3, <1>6, <2>1, <2>2, SMTT(30) DEF NewArena, Arenas, Slots, Links
  <1>8. Linked(arena.storage, free)
    <2>1. \A k \in 1 .. C : arena.storage[free[k]].next = IF k < C THEN k ELSE ARENA_NULL
      <3>1. \A k \in 1 .. C : free[k] \in Indices /\ free[k] + 1 = k
        BY <1>4, <1>5
      <3> QED BY <1>6, <3>1, Zenon
    <2>2. \A k \in 1 .. C : k < C => free[k + 1] = k
      BY <1>4
    <2>3. \A k \in 1 .. Len(free) :
            arena.storage[free[k]].next = IF k = Len(free) THEN ARENA_NULL ELSE free[k + 1]
      BY <1>4, <2>1, <2>2, SMTT(30)
    <2> QED BY <1>4, <2>3, SMTT(30) DEF Linked
  <1>9. FreeListIs(arena, free)
    <2>1. arena.free_head = First(free)
      <3>1. CASE C = 0
        BY <1>4, <1>6, <3>1, SMTT(30) DEF First
      <3>2. CASE C # 0
        BY <1>4, <1>6, <3>2 DEF First
      <3> QED BY <3>1, <3>2, Zenon
    <2>2. \A k \in 1 .. Len(free) : arena.storage[free[k]].order = NoOrder
      BY <1>4, <1>5, <1>6, SMTT(30)
    <2>3. arena.count = ArenaCapacity - Len(free)
      BY <1>3, <1>4, <1>6
    <2> QED BY <1>8, <2>1, <2>2, <2>3, Zenon DEF FreeListIs
  <1>10. QueuesAre(arena.storage, q)
    <2>1. \A s \in Sides, p \in Prices : q[s][p] = << >>
      BY <1>2
    <2>2. << >> \in Seq(Indices) /\ Len(<< >>) = 0
      OBVIOUS
    <2>3. \A s, p : IsQueue(arena.storage, << >>, s, p)
      BY <2>2 DEF IsQueue, Linked
    <2>4. q \in [Sides -> [Prices -> Seq(Indices)]]
      BY <1>2, <2>2, Zenon
    <2> QED BY <2>1, <2>3, <2>4, Zenon DEF QueuesAre
  <1>11. EveryNode(arena.storage, free, q)
    <2>1. \A i \in Indices : i + 1 \in 1 .. C /\ free[i + 1] = i
      BY <1>4, <1>5
    <2> QED BY <1>4, <1>6, <2>1, Zenon DEF EveryNode, InList
  <1>12. Placed(arena, free, q)
    BY <1>7, <1>9, <1>10, <1>11, Zenon DEF Placed
  <1>13. LevelsAre(levels, arena.storage, q)
    BY <1>2, Zenon DEF EmptyBook, LevelsAre
  <1>14. Positive
    BY <1>6, Zenon DEF Positive
  <1>15. Indexed
    <2>1. \A id \in Ids : order_index[id] = ARENA_NULL
      BY DEF EmptyBook
    <2>2. order_index \in [Ids -> Links]
      BY DEF EmptyBook, Links
    <2> QED BY <1>6, <2>1, <2>2, IndexFacts, ZenonT(30) DEF Indexed, IndexExact
  <1>16. Bests
    <2>1. \A s \in Sides : Keys(s) = {} /\ best[s] = NoPrice
      BY DEF EmptyBook, Keys
    <2>2. best \in [Sides -> Prices \cup {NoPrice}]
      BY DEF EmptyBook
    <2> QED BY <2>1, <2>2, Zenon DEF Bests, BestIsBest, BestOf
  <1> QED BY <1>12, <1>13, <1>14, <1>15, <1>16, ZenonT(30) DEF BookInv, Arranged
=============================================================================
