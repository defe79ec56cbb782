---------------------------- MODULE PriceTimeBook ----------------------------
(***************************************************************************)
(* What the matching engine promises: a book of first-in first-out queues, *)
(* one per side and price, that matches an incoming order one trade at a   *)
(* time against the front of the best queue it crosses.  There is no       *)
(* arena, no index and no cached price here, only the queues.              *)
(***************************************************************************)
EXTENDS Integers, Sequences, FiniteSets

CONSTANTS Ids, Traders, Prices, MaxQuantity,
          Capacity,   \* the most orders the book holds
          NoOrder

VARIABLES queues,   \* side -> price -> resting orders, oldest first
          taker,    \* the order being matched, with what is left of it
          fills,    \* its trades so far
          reply     \* the answer to the last command

vars == <<queues, taker, fills, reply>>

Sides == {"Bid", "Ask"}
Opposite(side) == IF side = "Bid" THEN "Ask" ELSE "Bid"

Orders == [id : Ids, trader_id : Traders, side : Sides, price : Prices,
           quantity : 1 .. MaxQuantity]

\* An order at price limit of the given side trades with a price p.
Accepts(side, limit, p) == IF side = "Bid" THEN p <= limit ELSE p >= limit

Places == {x \in Sides \X Prices \X (1 .. Capacity) : x[3] <= Len(queues[x[1]][x[2]])}
At(place) == queues[place[1]][place[2]][place[3]]
RestingIds == {At(x).id : x \in Places}
Full == Cardinality(Places) >= Capacity

\* The prices of resting orders the taker crosses, and the best of them.
Crossed == {p \in Prices : /\ queues[Opposite(taker.side)][p] # << >>
                           /\ Accepts(taker.side, taker.price, p)}
WorstCrossed == CHOOSE p \in Crossed : \A q \in Crossed : Accepts(taker.side, p, q)

BestCrossed == CHOOSE p \in Crossed : \A q \in Crossed : Accepts(taker.side, q, p)
Maker == Head(queues[Opposite(taker.side)][BestCrossed])

Matching == taker # NoOrder /\ taker.quantity > 0
-----------------------------------------------------------------------------
Init ==
  /\ queues = [s \in Sides |-> [p \in Prices |-> << >>]]
  /\ taker = NoOrder
  /\ fills = << >>
  /\ reply = "none"

Submit(o) ==
  /\ taker = NoOrder
  /\ taker' = o
  /\ fills' = << >>
  /\ reply' = "none"
  /\ UNCHANGED queues

RejectZero ==
  /\ taker = NoOrder
  /\ reply' = "ZeroQuantity"
  /\ UNCHANGED <<queues, taker, fills>>

FillAtLimit(quantity) ==
  [maker_order_id |-> Maker.id, price |-> taker.price, quantity |-> quantity,
   maker_fully_filled |-> quantity = Maker.quantity]

\* The trade is at the maker's price.
FillOf(quantity) ==
  [maker_order_id |-> Maker.id, price |-> BestCrossed, quantity |-> quantity,
   maker_fully_filled |-> quantity = Maker.quantity]

Trade ==
  /\ Matching /\ Crossed # {} /\ Maker.trader_id # taker.trader_id
  /\ LET quantity == IF taker.quantity < Maker.quantity THEN taker.quantity ELSE Maker.quantity
         rest == [Maker EXCEPT !.quantity = @ - quantity]
     IN /\ queues' = [queues EXCEPT ![Opposite(taker.side)][BestCrossed] =
                        IF rest.quantity = 0 THEN Tail(@) ELSE <<rest>> \o Tail(@)]
        /\ taker' = [taker EXCEPT !.quantity = @ - quantity]
        /\ fills' = Append(fills, FillOf(quantity))
  /\ UNCHANGED reply

Answer(r) == taker' = NoOrder /\ reply' = r /\ UNCHANGED fills

Complete ==
  /\ taker # NoOrder /\ taker.quantity = 0
  /\ Answer("FullyFilled")
  /\ UNCHANGED queues

StopSelfTrade ==
  /\ Matching /\ Crossed # {} /\ Maker.trader_id = taker.trader_id
  /\ Answer("CancelledSelfTrade")
  /\ UNCHANGED queues

Rest ==
  /\ Matching /\ Crossed = {}
  /\ taker.id \notin RestingIds /\ ~Full
  /\ queues' = [queues EXCEPT ![taker.side][taker.price] = Append(@, taker)]
  /\ Answer(IF fills = << >> THEN "Resting" ELSE "PartiallyFilled")

Reject ==
  /\ Matching /\ Crossed = {}
  /\ \/ taker.id \in RestingIds /\ Answer("DuplicateOrderId")
     \/ taker.id \notin RestingIds /\ Full /\ Answer("ArenaFull")
  /\ UNCHANGED queues

\* A sequence without its k-th element.
Without(seq, k) == [j \in 1 .. Len(seq) - 1 |-> IF j < k THEN seq[j] ELSE seq[j + 1]]

Cancel(id) ==
  /\ taker = NoOrder
  /\ \/ /\ reply' = "Cancelled"
        /\ \E x \in Places : /\ At(x).id = id
                            /\ queues' = [queues EXCEPT ![x[1]][x[2]] = Without(@, x[3])]
     \/ reply' = "OrderNotFound" /\ id \notin RestingIds /\ UNCHANGED queues
  /\ UNCHANGED <<taker, fills>>

\* The engine is replaced by one restored from a snapshot of it.
Restart ==
  /\ taker = NoOrder
  /\ fills' = << >>
  /\ reply' = "none"
  /\ UNCHANGED <<queues, taker>>

Next ==
  \/ \E o \in Orders : Submit(o)
  \/ RejectZero
  \/ Trade \/ Complete \/ StopSelfTrade \/ Rest \/ Reject
  \/ \E id \in Ids : Cancel(id)
  \/ Restart

Spec == Init /\ [][Next]_vars
=============================================================================
