--------------------------- MODULE MCPriceTimeBook ---------------------------
(***************************************************************************)
(* The matching of one order against a definition of price-time priority   *)
(* that has no loop and no intermediate state.  The initial states are all *)
(* the books of a few orders, with any order just submitted; two history   *)
(* variables remember both.                                                *)
(***************************************************************************)
EXTENDS PriceTimeBook, SequencesExt

CONSTANT MaxMaker   \* the largest quantity of a resting order

MCIds == 1 .. Capacity + 1
MCPrices == {1, 2}

VARIABLES asked,   \* the order submitted
          start    \* the queues it meets

\* The orders that arrived, in order; the k-th has id k.
Arrivals == UNION {[1 .. n -> {o \in Orders : o.id = 1 /\ o.quantity <= MaxMaker}] :
                     n \in 0 .. Capacity}

BookOf(arrivals) ==
  LET numbered == [k \in DOMAIN arrivals |-> [arrivals[k] EXCEPT !.id = k]]
  IN [s \in Sides |-> [p \in Prices |->
        SelectSeq(numbered, LAMBDA o : o.side = s /\ o.price = p)]]

Uncrossed(book) ==
  \A p, q \in Prices : book["Bid"][p] # << >> /\ book["Ask"][q] # << >> => p < q

MCInit ==
  /\ queues \in {b \in {BookOf(a) : a \in Arrivals} : Uncrossed(b)}
  /\ taker \in {o \in Orders : o.id \in {1, Capacity + 1}}
  /\ fills = << >> /\ reply = "none"
  /\ asked = taker /\ start = queues

\* The steps of add_order.
MCNext ==
  /\ Trade \/ Complete \/ StopSelfTrade \/ Rest \/ Reject
  /\ UNCHANGED <<asked, start>>

MCSpec == MCInit /\ [][MCNext]_<<vars, asked, start>>

\* The places of the orders it crossed, and which of them come first.
Met == {<<p, k>> \in Prices \X (1 .. Capacity) :
          /\ Accepts(asked.side, asked.price, p)
          /\ k <= Len(start[Opposite(asked.side)][p])}
OrderAt(x) == start[Opposite(asked.side)][x[1]][x[2]]
Ahead(x) == {y \in Met : \/ y[1] # x[1] /\ Accepts(asked.side, x[1], y[1])
                         \/ y[1] = x[1] /\ y[2] < x[2]}

\* How much of the order is left for place x, if nothing stops it before.
LeftFor(x) == asked.quantity - FoldSet(LAMBDA y, sum : sum + OrderAt(y).quantity, 0, Ahead(x))

Own(x) == OrderAt(x).trader_id = asked.trader_id
Stopped(x) == Own(x) \/ \E y \in Ahead(x) : Own(y)

\* What an order at place x trades.
Traded(x) == IF Stopped(x) \/ LeftFor(x) <= 0 THEN 0
             ELSE Min({OrderAt(x).quantity, LeftFor(x)})

Total == FoldSet(LAMBDA x, sum : sum + Traded(x), 0, Met)

\* The queues an order leaves, before it rests itself.
AfterTrades(p) ==
  SelectSeq([k \in DOMAIN start[Opposite(asked.side)][p] |->
               LET o == start[Opposite(asked.side)][p][k]
               IN IF <<p, k>> \in Met THEN [o EXCEPT !.quantity = @ - Traded(<<p, k>>)] ELSE o],
            LAMBDA o : o.quantity > 0)

SelfTrade == \E x \in Met : Own(x) /\ LeftFor(x) > 0
Rests == ~SelfTrade /\ Total < asked.quantity

\* The answers to add_order, and those that leave the order in the book.
AddReplies == {"FullyFilled", "CancelledSelfTrade", "Resting", "PartiallyFilled",
               "DuplicateOrderId", "ArenaFull"}
RestReplies == {"Resting", "PartiallyFilled"}

\* When an order has been answered, each order it met has traded exactly what
\* price-time priority gives it, up to the trader's own first order; the
\* rest of the book is as it was; and the answer says what became of it.
PriceTimePriority ==
  taker = NoOrder /\ reply \in AddReplies =>
    /\ \A p \in Prices : queues[Opposite(asked.side)][p] = AfterTrades(p)
    /\ \A p \in Prices : queues[asked.side][p] =
         IF p = asked.price /\ reply \in RestReplies
           THEN Append(start[asked.side][p], [asked EXCEPT !.quantity = @ - Total])
           ELSE start[asked.side][p]
    /\ reply = "CancelledSelfTrade" <=> SelfTrade
    /\ reply = "FullyFilled" <=> Total = asked.quantity
    /\ reply = "Resting" => Total = 0
    /\ reply = "PartiallyFilled" => Total > 0
    /\ reply = "ArenaFull" => Total = 0

\* The fills reported are the trades made: one per order that traded, in
\* order of priority, for the quantity it traded.
FillsAreTrades ==
  taker = NoOrder /\ reply \in AddReplies =>
    LET traded == SetToSortSeq({x \in Met : Traded(x) > 0}, LAMBDA x, y : x \in Ahead(y))
    IN fills = [k \in DOMAIN traded |->
                  [maker_order_id     |-> OrderAt(traded[k]).id,
                   price              |-> traded[k][1],
                   quantity           |-> Traded(traded[k]),
                   maker_fully_filled |-> Traded(traded[k]) = OrderAt(traded[k]).quantity]]

E == INSTANCE Engine WITH ArenaCapacity <- Capacity

\* The only queue of a book whose orders all have the price of the order.
OneQueue(book) == LET p == asked.price
                  IN IF book["Bid"][p] # << >> THEN book["Bid"][p] ELSE book["Ask"][p]

OneQueueOnly ==
  \A s \in Sides, p \in Prices : \A k \in DOMAIN start[s][p] :
    p = asked.price /\ start[s][p][k].trader_id # asked.trader_id

\* Where module Engine claims to be the engine, at one price and without
\* self-trades, it leaves the same book, reports the same fills and refuses
\* the same orders.
EngineAgrees ==
  taker = NoOrder /\ reply \in AddReplies /\ OneQueueOnly =>
    LET done == E!add_order(OneQueue(start), asked)
    IN /\ OneQueue(queues) = done.book
       /\ done.ok <=> reply \notin {"DuplicateOrderId", "ArenaFull"}
       /\ done.fills = [k \in DOMAIN fills |->
            [taker_order_id |-> asked.id, maker_order_id |-> fills[k].maker_order_id,
             quantity |-> fills[k].quantity]]
=============================================================================
