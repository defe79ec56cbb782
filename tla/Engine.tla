------------------------------- MODULE Engine -------------------------------
(***************************************************************************)
(* The matching engine as a function, for the modules that run it as a     *)
(* part: all orders have one price and different traders.  The book is     *)
(* then one queue of orders of one side.  Module MCPriceTimeBook compares  *)
(* add_order with PriceTimeBook, which module Matching implements.         *)
(***************************************************************************)
EXTENDS Integers, Sequences, FiniteSetsExt, SequencesExt

CONSTANT ArenaCapacity   \* the most orders the book holds

Resting(book) == {book[k].id : k \in DOMAIN book}

MeetTakesWhole(acc, maker) ==
  IF acc.left = 0 THEN [acc EXCEPT !.book = Append(@, maker)]
  ELSE [left  |-> acc.left - Min({acc.left, maker.quantity}),
        book  |-> acc.book,
        fills |-> Append(acc.fills, [taker_order_id |-> acc.taker, maker_order_id |-> maker.id,
                                     quantity |-> maker.quantity]),
        taker |-> acc.taker]

\* One iteration of the matching loop: the order has left units to trade and
\* meets the resting order maker.
Meet(acc, maker) ==
  LET quantity == Min({acc.left, maker.quantity})
      rest == [maker EXCEPT !.quantity = @ - quantity]
  IN IF acc.left = 0 THEN [acc EXCEPT !.book = Append(@, maker)]
     ELSE [left  |-> acc.left - quantity,
           book  |-> IF rest.quantity = 0 THEN acc.book ELSE Append(acc.book, rest),
           fills |-> Append(acc.fills, [taker_order_id |-> acc.taker, maker_order_id |-> maker.id,
                                        quantity |-> quantity]),
           taker |-> acc.taker]

\* add_order: the book it leaves, the fills it reports, and whether it
\* answers Ok (else neither the order nor a fill is reported).
add_order(book, order) ==
  LET crosses == book # << >> /\ Head(book).side # order.side
      start == [left |-> order.quantity, book |-> << >>, fills |-> << >>, taker |-> order.id]
      met == IF crosses THEN FoldLeft(Meet, start, book) ELSE [start EXCEPT !.book = book]
      ok == met.left = 0 \/ (order.id \notin Resting(met.book) /\ Len(met.book) < ArenaCapacity)
  IN [book  |-> IF met.left > 0 /\ ok THEN Append(met.book, [order EXCEPT !.quantity = met.left])
                ELSE met.book,
      fills |-> met.fills,
      ok    |-> ok]

cancel_order(book, id) == SelectSeq(book, LAMBDA o : o.id # id)

\* The orders of a book or of a command, without their timestamps.
StripOrder(o) == [o EXCEPT !.timestamp = 0]
StripBook(book) == [k \in DOMAIN book |-> StripOrder(book[k])]

\* replay_command, and what process_command does to the book.
replay_command(book, cmd) ==
  IF cmd.type = "new" THEN add_order(book, cmd.order).book ELSE cancel_order(book, cmd.id)
=============================================================================
