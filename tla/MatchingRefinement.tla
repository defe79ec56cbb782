------------------------- MODULE MatchingRefinement -------------------------
(***************************************************************************)
(* The matching engine as an implementation of the price-time priority     *)
(* book.                                                                   *)
(***************************************************************************)
EXTENDS Matching

\* The queues of the abstract book.  While it is being restored the book is
\* the one in the snapshot.
Queues ==
  [s \in Sides |-> [p \in Prices |->
     IF Restoring THEN Belonging(snapshot.orders, Len(snapshot.orders), s, p)
                  ELSE Queue(s, p)]]

PT == INSTANCE PriceTimeBook WITH queues <- Queues, Capacity <- ArenaCapacity

\* The engine implements the price-time priority book: every trade is with
\* the oldest order at the best crossing price, every answer is the one the
\* queues call for, and a restart loses and reorders nothing.
ImplementsPriceTime == PT!Spec
=============================================================================
