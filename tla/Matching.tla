------------------------------ MODULE Matching ------------------------------
(***************************************************************************)
(* The matching engine of src/matching.rs over the order book.             *)
(*                                                                         *)
(* One thread owns the engine.  add_order is split at its loop: AddOrder   *)
(* enters it, Fill is one iteration, and the ways out of the loop are the  *)
(* other actions; no other command is enabled in between.  Snapshot        *)
(* capture and restore are split in the same way, at the loop of           *)
(* restore_from_orders.                                                    *)
(***************************************************************************)
EXTENDS OrderBook

CONSTANT NoSnapshot

\* The marker is not a snapshot.
ASSUME SnapshotAssumption ==
  NoSnapshot \notin [orders : Seq(Orders), best : [Sides -> Prices \cup {NoPrice}]]

VARIABLES taker,      \* add_order's argument while the call runs, or NoOrder
          fills,      \* fills_buf, without the taker's own id
          reply,      \* the result of the last call
          snapshot,   \* the snapshot the engine is being restored from
          restored    \* how many of its orders have been inserted

callVars == <<taker, fills, reply>>
restoreVars == <<snapshot, restored>>
vars == <<bookVars, callVars, restoreVars>>

Idle == taker = NoOrder /\ snapshot = NoSnapshot
-----------------------------------------------------------------------------
(* MatchingEngine::add_order *)

AddOrder(o) ==
  /\ Idle
  /\ taker' = o
  /\ fills' = << >>
  /\ reply' = "none"
  /\ UNCHANGED <<bookVars, restoreVars>>

\* An order of quantity zero is refused before anything else happens.
AddZeroQuantity ==
  /\ Idle
  /\ reply' = "ZeroQuantity"
  /\ UNCHANGED <<bookVars, taker, fills, restoreVars>>

MakerSide == Opposite(taker.side)

\* best_ask <= price for a bid, best_bid >= price for an ask.
Crosses ==
  /\ best[MakerSide] # NoPrice
  /\ ~Better(taker.side, best[MakerSide], taker.price)

Maker == PeekFront(MakerSide, best[MakerSide])

\* The loop condition holds and the best opposite price crosses.
Matchable == taker # NoOrder /\ taker.quantity > 0 /\ Crosses

FillWholeTaker ==
  /\ Matchable
  /\ Maker.trader_id # taker.trader_id
  /\ ReduceFrontQuantity(MakerSide, best[MakerSide], taker.quantity)
  /\ fills' = Append(fills, [maker_order_id |-> Maker.id, price |-> Maker.price,
                             quantity |-> taker.quantity,
                             maker_fully_filled |-> Maker.quantity = taker.quantity])
  /\ taker' = [taker EXCEPT !.quantity = 0]
  /\ UNCHANGED <<reply, restoreVars>>

Fill ==
  /\ Matchable
  /\ Maker.trader_id # taker.trader_id
  /\ LET quantity == IF taker.quantity < Maker.quantity THEN taker.quantity ELSE Maker.quantity
     IN /\ ReduceFrontQuantity(MakerSide, best[MakerSide], quantity)
        /\ fills' = Append(fills, [maker_order_id |-> Maker.id, price |-> Maker.price,
                                   quantity |-> quantity,
                                   maker_fully_filled |-> Maker.quantity = quantity])
        /\ taker' = [taker EXCEPT !.quantity = @ - quantity]
  /\ UNCHANGED <<reply, restoreVars>>

Return(r) ==
  /\ taker' = NoOrder
  /\ reply' = r
  /\ UNCHANGED <<fills, restoreVars>>

FullyFilled ==
  /\ taker # NoOrder /\ taker.quantity = 0
  /\ Return("FullyFilled")
  /\ UNCHANGED bookVars

SelfTradeRests ==
  /\ Matchable
  /\ Maker.trader_id = taker.trader_id
  /\ \/ InsertOrder(taker)
     \/ (DuplicateOrderId(taker) \/ ArenaFull) /\ UNCHANGED bookVars
  /\ Return("CancelledSelfTrade")

SkipSelfTrade ==
  /\ Matchable
  /\ Maker.trader_id = taker.trader_id
  /\ UNCHANGED vars

CancelledSelfTrade ==
  /\ Matchable
  /\ Maker.trader_id = taker.trader_id
  /\ Return("CancelledSelfTrade")
  /\ UNCHANGED bookVars

Unmatched == taker # NoOrder /\ taker.quantity > 0 /\ ~Crosses

RestOrder ==
  /\ Unmatched
  /\ InsertOrder(taker)
  /\ Return(IF fills = << >> THEN "Resting" ELSE "PartiallyFilled")

\* The error of insert_order, passed on by the ? operator.
RejectOrder ==
  /\ Unmatched
  /\ \/ DuplicateOrderId(taker) /\ Return("DuplicateOrderId")
     \/ ~DuplicateOrderId(taker) /\ ArenaFull /\ Return("ArenaFull")
  /\ UNCHANGED bookVars
-----------------------------------------------------------------------------
(* MatchingEngine::cancel_order *)

Cancel(id) ==
  /\ Idle
  /\ \/ CancelOrder(id) /\ reply' = "Cancelled"
     \/ OrderNotFound(id) /\ reply' = "OrderNotFound" /\ UNCHANGED bookVars
  /\ UNCHANGED <<taker, fills, restoreVars>>
-----------------------------------------------------------------------------
(* Snapshot::capture, and restore into a new engine of the same capacity   *)

CaptureAndRestart ==
  /\ Idle
  /\ snapshot' = [orders |-> AllRestingOrders, best |-> best]
  /\ restored' = 0
  /\ fills' = << >> /\ reply' = "none"
  /\ ResetBook
  /\ UNCHANGED taker

Restoring == snapshot # NoSnapshot

RestoreInsertLastFirst ==
  /\ Restoring /\ restored < Len(snapshot.orders)
  /\ InsertOrder(snapshot.orders[Len(snapshot.orders) - restored])
  /\ restored' = restored + 1
  /\ UNCHANGED <<snapshot, callVars>>

RestoreInsert ==
  /\ Restoring /\ restored < Len(snapshot.orders)
  /\ InsertOrder(snapshot.orders[restored + 1])
  /\ restored' = restored + 1
  /\ UNCHANGED <<snapshot, callVars>>

RestoreDone ==
  /\ Restoring /\ restored = Len(snapshot.orders)
  /\ snapshot' = NoSnapshot
  /\ restored' = 0
  /\ UNCHANGED <<bookVars, callVars>>
-----------------------------------------------------------------------------
Init ==
  /\ EmptyBook
  /\ taker = NoOrder /\ fills = << >> /\ reply = "none"
  /\ snapshot = NoSnapshot /\ restored = 0

Next ==
  \/ \E o \in Orders : AddOrder(o)
  \/ AddZeroQuantity
  \/ Fill \/ FullyFilled \/ CancelledSelfTrade \/ RestOrder \/ RejectOrder
  \/ \E id \in Ids : Cancel(id)
  \/ CaptureAndRestart \/ RestoreInsert \/ RestoreDone

Spec == Init /\ [][Next]_vars

\* The thread that owns the engine does not stop inside a call.
CallStep == Fill \/ FullyFilled \/ CancelledSelfTrade \/ RestOrder \/ RejectOrder
RestoreStep == RestoreInsert \/ RestoreDone

FairSpec == Spec /\ WF_vars(CallStep) /\ WF_vars(RestoreStep)
-----------------------------------------------------------------------------
Fills == [maker_order_id : Ids, price : Prices, quantity : 1 .. MaxQuantity,
          maker_fully_filled : BOOLEAN]
OrderStatuses == {"FullyFilled", "PartiallyFilled", "Resting", "CancelledSelfTrade"}

\* PriceLevelNotFound and FillExceedsQuantity are not among them: add_order
\* fills from a level it has just looked at, and no more than is there.
BookErrors == {"DuplicateOrderId", "OrderNotFound", "ArenaFull"}
MatchingErrors == BookErrors \cup {"ZeroQuantity"}

TypeOK ==
  /\ BookTypeOK
  /\ \A k \in DOMAIN fills : fills[k] \in Fills
  /\ reply \in OrderStatuses \cup MatchingErrors \cup {"none", "Cancelled"}
  /\ taker \in Takers \cup {NoOrder}
  /\ restored \in 0 .. ArenaCapacity

\* Exhaustion of the arena never loses part of an order: if add_order fails
\* with ArenaFull it has not traded.  (A trade that leaves some of the taker
\* has freed the maker's node.)
ArenaFullTradesNothing == reply = "ArenaFull" => fills = << >>

\* Every trade is reported to the caller: an order refused with an error,
\* whose result carries no fills, has not traded.  (insert_order checks for a
\* duplicate id only after the matching loop.)
RefusedTradesNothing == reply \in {"ArenaFull", "DuplicateOrderId"} => fills = << >>

\* Every call of add_order returns, and so does every restore: the loop over
\* the makers and the loop over the snapshot's orders end.
CallsReturn == (taker # NoOrder ~> taker = NoOrder) /\ (Restoring ~> ~Restoring)

\* A book restored from a snapshot has the orders that were captured, in the
\* captured order, and the captured best prices.
RestoreExact ==
  Restoring /\ restored = Len(snapshot.orders) =>
    AllRestingOrders = snapshot.orders /\ best = snapshot.best
=============================================================================
