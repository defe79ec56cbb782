----------------------------- MODULE MCRecovery -----------------------------
(* Recovery with the engine of module Engine, for model checking. *)
EXTENDS Recovery, Engine

Now == 1   \* a time other than zero

LiveOrder(id, side) == [id |-> id, side |-> side, quantity |-> 1, timestamp |-> Now]

\* Two orders that queue behind one another, one that trades with them, and
\* a cancel.
MCCommands == {[type |-> "new", order |-> LiveOrder(1, "Bid")],
               [type |-> "new", order |-> LiveOrder(2, "Bid")],
               [type |-> "new", order |-> LiveOrder(3, "Ask")],
               [type |-> "cancel", id |-> 1]}

MCLogged(cmd) == IF cmd.type = "new" THEN [cmd EXCEPT !.order = StripOrder(@)] ELSE cmd
MCForeign == [type |-> "foreign"]

MCOrders == [id : 1 .. 3, side : {"Bid", "Ask"}, quantity : {1}, timestamp : {0, Now}]
MCBooks == {b \in UNION {[1 .. n -> MCOrders] : n \in 0 .. 2} :
              Cardinality(Resting(b)) = Len(b) /\ \A k, j \in DOMAIN b : b[k].side = b[j].side}
MCEmptyBook == << >>
=============================================================================
