------------------------------- MODULE MCWire -------------------------------
(***************************************************************************)
(* What is on the wire: a client's bytes to the gateway (module Session,   *)
(* for a few clients), the buffer messages are encoded into (module        *)
(* Codec), and the reports on their way out (module Feed).  The three      *)
(* share no state, so Codec and Feed take their steps only beside a client *)
(* that sends nothing, and each beside the initial state of the other:     *)
(* other interleavings would show nothing new.                             *)
(***************************************************************************)
EXTENDS Session, Codec, Feed

\* An order, a cancel, an order of quantity zero, and a message of a type
\* the gateway does not know.
MCMessages ==
  {[type |-> "new", side |-> "Ask", id |-> 1, trader_id |-> 2, price |-> -1,
    quantity |-> q, timestamp |-> 1] : q \in {0, 3}}
  \cup {[type |-> "cancel", id |-> 2], [type |-> "report"]}

NoClient == sent = << >> /\ peer = "open"

WireInit == Init /\ CodecInit /\ FeedInit

WireNext ==
  \/ FeedInit /\ Next /\ UNCHANGED <<buf, msg, feedVars>>
  \/ NoClient /\ FeedInit /\ CodecNext /\ UNCHANGED <<vars, feedVars>>
  \/ NoClient /\ CodecInit /\ FeedNext /\ UNCHANGED <<vars, buf, msg>>

WireSpec == WireInit /\ [][WireNext]_<<vars, buf, msg, feedVars>> /\ Fairness
=============================================================================
