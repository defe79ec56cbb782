------------------------------- MODULE LoadTcp -------------------------------
(***************************************************************************)
(* run_tcp of examples/loadgen.rs: a gateway in a thread of its own, and   *)
(* the main thread, which sends it asks and bids over TCP and only then    *)
(* counts the reports that have come back over UDP, until none has come    *)
(* for ten seconds.                                                        *)
(*                                                                         *)
(* The gateway is what modules Session and Gateway show it to be: it       *)
(* processes what it is sent, in order, and ends when the client has gone. *)
(* Orders are those of module LoadGen, whose engine this is too: a bid     *)
(* fills with one ask of the best level it reaches, or rests, which is     *)
(* never reported.  The receiver's socket buffers UdpBuffer datagrams and  *)
(* loses those that come when it is full, or before it is bound; TCP and   *)
(* the ring hold at most TcpBuffer messages.                               *)
(***************************************************************************)
EXTENDS Integers, FiniteSetsExt

CONSTANTS MaxOrders, MaxLevels   \* as in LoadGen

VARIABLES config,       \* the constants of the program and the buffers
          main,         \* where the main thread is
          gateway,      \* where the gateway's thread is
          bound,        \* whether the UDP socket is
          sent,         \* messages written to the stream
          processed,    \* and processed by the gateway
          asks,         \* resting asks at each level
          seq_num,      \* reports sent
          buffered,     \* reports in the socket's buffer
          lost,         \* reports lost because it was full
          recv_count    \* reports received

netVars == <<bound, sent, buffered, lost, recv_count>>
vars == <<config, main, gateway, processed, asks, seq_num, netVars>>

Configs == [ORDER_COUNT : 1 .. MaxOrders, PRICE_LEVELS : 1 .. MaxLevels,
            TcpBuffer : 1 .. MaxOrders, UdpBuffer : 1 .. MaxOrders]

Levels == 0 .. config.PRICE_LEVELS - 1
Total == 2 * config.ORDER_COUNT

Init ==
  /\ config \in Configs
  /\ main = "bind" /\ gateway = "starting" /\ bound = FALSE
  /\ sent = 0 /\ processed = 0 /\ asks = [l \in Levels |-> 0]
  /\ seq_num = 0 /\ buffered = 0 /\ lost = 0 /\ recv_count = 0
-----------------------------------------------------------------------------
(* The gateway *)

GatewayStarts ==
  /\ gateway = "starting"
  /\ gateway' \in {"listening", "failed"}
  /\ UNCHANGED <<config, main, processed, asks, seq_num, netVars>>

GatewayAccepts ==
  /\ gateway = "listening" /\ main \in {"send", "receive", "join"}
  /\ gateway' = "serving"
  /\ UNCHANGED <<config, main, processed, asks, seq_num, netVars>>

ReportBlocks ==
  /\ buffered < config.UdpBuffer
  /\ seq_num' = seq_num + 1 /\ buffered' = buffered + 1
  /\ UNCHANGED lost

\* send_to of one report: it never waits for the receiver.
Report ==
  /\ seq_num' = seq_num + 1
  /\ IF ~bound THEN UNCHANGED <<buffered, lost>>
     ELSE IF buffered < config.UdpBuffer THEN buffered' = buffered + 1 /\ UNCHANGED lost
     ELSE lost' = lost + 1 /\ UNCHANGED buffered

\* The level of message k, counted from 0, and the levels with an ask for a
\* bid there.
Price(k) == (k % config.ORDER_COUNT) % config.PRICE_LEVELS
Reachable(level) == {l \in Levels : l <= level /\ asks[l] > 0}

ProcessAsk ==
  /\ gateway = "serving" /\ processed < sent /\ processed < config.ORDER_COUNT
  /\ processed' = processed + 1
  /\ asks' = [asks EXCEPT ![Price(processed)] = @ + 1]
  /\ UNCHANGED <<config, main, gateway, seq_num, netVars>>

ProcessBid ==
  /\ gateway = "serving" /\ processed < sent /\ processed >= config.ORDER_COUNT
  /\ processed' = processed + 1
  /\ LET levels == Reachable(Price(processed))
     IN IF levels = {} THEN UNCHANGED <<asks, seq_num, buffered, lost>>
        ELSE asks' = [asks EXCEPT ![Min(levels)] = @ - 1] /\ Report
  /\ UNCHANGED <<config, main, gateway, bound, sent, recv_count>>

\* The stream is at its end and everything in it is processed.
GatewayEnds ==
  /\ gateway = "serving" /\ main \in {"receive", "join"} /\ processed = sent
  /\ gateway' = "done"
  /\ UNCHANGED <<config, main, processed, asks, seq_num, netVars>>
-----------------------------------------------------------------------------
(* The main thread *)

\* After a sleep that gives the gateway time to start, which it may not use.
\* The unwraps of bind and of set_read_timeout panic when the call fails.
BindUdp ==
  /\ main = "bind"
  /\ \/ main' = "connect" /\ bound' = TRUE
     \/ main' = "panicked" /\ bound' \in BOOLEAN
  /\ UNCHANGED <<config, gateway, processed, asks, seq_num, sent, buffered, lost, recv_count>>

\* The unwrap of connect panics when nobody listens.
Connect ==
  /\ main = "connect"
  /\ main' = IF gateway = "listening" THEN "send" ELSE "panicked"
  /\ UNCHANGED <<config, gateway, processed, asks, seq_num, netVars>>

\* write_all waits while the buffers are full.
Send ==
  /\ main = "send" /\ sent < Total /\ sent - processed < config.TcpBuffer
  /\ sent' = sent + 1
  /\ UNCHANGED <<config, main, gateway, processed, asks, seq_num, bound, buffered, lost, recv_count>>

\* The stream is dropped at the end of its block.
CloseStream ==
  /\ main = "send" /\ sent = Total
  /\ main' = "receive"
  /\ UNCHANGED <<config, gateway, processed, asks, seq_num, netVars>>

Receive ==
  /\ main = "receive" /\ buffered > 0
  /\ buffered' = buffered - 1 /\ recv_count' = recv_count + 1
  /\ UNCHANGED <<config, main, gateway, processed, asks, seq_num, bound, sent, lost>>

\* Nothing for ten seconds: the gateway may have ended or only be slow.
Timeout ==
  /\ main = "receive" /\ buffered = 0
  /\ main' = "join"
  /\ UNCHANGED <<config, gateway, processed, asks, seq_num, netVars>>

Join ==
  /\ main = "join" /\ gateway = "done"
  /\ main' = "done"
  /\ UNCHANGED <<config, gateway, processed, asks, seq_num, netVars>>

GatewayStep == GatewayStarts \/ GatewayAccepts \/ ProcessAsk \/ ProcessBid \/ GatewayEnds
MainStep == BindUdp \/ Connect \/ Send \/ CloseStream \/ Receive \/ Timeout \/ Join

Next ==
  \/ GatewayStarts \/ GatewayAccepts \/ ProcessAsk \/ ProcessBid \/ GatewayEnds
  \/ BindUdp \/ Connect \/ Send \/ CloseStream \/ Receive \/ Timeout \/ Join

\* Both threads are scheduled.
Spec == Init /\ [][Next]_vars /\ WF_vars(GatewayStep) /\ WF_vars(MainStep)
-----------------------------------------------------------------------------
\* Every report is received, waits in the socket's buffer or met a full one:
\* none is sent before the socket is bound, however the two threads start.
ReportsAccounted == recv_count + buffered + lost = seq_num

\* The run ends with every order sent processed, also when the timeout has
\* ended the counting while the gateway was still at work.
AllMatched == main = "done" => sent = Total /\ processed = Total
=============================================================================
