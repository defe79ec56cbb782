------------------------------- MODULE Session -------------------------------
(***************************************************************************)
(* The reading side of handle_client in src/gateway.rs: a client's byte    *)
(* stream is cut into messages by the type byte and message_size, however  *)
(* TCP cuts it into segments and wherever the connection breaks.           *)
(*                                                                         *)
(* The client encodes its messages with src/protocol.rs and sends them one *)
(* after the other.  Pushing a decoded command into the ring, which blocks *)
(* the reader while the ring is full, is in module Gateway.                *)
(***************************************************************************)
EXTENDS Protocol, SequencesExt

CONSTANTS Messages,      \* what a client can send
          MaxMessages    \* bound on how many it sends

VARIABLES sent,      \* the client's messages
          wire,      \* their bytes
          arrived,   \* how many of them have reached the gateway's socket
          peer,      \* "open", or how the connection ended
          pos,       \* how many the gateway has read
          msg_buf,   \* the message being read
          got,       \* the commands decoded so far
          result     \* what handle_client returns, "none" before that

clientVars == <<sent, wire>>
vars == <<clientVars, arrived, peer, pos, msg_buf, got, result>>

\* A report is a message no client should send: its type is unknown to
\* message_size.
WireSize(m) == IF m.type = "report" THEN EXECUTION_REPORT_SIZE ELSE EncodedSize(m)
Bytes(m) ==
  LET buf == IF m.type = "report" THEN Write(ZeroBuf, 0, 1, MSG_EXECUTION_REPORT)
                                  ELSE Encode(ZeroBuf, m)
  IN [i \in 1 .. WireSize(m) |-> buf[i - 1]]

Init ==
  /\ sent \in UNION {[1 .. n -> Messages] : n \in 0 .. MaxMessages}
  /\ wire = FlattenSeq([k \in DOMAIN sent |-> Bytes(sent[k])])
  /\ arrived = 0 /\ peer = "open"
  /\ pos = 0 /\ msg_buf = << >> /\ got = << >> /\ result = "none"
-----------------------------------------------------------------------------
(* The connection *)

Deliver(n) ==
  /\ peer = "open" /\ n \in arrived + 1 .. Len(wire)
  /\ arrived' = n
  /\ UNCHANGED <<clientVars, peer, pos, msg_buf, got, result>>

\* The client closes it, or it fails.  A reset can take bytes with it that
\* have arrived and are not yet read.
Disconnect(how) ==
  /\ peer = "open"
  /\ peer' = how
  /\ IF how = "UnexpectedEof" THEN UNCHANGED arrived ELSE arrived' \in {pos, arrived}
  /\ UNCHANGED <<clientVars, pos, msg_buf, got, result>>
-----------------------------------------------------------------------------
(* The loop of handle_client.  read_exact takes what has arrived and waits *)
(* for more until the buffer it is given is full.                          *)

WantedAlways40 == IF msg_buf = << >> THEN 1 ELSE NEW_ORDER_SIZE

\* The bytes read_exact is waiting for: the type byte, or up to the end of
\* the message it announces.
Wanted == IF msg_buf = << >> THEN 1 ELSE message_size(msg_buf[1]).ok

ReadSome ==
  /\ result = "none" /\ Len(msg_buf) < Wanted /\ pos < arrived
  /\ LET n == Min({arrived - pos, Wanted - Len(msg_buf)})
         read == msg_buf \o SubSeq(wire, pos + 1, pos + n)
     IN /\ pos' = pos + n
        /\ IF IsOk(message_size(read[1]))
             THEN msg_buf' = read /\ UNCHANGED result
             ELSE result' = message_size(read[1]).err /\ UNCHANGED msg_buf
  /\ UNCHANGED <<clientVars, arrived, peer, got>>

\* decode_message(&msg_buf[..size]); the timestamp is set from the clock.
DecodeMessage ==
  /\ result = "none" /\ msg_buf # << >> /\ Len(msg_buf) = Wanted
  /\ LET answer == decode_message([i \in 0 .. Wanted - 1 |-> msg_buf[i + 1]])
     IN IF IsOk(answer)
          THEN got' = Append(got, answer.ok) /\ UNCHANGED result
          ELSE result' = answer.err /\ UNCHANGED got
  /\ msg_buf' = << >>
  /\ UNCHANGED <<clientVars, arrived, peer, pos>>

ReadRetriesMidMessage ==
  /\ result = "none" /\ peer # "open" /\ pos = arrived /\ Len(msg_buf) < Wanted
  /\ result' = IF msg_buf = << >> THEN "Ok" ELSE "none"
  /\ UNCHANGED <<clientVars, arrived, peer, pos, msg_buf, got>>

\* read_exact fails: an end of file or a reset ends the loop, anywhere in a
\* message; any other error is returned.
ReadFails ==
  /\ result = "none" /\ peer # "open" /\ pos = arrived /\ Len(msg_buf) < Wanted
  /\ result' = IF peer \in {"UnexpectedEof", "ConnectionReset"} THEN "Ok" ELSE "Io"
  /\ UNCHANGED <<clientVars, arrived, peer, pos, msg_buf, got>>

\* handle_client has returned.
Returned == result # "none" /\ UNCHANGED vars

Next ==
  \/ \E n \in 1 .. Len(wire) : Deliver(n)
  \/ \E how \in {"UnexpectedEof", "ConnectionReset", "Other"} : Disconnect(how)
  \/ ReadSome \/ DecodeMessage \/ ReadFails \/ Returned

\* The reading thread is scheduled; the network owes nothing.
Fairness == WF_vars(ReadSome) /\ WF_vars(DecodeMessage) /\ WF_vars(ReadFails)

Spec == Init /\ [][Next]_vars /\ Fairness
-----------------------------------------------------------------------------
\* The messages all of whose bytes are among the first n, and the first of
\* them the gateway refuses (one past them, if it refuses none).
Complete(n) ==
  LET ends == [k \in DOMAIN sent |-> FoldLeft(LAMBDA sum, m : sum + WireSize(m), 0, SubSeq(sent, 1, k))]
  IN Cardinality({k \in DOMAIN sent : ends[k] <= n})

Refused(m) == m.type = "report" \/ (m.type = "new" /\ m.quantity = 0)
Good(n) == CHOOSE k \in 0 .. n : /\ \A j \in 1 .. k : ~Refused(sent[j])
                                 /\ k = n \/ Refused(sent[k + 1])

\* However the stream is cut, the commands decoded are the messages sent, in
\* order, and no byte of one is ever taken for part of another; when the
\* connection has ended they are exactly the messages that arrived whole, up
\* to the first the protocol refuses.  A message cut off by the end of the
\* connection is never executed.
FramesExact ==
  /\ got = [k \in 1 .. Len(got) |-> Untimed(sent[k])]
  /\ result \in {"Ok", "Io"} => Len(got) = Complete(arrived)
  /\ result \in ProtocolErrors => Len(got) = Good(Len(sent))

\* handle_client returns once the connection has ended.
ReturnsAfterDisconnect == peer # "open" ~> result # "none"
=============================================================================
