-------------------------------- MODULE Codec --------------------------------
(***************************************************************************)
(* One buffer that messages of all kinds are encoded into in turn, as the  *)
(* log reuses encode_buf and the matching loop report_buf: what an earlier *)
(* message left in the buffer is still there.  The values of the fields    *)
(* are those at the ends of their ranges.                                  *)
(***************************************************************************)
EXTENDS Protocol

VARIABLES buf,   \* the buffer, as long as the longest message
          msg    \* the message encoded last

U64 == {1, Byte ^ 8 - 1}
I64 == {-(Byte ^ 8 \div 2), -1, Byte ^ 8 \div 2 - 1}
U32 == {0, 1, Byte ^ 4 - 1}

NewOrders == [type : {"new"}, side : {"Bid", "Ask"}, id : U64, trader_id : {0, Byte + 2},
              price : I64, quantity : U64, timestamp : {1}]
Cancels == [type : {"cancel"}, id : U64 \cup {0}]
Reports == [seq_num : U32, taker_order_id : {1}, maker_order_id : U64,
            price : I64, quantity : U64, timestamp : {0, Byte ^ 7 + 1}]

EncodeCommand(cmd) == buf' = Encode(buf, cmd) /\ msg' = cmd
EncodeReport(r) == buf' = encode_execution_report(buf, r) /\ msg' = r

CodecInit == buf = encode_cancel_order(ZeroBuf, 0) /\ msg = [type |-> "cancel", id |-> 0]

CodecNext == (\E cmd \in NewOrders \cup Cancels : EncodeCommand(cmd)) \/ (\E r \in Reports : EncodeReport(r))

CodecSpec == CodecInit /\ [][CodecNext]_<<buf, msg>>
-----------------------------------------------------------------------------
IsReport == msg \in Reports
MessageSize == IF IsReport THEN EXECUTION_REPORT_SIZE ELSE EncodedSize(msg)

\* Decoding undoes encoding at the ends of every field's range, whatever was
\* in the buffer before, except that the timestamp of an order is gone: the
\* client's, which handle_client replaces, and the logged one, which it does
\* not.
RoundTrip ==
  IF IsReport THEN decode_execution_report(buf) = Ok(msg)
  ELSE decode_message(Prefix(buf, MessageSize)) = Ok(Untimed(msg))

\* A message is the same bytes whatever the buffer held before: nothing of an
\* earlier order reaches the checksummed payload of a log record or the wire.
Canonical ==
  LET fresh == IF IsReport THEN encode_execution_report(ZeroBuf, msg) ELSE Encode(ZeroBuf, msg)
  IN Prefix(buf, MessageSize) = Prefix(fresh, MessageSize)
=============================================================================
