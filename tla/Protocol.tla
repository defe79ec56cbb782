------------------------------ MODULE Protocol ------------------------------
(***************************************************************************)
(* The fixed-width little-endian wire format of src/protocol.rs, used on   *)
(* the client's connection, in the write-ahead log and in execution        *)
(* reports.                                                                *)
(*                                                                         *)
(* A buffer is a function from offsets to bytes.  A byte takes Byte values *)
(* (256 in the program), so an integer of w bytes has the range the width  *)
(* gives it in that base, and offsets, sizes and the byte order are those  *)
(* of the code.  A decoder answers [ok |-> value] or [err |-> reason].     *)
(* Encoders and decoders check the length of the buffer first, so the      *)
(* bounds checks of the single reads and writes never fail.                *)
(***************************************************************************)
EXTENDS Integers, Sequences, FiniteSetsExt

CONSTANT Byte   \* the number of values of a byte

ASSUME ByteAssumption == Byte \in Nat /\ Byte >= 4 /\ Byte % 2 = 0

MSG_NEW_ORDER == 1
MSG_CANCEL_ORDER == 2
MSG_EXECUTION_REPORT == 3

NEW_ORDER_SIZE == 40
CANCEL_ORDER_SIZE == 16
EXECUTION_REPORT_SIZE == 48

ProtocolErrors == {"BufferTooShort", "UnknownMessageType", "InvalidSide", "ZeroQuantity"}
Err(reason) == [err |-> reason]
Ok(value) == [ok |-> value]
IsOk(answer) == "ok" \in DOMAIN answer

Size(buf) == Cardinality(DOMAIN buf)
Prefix(buf, n) == [i \in 0 .. n - 1 |-> buf[i]]

\* A fresh buffer, as long as the longest message.
ZeroBuf == [i \in 0 .. EXECUTION_REPORT_SIZE - 1 |-> 0]

\* from_le_bytes of the width bytes at offset, and its two's complement.
ReadUnsigned(buf, offset, width) ==
  FoldSet(LAMBDA k, sum : sum + buf[offset + k] * Byte ^ k, 0, 0 .. width - 1)

ZeroExtended(buf, offset) == ReadUnsigned(buf, offset, 8)

read_u8(buf, offset) == IF offset \in DOMAIN buf THEN Ok(buf[offset]) ELSE Err("BufferTooShort")
read_u32(buf, offset) == ReadUnsigned(buf, offset, 4)
read_u64(buf, offset) == ReadUnsigned(buf, offset, 8)
read_i64(buf, offset) ==
  LET u == ReadUnsigned(buf, offset, 8)
  IN IF u < Byte ^ 8 \div 2 THEN u ELSE u - Byte ^ 8

\* to_le_bytes of val (division rounds down, so that a negative one comes out
\* in two's complement), copied to the width bytes at offset.
Write(buf, offset, width, val) ==
  [i \in DOMAIN buf |-> IF i \in offset .. offset + width - 1
                          THEN (val \div Byte ^ (i - offset)) % Byte ELSE buf[i]]

NoFill(buf, size) == buf

\* buf[..size].fill(0)
Fill(buf, size) == [i \in DOMAIN buf |-> IF i < size THEN 0 ELSE buf[i]]

encode_side(side) == IF side = "Bid" THEN 0 ELSE 1
decode_side(val) ==
  CASE val = 0 -> Ok("Bid") [] val = 1 -> Ok("Ask") [] OTHER -> Err("InvalidSide")
-----------------------------------------------------------------------------
(* Commands *)

decode_new_order(buf) ==
  LET side == decode_side(read_u8(buf, 1).ok)
  IN IF Size(buf) < NEW_ORDER_SIZE THEN Err("BufferTooShort")
     ELSE IF ~IsOk(side) THEN side
     ELSE IF read_u64(buf, 32) = 0 THEN Err("ZeroQuantity")
     ELSE Ok([type |-> "new", side |-> side.ok,
              id |-> read_u64(buf, 8), trader_id |-> read_u64(buf, 16),
              price |-> read_i64(buf, 24), quantity |-> read_u64(buf, 32),
              timestamp |-> 0])

\* The timestamp is not written.
encode_new_order(buf, order) ==
  LET b0 == Write(Fill(buf, NEW_ORDER_SIZE), 0, 1, MSG_NEW_ORDER)
      b1 == Write(b0, 1, 1, encode_side(order.side))
      b2 == Write(b1, 8, 8, order.id)
      b3 == Write(b2, 16, 8, order.trader_id)
      b4 == Write(b3, 24, 8, order.price)
  IN Write(b4, 32, 8, order.quantity)

decode_cancel_order(buf) ==
  IF Size(buf) < CANCEL_ORDER_SIZE THEN Err("BufferTooShort")
  ELSE Ok([type |-> "cancel", id |-> read_u64(buf, 8)])

encode_cancel_order(buf, order_id) ==
  Write(Write(Fill(buf, CANCEL_ORDER_SIZE), 0, 1, MSG_CANCEL_ORDER), 8, 8, order_id)

decode_message(buf) ==
  LET msg_type == read_u8(buf, 0)
  IN IF ~IsOk(msg_type) THEN msg_type
     ELSE CASE msg_type.ok = MSG_NEW_ORDER -> decode_new_order(buf)
            [] msg_type.ok = MSG_CANCEL_ORDER -> decode_cancel_order(buf)
            [] OTHER -> Err("UnknownMessageType")

message_size(msg_type) ==
  CASE msg_type = MSG_NEW_ORDER -> Ok(NEW_ORDER_SIZE)
    [] msg_type = MSG_CANCEL_ORDER -> Ok(CANCEL_ORDER_SIZE)
    [] OTHER -> Err("UnknownMessageType")

\* encode_new_order or encode_cancel_order, and the bytes it returns the
\* length of.
Encode(buf, cmd) == IF cmd.type = "new" THEN encode_new_order(buf, cmd)
                                        ELSE encode_cancel_order(buf, cmd.id)
EncodedSize(cmd) == IF cmd.type = "new" THEN NEW_ORDER_SIZE ELSE CANCEL_ORDER_SIZE

\* What is left of a command when it has been encoded and decoded.
Untimed(cmd) == IF cmd.type = "new" THEN [cmd EXCEPT !.timestamp = 0] ELSE cmd
-----------------------------------------------------------------------------
(* Execution reports *)

encode_execution_report(buf, r) ==
  LET b0 == Write(Fill(buf, EXECUTION_REPORT_SIZE), 0, 1, MSG_EXECUTION_REPORT)
      b1 == Write(b0, 4, 4, r.seq_num)
      b2 == Write(b1, 8, 8, r.taker_order_id)
      b3 == Write(b2, 16, 8, r.maker_order_id)
      b4 == Write(b3, 24, 8, r.price)
      b5 == Write(b4, 32, 8, r.quantity)
  IN Write(b5, 40, 8, r.timestamp)

decode_execution_report(buf) ==
  IF Size(buf) < EXECUTION_REPORT_SIZE THEN Err("BufferTooShort")
  ELSE Ok([seq_num |-> read_u32(buf, 4),
           taker_order_id |-> read_u64(buf, 8), maker_order_id |-> read_u64(buf, 16),
           price |-> read_i64(buf, 24), quantity |-> read_u64(buf, 32),
           timestamp |-> read_u64(buf, 40)])
=============================================================================
