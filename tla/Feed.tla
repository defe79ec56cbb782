-------------------------------- MODULE Feed --------------------------------
(***************************************************************************)
(* The execution reports' way from process_command of src/gateway.rs over  *)
(* UDP multicast to examples/relay.rs, from there by unicast to            *)
(* examples/subscriber.rs, and the subscriber's gap detection.             *)
(*                                                                         *)
(* A hop is the sequence of datagrams in flight.  The network may lose,    *)
(* double or swap them, and deliver datagrams too short for a report.  A   *)
(* report is its sequence number, which wraps as a u32 does (at            *)
(* SeqModulus), and its place among all the reports sent.                  *)
(***************************************************************************)
EXTENDS Integers, Sequences, FiniteSets

CONSTANTS SeqModulus,    \* 2^32 in the code
          MaxReports,    \* bound on the reports sent
          MaxInFlight,   \* bound on the datagrams of a hop
          MaxPrinted,    \* bound on the reports printed, doubled ones included
          NetworkFaults  \* among "lose", "duplicate", "reorder", "short", "restart"

ASSUME FeedAssumption ==
  /\ SeqModulus \in Nat \ {0, 1} /\ MaxReports \in Nat /\ MaxInFlight \in Nat /\ MaxPrinted \in Nat
  /\ NetworkFaults \subseteq {"lose", "duplicate", "reorder", "short", "restart"}

VARIABLES seq_num,        \* of matching_loop
          reported,       \* how many reports were numbered
          restarted,      \* whether the gateway has been restarted since
          multicast, unicast,   \* the two hops
          expected_seq,   \* of the subscriber
          missing,        \* the sum of the gaps it has logged
          printed         \* the reports it has printed, by their places

feedVars == <<seq_num, reported, restarted, multicast, unicast, expected_seq, missing, printed>>

Short == [seq |-> 0, place |-> 0]

SeqAdd(a, b) == (a + b) % SeqModulus
SeqSub(a, b) == (a - b) % SeqModulus

FeedInit ==
  /\ seq_num = 0 /\ reported = 0 /\ restarted = FALSE
  /\ multicast = << >> /\ unicast = << >>
  /\ expected_seq = 1 /\ missing = 0 /\ printed = << >>

\* A fill is numbered, encoded and sent; a send that fails is ignored.
Report ==
  /\ reported < MaxReports
  /\ seq_num' = SeqAdd(seq_num, 1)
  /\ reported' = reported + 1
  /\ \/ /\ Len(multicast) < MaxInFlight
        /\ multicast' = Append(multicast, [seq |-> seq_num', place |-> reported'])
     \/ "lose" \in NetworkFaults /\ UNCHANGED multicast
  /\ UNCHANGED <<restarted, unicast, expected_seq, missing, printed>>

\* The gateway is restarted: matching_loop numbers from zero again.
Restart ==
  /\ "restart" \in NetworkFaults /\ seq_num # 0
  /\ seq_num' = 0 /\ restarted' = TRUE
  /\ UNCHANGED <<reported, multicast, unicast, expected_seq, missing, printed>>

\* The relay drops a short datagram, forwards any other, and ignores a send
\* that fails.
Relay ==
  /\ multicast # << >>
  /\ multicast' = Tail(multicast)
  /\ \/ Head(multicast) = Short /\ UNCHANGED unicast
     \/ Head(multicast) # Short /\ "lose" \in NetworkFaults /\ UNCHANGED unicast
     \/ /\ Head(multicast) # Short /\ Len(unicast) < MaxInFlight
        /\ unicast' = Append(unicast, Head(multicast))
  /\ UNCHANGED <<seq_num, reported, restarted, expected_seq, missing, printed>>

SaturatingGap(seq) == IF seq > expected_seq THEN seq - expected_seq ELSE 0

\* The gap the subscriber logs when it receives seq.
Gap(seq) == SeqSub(seq, expected_seq)

\* What the subscriber expects after it has received seq.
NextExpected(seq) == SeqAdd(seq, 1)

Receive ==
  /\ unicast # << >> /\ Len(printed) < MaxPrinted
  /\ unicast' = Tail(unicast)
  /\ LET report == Head(unicast)
     IN  IF report = Short
           THEN UNCHANGED <<expected_seq, missing, printed>>
           ELSE /\ missing' = missing + Gap(report.seq)
                /\ expected_seq' = NextExpected(report.seq)
                /\ printed' = Append(printed, report.place)
  /\ UNCHANGED <<seq_num, reported, restarted, multicast>>
-----------------------------------------------------------------------------
(* The network *)

\* The datagrams of a hop up to the i-th and from the i-th on.
UpTo(hop, i) == SubSeq(hop, 1, i)
From(hop, i) == SubSeq(hop, i, Len(hop))

\* What one fault makes of a hop.
Faulty(hop) ==
  (IF "lose" \in NetworkFaults
     THEN {UpTo(hop, i - 1) \o From(hop, i + 1) : i \in DOMAIN hop} ELSE {})
  \cup (IF "duplicate" \in NetworkFaults
     THEN {UpTo(hop, i) \o From(hop, i) : i \in DOMAIN hop} ELSE {})
  \cup (IF "reorder" \in NetworkFaults
     THEN {[hop EXCEPT ![i] = hop[i + 1], ![i + 1] = hop[i]] : i \in 1 .. Len(hop) - 1} ELSE {})
  \cup (IF "short" \in NetworkFaults THEN {Append(hop, Short)} ELSE {})

MulticastFault ==
  /\ multicast' \in {hop \in Faulty(multicast) : Len(hop) <= MaxInFlight}
  /\ UNCHANGED <<seq_num, reported, restarted, unicast, expected_seq, missing, printed>>

UnicastFault ==
  /\ unicast' \in {hop \in Faulty(unicast) : Len(hop) <= MaxInFlight}
  /\ UNCHANGED <<seq_num, reported, restarted, multicast, expected_seq, missing, printed>>

FeedNext == Report \/ Restart \/ Relay \/ Receive \/ MulticastFault \/ UnicastFault

FeedSpec == FeedInit /\ [][FeedNext]_feedVars
-----------------------------------------------------------------------------
Datagrams == [seq : 0 .. SeqModulus - 1, place : 0 .. MaxReports]

\* The places printed, with the 0 before the first report.
Seen(i) == IF i = 0 THEN 0 ELSE printed[i]

Step(i) == Seen(i) - Seen(i - 1)

\* The reports printed that come twice or late: what the subscriber expects
\* goes back.  docs/SYSTEM_DESIGN.md:281 has such a report discarded.
Setbacks == {i \in 1 .. Len(printed) : Step(i) <= 0}

\* The gaps logged and the reports printed add up to the place of the last
\* report printed: the gaps are the reports lost before it, wherever on the way
\* they were lost and across the wrap of the sequence number.  A report that
\* comes twice or late is taken for one almost a cycle ahead: it adds one cycle
\* of numbers to the account, at once and with the false gap that may follow,
\* and no more, so that later losses are again counted right.  Jumps of more
\* than a cycle and restarts of the gateway are excepted.
GapsExact ==
  ~restarted /\ (\A i \in 1 .. Len(printed) : Step(i) \in 1 - SeqModulus .. SeqModulus)
    => missing + Len(printed) = Seen(Len(printed)) + SeqModulus * Cardinality(Setbacks)
=============================================================================
