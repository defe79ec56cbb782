----------------------------- MODULE Measurement -----------------------------
(***************************************************************************)
(* The measurement code: the load generator in the mode its command line   *)
(* selects (main of examples/loadgen.rs), the ring benchmark, and the      *)
(* allocation counter under the threads of any program.  They share        *)
(* nothing; which says which of them runs, and the variables of the others *)
(* stay Off.                                                               *)
(***************************************************************************)
EXTENDS Integers

CONSTANTS MaxOrders, MaxLevels,                    \* of LoadGen
          MaxTcpOrders, MaxTcpLevels,              \* of LoadTcp
          Capacity, Laps, NoCursorCache, NoValue, Count,        \* of RingBench
          Measurer, Others, Sizes, MaxCalls, MaxSessions,       \* of AllocTrack
          Off

VARIABLES which,
          config, asks,   \* of LoadGen and of LoadTcp
          phase, i, bids, ring, warmup_done, measured_count, fill_count, seq, refused,
          main, gateway, bound, sent, processed, seq_num, buffered, lost, recv_count,
          slots, head, tail, cachedTail, cachedHead, knownTail, knownHead,
          pcP, pval, pcC, cval, popped, dropCursor, mode, pushed, taken, sum, status,
          TRACKING, counters, pc, size, calls, session, sessions, stats, own, overlap

Direct == INSTANCE LoadGen
Tcp == INSTANCE LoadTcp WITH MaxOrders <- MaxTcpOrders, MaxLevels <- MaxTcpLevels
Bench == INSTANCE RingBench
Alloc == INSTANCE AllocTrack

loadVars == <<config, asks>>
directVars == <<phase, i, bids, ring, warmup_done, measured_count, fill_count, seq, refused>>
tcpVars == <<main, gateway, bound, sent, processed, seq_num, buffered, lost, recv_count>>
benchVars == <<slots, head, tail, cachedTail, cachedHead, knownTail, knownHead, pcP, pval,
               pcC, cval, popped, dropCursor, mode, pushed, taken, sum, status>>
allocVars == <<TRACKING, counters, pc, size, calls, session, sessions, stats, own, overlap>>
vars == <<which, loadVars, directVars, tcpVars, benchVars, allocVars>>

LoadOff == config = Off /\ asks = Off
DirectOff ==
  /\ phase = Off /\ i = Off /\ bids = Off /\ ring = Off /\ warmup_done = Off
  /\ measured_count = Off /\ fill_count = Off /\ seq = Off /\ refused = Off
TcpOff ==
  /\ main = Off /\ gateway = Off /\ bound = Off /\ sent = Off /\ processed = Off
  /\ seq_num = Off /\ buffered = Off /\ lost = Off /\ recv_count = Off
BenchOff ==
  /\ slots = Off /\ head = Off /\ tail = Off /\ cachedTail = Off /\ cachedHead = Off
  /\ knownTail = Off /\ knownHead = Off /\ pcP = Off /\ pval = Off /\ pcC = Off /\ cval = Off
  /\ popped = Off /\ dropCursor = Off /\ mode = Off /\ pushed = Off /\ taken = Off
  /\ sum = Off /\ status = Off
AllocOff ==
  /\ TRACKING = Off /\ counters = Off /\ pc = Off /\ size = Off /\ calls = Off
  /\ session = Off /\ sessions = Off /\ stats = Off /\ own = Off /\ overlap = Off

\* main of loadgen.rs: --tcp selects run_tcp, its absence run_direct.
Init ==
  \/ which = "direct" /\ Direct!Init /\ TcpOff /\ BenchOff /\ AllocOff
  \/ which = "tcp" /\ Tcp!Init /\ DirectOff /\ BenchOff /\ AllocOff
  \/ which = "bench" /\ Bench!Init /\ LoadOff /\ DirectOff /\ TcpOff /\ AllocOff
  \/ which = "alloc" /\ Alloc!Init /\ LoadOff /\ DirectOff /\ TcpOff /\ BenchOff

DirectNext == which = "direct" /\ Direct!Next /\ UNCHANGED <<which, tcpVars, benchVars, allocVars>>
TcpNext == which = "tcp" /\ Tcp!Next /\ UNCHANGED <<which, directVars, benchVars, allocVars>>
BenchNext ==
  which = "bench" /\ Bench!Next /\ UNCHANGED <<which, loadVars, directVars, tcpVars, allocVars>>
AllocNext ==
  which = "alloc" /\ Alloc!Next /\ UNCHANGED <<which, loadVars, directVars, tcpVars, benchVars>>

Next == DirectNext \/ TcpNext \/ BenchNext \/ AllocNext

\* The fairness of the program that runs.
Spec ==
  /\ Init /\ [][Next]_vars
  /\ WF_vars(DirectNext)
  /\ WF_<<loadVars, tcpVars>>(which = "tcp" /\ Tcp!GatewayStep)
  /\ WF_<<loadVars, tcpVars>>(which = "tcp" /\ Tcp!MainStep)
  /\ which = "bench" => Bench!Fairness
-----------------------------------------------------------------------------
\* What the programs report is right.  In the direct mode no order is refused,
\* although bids rest while asks are still there and the arena may be no
\* larger than the preloaded asks, and the orders reported as resting are
\* those in the book.  In the TCP mode every report is received or was lost
\* to a full buffer, none because the socket was bound too late, and every
\* order is processed, also after the timeout.  In the benchmark each value
\* has crossed once and no unwrap meets a full or an empty ring.
ResultsRight ==
  /\ which = "direct" => Direct!NothingRefused /\ Direct!ResultsMatchBook
  /\ which = "tcp" => Tcp!ReportsAccounted /\ Tcp!AllMatched
  /\ which = "bench" => Bench!Checksum /\ Bench!UnwrapsHold

\* The allocation statistics contain every call the measuring thread made
\* between start and stop, and beyond those at most the calls of other
\* threads that overlap the measurement, also after an earlier one whose late
\* additions are still to come.
StatsBounded == which = "alloc" => Alloc!StatsBounded

\* Each program ends.  The direct mode pushes everything before it pops, which
\* only the ring's capacity permits; the writer and the gateway of the TCP
\* mode never wait on each other, though nobody reads the reports meanwhile;
\* nor do the two spinning threads of the benchmark.
ProgramsEnd ==
  /\ which = "direct" ~> phase = "done"
  /\ which = "tcp" ~> main \in {"done", "panicked"}
  /\ which = "bench" ~> status = "joined"
=============================================================================
