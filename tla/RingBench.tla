------------------------------ MODULE RingBench ------------------------------
(***************************************************************************)
(* examples/ring_throughput.rs on the ring of module Ring: run_u64 and     *)
(* run_order, whose producer thread spins on push and whose consumer spins *)
(* on pop until every value has crossed, and run_latency, where one thread *)
(* alternates a push and a pop and unwraps both.  An order stands for its  *)
(* id, which is all the checksum looks at.                                 *)
(***************************************************************************)
EXTENDS Integers

CONSTANTS Capacity, Laps, NoCursorCache, NoValue,   \* of the ring
          Count   \* values to transfer

Values == 0 .. Count - 1

VARIABLES slots, head, tail, cachedTail, cachedHead, knownTail, knownHead,
          pcP, pval, pcC, cval, popped, dropCursor,   \* of the ring
          mode,     \* "throughput" or "latency"
          pushed,   \* the producer's loop variable
          taken,    \* the consumer's
          sum,      \* the checksum
          status    \* "running", "joined" or "panicked"

ringVars == <<slots, head, tail, cachedTail, cachedHead, knownTail, knownHead,
              pcP, pval, pcC, cval, popped, dropCursor>>
vars == <<ringVars, mode, pushed, taken, sum, status>>

R == INSTANCE Ring

Init ==
  /\ R!Init
  /\ mode \in {"throughput", "latency"}
  /\ pushed = 0 /\ taken = 0 /\ sum = 0 /\ status = "running"

\* for i in 0..count { while p.push(i).is_err() { spin_loop() } }
Producer ==
  /\ mode = "throughput" /\ pushed < Count
  /\ \/ (R!PushBegin(pushed) \/ R!PushReload \/ R!PushWrite) /\ UNCHANGED pushed
     \/ R!PushPublish /\ pushed' = pushed + 1
  /\ UNCHANGED <<mode, taken, sum, status>>

ProducerEnds ==
  /\ mode = "throughput" /\ pushed = Count
  /\ R!DropProducer
  /\ UNCHANGED <<mode, pushed, taken, sum, status>>

\* for _ in 0..count { loop { if let Ok(v) = c.pop() { sum += v; break } } }
Consumer ==
  /\ mode = "throughput" /\ taken < Count
  /\ \/ (R!PopBegin \/ R!PopReload \/ R!PopRead) /\ UNCHANGED <<taken, sum>>
     \/ R!PopPublish /\ taken' = taken + 1 /\ sum' = sum + cval
  /\ UNCHANGED <<mode, pushed, status>>

Join ==
  /\ mode = "throughput" /\ status = "running"
  /\ taken = Count /\ pcP = "dropped"
  /\ status' = "joined"
  /\ R!DropConsumer
  /\ UNCHANGED <<mode, pushed, taken, sum>>
-----------------------------------------------------------------------------
(* run_latency: one thread, whose loads return its own last stores *)

LatencyPush ==
  /\ mode = "latency" /\ status = "running"
  /\ pushed = taken /\ pushed < Count
  /\ \/ (R!PushBegin(pushed) \/ R!PushWrite) /\ UNCHANGED <<pushed, status>>
     \/ /\ R!PushReload /\ cachedTail' = tail /\ UNCHANGED pushed
        /\ status' = IF pcP' = "idle" THEN "panicked" ELSE status   \* unwrap
     \/ R!PushPublish /\ pushed' = pushed + 1 /\ UNCHANGED status
  /\ UNCHANGED <<mode, taken, sum>>

LatencyPop ==
  /\ mode = "latency" /\ status = "running" /\ pushed = taken + 1
  /\ \/ (R!PopBegin \/ R!PopRead) /\ UNCHANGED <<taken, sum, status>>
     \/ /\ R!PopReload /\ cachedHead' = head /\ UNCHANGED <<taken, sum>>
        /\ status' = IF pcC' = "idle" THEN "panicked" ELSE status   \* unwrap
     \/ R!PopPublish /\ taken' = taken + 1 /\ sum' = sum + cval /\ UNCHANGED status
  /\ UNCHANGED <<mode, pushed>>

LatencyEnds ==
  /\ mode = "latency" /\ status = "running" /\ taken = Count
  /\ status' = "joined"
  /\ UNCHANGED <<ringVars, mode, pushed, taken, sum>>

Next ==
  \/ Producer \/ ProducerEnds \/ Consumer \/ Join
  \/ LatencyPush \/ LatencyPop \/ LatencyEnds

\* The threads are scheduled, and a spinning thread sees the other's store.
Fairness ==
  /\ WF_vars(Producer \/ ProducerEnds) /\ WF_vars(Consumer \/ Join)
  /\ WF_vars(LatencyPush \/ LatencyPop \/ LatencyEnds)
  /\ SF_vars(Producer /\ pcP = "reload" /\ cachedTail' = tail)
  /\ SF_vars(Consumer /\ pcC = "reload" /\ cachedHead' = head)

Spec == Init /\ [][Next]_vars /\ Fairness
-----------------------------------------------------------------------------
\* The assertion that ends every measurement: each value crossed exactly once.
Checksum == status = "joined" => sum = (Count * (Count - 1)) \div 2

\* A push and a pop by turns on one thread never meet a full or an empty
\* ring: the unwraps of run_latency hold at every wrap of the cursors.
UnwrapsHold == status # "panicked"
=============================================================================
