----------------------------- MODULE AllocTrack -----------------------------
(***************************************************************************)
(* The counters of src/alloc_track.rs: every alloc and dealloc of any      *)
(* thread looks at TRACKING and then adds to the counters, in steps, while *)
(* the thread that measures resets them, sets TRACKING, works, clears      *)
(* TRACKING and reads them.  Relaxed loads of TRACKING by another thread   *)
(* may return any value it has had.                                        *)
(***************************************************************************)
EXTENDS Integers, FiniteSetsExt

CONSTANTS Measurer,      \* the thread that calls start_tracking, stop_tracking
          Others,        \* the other threads
          Sizes,         \* layout.size()
          MaxCalls,      \* bound on the calls of a thread
          MaxSessions    \* bound on the measurements

Threads == Others \cup {Measurer}

VARIABLES TRACKING,
          counters,   \* ALLOC_COUNT, DEALLOC_COUNT and ALLOC_BYTES
          pc,         \* where a thread is in alloc or dealloc
          size,       \* the layout it was called with
          calls,      \* how many calls it has made
          session,    \* where the measurement is
          sessions,   \* how many have begun
          stats,      \* what stop_tracking has read
          own,        \* calls of the measuring thread within the measurement
          overlap     \* calls of others that overlap it

vars == <<TRACKING, counters, pc, size, calls, session, sessions, stats, own, overlap>>

Zero == [allocs |-> 0, deallocs |-> 0, bytes |-> 0]

\* The counters with one call more.
PlusAlloc(c, n) == [c EXCEPT !.allocs = @ + 1, !.bytes = @ + n]
PlusDealloc(c) == [c EXCEPT !.deallocs = @ + 1]

Init ==
  /\ TRACKING = FALSE /\ counters = Zero
  /\ pc = [t \in Threads |-> "idle"]
  /\ size = [t \in Threads |-> Min(Sizes)]
  /\ calls = [t \in Threads |-> 0]
  /\ session = "none" /\ sessions = 0
  /\ stats = Zero /\ own = Zero /\ overlap = Zero
-----------------------------------------------------------------------------
(* TrackingAllocator *)

\* A call begins; the measuring thread makes its own between start and stop.
Call(t, where, mine, others) ==
  /\ pc[t] = "idle" /\ calls[t] < MaxCalls
  /\ t = Measurer => session \in {"none", "window", "done"}
  /\ pc' = [pc EXCEPT ![t] = where]
  /\ calls' = [calls EXCEPT ![t] = @ + 1]
  /\ IF t = Measurer
       THEN own' = (IF session = "window" THEN mine ELSE own) /\ UNCHANGED overlap
       ELSE overlap' = (IF session \in {"none", "done"} THEN overlap ELSE others) /\ UNCHANGED own
  /\ UNCHANGED <<TRACKING, counters, session, sessions, stats>>

CallAlloc(t) ==
  \E n \in Sizes :
    /\ Call(t, "alloc", PlusAlloc(own, n), PlusAlloc(overlap, n))
    /\ size' = [size EXCEPT ![t] = n]

CallDealloc(t) ==
  /\ Call(t, "dealloc", PlusDealloc(own), PlusDealloc(overlap))
  /\ UNCHANGED size

\* TRACKING.load(Relaxed)
Loaded(t) == IF t # Measurer /\ sessions > 0 THEN BOOLEAN ELSE {TRACKING}

Step(t, where) ==
  /\ pc' = [pc EXCEPT ![t] = where]
  /\ UNCHANGED <<TRACKING, size, calls, session, sessions, stats, own, overlap>>

LoadTracking(t) ==
  /\ pc[t] \in {"alloc", "dealloc"}
  /\ \/ TRUE \in Loaded(t) /\ Step(t, IF pc[t] = "alloc" THEN "count" ELSE "uncount")
     \/ FALSE \in Loaded(t) /\ Step(t, "idle")
  /\ UNCHANGED counters

AddCount(t) ==
  /\ pc[t] = "count" /\ Step(t, "bytes")
  /\ counters' = [counters EXCEPT !.allocs = @ + 1]

AddBytes(t) ==
  /\ pc[t] = "bytes" /\ Step(t, "idle")
  /\ counters' = [counters EXCEPT !.bytes = @ + size[t]]

AddDealloc(t) ==
  /\ pc[t] = "uncount" /\ Step(t, "idle")
  /\ counters' = [counters EXCEPT !.deallocs = @ + 1]
-----------------------------------------------------------------------------
(* start_tracking and stop_tracking, one access at a time *)

Access(from, to) ==
  /\ session = from /\ session' = to /\ pc[Measurer] = "idle"
  /\ UNCHANGED <<pc, size, calls, own>>

\* The calls of the other threads that are under way.
Underway ==
  [allocs   |-> Cardinality({t \in Others : pc[t] \in {"alloc", "count", "bytes"}}),
   deallocs |-> Cardinality({t \in Others : pc[t] \in {"dealloc", "uncount"}}),
   bytes    |-> MapThenSumSet(LAMBDA t : size[t],
                              {t \in Others : pc[t] \in {"alloc", "count", "bytes"}})]

BeginSession ==
  /\ session \in {"none", "done"} /\ sessions < MaxSessions /\ pc[Measurer] = "idle"
  /\ session' = "reset allocs" /\ sessions' = sessions + 1
  /\ own' = Zero /\ overlap' = Underway
  /\ UNCHANGED <<TRACKING, counters, pc, size, calls, stats>>

ResetNothing(field, from, to) ==
  /\ Access(from, to)
  /\ UNCHANGED <<TRACKING, counters, sessions, stats, overlap>>

Reset(field, from, to) ==
  /\ Access(from, to)
  /\ counters' = [counters EXCEPT ![field] = 0]
  /\ UNCHANGED <<TRACKING, sessions, stats, overlap>>

StoreTracking(value, from, to) ==
  /\ Access(from, to)
  /\ TRACKING' = value
  /\ UNCHANGED <<counters, sessions, stats, overlap>>

ReadCounter(field, from, to) ==
  /\ Access(from, to)
  /\ stats' = [stats EXCEPT ![field] = counters[field]]
  /\ UNCHANGED <<TRACKING, counters, sessions, overlap>>

start_tracking ==
  \/ Reset("allocs", "reset allocs", "reset deallocs")
  \/ Reset("deallocs", "reset deallocs", "reset bytes")
  \/ Reset("bytes", "reset bytes", "set")
  \/ StoreTracking(TRUE, "set", "window")

stop_tracking ==
  \/ StoreTracking(FALSE, "window", "read allocs")
  \/ ReadCounter("allocs", "read allocs", "read deallocs")
  \/ ReadCounter("deallocs", "read deallocs", "read bytes")
  \/ ReadCounter("bytes", "read bytes", "done")

Next ==
  \/ \E t \in Threads :
       \/ CallAlloc(t) \/ CallDealloc(t) \/ LoadTracking(t)
       \/ AddCount(t) \/ AddBytes(t) \/ AddDealloc(t)
  \/ BeginSession \/ start_tracking \/ stop_tracking

Spec == Init /\ [][Next]_vars
-----------------------------------------------------------------------------
\* The statistics contain every call the measuring thread made between start
\* and stop, and beyond those at most the calls of other threads that overlap
\* the measurement, also after an earlier one whose late additions are still
\* to come.  A program of one thread is measured exactly.
StatsBounded ==
  session = "done" =>
    \A field \in DOMAIN stats :
      stats[field] \in own[field] .. own[field] + overlap[field]
=============================================================================
