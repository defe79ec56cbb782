-------------------------------- MODULE Ring --------------------------------
(***************************************************************************)
(* The lock-free single-producer single-consumer ring buffer of            *)
(* src/ring.rs.                                                            *)
(*                                                                         *)
(* A push or a pop is split at every access to shared memory.  The atomic  *)
(* cursors have the C11 semantics the code asks for: a load of the other   *)
(* side's cursor may return any value it has held since this side's last   *)
(* load (coherence, no freshness), and an acquire load of a released value *)
(* orders the slot accesses that preceded the store before those that      *)
(* follow the load.  knownHead and knownTail are that order: the cursor up *)
(* to which the other side's slot accesses happen before this side's next  *)
(* step.  A slot access outside it is a data race.                         *)
(*                                                                         *)
(* Cursors are usize values that wrap: they live in 0 .. Modulus-1, where  *)
(* the modulus is a multiple of the capacity, as 2^64 is of every power of *)
(* two.  Each side's cached copy of its own cursor always equals the       *)
(* cursor, so it is not a variable of its own.                             *)
(***************************************************************************)
EXTENDS Integers, Sequences

CONSTANTS Capacity,        \* number of slots
          Laps,            \* Modulus = Capacity * Laps
          NoCursorCache,   \* the build flag ring_no_cursor_cache
          Values,          \* what is pushed
          NoValue          \* content of a slot that holds no live value

ASSUME RingAssumption ==
  /\ Capacity \in Nat \ {0}
  /\ Laps \in Nat \ {0, 1}
  /\ NoCursorCache \in BOOLEAN
  /\ NoValue \notin Values \cup Int

VARIABLES slots,       \* the buffer: a live value or NoValue
          head, tail,  \* the shared cursors
          cachedTail,  \* the producer's copy of tail
          cachedHead,  \* the consumer's copy of head
          knownTail,   \* slot reads before it happen before the producer's steps
          knownHead,   \* slot writes before it happen before the consumer's steps
          pcP, pval,   \* producer: where it is in push, the value it holds
          pcC, cval,   \* consumer: where it is in pop, the value it read
          popped,      \* what the last successful pop returned
          dropCursor   \* the loop variable of RingBufferInner::drop

producerVars == <<cachedTail, knownTail, pcP, pval>>
consumerVars == <<cachedHead, knownHead, pcC, cval, popped>>
vars == <<slots, head, tail, producerVars, consumerVars, dropCursor>>

Modulus == Capacity * Laps
Cursors == 0 .. Modulus - 1

UnwrappedAdd(a, b) == a + b

\* usize::wrapping_add and usize::wrapping_sub.
WAdd(a, b) == (a + b) % Modulus
WSub(a, b) == (a - b) % Modulus

\* cursor & mask, the capacity being a power of two.
Index(cursor) == cursor % Capacity

\* The values a load may return that last returned seen: a later store is
\* never hidden by an earlier one, and none is promised to be visible yet.
Loadable(seen, current) == {WAdd(seen, d) : d \in 0 .. WSub(current, seen)}

RelaxedOrder(known, loaded) == known

\* Acquire load of a Release store: everything the other side did to the
\* slots before it stored the loaded cursor is ordered before what follows.
Synchronize(known, loaded) == loaded
-----------------------------------------------------------------------------
(* Producer::push *)

PushBegin(v) ==
  /\ pcP = "idle"
  /\ pval' = v
  /\ pcP' = IF NoCursorCache \/ WSub(head, cachedTail) = Capacity
              THEN "reload" ELSE "write"
  /\ UNCHANGED <<slots, head, tail, cachedTail, knownTail, consumerVars, dropCursor>>

PushReloadUnchecked ==
  /\ pcP = "reload"
  /\ \E t \in Loadable(cachedTail, tail) :
       /\ cachedTail' = t
       /\ knownTail' = Synchronize(knownTail, t)
  /\ pcP' = "write"
  /\ UNCHANGED <<slots, head, tail, pval, consumerVars, dropCursor>>

PushReload ==
  /\ pcP = "reload"
  /\ \E t \in Loadable(cachedTail, tail) :
       /\ cachedTail' = t
       /\ knownTail' = Synchronize(knownTail, t)
       /\ IF WSub(head, t) = Capacity
            THEN pcP' = "idle" /\ pval' = NoValue   \* Err(Full(value))
            ELSE pcP' = "write" /\ UNCHANGED pval
  /\ UNCHANGED <<slots, head, tail, consumerVars, dropCursor>>

PushWrite ==
  /\ pcP = "write"
  /\ slots' = [slots EXCEPT ![Index(head)] = pval]
  /\ pcP' = "publish"
  /\ UNCHANGED <<head, tail, cachedTail, knownTail, pval, consumerVars, dropCursor>>

PushPublish ==
  /\ pcP = "publish"
  /\ head' = WAdd(head, 1)
  /\ pcP' = "idle"
  /\ pval' = NoValue
  /\ UNCHANGED <<slots, tail, cachedTail, knownTail, consumerVars, dropCursor>>

DropProducer ==
  /\ pcP = "idle"
  /\ pcP' = "dropped"
  /\ UNCHANGED <<slots, head, tail, cachedTail, knownTail, pval, consumerVars, dropCursor>>
-----------------------------------------------------------------------------
(* Consumer::pop *)

PopBegin ==
  /\ pcC = "idle"
  /\ pcC' = IF NoCursorCache \/ tail = cachedHead THEN "reload" ELSE "read"
  /\ UNCHANGED <<slots, head, tail, producerVars, cachedHead, knownHead, cval, popped, dropCursor>>

PopReload ==
  /\ pcC = "reload"
  /\ \E h \in Loadable(cachedHead, head) :
       /\ cachedHead' = h
       /\ knownHead' = Synchronize(knownHead, h)
       /\ pcC' = IF tail = h THEN "idle" ELSE "read"   \* Err(Empty)
  /\ UNCHANGED <<slots, head, tail, producerVars, cval, popped, dropCursor>>

PopReadNewest ==
  /\ pcC = "read"
  /\ cval' = slots[Index(WSub(cachedHead, 1))]
  /\ slots' = [slots EXCEPT ![Index(WSub(cachedHead, 1))] = NoValue]
  /\ pcC' = "publish"
  /\ UNCHANGED <<head, tail, producerVars, cachedHead, knownHead, popped, dropCursor>>

\* assume_init_read moves the value out: the slot no longer owns it.
PopRead ==
  /\ pcC = "read"
  /\ cval' = slots[Index(tail)]
  /\ slots' = [slots EXCEPT ![Index(tail)] = NoValue]
  /\ pcC' = "publish"
  /\ UNCHANGED <<head, tail, producerVars, cachedHead, knownHead, popped, dropCursor>>

PopPublish ==
  /\ pcC = "publish"
  /\ tail' = WAdd(tail, 1)
  /\ popped' = cval
  /\ cval' = NoValue
  /\ pcC' = "idle"
  /\ UNCHANGED <<slots, head, producerVars, cachedHead, knownHead, dropCursor>>

DropConsumer ==
  /\ pcC = "idle"
  /\ pcC' = "dropped"
  /\ UNCHANGED <<slots, head, tail, producerVars, cachedHead, knownHead, cval, popped, dropCursor>>
-----------------------------------------------------------------------------
(* RingBufferInner::drop, run by whichever handle is dropped last.  The    *)
(* reference count orders it after both threads, so its relaxed loads read *)
(* the final cursors and dropCursor starts at tail.                        *)

Closed == pcP = "dropped" /\ pcC = "dropped"

\* The oldest cursor whose value has not been dropped by the loop.
Oldest == IF dropCursor = NoValue THEN tail ELSE dropCursor

DropSlotAfterAdvance ==
  /\ Closed
  /\ Oldest # head
  /\ slots' = [slots EXCEPT ![Index(WAdd(Oldest, 1))] = NoValue]
  /\ dropCursor' = WAdd(Oldest, 1)
  /\ UNCHANGED <<head, tail, producerVars, consumerVars>>

DropSlot ==
  /\ Closed
  /\ Oldest # head
  /\ slots' = [slots EXCEPT ![Index(Oldest)] = NoValue]
  /\ dropCursor' = WAdd(Oldest, 1)
  /\ UNCHANGED <<head, tail, producerVars, consumerVars>>
-----------------------------------------------------------------------------
(* ring_buffer(capacity) *)
Init ==
  /\ slots = [i \in 0 .. Capacity - 1 |-> NoValue]
  /\ head = 0 /\ tail = 0
  /\ cachedTail = 0 /\ cachedHead = 0
  /\ knownTail = 0 /\ knownHead = 0
  /\ pcP = "idle" /\ pval = NoValue
  /\ pcC = "idle" /\ cval = NoValue
  /\ popped = NoValue
  /\ dropCursor = NoValue

Push == (\E v \in Values : PushBegin(v)) \/ PushReload \/ PushWrite \/ PushPublish
Pop == PopBegin \/ PopReload \/ PopRead \/ PopPublish

Next == Push \/ Pop \/ DropProducer \/ DropConsumer \/ DropSlot

Spec == Init /\ [][Next]_vars
-----------------------------------------------------------------------------
Cells == Values \cup {NoValue}

TypeOK ==
  /\ slots \in [0 .. Capacity - 1 -> Cells]
  /\ head \in Cursors /\ tail \in Cursors
  /\ cachedTail \in Cursors /\ cachedHead \in Cursors
  /\ knownTail \in Cursors /\ knownHead \in Cursors
  /\ pcP \in {"idle", "reload", "write", "publish", "dropped"}
  /\ pcC \in {"idle", "reload", "read", "publish", "dropped"}
  /\ pval \in Cells /\ cval \in Cells /\ popped \in Cells
  /\ dropCursor \in Cursors \cup {NoValue}

\* No slot access races with the other thread's (the SAFETY comments of push
\* and pop): when the consumer is about to read a slot the write of that
\* value happens before the read, and when the producer is about to write a
\* slot the read of the value it held a lap ago happens before the write.
NoDataRace ==
  /\ pcC = "read" => WSub(knownHead, tail) \in 1 .. Capacity
  /\ pcP = "write" => WSub(head, knownTail) \in 0 .. Capacity - 1

\* Ownership of values in MaybeUninit slots: a push never overwrites a live
\* value (it would leak), a pop and the drop loop never read an empty slot
\* (it would be uninitialised, or a second drop).
SlotOwnership ==
  /\ pcP = "write" => slots[Index(head)] = NoValue
  /\ pcC = "read" => slots[Index(tail)] # NoValue
  /\ Closed /\ Oldest # head => slots[Index(Oldest)] # NoValue

\* When the drop loop has ended no slot still owns a value: nothing that was
\* pushed and not popped is leaked.
DropLeaksNothing ==
  Closed /\ Oldest = head => \A i \in DOMAIN slots : slots[i] = NoValue

\* The inductive invariant behind the properties above.  The four cursors
\* keep the cyclic order cachedTail, tail, cachedHead, head within one
\* capacity, and what a side has loaded is what it is synchronised with.
CursorInv ==
  /\ knownTail = cachedTail /\ knownHead = cachedHead
  /\ WSub(head, cachedTail) <= Capacity
  /\ WSub(head, tail) <= WSub(head, cachedTail)
  /\ WSub(cachedHead, tail) <= WSub(head, tail)
  /\ pcP \in {"write", "publish"} => WSub(head, cachedTail) < Capacity
  /\ pcC \in {"read", "publish"} => cachedHead # tail
  /\ dropCursor # NoValue => Closed /\ WSub(head, dropCursor) <= WSub(head, tail)

\* Whether the slot k past the oldest cursor owns a value: those below head
\* do, but for one just read by the consumer, and so does one just written
\* by the producer.
Live(k) ==
  IF k < WSub(head, Oldest) THEN k > 0 \/ pcC # "publish"
                            ELSE k = WSub(head, Oldest) /\ pcP = "publish"

SlotInv ==
  /\ \A k \in 0 .. Capacity - 1 : slots[Index(WAdd(Oldest, k))] # NoValue <=> Live(k)
  /\ pcP \in {"reload", "write", "publish"} => pval # NoValue
  /\ pcP = "publish" => slots[Index(head)] = pval
  /\ pcC = "publish" => cval # NoValue

\* The values in the ring, oldest first.  A value the consumer has read is
\* in the ring until it stores the new tail.
Item(k) == IF k = 1 /\ pcC = "publish" THEN cval ELSE slots[Index(WAdd(Oldest, k - 1))]

Content == [k \in 1 .. WSub(head, Oldest) |-> Item(k)]

Fifo == INSTANCE BoundedFifo
          WITH queue <- Content, taken <- popped, closed <- Closed

\* The ring implements a bounded FIFO queue: every value pushed is popped or
\* dropped exactly once, in order, and no more than Capacity are in flight.
ImplementsFifo == Fifo!Spec
=============================================================================
