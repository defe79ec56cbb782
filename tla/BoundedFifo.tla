----------------------------- MODULE BoundedFifo -----------------------------
(***************************************************************************)
(* What the ring buffer of src/ring.rs promises its two users: a bounded   *)
(* first-in first-out queue that owns its content.  A rejected push and an *)
(* empty pop change nothing.  Once both handles are gone the values still  *)
(* queued are dropped, oldest first, each of them once.                    *)
(***************************************************************************)
EXTENDS Naturals, Sequences

CONSTANTS Capacity, Values

VARIABLES queue,    \* accepted and not yet taken, oldest first
          taken,    \* what the last successful pop returned
          closed    \* both handles have been dropped

vars == <<queue, taken, closed>>

Init ==
  /\ queue = << >>
  /\ taken \notin Values
  /\ closed = FALSE

Put(v) ==
  /\ ~closed
  /\ Len(queue) < Capacity
  /\ queue' = Append(queue, v)
  /\ UNCHANGED <<taken, closed>>

Take ==
  /\ ~closed
  /\ queue # << >>
  /\ taken' = Head(queue)
  /\ queue' = Tail(queue)
  /\ UNCHANGED closed

Close ==
  /\ ~closed
  /\ closed' = TRUE
  /\ UNCHANGED <<queue, taken>>

Discard ==
  /\ closed
  /\ queue # << >>
  /\ queue' = Tail(queue)
  /\ UNCHANGED <<taken, closed>>

Next == (\E v \in Values : Put(v)) \/ Take \/ Close \/ Discard

Spec == Init /\ [][Next]_vars
=============================================================================
