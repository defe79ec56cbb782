----------------------------- MODULE DurableLog -----------------------------
(***************************************************************************)
(* What the write-ahead log promises: the records a recovery would read    *)
(* now.  They change in three ways only.  The command being appended is    *)
(* added at the end, at most once.  A truncation the program asked for     *)
(* cuts the log to a prefix, and so does damage to the file behind its     *)
(* back.                                                                   *)
(***************************************************************************)
EXTENDS Naturals, Sequences

CONSTANT Kinds

VARIABLES log,      \* the records a recovery would read
          serial,   \* the command being appended, or to be appended next
          truncating,   \* whether the program is cutting the log
          damage    \* how often the file has been damaged

vars == <<log, serial, truncating, damage>>

Serials == {log[k].serial : k \in DOMAIN log}

Init == log = << >> /\ serial = 1 /\ truncating = FALSE /\ damage = 0

Add ==
  /\ serial \notin Serials /\ ~truncating
  /\ \E kind \in Kinds : log' = Append(log, [serial |-> serial, kind |-> kind])
  /\ UNCHANGED <<serial, truncating, damage>>

NextCommand ==
  /\ serial' = serial + 1
  /\ UNCHANGED <<log, truncating, damage>>

Damage ==
  /\ damage' = damage + 1
  /\ \E n \in 0 .. Len(log) : log' = SubSeq(log, 1, n)
  /\ UNCHANGED <<serial, truncating>>

BeginTruncate ==
  /\ ~truncating /\ truncating' = TRUE
  /\ UNCHANGED <<log, serial, damage>>

\* The log shrinks, by any number of steps.
Cut ==
  /\ truncating
  /\ \E n \in 0 .. Len(log) : log' = SubSeq(log, 1, n)
  /\ UNCHANGED <<serial, truncating, damage>>

\* It is cut, or the process has died.
EndTruncate ==
  /\ truncating /\ truncating' = FALSE
  /\ UNCHANGED <<log, serial, damage>>

Next == Add \/ NextCommand \/ Damage \/ BeginTruncate \/ Cut \/ EndTruncate

Spec == Init /\ [][Next]_vars
=============================================================================
