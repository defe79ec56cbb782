--------------------------------- MODULE Wal ---------------------------------
(***************************************************************************)
(* The memory-mapped write-ahead log of src/wal.rs, and crashes of the     *)
(* process that uses it.                                                   *)
(*                                                                         *)
(* A new-order record takes 48 bytes and a cancel record 24, so the file   *)
(* is a sequence of cells of 24 bytes.  A record's first cell holds its    *)
(* header; how far append got with it is its stage.  A new order has a     *)
(* second cell, the rest of its payload.  What is written through the      *)
(* mapping survives a crash of the process; the fields of struct Wal do    *)
(* not.                                                                    *)
(*                                                                         *)
(* The payload is the serial number of the command, so that records of     *)
(* different commands differ.  The checksum is taken to be right exactly   *)
(* for a record that was written completely and not changed since.         *)
(***************************************************************************)
EXTENDS Naturals, Sequences

CONSTANTS InitialSize,   \* the smallest mapping, in cells
          MaxSerial,     \* bound on the commands appended
          MaxTruncate,   \* bound on the calls of truncate_to
          MaxDamage      \* bound on damage to the file

ASSUME WalAssumption ==
  /\ InitialSize \in Nat \ {0} /\ MaxSerial \in Nat
  /\ MaxTruncate \in Nat /\ MaxDamage \in Nat

VARIABLES file,           \* the cells of the file: what survives a crash
          phase,          \* what the process is doing
          mapped_size, write_pos, record_count,   \* fields of Wal
          kind,           \* the command being appended
          serial,         \* its number, or that of the next one
          acked,          \* the commands whose append returned Ok
          cut, truncated, \* where truncate_to cuts, and how often it was called
          damage          \* how often the file was damaged

walVars == <<mapped_size, write_pos, record_count>>
cutVars == <<cut, truncated>>
logVars == <<file, phase, walVars, kind, serial, acked, cutVars, damage>>

Kinds == {"new", "cancel"}
Cells(k) == IF k = "new" THEN 2 ELSE 1

Zero == [part |-> "zero"]
Garbage == [part |-> "garbage"]
Header(k, n, stage) == [part |-> "header", kind |-> k, serial |-> n, stage |-> stage]
Rest(n) == [part |-> "rest", serial |-> n]

SetLen(f, n) == [i \in 1 .. n |-> IF i <= Len(f) THEN f[i] ELSE Zero]
Write(f, pos, cell) == [f EXCEPT ![pos + 1] = cell]
-----------------------------------------------------------------------------
(* Reading *)

\* The payload length at pos is not zero, and the record ends by limit.
HasHeader(f, pos) == f[pos + 1].part # "zero"
EndsBy(f, pos, limit) ==
  f[pos + 1].part = "header" => pos + Cells(f[pos + 1].kind) <= limit

\* The stored checksum is that of the payload.
ChecksumOk(f, pos) ==
  /\ f[pos + 1].part = "header" /\ f[pos + 1].stage = "payload"
  /\ f[pos + 1].kind = "new" => f[pos + 2] = Rest(f[pos + 1].serial)

RecordAt(f, pos) == [serial |-> f[pos + 1].serial, kind |-> f[pos + 1].kind]

\* What the loop of scan_records goes past: a complete and intact record.
Valid(f, pos) ==
  pos < Len(f) /\ HasHeader(f, pos) /\ EndsBy(f, pos, Len(f)) /\ ChecksumOk(f, pos)

\* scan_records: the records up to the first that is missing, torn or
\* corrupt, and the offset just past them.
ScanRecords(f) ==
  LET from[pos \in 0 .. Len(f)] ==
        IF Valid(f, pos) THEN <<RecordAt(f, pos)>> \o from[pos + Cells(f[pos + 1].kind)] ELSE << >>
      end[pos \in 0 .. Len(f)] ==
        IF Valid(f, pos) THEN end[pos + Cells(f[pos + 1].kind)] ELSE pos
  IN [records |-> from[0], end |-> end[0]]

\* What WalIterator finds at pos: the end, an error, or a record.
Found(f, end_pos, pos) ==
  IF pos >= end_pos \/ ~HasHeader(f, pos) THEN "none"
  ELSE IF ~EndsBy(f, pos, end_pos) THEN "TruncatedRecord"
  ELSE IF ~ChecksumOk(f, pos) THEN "Corruption"
  ELSE "record"

\* WalIterator: the records it yields after the first start_record, and the
\* error that ends them, if any.  from[p] is what it yields from read_pos p[1]
\* on, where current_record is p[2].
Iterate(f, end_pos, start_record) ==
  LET from[p \in {q \in (0 .. Len(f)) \X (0 .. Len(f)) : q[2] <= q[1]}] ==
        IF Found(f, end_pos, p[1]) # "record"
          THEN [records |-> << >>, error |-> Found(f, end_pos, p[1])]
          ELSE LET rest == from[<<p[1] + Cells(f[p[1] + 1].kind), p[2] + 1>>]
               IN IF p[2] + 1 <= start_record THEN rest
                  ELSE [rest EXCEPT !.records = <<RecordAt(f, p[1])>> \o @]
  IN from[<<0, 0>>]
-----------------------------------------------------------------------------
(* Wal::open_with_size.  The calls that change the file are steps of their *)
(* own: the process can crash between them.                                *)

OpenExtend ==
  /\ phase = "closed"
  /\ mapped_size' = IF Len(file) < InitialSize THEN InitialSize ELSE Len(file)
  /\ file' = SetLen(file, mapped_size')
  /\ phase' = "scan"
  /\ UNCHANGED <<write_pos, record_count, kind, serial, acked, cutVars, damage>>

OpenKeepTail ==
  /\ phase = "scan"
  /\ write_pos' = ScanRecords(file).end
  /\ record_count' = Len(ScanRecords(file).records)
  /\ phase' = "remap"
  /\ UNCHANGED <<file, mapped_size, kind, serial, acked, cutVars, damage>>

OpenTruncateAll ==
  /\ phase = "scan"
  /\ write_pos' = ScanRecords(file).end
  /\ record_count' = Len(ScanRecords(file).records)
  /\ file' = << >>
  /\ phase' = "remap"
  /\ UNCHANGED <<mapped_size, kind, serial, acked, cutVars, damage>>

OpenTruncate ==
  /\ phase = "scan"
  /\ write_pos' = ScanRecords(file).end
  /\ record_count' = Len(ScanRecords(file).records)
  /\ file' = SetLen(file, write_pos')
  /\ phase' = "remap"
  /\ UNCHANGED <<mapped_size, kind, serial, acked, cutVars, damage>>

OpenRemapShort ==
  /\ phase = "remap"
  /\ phase' = "open"
  /\ UNCHANGED <<file, walVars, kind, serial, acked, cutVars, damage>>

OpenRemap ==
  /\ phase = "remap"
  /\ file' = SetLen(file, mapped_size)
  /\ phase' = "open"
  /\ UNCHANGED <<walVars, kind, serial, acked, cutVars, damage>>
-----------------------------------------------------------------------------
(* Wal::append *)

Needs(k) == write_pos + Cells(k)
NewSize(k) == IF 2 * mapped_size > Needs(k) THEN 2 * mapped_size ELSE Needs(k)

\* ensure_capacity, when it succeeds.
AppendBegin(k) ==
  /\ phase = "open"
  /\ serial <= MaxSerial
  /\ kind' = k
  /\ phase' = "length"
  /\ IF Needs(k) <= mapped_size
       THEN UNCHANGED <<file, mapped_size>>
       ELSE /\ mapped_size' = NewSize(k)
            /\ file' = SetLen(file, mapped_size')
  /\ UNCHANGED <<write_pos, record_count, serial, acked, cutVars, damage>>

AppendFailsAcked(k) ==
  /\ phase = "open"
  /\ serial <= MaxSerial
  /\ Needs(k) > mapped_size
  /\ file' \in {file, SetLen(file, NewSize(k))}
  /\ serial' = serial + 1
  /\ acked' = acked \cup {serial}
  /\ UNCHANGED <<phase, walVars, kind, cutVars, damage>>

\* ensure_capacity fails in set_len, or after it in map_mut, and the command
\* is not logged.
AppendFails(k) ==
  /\ phase = "open"
  /\ serial <= MaxSerial
  /\ Needs(k) > mapped_size
  /\ file' \in {file, SetLen(file, NewSize(k))}
  /\ serial' = serial + 1
  /\ UNCHANGED <<phase, walVars, kind, acked, cutVars, damage>>

WriteHeader(stage, next) ==
  /\ phase = stage
  /\ file' = Write(file, write_pos, Header(kind, serial, stage))
  /\ phase' = next
  /\ UNCHANGED <<walVars, kind, serial, acked, cutVars, damage>>

WriteLength == WriteHeader("length", "crc")
WriteCrc == WriteHeader("crc", "payload")
WritePayload == WriteHeader("payload", IF kind = "new" THEN "rest" ELSE "done")

WriteRest ==
  /\ phase = "rest"
  /\ file' = Write(file, write_pos + 1, Rest(serial))
  /\ phase' = "done"
  /\ UNCHANGED <<walVars, kind, serial, acked, cutVars, damage>>

AppendReturns ==
  /\ phase = "done"
  /\ write_pos' = Needs(kind)
  /\ record_count' = record_count + 1
  /\ acked' = acked \cup {serial}
  /\ serial' = serial + 1
  /\ phase' = "open"
  /\ UNCHANGED <<file, mapped_size, kind, cutVars, damage>>
-----------------------------------------------------------------------------
(* Wal::truncate_to, for a caller that gives up all but n records *)

\* The cells of the first n records.
OffsetOf(f, n) ==
  LET end[k \in 0 .. n] == IF k = 0 THEN 0 ELSE end[k - 1] + Cells(ScanRecords(f).records[k].kind)
  IN end[n]

TruncateBegin(n) ==
  /\ phase = "open" /\ truncated < MaxTruncate
  /\ cut' = [offset |-> OffsetOf(file, n), record_count |-> n]
  /\ truncated' = truncated + 1
  /\ phase' = "zero"
  /\ acked' = {ScanRecords(file).records[k].serial : k \in 1 .. n} \cap acked
  /\ UNCHANGED <<file, walVars, kind, serial, damage>>

\* The cells of the discarded records that are not yet zero.
ToZero == {i \in cut.offset + 1 .. write_pos : file[i] # Zero}

\* fill(0), in whatever order it stores.
ZeroCell(i) ==
  /\ phase = "zero"
  /\ file' = [file EXCEPT ![i] = Zero]
  /\ UNCHANGED <<phase, walVars, kind, serial, acked, cutVars, damage>>

TruncateKeepsCount ==
  /\ phase = "zero" /\ ToZero = {}
  /\ write_pos' = cut.offset
  /\ phase' = "open"
  /\ UNCHANGED <<file, mapped_size, record_count, kind, serial, acked, cutVars, damage>>

TruncateReturns ==
  /\ phase = "zero" /\ ToZero = {}
  /\ write_pos' = cut.offset /\ record_count' = cut.record_count
  /\ phase' = "open"
  /\ UNCHANGED <<file, mapped_size, kind, serial, acked, cutVars, damage>>
-----------------------------------------------------------------------------
(* The environment *)

\* The process dies, or open fails in set_len or map_mut, and the fields of
\* Wal are gone.
ProcessDies ==
  /\ phase # "closed"
  /\ phase' = "closed"
  /\ serial' = IF phase \in {"scan", "remap", "open", "zero"} THEN serial ELSE serial + 1
  /\ mapped_size' = 0 /\ write_pos' = 0 /\ record_count' = 0
  /\ UNCHANGED <<file, kind, acked, cutVars, damage>>

\* A cell of the file is changed, or its end is lost, while nobody has it
\* open (the fault injection of tests/crash_recovery.rs).
Corrupt ==
  /\ phase = "closed" /\ damage < MaxDamage
  /\ damage' = damage + 1
  /\ \E i \in DOMAIN file : file' = [file EXCEPT ![i] = Garbage] \/ file' = SetLen(file, i - 1)
  /\ UNCHANGED <<phase, walVars, kind, serial, acked, cutVars>>
-----------------------------------------------------------------------------
WalInit ==
  /\ file = << >>
  /\ phase = "closed"
  /\ mapped_size = 0 /\ write_pos = 0 /\ record_count = 0
  /\ kind = "cancel" /\ serial = 1 /\ acked = {} /\ damage = 0
  /\ cut = [offset |-> 0, record_count |-> 0] /\ truncated = 0

WalNext ==
  \/ OpenExtend \/ OpenTruncate \/ OpenRemap
  \/ \E k \in Kinds : AppendBegin(k) \/ AppendFails(k)
  \/ WriteLength \/ WriteCrc \/ WritePayload \/ WriteRest \/ AppendReturns
  \/ \E n \in 0 .. record_count - 1 : TruncateBegin(n)
  \/ \E i \in ToZero : ZeroCell(i)
  \/ TruncateReturns
  \/ ProcessDies \/ Corrupt

WalSpec == WalInit /\ [][WalNext]_logVars
-----------------------------------------------------------------------------
\* The log ends within the mapping, and the mapping is backed by the file from
\* its first byte to its last: no access through it faults, whichever call of
\* append, open or truncate_to is under way.
MappingBacked ==
  phase \notin {"closed", "remap"} => write_pos <= mapped_size /\ mapped_size <= Len(file)

\* The module invariant the comment in open_with_size states: beyond the
\* valid log, up to the end of the mapping, the file is zero, so that no
\* record of an earlier run can become readable again.
ZeroBeyondEnd ==
  phase = "open" => \A i \in DOMAIN file : i > write_pos => file[i] = Zero

\* Once the log is open, the iterator recovery replays from agrees with the
\* scan of open: from any record on it yields all that follow, and never a
\* Corruption or a TruncatedRecord error, and the fields of Wal describe the
\* same log.
IteratorAgrees ==
  phase = "open" =>
    LET scan == ScanRecords(file)
    IN /\ write_pos = scan.end /\ record_count = Len(scan.records)
       /\ \A n \in 0 .. record_count :
            Iterate(file, write_pos, n) =
              [records |-> SubSeq(scan.records, n + 1, record_count), error |-> "none"]

Log == ScanRecords(file).records

\* A command whose append has returned is recovered after a crash at any
\* later point, including a crash inside open itself.
AckedSurvives ==
  damage = 0 => \A n \in acked : \E k \in DOMAIN Log : Log[k].serial = n

\* Corruption costs at most the order that was being written when the
\* process died.
AtMostOneLost ==
  phase = "open" => \E lost \in 0 .. MaxSerial :
                       \A n \in acked \ {lost} : \E k \in DOMAIN Log : Log[k].serial = n

Durable == INSTANCE DurableLog WITH log <- Log, truncating <- phase = "zero"

\* The records a recovery would read change only by the command being
\* appended, added once and at the end, and by a truncation under way or
\* damage, which leave a prefix: no torn, stale or repeated record is ever read,
\* whenever the process dies.
ImplementsDurableLog == Durable!Spec
-----------------------------------------------------------------------------
(* The inductive invariant behind the properties above. *)

FileCells ==
  {Zero, Garbage} \cup [part : {"rest"}, serial : Nat]
    \cup [part : {"header"}, kind : Kinds, serial : Nat, stage : {"length", "crc", "payload"}]

LogRecords == [serial : Nat, kind : Kinds]

WalTypeOK ==
  /\ file \in Seq(FileCells)
  /\ phase \in {"closed", "scan", "remap", "open", "length", "crc", "payload", "rest", "done", "zero"}
  /\ mapped_size \in Nat /\ write_pos \in Nat /\ record_count \in Nat
  /\ kind \in Kinds /\ serial \in Nat /\ damage \in Nat
  /\ cut \in [offset : Nat, record_count : Nat]

\* How the fields of Wal relate to the file.
FieldsInv ==
  /\ phase \in {"closed", "scan"} => write_pos = 0
  /\ phase = "scan" => mapped_size = Len(file)
  /\ phase = "remap" => Len(file) = write_pos /\ write_pos <= mapped_size
  /\ phase \notin {"closed", "scan", "remap"} => write_pos <= mapped_size /\ mapped_size <= Len(file)
  /\ phase \in {"length", "crc", "payload", "rest", "done"} => Needs(kind) <= mapped_size
  /\ phase = "rest" => kind = "new"

\* The fields describe the log a scan would find.
ScanInv ==
  /\ phase \in {"remap", "open", "length", "crc", "payload", "rest"} =>
       write_pos = ScanRecords(file).end /\ record_count = Len(Log)
  /\ phase = "done" => Needs(kind) = ScanRecords(file).end /\ record_count + 1 = Len(Log)
  /\ phase = "zero" => /\ cut.record_count <= Len(Log) /\ cut.offset = OffsetOf(file, cut.record_count)
                       /\ cut.offset <= write_pos

\* What the record being appended has put beyond the log; the rest is zero.
Pending(i) ==
  IF i # write_pos + 1 THEN Zero
  ELSE CASE phase = "crc" -> Header(kind, serial, "length")
         [] phase = "payload" -> Header(kind, serial, "crc")
         [] phase = "rest" -> Header(kind, serial, "payload")
         [] OTHER -> Zero

TailInv ==
  /\ phase \in {"open", "length", "crc", "payload", "rest", "zero"} =>
       \A i \in DOMAIN file : i > write_pos => file[i] = Pending(i)
  /\ phase = "done" => \A i \in DOMAIN file : i > Needs(kind) => file[i] = Zero

\* The record just completed, and no other, has the number of the command
\* under way.
SerialInv ==
  /\ \A k \in DOMAIN Log : (phase = "done" => k # Len(Log)) => Log[k].serial < serial
  /\ phase = "done" => Log[Len(Log)] = [serial |-> serial, kind |-> kind]

\* What is acknowledged is in the log, before the cut while it is truncated.
AckedInv ==
  damage = 0 => \A n \in acked : \E k \in DOMAIN Log :
                  Log[k].serial = n /\ (phase = "zero" => k <= cut.record_count)

WalInv == WalTypeOK /\ FieldsInv /\ ScanInv /\ TailInv /\ SerialInv /\ AckedInv
=============================================================================
