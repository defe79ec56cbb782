------------------------------ MODULE Recovery ------------------------------
(***************************************************************************)
(* Persistence of the gateway: the matching thread's use of the log and of *)
(* snapshots (process_command and matching_loop in src/gateway.rs,         *)
(* src/snapshot.rs), crashes at any point, and recovery from what is on    *)
(* disk (src/recovery.rs, and run in src/gateway.rs).                      *)
(*                                                                         *)
(* The log is the sequence of records a recovery reads, as module Wal      *)
(* implements it.  The engine is any function Execute of a book and a      *)
(* command.  A logged command has lost its timestamp, and Strip takes the  *)
(* timestamps out of a book.  Recovery replays one record per step.        *)
(***************************************************************************)
EXTENDS Integers, Sequences, FiniteSets

CONSTANTS Execute(_, _),   \* the engine: the book a command leaves
          Strip(_),        \* a book without timestamps
          Logged(_),       \* what of a command is in its record
          EmptyBook,
          Books, Commands,
          Foreign,         \* a record with a valid checksum that does not decode
          Interval,        \* snapshot_interval
          NameBase, NameDigits,   \* the digits of a snapshot's file name: 10 and 10
          MaxCommands, MaxStarts,
          Faults           \* which of the faults below happen

AllFaults == {"append", "save", "recover", "snapshot", "cut tail", "cut", "foreign"}

ASSUME RecoveryAssumption ==
  /\ Interval \in Nat \ {0} /\ NameBase \in Nat \ {0, 1} /\ NameDigits \in Nat \ {0}
  /\ MaxCommands \in Nat /\ MaxStarts \in Nat /\ Faults \subseteq AllFaults

\* The engine never reads a timestamp: the book of orders and limit prices
\* it leaves is the same without them.
ASSUME TimestampBlind ==
  /\ Commands # {} /\ EmptyBook \in Books /\ Strip(EmptyBook) = EmptyBook
  /\ \A c \in Commands : Logged(c) # Foreign
  /\ \A b \in Books, c \in Commands :
       /\ Execute(b, c) \in Books /\ Execute(b, Logged(c)) \in Books
       /\ Strip(Execute(b, c)) = Execute(Strip(b), Logged(c))
       /\ Strip(Execute(b, Logged(c))) = Execute(Strip(b), Logged(c))

VARIABLES log,        \* the records of wal.bin
          files,      \* the snapshots on disk: record count -> contents
          status,     \* what the process is doing
          book,       \* its engine
          wal_on,     \* whether it has a log and a snapshot directory
          current,    \* the command being processed
          pos,        \* how many records recovery has replayed or skipped
          cmds_since_snapshot,
          draining,   \* whether the loop runs after shutdown
          issued, starts,      \* how many commands and process starts so far
          reference,  \* reference[k+1] is the book of a fresh engine fed k records
          base        \* the length of the log when the loop began to count afresh
                      \* without a snapshot: it started, or a save failed

disk == <<log, files, reference>>
engine == <<book, wal_on, cmds_since_snapshot, draining>>
vars == <<disk, status, engine, current, pos, issued, starts, base>>
-----------------------------------------------------------------------------
(* Snapshot files *)

UnpaddedName(count) ==
  LET width == CHOOSE w \in 1 .. NameDigits + MaxCommands :
                 count < NameBase ^ w /\ (w = 1 \/ count >= NameBase ^ (w - 1))
  IN [i \in 1 .. width + 1 |->
        IF i > width THEN -1 ELSE (count \div NameBase ^ (width - i)) % NameBase]

\* The file name snapshot_{count:010}.bin: at least NameDigits digits, then a
\* character that sorts before every digit.
Name(count) ==
  LET width == CHOOSE w \in NameDigits .. NameDigits + MaxCommands :
                 /\ count < NameBase ^ w
                 /\ w = NameDigits \/ count >= NameBase ^ (w - 1)
  IN [i \in 1 .. width + 1 |->
        IF i > width THEN -1 ELSE (count \div NameBase ^ (width - i)) % NameBase]

\* The order of Vec<PathBuf>::sort.
SortsBefore(a, b) ==
  \E i \in DOMAIN a \cap DOMAIN b : a[i] < b[i] /\ \A j \in 1 .. i - 1 : a[j] = b[j]

\* The files that load and whose checksum is right.
Intact == {c \in DOMAIN files : files[c].intact}

\* load_latest: the last intact file in the order of the names, as the set
\* with its record count, empty if there is none.
load_latest == {c \in Intact : \A d \in Intact \ {c} : SortsBefore(Name(d), Name(c))}
\* The newest snapshot written, damaged since or not.
Covered == CHOOSE c \in (DOMAIN files) \cup {0} : \A d \in DOMAIN files : d <= c
-----------------------------------------------------------------------------
(* recover_with_wal_size, called by run *)

NoData ==
  /\ log = << >> /\ files = << >>   \* the empty function
  /\ reference = <<EmptyBook>>

Init ==
  /\ NoData
  /\ status = "down"
  /\ book = EmptyBook /\ wal_on = FALSE /\ cmds_since_snapshot = 0 /\ draining = FALSE
  /\ current \in {CHOOSE c \in Commands : TRUE}
  /\ pos = 0 /\ issued = 0 /\ starts = 0 /\ base = 0

OneRecordEarlier(count) == count - 1

\* iter_from skips the records up to start_record.
StartRecord(count) == count

\* The newest snapshot is restored and its record count is where replay
\* starts, without regard to how many records the log has.
RecoverBegin ==
  /\ status = "down" /\ starts < MaxStarts
  /\ starts' = starts + 1
  /\ status' = "replay"
  /\ IF load_latest = {}
       THEN pos' = 0 /\ book' = EmptyBook
       ELSE \E c \in load_latest : pos' = StartRecord(c) /\ book' = files[c].book
  /\ UNCHANGED <<disk, wal_on, cmds_since_snapshot, draining, current, issued, base>>

\* recover returns an error: run starts with an empty book and no log.
StartFresh ==
  /\ status' = "ready"
  /\ book' = EmptyBook /\ wal_on' = FALSE /\ cmds_since_snapshot' = 0 /\ draining' = FALSE
  /\ UNCHANGED <<disk, current, pos, issued, starts, base>>

RecoverFails ==
  /\ "recover" \in Faults /\ status = "replay"
  /\ StartFresh

ReplayRecord ==
  /\ status = "replay" /\ pos < Len(log) /\ log[pos + 1] # Foreign
  /\ book' = Execute(book, log[pos + 1])
  /\ pos' = pos + 1
  /\ UNCHANGED <<disk, status, wal_on, cmds_since_snapshot, draining, current, issued, starts, base>>

\* WalError::Protocol
ReplayForeign ==
  /\ status = "replay" /\ pos < Len(log) /\ log[pos + 1] = Foreign
  /\ StartFresh

\* The matching loop starts, with its counter at zero.
RecoverDone ==
  /\ status = "replay" /\ pos >= Len(log)
  /\ status' = "ready"
  /\ wal_on' = TRUE /\ cmds_since_snapshot' = 0 /\ draining' = FALSE
  /\ base' = Len(log)
  /\ UNCHANGED <<disk, book, current, pos, issued, starts>>
-----------------------------------------------------------------------------
(* process_command and the rest of an iteration of matching_loop *)

\* A record is added to the log, after which a replay of it gives next.
Extend(record, next) ==
  /\ log' = Append(log, record)
  /\ reference' = Append(reference, next)
  /\ UNCHANGED files

LastBook == reference[Len(reference)]

Begin(cmd) ==
  /\ status = "ready" /\ issued < MaxCommands
  /\ issued' = issued + 1
  /\ current' = cmd
  /\ status' = "apply"
  /\ UNCHANGED <<engine, pos, starts, base>>

\* The log comes first; without one, or when append fails, nothing is said
\* and the command is processed all the same.
LogCommand(cmd) ==
  wal_on /\ Begin(cmd) /\ Extend(Logged(cmd), Execute(LastBook, Logged(cmd)))

SkipLog(cmd) ==
  (~wal_on \/ "append" \in Faults) /\ Begin(cmd) /\ UNCHANGED disk

\* The loop that drains the ring after shutdown does not count.
DueLate(counter) == counter > Interval
Due(counter) == counter >= Interval

Apply ==
  /\ status = "apply"
  /\ book' = Execute(book, current)
  /\ cmds_since_snapshot' = IF draining THEN cmds_since_snapshot ELSE cmds_since_snapshot + 1
  /\ status' = IF ~draining /\ wal_on /\ Due(cmds_since_snapshot') THEN "save" ELSE "ready"
  /\ UNCHANGED <<disk, wal_on, draining, current, pos, issued, starts, base>>

\* The directory with a snapshot of count records added.
CountBeforeAppend(count) == [c \in DOMAIN files \cup {count - 1} |->
  IF c = count - 1 THEN [book |-> book, intact |-> TRUE] ELSE files[c]]
FilesWith(count) == [c \in DOMAIN files \cup {count} |->
  IF c = count THEN [book |-> book, intact |-> TRUE] ELSE files[c]]

\* capture and save: the file appears complete under its name by the rename,
\* or, if the process dies before, not at all (a .tmp file is never read).
Save ==
  /\ status = "save"
  /\ files' = FilesWith(Len(log))
  /\ cmds_since_snapshot' = 0
  /\ status' = "ready"
  /\ UNCHANGED <<log, reference, book, wal_on, draining, current, pos, issued, starts, base>>

\* save fails, which is ignored: the next attempt is an interval away.
SaveFails ==
  /\ "save" \in Faults /\ status = "save"
  /\ cmds_since_snapshot' = 0
  /\ status' = "ready"
  /\ base' = Len(log)
  /\ UNCHANGED <<disk, book, wal_on, draining, current, pos, issued, starts>>

\* The shutdown flag is seen: the rest of the ring is processed.
StartDrain ==
  /\ status = "ready" /\ ~draining
  /\ draining' = TRUE
  /\ UNCHANGED <<disk, status, book, wal_on, cmds_since_snapshot, current, pos, issued, starts, base>>
-----------------------------------------------------------------------------
(* The environment *)

\* The process dies, or ends.
Crash ==
  /\ status # "down"
  /\ status' = "down"
  /\ book' = EmptyBook /\ wal_on' = FALSE /\ cmds_since_snapshot' = 0 /\ draining' = FALSE
  /\ UNCHANGED <<disk, current, pos, issued, starts, base>>

Damage == status = "down" /\ UNCHANGED <<status, engine, current, pos, issued, starts, base>>

\* A snapshot file is damaged.
CorruptSnapshot(c) ==
  /\ "snapshot" \in Faults /\ Damage
  /\ files' = [files EXCEPT ![c].intact = FALSE]
  /\ UNCHANGED <<log, reference>>

\* The log is damaged: module Wal shows that a prefix of it is left.
CutLog(n) ==
  /\ Damage
  /\ "cut" \in Faults \/ ("cut tail" \in Faults /\ n >= Covered)
  /\ log' = SubSeq(log, 1, n)
  /\ reference' = SubSeq(reference, 1, n + 1)
  /\ UNCHANGED files

\* A record of another program is at the end of the log.
ForeignRecord ==
  /\ "foreign" \in Faults /\ Damage /\ Len(log) < MaxCommands
  /\ Extend(Foreign, LastBook)

Next ==
  \/ RecoverBegin \/ RecoverFails \/ ReplayRecord \/ ReplayForeign \/ RecoverDone
  \/ \E cmd \in Commands : LogCommand(cmd) \/ SkipLog(cmd)
  \/ Apply \/ Save \/ SaveFails \/ StartDrain
  \/ Crash \/ ForeignRecord
  \/ \E c \in Intact : CorruptSnapshot(c)
  \/ \E n \in 0 .. Len(log) - 1 : CutLog(n)

Spec == Init /\ [][Next]_vars
-----------------------------------------------------------------------------
\* Whenever the engine is between two commands, its book is what a fresh
\* engine makes of the log: recovery rebuilds it whichever snapshot it used,
\* from however many crashes, and the loop logs every command it executes.
BookIsReplay ==
  wal_on /\ status = "ready" => Strip(book) = reference[Len(log) + 1]

\* A snapshot holds the book of exactly the records its name counts, so that
\* replay from it neither repeats nor skips a command, wherever the process
\* died between logging, executing and saving.
SnapshotsArePrefixes ==
  \A c \in Intact : c <= Len(log) /\ Strip(files[c].book) = reference[c + 1]

\* load_latest finds the newest intact snapshot: sorting the names sorts the
\* record counts.
LatestIsNewest ==
  load_latest = {c \in Intact : \A d \in Intact : d <= c}

\* Snapshots keep up with the log: while a process runs, its log is never more
\* than an interval ahead of the newest intact snapshot or, where there is none
\* newer, of what the process recovered or had logged when a save failed.
\* Commands drained after shutdown are excepted, as the loop does not count
\* them.
SnapshotsKeepUp ==
  wal_on /\ ~draining => \E c \in Intact \cup {base} : Len(log) - c <= Interval

\* What docs/SYSTEM_DESIGN.md:342 says of a restart: with a snapshot every
\* Interval orders, recovery replays at most Interval of them.
ReplayWithinInterval == status = "replay" => Len(log) - pos <= Interval

Snapshots == [book : Books, intact : BOOLEAN]
Records == {Logged(c) : c \in Commands} \cup {Foreign}

\* The inductive invariant behind BookIsReplay and SnapshotsArePrefixes: what
\* the disk holds hangs together, and so does the engine's book with it at
\* every point of a recovery and of a command.
DiskInv ==
  /\ log \in Seq(Records) /\ reference \in Seq(Books) /\ Len(reference) = Len(log) + 1
  /\ reference[1] = EmptyBook
  /\ \A k \in 1 .. Len(reference) : Strip(reference[k]) = reference[k]
  /\ \A k \in 1 .. Len(log) : log[k] # Foreign => reference[k + 1] = Execute(reference[k], log[k])
  /\ files \in [DOMAIN files -> Snapshots] /\ DOMAIN files \subseteq 0 .. Len(log)
  /\ \A c \in DOMAIN files : Strip(files[c].book) = reference[c + 1]
  /\ \E m \in (DOMAIN files) \cup {0} : \A d \in DOMAIN files : d <= m

EngineInv ==
  /\ status \in {"down", "replay", "ready", "apply", "save"}
  /\ book \in Books /\ wal_on \in BOOLEAN /\ current \in Commands
  /\ status = "replay" => pos \in 0 .. Len(log) /\ Strip(book) = reference[pos + 1]
  /\ status = "save" => wal_on
  /\ wal_on /\ status \in {"ready", "save"} => Strip(book) = reference[Len(log) + 1]
  /\ wal_on /\ status = "apply" => Execute(Strip(book), Logged(current)) = reference[Len(log) + 1]

\* The inductive invariant behind SnapshotsKeepUp: the counter of the loop has
\* counted every record since some intact snapshot, or since base.
CounterTypes ==
  /\ log \in Seq(Records) /\ DOMAIN files \subseteq Nat
  /\ base \in Nat /\ cmds_since_snapshot \in Nat
  /\ status \in {"down", "replay", "ready", "apply", "save"}
  /\ wal_on \in BOOLEAN /\ draining \in BOOLEAN
  /\ status \in {"down", "replay"} => ~wal_on

Pending == IF status = "apply" THEN 1 ELSE 0

CounterInv ==
  wal_on /\ ~draining =>
    /\ cmds_since_snapshot + Pending <= Interval
    /\ status # "save" => cmds_since_snapshot < Interval
    /\ \E c \in Intact \cup {base} : Len(log) - c <= cmds_since_snapshot + Pending
=============================================================================
