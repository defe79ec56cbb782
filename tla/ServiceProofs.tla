---------------------------- MODULE ServiceProofs ----------------------------
(***************************************************************************)
(* Proofs about what surrounds the engine.                                 *)
(*                                                                         *)
(* Recovery, for every engine that does not read timestamps, any commands, *)
(* snapshot interval and number of crashes, as long as append does not     *)
(* fail and the log is not cut short of a snapshot.                        *)
(*                                                                         *)
(* The bytes of a message, in the log and on the wire, for every number of *)
(* values of a byte and whatever the buffer held before.                   *)
(*                                                                         *)
(* The subscriber's account of the reports, for every width of their       *)
(* number and whatever the network does to them.                           *)
(***************************************************************************)
EXTENDS Recovery, Codec, Feed, SequenceTheorems, FiniteSetTheorems, TLAPS

(* Recovery *)

\* Adding a record to the log, with the book its replay gives, keeps what is
\* on disk coherent and leaves what was there.
LEMMA ExtendDisk ==
  ASSUME DiskInv, NEW r \in Records, NEW next \in Books, Strip(next) = next,
         r # Foreign => next = Execute(LastBook, r), Extend(r, next)
  PROVE  /\ DiskInv'
         /\ Len(log') = Len(log) + 1
         /\ reference'[Len(log') + 1] = next
  <1>1. /\ log' \in Seq(Records) /\ Len(log') = Len(log) + 1
        /\ \A k \in 1 .. Len(log) : log'[k] = log[k]
        /\ log'[Len(log) + 1] = r
    BY DEF Extend, DiskInv
  <1>2. /\ reference' \in Seq(Books) /\ Len(reference') = Len(reference) + 1
        /\ \A k \in 1 .. Len(reference) : reference'[k] = reference[k]
        /\ reference'[Len(reference) + 1] = next
    BY DEF Extend, DiskInv
  <1>3. Len(log) \in Nat /\ Len(reference) = Len(log) + 1 /\ files' = files
    BY DEF DiskInv, Extend
  <1>4. \A k \in 1 .. Len(reference') : Strip(reference'[k]) = reference'[k]
    BY <1>2, <1>3 DEF DiskInv
  <1>5. ASSUME NEW k \in 1 .. Len(log'), log'[k] # Foreign
        PROVE  reference'[k + 1] = Execute(reference'[k], log'[k])
    <2>1. CASE k \in 1 .. Len(log)
      BY <1>1, <1>2, <1>3, <1>5, <2>1, SMTT(30) DEF DiskInv
    <2>2. CASE k = Len(log) + 1
      BY <1>1, <1>2, <1>3, <1>5, <2>2 DEF LastBook
    <2> QED BY <1>1, <1>3, <2>1, <2>2
  <1>6. /\ files' \in [DOMAIN files' -> Snapshots] /\ DOMAIN files' \subseteq 0 .. Len(log')
        /\ \A c \in DOMAIN files' : Strip(files'[c].book) = reference'[c + 1]
        /\ \E m \in (DOMAIN files') \cup {0} : \A d \in DOMAIN files' : d <= m
    BY <1>1, <1>2, <1>3 DEF DiskInv
  <1>7. reference'[1] = EmptyBook
    BY <1>2, <1>3 DEF DiskInv
  <1> QED BY <1>1, <1>2, <1>3, <1>4, <1>5, <1>6, <1>7 DEF DiskInv, Records, Snapshots

\* Saving a snapshot of the book the whole log gives keeps the disk coherent.
LEMMA SaveDisk ==
  ASSUME DiskInv, book \in Books, Strip(book) = reference[Len(log) + 1],
         files' = FilesWith(Len(log)), UNCHANGED <<log, reference>>
  PROVE  DiskInv'
  <1>1. Len(log) \in Nat
    BY DEF DiskInv
  <1>2. /\ DOMAIN files' = (DOMAIN files) \cup {Len(log)}
        /\ files'[Len(log)] = [book |-> book, intact |-> TRUE]
        /\ \A c \in DOMAIN files : c # Len(log) => files'[c] = files[c]
    BY DEF FilesWith
  <1>3. files' \in [DOMAIN files' -> Snapshots]
    BY DEF FilesWith, DiskInv, Snapshots
  <1>4. DOMAIN files' \subseteq 0 .. Len(log)
    BY <1>1, <1>2 DEF DiskInv
  <1>5. \A c \in DOMAIN files' : Strip(files'[c].book) = reference[c + 1]
    BY <1>2 DEF DiskInv
  <1>6. \E m \in (DOMAIN files') \cup {0} : \A d \in DOMAIN files' : d <= m
    BY <1>1, <1>2, <1>4 DEF DiskInv
  <1> QED BY <1>3, <1>4, <1>5, <1>6, SMTT(30) DEF DiskInv, Records, Snapshots

\* Marking a snapshot as damaged keeps the disk coherent.
LEMMA CorruptDisk ==
  ASSUME DiskInv, NEW c \in DOMAIN files, files' = [files EXCEPT ![c].intact = FALSE],
         UNCHANGED <<log, reference>>
  PROVE  DiskInv'
  <1>1. /\ DOMAIN files' = DOMAIN files
        /\ files' \in [DOMAIN files' -> Snapshots]
        /\ \A d \in DOMAIN files : files'[d].book = files[d].book
    BY ZenonT(30) DEF DiskInv, Snapshots
  <1> QED BY <1>1, SMTT(30) DEF DiskInv, Records, Snapshots

\* Cutting the log no further than the newest snapshot keeps the disk
\* coherent.
LEMMA CutDisk ==
  ASSUME DiskInv, NEW n \in 0 .. Len(log) - 1, n >= Covered,
         log' = SubSeq(log, 1, n), reference' = SubSeq(reference, 1, n + 1),
         UNCHANGED files
  PROVE  DiskInv'
  <1>1. Len(log) \in Nat /\ Len(reference) = Len(log) + 1 /\ n \in Nat
    BY DEF DiskInv
  <1>2. /\ log' \in Seq(Records) /\ Len(log') = n
        /\ \A k \in 1 .. n : log'[k] = log[k]
    <2>1. \A k \in 1 .. n : log[k] \in Records
      BY <1>1 DEF DiskInv
    <2> QED BY <1>1, <2>1, SubSeqProperties
  <1>3. /\ reference' \in Seq(Books) /\ Len(reference') = n + 1
        /\ \A k \in 1 .. n + 1 : reference'[k] = reference[k]
    <2>1. \A k \in 1 .. n + 1 : reference[k] \in Books
      BY <1>1 DEF DiskInv
    <2> QED BY <1>1, <2>1, SubSeqProperties
  <1>4. \A d \in DOMAIN files : d <= Covered
    BY SMTT(30) DEF Covered, DiskInv
  <1>5. Covered \in Nat /\ DOMAIN files \subseteq 0 .. n
    <2>1. Covered \in (DOMAIN files) \cup {0}
      BY DEF Covered, DiskInv
    <2> QED BY <1>1, <1>4, <2>1 DEF DiskInv
  <1>6. \A c \in DOMAIN files : Strip(files[c].book) = reference'[c + 1]
    BY <1>1, <1>3, <1>5, SMTT(30) DEF DiskInv
  <1>7. ASSUME NEW k \in 1 .. n, log'[k] # Foreign
        PROVE  reference'[k + 1] = Execute(reference'[k], log'[k])
    <2>1. /\ k \in 1 .. Len(log) /\ k \in 1 .. n + 1 /\ k + 1 \in 1 .. n + 1
      BY <1>1
    <2>2. log'[k] = log[k] /\ reference'[k] = reference[k] /\ reference'[k + 1] = reference[k + 1]
      BY <1>2, <1>3, <2>1
    <2>3. reference[k + 1] = Execute(reference[k], log[k])
      BY <1>7, <2>1, <2>2 DEF DiskInv
    <2> QED BY <2>2, <2>3
  <1>8. \A k \in 1 .. n + 1 : Strip(reference'[k]) = reference'[k]
    BY <1>1, <1>3 DEF DiskInv
  <1>9. reference'[1] = EmptyBook
    BY <1>1, <1>3 DEF DiskInv
  <1>10. \E m \in (DOMAIN files) \cup {0} : \A d \in DOMAIN files : d <= m
    BY Zenon DEF DiskInv
  <1>11. files \in [DOMAIN files -> Snapshots]
    BY DEF DiskInv
  <1> QED BY <1>1, <1>2, <1>3, <1>5, <1>6, <1>7, <1>8, <1>9, <1>10, <1>11, ZenonT(30) DEF DiskInv, Records, Snapshots

\* What is on disk and what is in memory agree at the start.
LEMMA InitInv == Init => DiskInv /\ EngineInv
  <1> SUFFICES ASSUME Init PROVE DiskInv /\ EngineInv
    OBVIOUS
  <1>1. current \in Commands
    BY TimestampBlind DEF Init
  <1>2. DiskInv
    BY TimestampBlind DEF Init, NoData, DiskInv, Snapshots
  <1>3. EngineInv
    BY <1>1, TimestampBlind, Zenon DEF Init, EngineInv
  <1> QED BY <1>2, <1>3

\* Every step keeps the agreement: recovery feeds the engine the records after
\* the snapshot, one at a time, and the loop logs before it executes.
LEMMA NextInv ==
  ASSUME "append" \notin Faults, "cut" \notin Faults,
         DiskInv, EngineInv, [Next]_vars
  PROVE  DiskInv' /\ EngineInv'
  <1> USE DEF disk, engine
  <1>0. Len(log) \in Nat /\ Len(reference) = Len(log) + 1
    BY DEF DiskInv
  <1>disk. UNCHANGED disk => DiskInv'
    BY DEF DiskInv, Records, Snapshots
  <1>fresh. ASSUME StartFresh PROVE DiskInv' /\ EngineInv'
    <2>1. DiskInv'
      BY <1>fresh, <1>disk DEF StartFresh
    <2>2. EngineInv'
      BY <1>fresh, TimestampBlind, Zenon DEF StartFresh, EngineInv
    <2> QED BY <2>1, <2>2
  <1>1. CASE RecoverBegin
    <2>1. DiskInv'
      BY <1>1, <1>disk DEF RecoverBegin
    <2>2. CASE load_latest = {}
      <3>1. pos' = 0 /\ book' = EmptyBook /\ status' = "replay" /\ UNCHANGED <<disk, wal_on, current>>
        BY <1>1, <2>2 DEF RecoverBegin
      <3>2. Strip(book') = reference[1]
        BY <3>1, TimestampBlind DEF DiskInv
      <3> QED BY <2>1, <3>1, <3>2, <1>0, TimestampBlind DEF EngineInv
    <2>3. CASE load_latest # {}
      <3>1. PICK c \in load_latest : pos' = c /\ book' = files[c].book
        BY <1>1, <2>3 DEF RecoverBegin, StartRecord
      <3>2. c \in DOMAIN files
        BY <3>1 DEF load_latest, Intact
      <3>3. book' \in Books /\ pos' \in 0 .. Len(log) /\ Strip(book') = reference[pos' + 1]
        BY <3>1, <3>2 DEF DiskInv, Snapshots
      <3> QED BY <1>1, <2>1, <3>3 DEF RecoverBegin, EngineInv
    <2> QED BY <2>2, <2>3
  <1>2. CASE RecoverFails
    BY <1>2, <1>fresh DEF RecoverFails
  <1>3. CASE ReplayRecord
    <2>1. DiskInv'
      BY <1>3, <1>disk DEF ReplayRecord
    <2>2. pos \in 0 .. Len(log) - 1 /\ Strip(book) = reference[pos + 1]
      BY <1>3, <1>0 DEF ReplayRecord, EngineInv
    <2>3. PICK c \in Commands : log[pos + 1] = Logged(c)
      BY <1>3, <1>0, <2>2, SMTT(30) DEF ReplayRecord, DiskInv, Records
    <2>4. reference[pos + 2] = Execute(reference[pos + 1], log[pos + 1])
      BY <1>3, <1>0, <2>2, SMTT(30) DEF ReplayRecord, DiskInv
    <2>5. book' \in Books /\ Strip(book') = reference[pos + 2]
      BY <1>3, <2>2, <2>3, <2>4, TimestampBlind, SMTT(30) DEF ReplayRecord, EngineInv
    <2>6. pos' \in 0 .. Len(log) /\ pos' + 1 = pos + 2
      BY <1>3, <1>0, <2>2 DEF ReplayRecord
    <2> QED BY <1>3, <2>1, <2>5, <2>6 DEF ReplayRecord, EngineInv
  <1>4. CASE ReplayForeign
    BY <1>4, <1>fresh DEF ReplayForeign
  <1>5. CASE RecoverDone
    <2>1. pos = Len(log)
      BY <1>5, <1>0 DEF RecoverDone, EngineInv
    <2> QED BY <1>5, <2>1, <1>disk DEF RecoverDone, EngineInv
  <1>6. ASSUME NEW cmd \in Commands, LogCommand(cmd) PROVE DiskInv' /\ EngineInv'
    <2>1. Extend(Logged(cmd), Execute(LastBook, Logged(cmd)))
      BY <1>6 DEF LogCommand
    <2>2. LastBook = reference[Len(log) + 1] /\ LastBook \in Books /\ Strip(LastBook) = LastBook
      BY <1>0 DEF LastBook, DiskInv
    <2>3. /\ Execute(LastBook, Logged(cmd)) \in Books
          /\ Strip(Execute(LastBook, Logged(cmd))) = Execute(LastBook, Logged(cmd))
      BY <2>2, TimestampBlind
    <2>4. /\ DiskInv'
          /\ reference'[Len(log') + 1] = Execute(LastBook, Logged(cmd))
      BY <2>1, <2>3, ExtendDisk DEF Records
    <2>5. Strip(book) = LastBook
      BY <1>6, <2>2 DEF LogCommand, Begin, EngineInv
    <2> QED BY <1>6, <2>4, <2>5 DEF LogCommand, Begin, EngineInv
  <1>7. ASSUME NEW cmd \in Commands, SkipLog(cmd) PROVE DiskInv' /\ EngineInv'
    BY <1>7, <1>disk DEF SkipLog, Begin, EngineInv
  <1>8. CASE Apply
    <2>1. DiskInv'
      BY <1>8, <1>disk DEF Apply
    <2>2. book' \in Books /\ Strip(book') = Execute(Strip(book), Logged(current))
      BY <1>8, TimestampBlind DEF Apply, EngineInv
    <2> QED BY <1>8, <2>1, <2>2 DEF Apply, EngineInv
  <1>9. CASE Save
    <2>1. book \in Books /\ Strip(book) = reference[Len(log) + 1]
      BY <1>9 DEF Save, EngineInv
    <2>2. DiskInv'
      BY <1>9, <2>1, SaveDisk DEF Save
    <2> QED BY <1>9, <2>2 DEF Save, EngineInv
  <1>10. CASE SaveFails
    BY <1>10, <1>disk DEF SaveFails, EngineInv
  <1>11. CASE StartDrain
    BY <1>11, <1>disk DEF StartDrain, EngineInv
  <1>12. CASE Crash
    BY <1>12, <1>disk, TimestampBlind, Zenon DEF Crash, EngineInv
  <1>13. CASE ForeignRecord
    <2>1. LastBook \in Books /\ Strip(LastBook) = LastBook
      BY <1>0 DEF LastBook, DiskInv
    <2>2. DiskInv'
      BY <1>13, <2>1, ExtendDisk DEF ForeignRecord, Records
    <2> QED BY <1>13, <2>2 DEF ForeignRecord, Damage, EngineInv
  <1>14. ASSUME NEW c \in Intact, CorruptSnapshot(c) PROVE DiskInv' /\ EngineInv'
    <2>1. c \in DOMAIN files
      BY DEF Intact
    <2>2. DiskInv'
      BY <1>14, <2>1, CorruptDisk, Zenon DEF CorruptSnapshot
    <2> QED BY <1>14, <2>2 DEF CorruptSnapshot, Damage, EngineInv
  <1>15. ASSUME NEW n \in 0 .. Len(log) - 1, CutLog(n) PROVE DiskInv' /\ EngineInv'
    <2>1. DiskInv'
      BY <1>15, CutDisk DEF CutLog
    <2> QED BY <1>15, <2>1 DEF CutLog, Damage, EngineInv
  <1>16. CASE UNCHANGED vars
    BY <1>16, <1>disk DEF vars, EngineInv
  <1> QED BY <1>1, <1>2, <1>3, <1>4, <1>5, <1>6, <1>7, <1>8, <1>9, <1>10, <1>11, <1>12,
             <1>13, <1>14, <1>15, <1>16, SMTT(30) DEF Next

\* For every engine: whichever snapshots are there, however often the process
\* dies and wherever, a process that has recovered holds the book of its log.
THEOREM RecoveryExact ==
  ASSUME "append" \notin Faults, "cut" \notin Faults
  PROVE  Spec => []BookIsReplay
  <1>1. (DiskInv /\ EngineInv) /\ [Next]_vars => (DiskInv /\ EngineInv)'
    BY NextInv
  <1>2. DiskInv /\ EngineInv => BookIsReplay
    BY DEF DiskInv, EngineInv, BookIsReplay
  <1> QED BY InitInv, <1>1, <1>2, PTL DEF Spec

\* Under the same conditions every intact snapshot holds the book of exactly
\* the records its name counts.
THEOREM SnapshotsExact ==
  ASSUME "append" \notin Faults, "cut" \notin Faults
  PROVE  Spec => []SnapshotsArePrefixes
  <1>1. (DiskInv /\ EngineInv) /\ [Next]_vars => (DiskInv /\ EngineInv)'
    BY NextInv
  <1>2. DiskInv /\ EngineInv => SnapshotsArePrefixes
    BY DEF DiskInv, SnapshotsArePrefixes, Intact
  <1> QED BY InitInv, <1>1, <1>2, PTL DEF Spec
-----------------------------------------------------------------------------
(* Snapshots and the counter *)

\* Every step keeps the types: what a crash, a fault or a command makes of the
\* log is a log, and snapshots are named by numbers.
LEMMA NextCounterTypes ==
  ASSUME CounterTypes, [Next]_vars
  PROVE  CounterTypes'
  <1> USE DEF disk, engine
  <1>i. Interval \in Nat \ {0} /\ Len(log) \in Nat
    BY RecoveryAssumption DEF CounterTypes
  <1>l. /\ \A cmd \in Commands : Logged(cmd) \in Records
        /\ Foreign \in Records
    BY DEF Records
  <1>z. 0 \in Nat
    OBVIOUS
  <1>fresh. ASSUME StartFresh PROVE CounterTypes'
    BY <1>fresh, <1>z, Zenon DEF StartFresh, CounterTypes
  <1>1. CASE RecoverBegin
    BY <1>1, SMTT(30) DEF RecoverBegin, CounterTypes, Records
  <1>2. CASE RecoverFails \/ ReplayForeign
    BY <1>2, <1>fresh, Zenon DEF RecoverFails, ReplayForeign
  <1>3. CASE ReplayRecord
    BY <1>3, SMTT(30) DEF ReplayRecord, CounterTypes, Records
  <1>4. CASE RecoverDone
    BY <1>4, <1>i, <1>z, Zenon DEF RecoverDone, CounterTypes
  <1>5. ASSUME NEW cmd \in Commands, LogCommand(cmd) PROVE CounterTypes'
    <2>1. log' \in Seq(Records)
      <3>1. PICK r \in Records : r = Logged(cmd)
        BY <1>l
      <3>2. log' = Append(log, r)
        BY <1>5, <3>1, Zenon DEF LogCommand, Extend
      <3> QED BY <3>2, AppendProperties DEF CounterTypes
    <2> QED BY <1>5, <2>1, SMTT(30) DEF LogCommand, Begin, Extend, CounterTypes, Records
  <1>6. ASSUME NEW cmd \in Commands, SkipLog(cmd) PROVE CounterTypes'
    BY <1>6, SMTT(30) DEF SkipLog, Begin, CounterTypes, Records
  <1>7. CASE Apply
    BY <1>7, SMTT(30) DEF Apply, CounterTypes, Records
  <1>8. CASE Save
    <2>1. DOMAIN files' = DOMAIN files \cup {Len(log)}
      BY <1>8 DEF Save, FilesWith
    <2>2. DOMAIN files' \subseteq Nat
      BY <1>i, <2>1 DEF CounterTypes
    <2> QED BY <1>8, <2>2, SMTT(30) DEF Save, CounterTypes, Records
  <1>9. CASE SaveFails
    BY <1>9, <1>i, SMTT(30) DEF SaveFails, CounterTypes, Records
  <1>10. CASE StartDrain
    BY <1>10, SMTT(30) DEF StartDrain, CounterTypes, Records
  <1>11. CASE Crash
    BY <1>11, <1>z, Zenon DEF Crash, CounterTypes
  <1>12. CASE ForeignRecord
    <2>1. log' \in Seq(Records)
      <3>1. log' = Append(log, Foreign)
        BY <1>12, Zenon DEF ForeignRecord, Extend
      <3> QED BY <1>l, <3>1, AppendProperties DEF CounterTypes
    <2> QED BY <1>12, <2>1, SMTT(30) DEF ForeignRecord, Damage, Extend, CounterTypes, Records
  <1>13. ASSUME NEW c \in Intact, CorruptSnapshot(c) PROVE CounterTypes'
    <2>1. DOMAIN files' = DOMAIN files
      BY <1>13 DEF CorruptSnapshot
    <2> QED BY <1>13, <2>1, SMTT(30) DEF CorruptSnapshot, Damage, CounterTypes, Records
  <1>14. ASSUME NEW n \in 0 .. Len(log) - 1, CutLog(n) PROVE CounterTypes'
    <2>1. log' \in Seq(Records)
      <3>1. log' = SubSeq(log, 1, n) /\ n \in 0 .. Len(log)
        <4>1. log' = SubSeq(log, 1, n)
          BY <1>14, Zenon DEF CutLog
        <4> QED BY <1>i, <4>1
      <3> QED BY <1>i, <3>1, SubSeqProperties DEF CounterTypes
    <2> QED BY <1>14, <2>1, Zenon DEF CutLog, Damage, CounterTypes
  <1>15. CASE UNCHANGED vars
    BY <1>15, SMTT(30) DEF vars, CounterTypes, Records
  <1> QED BY <1>1, <1>2, <1>3, <1>4, <1>5, <1>6, <1>7, <1>8, <1>9, <1>10, <1>11, <1>12, <1>13,
             <1>14, <1>15, Zenon DEF Next

\* A command is counted when it has been logged, a snapshot covers the log, and
\* a start or a failed save begins to count where the log is.  This holds
\* whichever faults happen: those of the disk find no process running.
LEMMA NextCounter ==
  ASSUME CounterTypes, CounterInv, [Next]_vars
  PROVE  CounterInv'
  <1> USE DEF disk, engine
  <1>i. Interval \in Nat \ {0} /\ Len(log) \in Nat /\ cmds_since_snapshot \in Nat /\ base \in Nat
    BY RecoveryAssumption DEF CounterTypes
  <1>n. Intact \cup {base} \subseteq Nat
    BY <1>i DEF Intact, CounterTypes
  <1> SUFFICES ASSUME wal_on', ~draining'
               PROVE  /\ cmds_since_snapshot' + Pending' <= Interval
                      /\ status' # "save" => cmds_since_snapshot' < Interval
                      /\ \E c \in Intact' \cup {base'} :
                           Len(log') - c <= cmds_since_snapshot' + Pending'
    BY DEF CounterInv
  <1>1. CASE RecoverDone
    <2>1. base' = Len(log) /\ log' = log /\ cmds_since_snapshot' = 0 /\ status' = "ready"
      BY <1>1, Zenon DEF RecoverDone
    <2>2. Len(log') - base' <= cmds_since_snapshot' + Pending'
      BY <1>i, <2>1 DEF Pending
    <2> QED BY <1>i, <2>1, <2>2 DEF Pending
  <1>2. ASSUME wal_on, ~draining, status # "save"
        PROVE  \E c \in Intact \cup {base} : Len(log) - c <= cmds_since_snapshot + Pending
    BY <1>2, Zenon DEF CounterInv
  <1>3. ASSUME NEW cmd \in Commands, LogCommand(cmd) \/ SkipLog(cmd)
        PROVE  /\ cmds_since_snapshot' + Pending' <= Interval
               /\ status' # "save" => cmds_since_snapshot' < Interval
               /\ \E c \in Intact' \cup {base'} :
                    Len(log') - c <= cmds_since_snapshot' + Pending'
    <2>1. /\ status = "ready" /\ status' = "apply" /\ files' = files /\ base' = base
          /\ cmds_since_snapshot' = cmds_since_snapshot /\ wal_on /\ ~draining
      <3>1. Begin(cmd) /\ files' = files
        BY <1>3, Zenon DEF LogCommand, SkipLog, Extend
      <3> QED BY <3>1, Zenon DEF Begin
    <2>2. Len(log') <= Len(log) + 1 /\ Len(log') \in Nat
      <3>1. CASE LogCommand(cmd)
        <4>1. log' = Append(log, Logged(cmd)) /\ Logged(cmd) \in Records
          BY <3>1 DEF LogCommand, Extend, Records
        <4> QED BY <1>i, <4>1, AppendProperties DEF CounterTypes
      <3>2. CASE SkipLog(cmd)
        BY <1>i, <3>2 DEF SkipLog
      <3> QED BY <1>3, <3>1, <3>2
    <2>3. PICK c \in Intact \cup {base} : Len(log) - c <= cmds_since_snapshot
      BY <1>2, <1>i, <2>1 DEF Pending
    <2>4. c \in Intact' \cup {base'}
      BY <2>1, <2>3 DEF Intact
    <2>5. Pending' = 1
      BY <2>1 DEF Pending
    <2>6. Len(log') - c <= cmds_since_snapshot' + Pending'
      BY <1>i, <1>n, <2>1, <2>2, <2>3, <2>5
    <2>7. cmds_since_snapshot < Interval
      BY <2>1 DEF CounterInv
    <2> QED BY <1>i, <2>1, <2>4, <2>5, <2>6, <2>7
  <1>4. CASE Apply
    <2>1. /\ status = "apply" /\ files' = files /\ base' = base /\ log' = log /\ wal_on /\ ~draining
          /\ cmds_since_snapshot' = cmds_since_snapshot + 1
          /\ status' = IF cmds_since_snapshot' >= Interval THEN "save" ELSE "ready"
      BY <1>4, SMTT(30) DEF Apply, Due
    <2>2. Pending = 1 /\ Pending' = 0
      BY <2>1, SMTT(30) DEF Pending
    <2>3. PICK c \in Intact \cup {base} : Len(log) - c <= cmds_since_snapshot + 1
      BY <1>2, <2>1, <2>2
    <2>4. c \in Intact' \cup {base'}
      BY <2>1, <2>3 DEF Intact
    <2>5. Len(log') - c <= cmds_since_snapshot' + Pending'
      BY <1>i, <1>n, <2>1, <2>2, <2>3
    <2>6. cmds_since_snapshot' + Pending' <= Interval
      <3>1. cmds_since_snapshot + 1 <= Interval
        BY <2>1, <2>2 DEF CounterInv
      <3> QED BY <1>i, <2>1, <2>2, <3>1
    <2>7. status' # "save" => cmds_since_snapshot' < Interval
      BY <1>i, <2>1
    <2> QED BY <2>4, <2>5, <2>6, <2>7
  <1>5. CASE Save
    <2>1. /\ files' = FilesWith(Len(log)) /\ log' = log
          /\ cmds_since_snapshot' = 0 /\ status' = "ready"
      BY <1>5, Zenon DEF Save
    <2>2. Len(log) \in Intact'
      BY <2>1 DEF FilesWith, Intact
    <2>3. Pending' = 0
      BY <2>1 DEF Pending
    <2>4. Len(log') - Len(log) <= cmds_since_snapshot' + Pending'
      BY <1>i, <2>1, <2>3
    <2> QED BY <1>i, <2>1, <2>2, <2>3, <2>4
  <1>6. CASE SaveFails
    <2>1. base' = Len(log) /\ log' = log /\ cmds_since_snapshot' = 0 /\ status' = "ready"
      BY <1>6, Zenon DEF SaveFails
    <2>2. Pending' = 0
      BY <2>1 DEF Pending
    <2>3. Len(log') - base' <= cmds_since_snapshot' + Pending'
      BY <1>i, <2>1, <2>2
    <2> QED BY <1>i, <2>1, <2>2, <2>3
  <1>7. CASE RecoverBegin \/ RecoverFails \/ ReplayForeign \/ ReplayRecord \/ Crash
    <2>1. CASE RecoverBegin \/ ReplayRecord
      BY <2>1, Zenon DEF RecoverBegin, ReplayRecord, CounterTypes
    <2>2. CASE RecoverFails \/ ReplayForeign \/ Crash
      BY <2>2, Zenon DEF RecoverFails, ReplayForeign, StartFresh, Crash
    <2> QED BY <1>7, <2>1, <2>2, Zenon
  <1>8. CASE StartDrain
    BY <1>8, Zenon DEF StartDrain
  <1>9. ASSUME Damage PROVE FALSE
    BY <1>9, SMTT(30) DEF Damage, CounterTypes
  <1>10. CASE UNCHANGED vars
    <2>1. CounterInv'
      BY <1>10 DEF vars, CounterInv, Intact, Pending
    <2> QED BY <2>1, Zenon DEF CounterInv
  <1>11. ~ForeignRecord /\ (\A c : ~CorruptSnapshot(c)) /\ (\A n : ~CutLog(n))
    BY <1>9, Zenon DEF ForeignRecord, CorruptSnapshot, CutLog
  <1> QED BY <1>1, <1>3, <1>4, <1>5, <1>6, <1>7, <1>8, <1>10, <1>11, Zenon DEF Next

\* Whatever fails and however often the process is started, the log of a
\* running process is at most an interval ahead of an intact snapshot, of what
\* the process recovered, or of a failed save.  How much a later start has to
\* replay does not follow: every start and failed save adds an interval.
THEOREM SnapshotsInTime == Spec => []SnapshotsKeepUp
  <1>1. Init => CounterTypes /\ CounterInv
    <2> SUFFICES ASSUME Init PROVE CounterTypes /\ CounterInv
      OBVIOUS
    <2>1. log \in Seq(Records) /\ DOMAIN files \subseteq Nat /\ 0 \in Nat
      BY DEF Init, NoData
    <2>2. CounterTypes
      BY <2>1, Zenon DEF Init, CounterTypes
    <2>3. CounterInv
      BY Zenon DEF Init, CounterInv
    <2> QED BY <2>2, <2>3
  <1>2. (CounterTypes /\ CounterInv) /\ [Next]_vars => (CounterTypes /\ CounterInv)'
    BY NextCounterTypes, NextCounter, Zenon
  <1>3. CounterTypes /\ CounterInv => SnapshotsKeepUp
    <2> SUFFICES ASSUME CounterTypes, CounterInv, wal_on, ~draining
                 PROVE  \E c \in Intact \cup {base} : Len(log) - c <= Interval
      BY DEF SnapshotsKeepUp
    <2>1. PICK c \in Intact \cup {base} : Len(log) - c <= cmds_since_snapshot + Pending
      BY Zenon DEF CounterInv
    <2>2. cmds_since_snapshot + Pending <= Interval
      BY Zenon DEF CounterInv
    <2>3. Interval \in Int /\ Len(log) \in Int /\ c \in Int /\ cmds_since_snapshot + Pending \in Int
      BY <2>1, RecoveryAssumption, SMTT(30) DEF CounterTypes, Intact, Pending
    <2> QED BY <2>1, <2>2, <2>3
  <1> QED BY <1>1, <1>2, <1>3, PTL DEF Spec
-----------------------------------------------------------------------------
(* Remainders *)

\* A number is its quotient times the divisor plus a remainder in range.
LEMMA ModFacts ==
  ASSUME NEW m \in Nat \ {0}, NEW x \in Int
  PROVE  x % m \in 0 .. m - 1 /\ x \div m \in Int /\ x = (m * (x \div m)) + (x % m)
  OBVIOUS

\* Such a decomposition determines the remainder.
LEMMA ModUnique ==
  ASSUME NEW m \in Nat \ {0}, NEW q \in Int, NEW r \in 0 .. m - 1
  PROVE  ((m * q) + r) % m = r
  OBVIOUS

\* Two numbers that differ by a multiple of the modulus are congruent.
LEMMA ModCongruent ==
  ASSUME NEW m \in Nat \ {0}, NEW x \in Int, NEW y \in Int, NEW q \in Int,
         x = y + (m * q)
  PROVE  x % m = y % m
  <1>1. PICK d \in Int : d = y \div m
    BY ModFacts
  <1>2. PICK r \in 0 .. m - 1 : r = y % m /\ y = (m * d) + r
    BY ModFacts, <1>1, Zenon
  <1>3. PICK e \in Int : e = d + q
    OBVIOUS
  <1>4. x = (m * e) + r
    BY <1>2, <1>3
  <1> QED BY <1>2, <1>4, ModUnique, Zenon

\* The wrapped distance between two wrapped numbers less than a cycle apart is
\* their distance.
LEMMA WrappedDistance ==
  ASSUME NEW m \in Nat \ {0}, NEW p \in Int, NEW e \in Int, p - e \in 0 .. m - 1
  PROVE  ((p % m) - (e % m)) % m = p - e
  <1>1. PICK a \in Int, b \in Int : a = p \div m /\ b = e \div m
    BY ModFacts, Zenon
  <1>2. PICK r \in 0 .. m - 1, s \in 0 .. m - 1 : r = p % m /\ s = e % m
    BY ModFacts, Zenon
  <1>3. p = (m * a) + r /\ e = (m * b) + s
    BY <1>1, <1>2, ModFacts
  <1>4. PICK q \in Int : q = b - a
    OBVIOUS
  <1>5. PICK d \in 0 .. m - 1 : d = p - e
    OBVIOUS
  <1>6. r - s = (m * q) + d
    <2>1. m * q = (m * b) - (m * a)
      BY <1>4
    <2> QED BY <1>3, <1>5, <2>1, SMTT(30)
  <1>7. ((m * q) + d) % m = d
    BY ModUnique
  <1> QED BY <1>2, <1>5, <1>6, <1>7

\* Wrapping before adding changes nothing.
LEMMA WrappedSum ==
  ASSUME NEW m \in Nat \ {0}, NEW x \in Int, NEW y \in Int
  PROVE  ((x % m) + y) % m = (x + y) % m
  <1>1. PICK q \in Int : q = x \div m
    BY ModFacts
  <1>2. PICK r \in 0 .. m - 1 : r = x % m
    BY ModFacts
  <1>3. x = (m * q) + r
    BY <1>1, <1>2, ModFacts
  <1>4. x + y \in Int /\ r + y \in Int /\ x + y = (r + y) + (m * q)
    BY <1>3
  <1>5. (x + y) % m = (r + y) % m
    BY <1>4, ModCongruent, Zenon
  <1> QED BY <1>2, <1>5
-----------------------------------------------------------------------------
(* The numbers on the way *)

\* Faults put nothing into a hop but what was there and short datagrams.
LEMMA FaultyHop ==
  ASSUME NEW D, Short \in D, NEW hop \in Seq(D), NEW faulty \in Faulty(hop)
  PROVE  faulty \in Seq(D)
  <1>0. Len(hop) \in Nat /\ DOMAIN hop = 1 .. Len(hop) /\ \A i \in 1 .. Len(hop) : hop[i] \in D
    OBVIOUS
  <1>1. ASSUME NEW i \in 0 .. Len(hop), NEW j \in 1 .. Len(hop) + 1
        PROVE  UpTo(hop, i) \o From(hop, j) \in Seq(D)
    <2>1. UpTo(hop, i) \in Seq(D)
      BY <1>0, SubSeqProperties DEF UpTo
    <2>2. From(hop, j) \in Seq(D)
      BY <1>0, SubSeqProperties DEF From
    <2> QED BY <2>1, <2>2
  <1>2. ASSUME NEW i \in DOMAIN hop PROVE UpTo(hop, i - 1) \o From(hop, i + 1) \in Seq(D)
    <2>1. i - 1 \in 0 .. Len(hop) /\ i + 1 \in 1 .. Len(hop) + 1
      BY <1>0
    <2> QED BY <1>1, <2>1, Zenon
  <1>3. ASSUME NEW i \in DOMAIN hop PROVE UpTo(hop, i) \o From(hop, i) \in Seq(D)
    BY <1>0, <1>1
  <1>4. ASSUME NEW i \in 1 .. Len(hop) - 1
        PROVE  [hop EXCEPT ![i] = hop[i + 1], ![i + 1] = hop[i]] \in Seq(D)
    BY <1>0
  <1>5. Append(hop, Short) \in Seq(D)
    OBVIOUS
  <1> QED BY <1>2, <1>3, <1>4, <1>5, Zenon DEF Faulty

\* The types the account of the gaps rests on.
Types ==
  /\ seq_num \in 0 .. SeqModulus - 1 /\ reported \in 0 .. MaxReports
  /\ multicast \in Seq(Datagrams) /\ unicast \in Seq(Datagrams)
  /\ expected_seq \in 0 .. SeqModulus - 1 /\ missing \in Nat /\ printed \in Seq(Nat)

\* Every step keeps the types.
LEMMA NextTypes ==
  ASSUME Types, [FeedNext]_feedVars
  PROVE  Types'
  <1>m. SeqModulus \in Nat \ {0} /\ 1 \in 0 .. SeqModulus - 1 /\ MaxReports \in Nat
    BY FeedAssumption
  <1>w. \A x \in Int : x % SeqModulus \in 0 .. SeqModulus - 1
    BY <1>m, ModFacts
  <1>s. Short \in Datagrams
    BY <1>m DEF Short, Datagrams
  <1>1. CASE Report
    <2>0. seq_num + 1 \in Int /\ seq_num' = (seq_num + 1) % SeqModulus
      BY <1>1, <1>m DEF Report, Types, SeqAdd
    <2>1. seq_num' \in 0 .. SeqModulus - 1 /\ reported' \in 0 .. MaxReports
      <3>1. seq_num' \in 0 .. SeqModulus - 1
        BY <1>w, <2>0, Zenon
      <3>2. reported' \in 0 .. MaxReports
        BY <1>1, <1>m DEF Report, Types
      <3> QED BY <3>1, <3>2
    <2>2. [seq |-> seq_num', place |-> reported'] \in Datagrams
      BY <2>1 DEF Datagrams
    <2>3. multicast' \in Seq(Datagrams)
      <3>1. PICK d \in Datagrams : d = [seq |-> seq_num', place |-> reported']
        BY <2>2
      <3>2. multicast' = Append(multicast, d) \/ multicast' = multicast
        BY <1>1, <3>1, SMTT(30) DEF Report
      <3>3. multicast \in Seq(Datagrams) /\ Append(multicast, d) \in Seq(Datagrams)
        BY AppendProperties DEF Types
      <3> QED BY <3>2, <3>3
    <2> QED BY <1>1, <2>1, <2>3, SMTT(30) DEF Report, Types, Datagrams
  <1>2. CASE Restart
    BY <1>2, <1>m DEF Restart, Types, Datagrams
  <1>3. CASE Relay
    <2>1. multicast' \in Seq(Datagrams) /\ Head(multicast) \in Datagrams
      BY <1>3 DEF Relay, Types
    <2>2. unicast' \in Seq(Datagrams)
      <3>1. unicast' = Append(unicast, Head(multicast)) \/ unicast' = unicast
        BY <1>3, SMTT(30) DEF Relay
      <3>2. unicast \in Seq(Datagrams) /\ Append(unicast, Head(multicast)) \in Seq(Datagrams)
        BY <2>1, AppendProperties DEF Types
      <3> QED BY <3>1, <3>2
    <2> QED BY <1>3, <2>1, <2>2 DEF Relay, Types, Datagrams
  <1>4. CASE Receive
    <2>1. unicast' \in Seq(Datagrams) /\ Head(unicast) \in Datagrams
      BY <1>4 DEF Receive, Types
    <2>2. Head(unicast).seq \in Int /\ Head(unicast).place \in Nat
      BY <2>1 DEF Datagrams
    <2>3. PICK report \in Datagrams : report = Head(unicast)
      BY <2>1
    <2>4. PICK a \in Int : a = report.seq - expected_seq
      BY <2>2, <2>3, <1>m DEF Types
    <2>5. PICK b \in Int : b = report.seq + 1
      BY <2>2, <2>3
    <2>6. Gap(report.seq) \in Nat /\ NextExpected(report.seq) \in 0 .. SeqModulus - 1
      <3>1. Gap(report.seq) = a % SeqModulus /\ NextExpected(report.seq) = b % SeqModulus
        BY <2>4, <2>5 DEF Gap, NextExpected, SeqSub, SeqAdd
      <3>2. a % SeqModulus \in 0 .. SeqModulus - 1 /\ b % SeqModulus \in 0 .. SeqModulus - 1
        BY <1>w
      <3> QED BY <3>1, <3>2, <1>m
    <2>7. CASE report = Short
      BY <1>4, <2>1, <2>3, <2>7, SMTT(30) DEF Receive, Types, Datagrams
    <2>8. CASE report # Short
      <3>1. /\ missing' = missing + Gap(report.seq)
            /\ expected_seq' = NextExpected(report.seq)
            /\ printed' = Append(printed, report.place)
            /\ UNCHANGED <<seq_num, reported, multicast>>
        BY <1>4, <2>3, <2>8, Zenon DEF Receive
      <3>2. missing' \in Nat /\ printed' \in Seq(Nat)
        BY <2>2, <2>3, <2>6, <3>1, SMTT(30) DEF Types
      <3> QED BY <2>1, <2>6, <3>1, <3>2 DEF Types, Datagrams
    <2> QED BY <2>7, <2>8
  <1>5. CASE MulticastFault
    <2>1. multicast' \in Seq(Datagrams)
      BY <1>5, <1>s, FaultyHop DEF MulticastFault, Types
    <2> QED BY <1>5, <2>1 DEF MulticastFault, Types, Datagrams
  <1>6. CASE UnicastFault
    <2>1. unicast' \in Seq(Datagrams)
      BY <1>6, <1>s, FaultyHop DEF UnicastFault, Types
    <2> QED BY <1>6, <2>1 DEF UnicastFault, Types, Datagrams
  <1>7. CASE UNCHANGED feedVars
    BY <1>7 DEF feedVars, Types, Datagrams
  <1> QED BY <1>1, <1>2, <1>3, <1>4, <1>5, <1>6, <1>7, SMTT(30) DEF FeedNext

-----------------------------------------------------------------------------
(* Gaps *)

\* Until the gateway is restarted a report's number is its place, wrapped, and
\* so is what the subscriber expects.
Truthful == {d \in Datagrams : d.seq = d.place % SeqModulus}

\* The sender, both hops and the subscriber agree on the numbering.
Numbered ==
  ~restarted =>
    /\ seq_num = reported % SeqModulus
    /\ multicast \in Seq(Truthful) /\ unicast \in Seq(Truthful)
    /\ expected_seq = (Seen(Len(printed)) + 1) % SeqModulus

\* The numbering survives every step: what a hop holds was numbered by the
\* sender, whatever the network did to it.
LEMMA NextNumbered ==
  ASSUME Types, Numbered, [FeedNext]_feedVars
  PROVE  Numbered'
  <1> SUFFICES ASSUME ~restarted' PROVE Numbered'
    BY DEF Numbered
  <1>m. SeqModulus \in Nat \ {0} /\ MaxReports \in Nat
    BY FeedAssumption, SMTT(30)
  <1>0. ~restarted
    BY DEF FeedNext, Report, Restart, Relay, Receive, MulticastFault, UnicastFault, feedVars
  <1>s. Short \in Truthful
    <2>1. 0 % SeqModulus = 0
      BY <1>m, SMTT(30)
    <2> QED BY <1>m, <2>1 DEF Short, Truthful, Datagrams
  <1>1. CASE Report
    <2>1. seq_num' = reported' % SeqModulus /\ seq_num' \in 0 .. SeqModulus - 1
      <3>1. reported \in Int /\ 1 \in Int /\ reported' = reported + 1
        BY <1>1 DEF Report, Types
      <3>2. seq_num' = ((reported % SeqModulus) + 1) % SeqModulus
        BY <1>0, <1>1 DEF Report, Numbered, SeqAdd
      <3>3. seq_num' = (reported + 1) % SeqModulus
        BY <1>m, <3>1, <3>2, WrappedSum, Zenon
      <3>4. reported + 1 \in Int
        BY <3>1
      <3> QED BY <1>m, <3>1, <3>3, <3>4, ModFacts, SMTT(30)
    <2>2. reported' \in 0 .. MaxReports
      BY <1>1, <1>m DEF Report, Types
    <2>3. PICK d \in Truthful : d = [seq |-> seq_num', place |-> reported']
      BY <2>1, <2>2, Zenon DEF Truthful, Datagrams
    <2>4. multicast' = Append(multicast, d) \/ multicast' = multicast
      BY <1>1, <2>3, SMTT(30) DEF Report
    <2>5. multicast' \in Seq(Truthful)
      BY <1>0, <2>4, AppendProperties, SMTT(30) DEF Numbered
    <2> QED BY <1>0, <1>1, <2>1, <2>5 DEF Report, Numbered, Seen, Truthful, Datagrams
  <1>2. CASE Restart
    BY <1>2, SMTT(30) DEF Restart
  <1>3. CASE Relay
    <2>1. multicast' \in Seq(Truthful) /\ Head(multicast) \in Truthful
      BY <1>0, <1>3 DEF Relay, Numbered
    <2>2. unicast' = Append(unicast, Head(multicast)) \/ unicast' = unicast
      BY <1>3, SMTT(30) DEF Relay
    <2>3. unicast' \in Seq(Truthful)
      BY <1>0, <2>1, <2>2, AppendProperties, SMTT(30) DEF Numbered
    <2> QED BY <1>0, <1>3, <2>1, <2>3, SMTT(30) DEF Relay, Numbered, Seen, Truthful, Datagrams
  <1>4. CASE Receive
    <2>1. unicast' \in Seq(Truthful) /\ Head(unicast) \in Truthful
      BY <1>0, <1>4 DEF Receive, Numbered
    <2>2. CASE Head(unicast) = Short
      BY <1>0, <1>4, <2>1, <2>2, SMTT(30) DEF Receive, Numbered, Seen, Truthful, Datagrams
    <2>3. CASE Head(unicast) # Short
      <3>1. PICK p \in Nat : p = Head(unicast).place /\ Head(unicast).seq = p % SeqModulus
        BY <2>1 DEF Truthful, Datagrams
      <3>2. expected_seq' = ((p % SeqModulus) + 1) % SeqModulus /\ printed' = Append(printed, p)
        BY <1>4, <2>3, <3>1 DEF Receive, NextExpected, SeqAdd
      <3>3. expected_seq' = (p + 1) % SeqModulus
        <4>1. p \in Int /\ 1 \in Int
          OBVIOUS
        <4> QED BY <1>m, <3>2, <4>1, WrappedSum, Zenon
      <3>4. Len(printed') = Len(printed) + 1 /\ Len(printed') # 0 /\ printed'[Len(printed')] = p
        BY <3>2 DEF Types
      <3>5. Seen(Len(printed))' = p
        BY <3>4 DEF Seen
      <3> QED BY <1>0, <1>4, <2>1, <3>3, <3>5 DEF Receive, Numbered, Truthful, Datagrams
    <2> QED BY <2>2, <2>3
  <1>5. CASE MulticastFault
    <2>1. multicast' \in Seq(Truthful)
      BY <1>0, <1>5, <1>s, FaultyHop, SMTT(30) DEF MulticastFault, Numbered
    <2> QED BY <1>0, <1>5, <2>1 DEF MulticastFault, Numbered, Seen, Truthful, Datagrams
  <1>6. CASE UnicastFault
    <2>1. unicast' \in Seq(Truthful)
      BY <1>0, <1>6, <1>s, FaultyHop DEF UnicastFault, Numbered
    <2> QED BY <1>0, <1>6, <2>1 DEF UnicastFault, Numbered, Seen, Truthful, Datagrams
  <1>7. CASE UNCHANGED feedVars
    BY <1>0, <1>7 DEF feedVars, Numbered, Seen, Truthful, Datagrams
  <1> QED BY <1>1, <1>2, <1>3, <1>4, <1>5, <1>6, <1>7, SMTT(30) DEF FeedNext

\* One report more on the list of those printed, at place p: it is the last, and
\* a setback if it is not ahead of the one before.
LEMMA PrintOne ==
  ASSUME NEW n \in Nat, NEW p \in Nat, printed \in Seq(Nat), n = Len(printed),
         printed' = Append(printed, p)
  PROVE  /\ Len(printed') = n + 1 /\ Seen(Len(printed))' = p
         /\ Step(n + 1)' = p - Seen(n) /\ \A i \in 1 .. n : Step(i)' = Step(i)
         /\ IsFiniteSet(Setbacks)
         /\ p - Seen(n) > 0 => Setbacks' = Setbacks
         /\ p - Seen(n) <= 0 =>
              Cardinality(Setbacks') = Cardinality(Setbacks) + 1 /\ Cardinality(Setbacks) \in Nat
  <1>1. /\ Len(printed') = n + 1 /\ printed'[n + 1] = p
        /\ \A i \in 1 .. n : printed'[i] = printed[i]
    OBVIOUS
  <1>2. Seen(n + 1)' = p
    BY <1>1 DEF Seen
  <1>3. ASSUME NEW i \in 0 .. n PROVE Seen(i)' = Seen(i)
    BY <1>1 DEF Seen
  <1>4. Step(n + 1)' = p - Seen(n)
    <2>1. (n + 1) - 1 = n /\ n \in 0 .. n
      OBVIOUS
    <2>2. Seen((n + 1) - 1)' = Seen(n)
      BY <1>3, <2>1
    <2> QED BY <1>2, <2>2 DEF Step
  <1>5. ASSUME NEW i \in 1 .. n PROVE Step(i)' = Step(i)
    <2>1. i \in 0 .. n /\ i - 1 \in 0 .. n
      OBVIOUS
    <2>2. Seen(i)' = Seen(i) /\ Seen(i - 1)' = Seen(i - 1)
      BY <1>3, <2>1
    <2> QED BY <2>2, Zenon DEF Step
  <1>6. IsFiniteSet(Setbacks) /\ n + 1 \notin Setbacks
    <2>1. IsFiniteSet(1 .. n)
      BY FS_Interval
    <2>2. Setbacks \subseteq 1 .. n
      BY DEF Setbacks
    <2>3. n + 1 \notin 1 .. n
      OBVIOUS
    <2> QED BY <2>1, <2>2, <2>3, FS_Subset, Zenon
  <1>7. Setbacks' = Setbacks \cup (IF p - Seen(n) <= 0 THEN {n + 1} ELSE {})
    <2>1. \A i : i \in Setbacks' <=> i \in 1 .. n + 1 /\ Step(i)' <= 0
      BY <1>1 DEF Setbacks
    <2>2. \A i : i \in Setbacks <=> i \in 1 .. n /\ Step(i) <= 0
      BY DEF Setbacks
    <2>3. \A i : i \in 1 .. n + 1 <=> i \in 1 .. n \/ i = n + 1
      OBVIOUS
    <2> QED BY <1>4, <1>5, <2>1, <2>2, <2>3, Zenon
  <1>8. ASSUME p - Seen(n) > 0 PROVE Setbacks' = Setbacks
    <2>1. ~(p - Seen(n) <= 0)
      BY <1>8 DEF Seen
    <2> QED BY <1>7, <2>1, Zenon
  <1>9. ASSUME p - Seen(n) <= 0
        PROVE  Cardinality(Setbacks') = Cardinality(Setbacks) + 1 /\ Cardinality(Setbacks) \in Nat
    <2>1. Setbacks' = Setbacks \cup {n + 1}
      BY <1>7, <1>9, Zenon
    <2> QED BY <1>6, <2>1, FS_AddElement, FS_CardinalityType, Zenon
  <1>10. Seen(Len(printed))' = p
    BY <1>1, <1>2
  <1> QED BY <1>1, <1>4, <1>5, <1>6, <1>8, <1>9, <1>10

\* The gap logged for place p after place last: the places skipped, and for a
\* report that is not ahead a cycle more.
LEMMA GapLogged ==
  ASSUME NEW m \in Nat \ {0}, NEW p \in Nat, NEW last \in Nat, p - last \in 1 - m .. m
  PROVE  ((p % m) - ((last + 1) % m)) % m =
           IF p - last > 0 THEN p - (last + 1) ELSE (p + m) - (last + 1)
  <1>1. CASE p - last > 0
    <2>1. p \in Int /\ last + 1 \in Int /\ p - (last + 1) \in 0 .. m - 1
      BY <1>1
    <2>2. ((p % m) - ((last + 1) % m)) % m = p - (last + 1)
      BY <2>1, WrappedDistance, Zenon
    <2> QED BY <1>1, <2>2, Zenon
  <1>2. CASE ~(p - last > 0)
    <2>1. p + m \in Int /\ last + 1 \in Int /\ (p + m) - (last + 1) \in 0 .. m - 1
      BY <1>2
    <2>2. (((p + m) % m) - ((last + 1) % m)) % m = (p + m) - (last + 1)
      BY <2>1, WrappedDistance, Zenon
    <2>3. (p + m) % m = p % m
      <3>1. p \in Int /\ 1 \in Int /\ p + m = p + (m * 1)
        OBVIOUS
      <3> QED BY <2>1, <3>1, ModCongruent, Zenon
    <2> QED BY <1>2, <2>2, <2>3, Zenon
  <1> QED BY <1>1, <1>2

\* A report received adds the reports skipped to the account, or sets the
\* subscriber back and adds a cycle.
LEMMA NextGaps ==
  ASSUME Types, Numbered, GapsExact, [FeedNext]_feedVars
  PROVE  GapsExact'
  <1>m. SeqModulus \in Nat \ {0}
    BY FeedAssumption
  <1>1. CASE Receive /\ Head(unicast) # Short
    <2> SUFFICES ASSUME ~restarted',
                        \A i \in 1 .. Len(printed') : Step(i)' \in 1 - SeqModulus .. SeqModulus
                 PROVE  missing' + Len(printed') =
                          Seen(Len(printed))' + (SeqModulus * Cardinality(Setbacks'))
      BY DEF GapsExact
    <2>0. ~restarted /\ printed \in Seq(Nat) /\ missing \in Nat
      BY <1>1 DEF Receive, Types
    <2>n. PICK n \in Nat : n = Len(printed)
      BY <2>0
    <2>1. PICK p \in Nat : p = Head(unicast).place /\ Head(unicast).seq = p % SeqModulus
      <3>1. Head(unicast) \in Truthful
        BY <1>1, <2>0, SMTT(30) DEF Receive, Numbered
      <3> QED BY <3>1 DEF Truthful, Datagrams
    <2>2. /\ printed' = Append(printed, p)
          /\ missing' = missing + (((p % SeqModulus) - expected_seq) % SeqModulus)
      BY <1>1, <2>1 DEF Receive, Gap, SeqSub
    <2>3. PICK last \in Nat : last = Seen(n)
      BY <2>0, <2>n DEF Seen
    <2>4. /\ Len(printed') = n + 1 /\ Seen(Len(printed))' = p
          /\ Step(n + 1)' = p - last /\ \A i \in 1 .. n : Step(i)' = Step(i)
          /\ p - last > 0 => Setbacks' = Setbacks
          /\ p - last <= 0 =>
               Cardinality(Setbacks') = Cardinality(Setbacks) + 1 /\ Cardinality(Setbacks) \in Nat
          /\ Cardinality(Setbacks) \in Nat
      BY <2>0, <2>n, <2>2, <2>3, PrintOne, FS_CardinalityType, Zenon
    <2>5. ASSUME NEW i \in 1 .. n PROVE Step(i) \in 1 - SeqModulus .. SeqModulus
      <3>1. i \in 1 .. Len(printed')
        BY <2>n, <2>4
      <3> QED BY <2>4, <3>1, Zenon
    <2>6. PICK k \in Nat : k = Cardinality(Setbacks)
      BY <2>4
    <2>7. missing + n = last + (SeqModulus * k)
      BY <2>0, <2>n, <2>3, <2>5, <2>6, Zenon DEF GapsExact
    <2>8. p - last \in 1 - SeqModulus .. SeqModulus
      <3>1. n + 1 \in 1 .. Len(printed')
        BY <2>4
      <3> QED BY <2>4, <3>1, Zenon
    <2>9. expected_seq = (last + 1) % SeqModulus
      BY <2>0, <2>n, <2>3 DEF Numbered
    <2>10. missing' = missing + (IF p - last > 0 THEN p - (last + 1) ELSE (p + SeqModulus) - (last + 1))
      BY <1>m, <2>2, <2>8, <2>9, GapLogged, Zenon
    <2>11. CASE p - last > 0
      <3>1. missing' = missing + (p - (last + 1))
        BY <2>10, <2>11, Zenon
      <3>2. Cardinality(Setbacks') = k
        BY <2>4, <2>6, <2>11, Zenon
      <3>3. PICK c \in Nat : c = SeqModulus * k
        BY <1>m
      <3>4. missing' + (n + 1) = p + c
        <4>1. missing + n = last + c
          BY <2>7, <3>3
        <4> QED BY <2>0, <3>1, <4>1
      <3> QED BY <2>4, <3>2, <3>3, <3>4, Zenon
    <2>12. CASE p - last <= 0
      <3>1. missing' = missing + ((p + SeqModulus) - (last + 1))
        BY <2>10, <2>12
      <3>2. Cardinality(Setbacks') = k + 1
        BY <2>4, <2>6, <2>12, Zenon
      <3>3. PICK c \in Nat : c = SeqModulus * k
        BY <1>m
      <3>4. SeqModulus * (k + 1) = c + SeqModulus
        BY <1>m, <3>3
      <3>5. missing' + (n + 1) = p + (c + SeqModulus)
        <4>1. missing + n = last + c
          BY <2>7, <3>3
        <4> QED BY <1>m, <2>0, <3>1, <4>1
      <3> QED BY <2>4, <3>2, <3>4, <3>5, Zenon
    <2> QED BY <2>11, <2>12
  <1>2. CASE ~(Receive /\ Head(unicast) # Short)
    <2>1. UNCHANGED <<missing, printed>> /\ (restarted' = restarted \/ restarted')
      BY <1>2, Zenon DEF FeedNext, Report, Restart, Relay, Receive, MulticastFault, UnicastFault, feedVars
    <2> QED BY <2>1, SMTT(30) DEF GapsExact, Setbacks, Step, Seen
  <1> QED BY <1>1, <1>2

\* For every width of the sequence number, and whatever is lost, repeated or
\* swapped on either hop: while no step between two reports printed exceeds a
\* cycle of numbers and the gateway is not restarted, the gaps the subscriber
\* logs are the reports lost and one cycle for every report that came twice or
\* late.
THEOREM GapsCounted == FeedSpec => []GapsExact
  <1>1. FeedInit => Types /\ Numbered /\ GapsExact
    <2> SUFFICES ASSUME FeedInit PROVE Types /\ Numbered /\ GapsExact
      OBVIOUS
    <2>1. Types
      BY FeedAssumption DEF FeedInit, Types
    <2>2. Len(printed) = 0 /\ Seen(0) = 0 /\ missing = 0
      BY DEF FeedInit, Seen
    <2>3. 0 % SeqModulus = 0 /\ 1 % SeqModulus = 1
      BY FeedAssumption
    <2>4. Numbered
      BY <2>1, <2>2, <2>3 DEF FeedInit, Numbered
    <2>5. Setbacks = {} /\ Cardinality({}) = 0
      BY <2>2, FS_EmptySet DEF Setbacks
    <2>6. missing + Len(printed) = Seen(Len(printed)) + (SeqModulus * Cardinality(Setbacks))
      BY <2>2, <2>5, FeedAssumption
    <2> QED BY <2>1, <2>4, <2>6, Zenon DEF GapsExact
  <1>2. (Types /\ Numbered /\ GapsExact) /\ [FeedNext]_feedVars => (Types /\ Numbered /\ GapsExact)'
    BY NextTypes, NextNumbered, NextGaps, SMTT(30)
  <1> QED BY <1>1, <1>2, PTL DEF FeedSpec
-----------------------------------------------------------------------------
(* The bytes of a message *)

\* Two buffers of the length of the longest message that hold the same in
\* their first n bytes.
SameBytes(b, c, n) ==
  /\ DOMAIN b = 0 .. 47 /\ DOMAIN c = 0 .. 47
  /\ \A i \in 0 .. n - 1 : b[i] = c[i]

\* The fill at the start of every encoder makes any two buffers the same as
\* far as it reaches.
LEMMA FillSame ==
  ASSUME NEW b, NEW c, NEW n \in 0 .. 48, DOMAIN b = 0 .. 47, DOMAIN c = 0 .. 47
  PROVE  SameBytes(Fill(b, n), Fill(c, n), n)
BY DEF SameBytes, Fill

\* write_u8 to write_i64 keep buffers the same, wherever they write.
LEMMA WriteSame ==
  ASSUME NEW b, NEW c, NEW n \in 0 .. 48, SameBytes(b, c, n),
         NEW offset, NEW width, NEW val
  PROVE  SameBytes(Write(b, offset, width, val), Write(c, offset, width, val), n)
<1> DEFINE wb == Write(b, offset, width, val)
           wc == Write(c, offset, width, val)
           at == offset .. offset + width - 1
           byte(i) == (val \div Byte ^ (i - offset)) % Byte
<1>1. /\ DOMAIN wb = 0 .. 47 /\ \A i \in 0 .. 47 : wb[i] = IF i \in at THEN byte(i) ELSE b[i]
      /\ DOMAIN wc = 0 .. 47 /\ \A i \in 0 .. 47 : wc[i] = IF i \in at THEN byte(i) ELSE c[i]
  BY Zenon DEF SameBytes, Write
<1>2. 0 .. n - 1 \subseteq 0 .. 47
  OBVIOUS
<1>3. \A i \in 0 .. n - 1 : wb[i] = wc[i]
  <2> HIDE DEF wb, wc, at, byte
  <2> QED BY <1>1, <1>2, Zenon DEF SameBytes
<1> QED BY <1>1, <1>3, Zenon DEF SameBytes

\* What an encoder leaves in the bytes it answers for does not depend on the
\* buffer it is given.
LEMMA EncodersSame ==
  ASSUME NEW b, NEW c, DOMAIN b = 0 .. 47, DOMAIN c = 0 .. 47, NEW m
  PROVE  /\ SameBytes(encode_new_order(b, m), encode_new_order(c, m), 40)
         /\ \A id : SameBytes(encode_cancel_order(b, id), encode_cancel_order(c, id), 16)
         /\ SameBytes(encode_execution_report(b, m), encode_execution_report(c, m), 48)
<1>1. /\ SameBytes(Fill(b, 40), Fill(c, 40), 40)
      /\ SameBytes(Fill(b, 16), Fill(c, 16), 16)
      /\ SameBytes(Fill(b, 48), Fill(c, 48), 48)
  BY FillSame
<1>2. \A n \in {16, 40, 48} : \A d, e, offset, width, val :
        SameBytes(d, e, n)
          => SameBytes(Write(d, offset, width, val), Write(e, offset, width, val), n)
  <2>1. {16, 40, 48} \subseteq 0 .. 48
    OBVIOUS
  <2> QED BY <2>1, WriteSame, Zenon
<1>3. SameBytes(encode_new_order(b, m), encode_new_order(c, m), 40)
  <2> DEFINE b0(x) == Write(Fill(x, 40), 0, 1, MSG_NEW_ORDER)
             b1(x) == Write(b0(x), 1, 1, encode_side(m.side))
             b2(x) == Write(b1(x), 8, 8, m.id)
             b3(x) == Write(b2(x), 16, 8, m.trader_id)
             b4(x) == Write(b3(x), 24, 8, m.price)
             b5(x) == Write(b4(x), 32, 8, m.quantity)
  <2>1. SameBytes(b0(b), b0(c), 40)
    BY <1>1, <1>2, Zenon
  <2> HIDE DEF b0
  <2>2. SameBytes(b1(b), b1(c), 40)
    BY <2>1, <1>2, Zenon
  <2> HIDE DEF b1
  <2>3. SameBytes(b2(b), b2(c), 40)
    BY <2>2, <1>2, Zenon
  <2> HIDE DEF b2
  <2>4. SameBytes(b3(b), b3(c), 40)
    BY <2>3, <1>2, Zenon
  <2> HIDE DEF b3
  <2>5. SameBytes(b4(b), b4(c), 40)
    BY <2>4, <1>2, Zenon
  <2> HIDE DEF b4
  <2>6. SameBytes(b5(b), b5(c), 40)
    BY <2>5, <1>2, Zenon
  <2> QED BY <2>6, Zenon DEF encode_new_order, NEW_ORDER_SIZE, b0, b1, b2, b3, b4
<1>4. \A id : SameBytes(encode_cancel_order(b, id), encode_cancel_order(c, id), 16)
  BY <1>1, <1>2, Zenon DEF encode_cancel_order, CANCEL_ORDER_SIZE
<1>5. SameBytes(encode_execution_report(b, m), encode_execution_report(c, m), 48)
  <2> DEFINE b0(x) == Write(Fill(x, 48), 0, 1, MSG_EXECUTION_REPORT)
             b1(x) == Write(b0(x), 4, 4, m.seq_num)
             b2(x) == Write(b1(x), 8, 8, m.taker_order_id)
             b3(x) == Write(b2(x), 16, 8, m.maker_order_id)
             b4(x) == Write(b3(x), 24, 8, m.price)
             b5(x) == Write(b4(x), 32, 8, m.quantity)
             b6(x) == Write(b5(x), 40, 8, m.timestamp)
  <2>1. SameBytes(b0(b), b0(c), 48)
    BY <1>1, <1>2, Zenon
  <2> HIDE DEF b0
  <2>2. SameBytes(b1(b), b1(c), 48)
    BY <2>1, <1>2, Zenon
  <2> HIDE DEF b1
  <2>3. SameBytes(b2(b), b2(c), 48)
    BY <2>2, <1>2, Zenon
  <2> HIDE DEF b2
  <2>4. SameBytes(b3(b), b3(c), 48)
    BY <2>3, <1>2, Zenon
  <2> HIDE DEF b3
  <2>5. SameBytes(b4(b), b4(c), 48)
    BY <2>4, <1>2, Zenon
  <2> HIDE DEF b4
  <2>6. SameBytes(b5(b), b5(c), 48)
    BY <2>5, <1>2, Zenon
  <2> HIDE DEF b5
  <2>7. SameBytes(b6(b), b6(c), 48)
    BY <2>6, <1>2, Zenon
  <2> QED BY <2>7, Zenon DEF encode_execution_report, EXECUTION_REPORT_SIZE, b0, b1, b2, b3, b4, b5
<1> QED BY <1>3, <1>4, <1>5, SMTT(30)

\* A report has no type field, so a command is never taken for one.
LEMMA CommandsAreNoReports ==
  ASSUME NEW cmd \in NewOrders \cup Cancels
  PROVE  cmd \notin Reports
<1>1. "type" \in DOMAIN cmd
  BY DEF NewOrders, Cancels
<1>2. \A r \in Reports : "type" \notin DOMAIN r
  BY DEF Reports
<1> QED BY <1>1, <1>2

\* The buffer keeps its length, and its message is canonical.
CodecInv == DOMAIN buf = 0 .. 47 /\ Canonical

\* Both encoders of a step leave a canonical message.
LEMMA EncodedCanonical ==
  ASSUME DOMAIN buf = 0 .. 47, CodecNext
  PROVE  CodecInv'
<1>1. DOMAIN ZeroBuf = 0 .. 47
  BY DEF ZeroBuf, EXECUTION_REPORT_SIZE
<1>2. \A b, c, n : SameBytes(b, c, n) => DOMAIN b = 0 .. 47 /\ Prefix(b, n) = Prefix(c, n)
  BY Zenon DEF SameBytes, Prefix
<1>3. ASSUME NEW cmd \in NewOrders \cup Cancels, EncodeCommand(cmd)
      PROVE  CodecInv'
  <2>1. SameBytes(Encode(buf, cmd), Encode(ZeroBuf, cmd), EncodedSize(cmd))
    BY <1>1, EncodersSame, Zenon DEF Encode, EncodedSize, NEW_ORDER_SIZE, CANCEL_ORDER_SIZE
  <2>2. ~IsReport'
    BY <1>3, CommandsAreNoReports DEF EncodeCommand, IsReport
  <2>3. buf' = Encode(buf, cmd) /\ msg' = cmd /\ MessageSize' = EncodedSize(cmd)
    BY <1>3, <2>2 DEF EncodeCommand, MessageSize
  <2>4. Prefix(buf', EncodedSize(cmd)) = Prefix(Encode(ZeroBuf, cmd), EncodedSize(cmd))
    BY <1>2, <2>1, <2>3, Zenon
  <2>5. Canonical'
    BY <2>2, <2>3, <2>4 DEF Canonical
  <2> QED BY <1>2, <2>1, <2>3, <2>5, Zenon DEF CodecInv
<1>4. ASSUME NEW r \in Reports, EncodeReport(r)
      PROVE  CodecInv'
  <2>1. SameBytes(encode_execution_report(buf, r), encode_execution_report(ZeroBuf, r), 48)
    BY <1>1, EncodersSame, Zenon
  <2>2. IsReport'
    BY <1>4 DEF EncodeReport, IsReport
  <2>3. buf' = encode_execution_report(buf, r) /\ msg' = r /\ MessageSize' = 48
    BY <1>4, <2>2 DEF EncodeReport, MessageSize, EXECUTION_REPORT_SIZE
  <2>4. Prefix(buf', 48) = Prefix(encode_execution_report(ZeroBuf, r), 48)
    BY <1>2, <2>1, <2>3, Zenon
  <2>5. Canonical'
    BY <2>2, <2>3, <2>4 DEF Canonical
  <2> QED BY <1>2, <2>1, <2>3, <2>5, Zenon DEF CodecInv
<1> QED BY <1>3, <1>4 DEF CodecNext

\* A log record's payload and a report on the wire are a function of the
\* message alone, however many other messages went through the buffer first.
THEOREM EncodingIsCanonical == CodecSpec => []Canonical
<1>1. CodecInit => CodecInv
  <2> SUFFICES ASSUME CodecInit PROVE CodecInv
    OBVIOUS
  <2>1. msg \in Cancels /\ msg.type = "cancel" /\ msg.id = 0
    BY DEF CodecInit, Cancels
  <2>2. ~IsReport
    BY <2>1, CommandsAreNoReports DEF IsReport
  <2>3. buf = Encode(ZeroBuf, msg)
    BY <2>1, SMTT(30) DEF CodecInit, Encode
  <2>4. DOMAIN buf = 0 .. 47
    BY DEF CodecInit, encode_cancel_order, Write, Fill, ZeroBuf, EXECUTION_REPORT_SIZE
  <2> QED BY <2>2, <2>3, <2>4 DEF CodecInv, Canonical
<1>2. CodecInv /\ [CodecNext]_<<buf, msg>> => CodecInv'
  <2>1. CASE UNCHANGED <<buf, msg>>
    BY <2>1, Zenon DEF CodecInv, Canonical, MessageSize, IsReport
  <2> QED BY <2>1, EncodedCanonical DEF CodecInv
<1>3. CodecInv => Canonical
  BY DEF CodecInv
<1> QED BY <1>1, <1>2, <1>3, PTL DEF CodecSpec
=============================================================================
