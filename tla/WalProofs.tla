------------------------------ MODULE WalProofs ------------------------------
(***************************************************************************)
(* The write-ahead log implements the durable log, for every size of the   *)
(* mapping and any number of commands, truncations, crashes and damages:   *)
(* no record that was acknowledged is lost, and none is read that is torn, *)
(* stale or repeated.                                                      *)
(***************************************************************************)
EXTENDS Wal, SequenceTheorems, WellFoundedInduction, TLAPS

(* Induction *)

\* A set of numbers that holds 0 and the successors of its members holds all.
LEMMA NumberInduction ==
  ASSUME NEW S, 0 \in S, \A n \in Nat : n \in S => n + 1 \in S
  PROVE  Nat \subseteq S
  <1> DEFINE T == Nat \ S
  <1> SUFFICES ASSUME T # {} PROVE FALSE
    OBVIOUS
  <1>1. PICK x \in T : \A y \in T : ~(<<y, x>> \in OpToRel(<, Nat))
    <2>1. T \subseteq Nat
      OBVIOUS
    <2> HIDE DEF T
    <2> QED BY <2>1, NatLessThanWellFounded, WFMin
  <1>2. \A y \in T : ~ (y < x)
    BY <1>1, Zenon DEF OpToRel
  <1>3. x # 0 /\ x - 1 \in Nat /\ x - 1 < x
    OBVIOUS
  <1>4. x - 1 \in S
    BY <1>2, <1>3
  <1>5. x \in S
    BY <1>3, <1>4
  <1> QED BY <1>5

\* h is the function that takes its value at d from the one at next[d], for d
\* in A, and from base elsewhere.
Follows(h, D, X, A, next, g, base) ==
  h \in [D -> X] /\ \A d \in D : h[d] = IF d \in A THEN g[d][h[next[d]]] ELSE base[d]

\* There is one, if next goes up towards a bound.
LEMMA UpwardRecursion ==
  ASSUME NEW N \in Nat, NEW D, NEW X, NEW A \in SUBSET D, NEW rank \in [D -> 0 .. N],
         NEW next \in [A -> D], \A d \in A : rank[next[d]] > rank[d],
         NEW g \in [A -> [X -> X]], NEW base \in [D -> X]
  PROVE  \E h : Follows(h, D, X, A, next, g, base)
  <1> DEFINE Value(h, d) == IF d \in A THEN g[d][h[next[d]]] ELSE base[d]
             From(h, m) == h \in [D -> X] /\ \A d \in D : rank[d] >= m => h[d] = Value(h, d)
             S == {n \in Nat : n <= N + 1 => \E h : From(h, N + 1 - n)}
  <1>1. \A h \in [D -> X], d \in D : Value(h, d) \in X
    <2> SUFFICES ASSUME NEW h \in [D -> X], NEW d \in D PROVE Value(h, d) \in X
      OBVIOUS
    <2>1. CASE d \in A
      <3>1. next[d] \in D /\ g[d] \in [X -> X]
        BY <2>1
      <3>2. h[next[d]] \in X
        BY <3>1
      <3>3. g[d][h[next[d]]] \in X
        BY <3>1, <3>2
      <3> QED BY <2>1, <3>3
    <2>2. CASE d \notin A
      BY <2>2
    <2> QED BY <2>1, <2>2
  <1>2. 0 \in S
    <2>1. From(base, N + 1)
      <3>1. \A d \in D : ~ (rank[d] >= N + 1)
        OBVIOUS
      <3> QED BY <3>1
    <2> QED BY <2>1
  <1>3. ASSUME NEW n \in Nat, n \in S PROVE n + 1 \in S
    <2> SUFFICES ASSUME n + 1 <= N + 1 PROVE \E h : From(h, N - n)
      OBVIOUS
    <2>1. PICK h : From(h, N + 1 - n)
      BY <1>3
    <2>2. h \in [D -> X]
      BY <2>1
    <2> HIDE DEF Value
    <2> DEFINE e == [d \in D |-> IF rank[d] = N - n THEN Value(h, d) ELSE h[d]]
    <2>3. e \in [D -> X]
      BY <1>1, <2>2
    <2>4. ASSUME NEW d \in D, rank[d] >= N - n PROVE Value(e, d) = Value(h, d)
      <3>1. CASE d \in A
        <4>1. next[d] \in D /\ rank[next[d]] \in Nat /\ rank[d] \in Nat /\ rank[next[d]] > rank[d]
          BY <3>1
        <4>2. rank[next[d]] # N - n
          BY <2>4, <4>1
        <4>3. e[next[d]] = h[next[d]]
          BY <4>1, <4>2
        <4> HIDE DEF e
        <4> QED BY <4>3 DEF Value
      <3>2. CASE d \notin A
        BY <3>2 DEF Value
      <3> QED BY <3>1, <3>2
    <2>5. ASSUME NEW d \in D, rank[d] >= N - n PROVE e[d] = Value(e, d)
      <3>1. CASE rank[d] = N - n
        <4>1. e[d] = Value(h, d)
          BY <3>1
        <4> HIDE DEF e
        <4> QED BY <2>4, <2>5, <4>1
      <3>2. CASE rank[d] # N - n
        <4>1. rank[d] \in Nat /\ e[d] = h[d]
          BY <3>2
        <4> HIDE DEF e
        <4>2. PICK r \in Nat : r = rank[d] /\ r >= N - n /\ r # N - n
          BY <2>5, <3>2, <4>1, Zenon
        <4>3. rank[d] >= N + 1 - n
          BY <4>2
        <4>4. h[d] = Value(h, d)
          BY <2>1, <4>3
        <4> QED BY <2>4, <2>5, <4>1, <4>4
      <3> QED BY <3>1, <3>2
    <2> HIDE DEF e
    <2>6. From(e, N - n)
      BY <2>3, <2>5
    <2> QED BY <2>6
  <1>4. N + 1 \in S
    <2> HIDE DEF S
    <2> QED BY <1>2, <1>3, NumberInduction
  <1>5. PICK h : From(h, 0)
    BY <1>4
  <1>6. \A d \in D : rank[d] >= 0
    OBVIOUS
  <1> QED BY <1>5, <1>6 DEF Follows

-----------------------------------------------------------------------------
(* Reading a file *)

\* The first field of what a scan returns.
LEMMA RecordsOf ==
  ASSUME NEW scan, NEW rs, NEW e, scan = [records |-> rs, end |-> e]
  PROVE  scan.records = rs
OBVIOUS

\* What is in a cell.
LEMMA CellFacts ==
  /\ Zero \in FileCells /\ Zero.part = "zero"
  /\ Garbage \in FileCells /\ Garbage.part = "garbage"
  /\ \A n \in Nat : Rest(n) \in FileCells /\ Rest(n).part = "rest" /\ Rest(n) # Zero /\ Rest(n) # Garbage
  /\ \A k \in Kinds, n \in Nat, s \in {"length", "crc", "payload"} :
       /\ Header(k, n, s) \in FileCells
       /\ Header(k, n, s).part = "header" /\ Header(k, n, s).kind = k
       /\ Header(k, n, s).serial = n /\ Header(k, n, s).stage = s
  /\ \A c \in FileCells : c.part = "header" => c.kind \in Kinds /\ c.serial \in Nat
  /\ \A k \in Kinds : Cells(k) \in {1, 2} /\ (Cells(k) = 2 <=> k = "new")
  <1>1. Zero \in FileCells /\ Zero.part = "zero" /\ Garbage \in FileCells /\ Garbage.part = "garbage"
    BY DEF FileCells, Zero, Garbage
  <1>2. ASSUME NEW n \in Nat
        PROVE  Rest(n) \in FileCells /\ Rest(n).part = "rest" /\ Rest(n) # Zero /\ Rest(n) # Garbage
    <2>1. Rest(n).part = "rest" /\ Rest(n) \in [part : {"rest"}, serial : Nat]
      BY DEF Rest
    <2> QED BY <1>1, <2>1 DEF FileCells
  <1>3. ASSUME NEW k \in Kinds, NEW n \in Nat, NEW s \in {"length", "crc", "payload"}
        PROVE  /\ Header(k, n, s) \in FileCells
               /\ Header(k, n, s).part = "header" /\ Header(k, n, s).kind = k
               /\ Header(k, n, s).serial = n /\ Header(k, n, s).stage = s
    BY DEF Header, FileCells
  <1>4. ASSUME NEW c \in FileCells, c.part = "header" PROVE c.kind \in Kinds /\ c.serial \in Nat
    <2>1. c # Zero /\ c # Garbage
      BY <1>1, <1>4
    <2>2. c \notin [part : {"rest"}, serial : Nat]
      BY <1>4
    <2> QED BY <2>1, <2>2 DEF FileCells
  <1>5. \A k \in Kinds : Cells(k) \in {1, 2} /\ (Cells(k) = 2 <=> k = "new")
    BY DEF Cells, Kinds
  <1> QED BY <1>1, <1>2, <1>3, <1>4, <1>5

\* What makes a record valid, in terms of its cells.
Complete(f, q) ==
  /\ f[q + 1].part = "header" /\ f[q + 1].stage = "payload"
  /\ f[q + 1].kind = "new" => q + 2 <= Len(f) /\ f[q + 2] = Rest(f[q + 1].serial)

\* scan_records goes past exactly the complete records.
LEMMA ValidIs ==
  ASSUME NEW f \in Seq(FileCells), NEW q \in Nat
  PROVE  /\ Valid(f, q) <=> q < Len(f) /\ Complete(f, q)
         /\ Valid(f, q) => /\ RecordAt(f, q) \in LogRecords
                           /\ RecordAt(f, q).kind = f[q + 1].kind
                           /\ RecordAt(f, q).serial = f[q + 1].serial
                           /\ f[q + 1].kind \in Kinds
                           /\ q + Cells(f[q + 1].kind) <= Len(f)
  <1>1. CASE q < Len(f) /\ f[q + 1].part = "header"
    <2>1. f[q + 1] \in FileCells /\ q + 1 \in 1 .. Len(f) /\ Len(f) \in Nat
      BY <1>1
    <2>2. f[q + 1].kind \in Kinds /\ f[q + 1].serial \in Nat
      BY <1>1, <2>1, CellFacts
    <2>3. HasHeader(f, q) /\ (EndsBy(f, q, Len(f)) <=> q + Cells(f[q + 1].kind) <= Len(f))
      BY <1>1 DEF HasHeader, EndsBy
    <2>4. EndsBy(f, q, Len(f)) <=> (f[q + 1].kind = "new" => q + 2 <= Len(f))
      BY <2>1, <2>2, <2>3, <1>1 DEF Cells
    <2>5. RecordAt(f, q) \in LogRecords /\ RecordAt(f, q).kind = f[q + 1].kind
          /\ RecordAt(f, q).serial = f[q + 1].serial
      BY <2>2 DEF RecordAt, LogRecords
    <2> QED BY <1>1, <2>2, <2>3, <2>4, <2>5 DEF Valid, Complete, ChecksumOk
  <1>2. CASE ~ (q < Len(f) /\ f[q + 1].part = "header")
    BY <1>2 DEF Valid, Complete, ChecksumOk
  <1> QED BY <1>1, <1>2

\* A walk over the records of f from the offset p: rs are the records it
\* meets, and at[k] is the offset it is at past the first k of them.
WalkFrom(f, p, rs, at) ==
  /\ rs \in Seq(LogRecords) /\ at \in [0 .. Len(rs) -> 0 .. Len(f)] /\ at[0] = p
  /\ \A k \in 1 .. Len(rs) : /\ Valid(f, at[k - 1]) /\ rs[k] = RecordAt(f, at[k - 1])
                             /\ at[k] = at[k - 1] + Cells(rs[k].kind)
  /\ ~ Valid(f, at[Len(rs)])

Walk(f, rs, at) == WalkFrom(f, 0, rs, at)

\* The offset past the record at q.
Past(f, q) == q + Cells(f[q + 1].kind)

\* Past a valid record there is an offset of the file again.
LEMMA PastIs ==
  ASSUME NEW f \in Seq(FileCells), NEW q \in 0 .. Len(f), Valid(f, q)
  PROVE  Past(f, q) \in 0 .. Len(f) /\ Past(f, q) > q
  <1>1. Len(f) \in Nat /\ q \in Nat
    OBVIOUS
  <1>2. f[q + 1].kind \in Kinds /\ q + Cells(f[q + 1].kind) <= Len(f)
    BY <1>1, ValidIs
  <1>3. Cells(f[q + 1].kind) \in {1, 2}
    BY <1>2, CellFacts
  <1> QED BY <1>1, <1>2, <1>3 DEF Past

\* from and end satisfy the equations of ScanRecords.
Scans(f, from, end) ==
  \A q \in 0 .. Len(f) :
    /\ from[q] = IF Valid(f, q) THEN <<RecordAt(f, q)>> \o from[Past(f, q)] ELSE << >>
    /\ end[q] = IF Valid(f, q) THEN end[Past(f, q)] ELSE q

\* The recursive functions of ScanRecords exist.
LEMMA ScanEquations ==
  ASSUME NEW f \in Seq(FileCells)
  PROVE  \E from, end : Scans(f, from, end) /\ ScanRecords(f) = [records |-> from[0], end |-> end[0]]
  <1> DEFINE D == 0 .. Len(f)
             A == {p \in D : Valid(f, p)}
             rank == [p \in D |-> p]
             next == [p \in A |-> Past(f, p)]
  <1>1. /\ Len(f) \in Nat /\ A \in SUBSET D /\ rank \in [D -> 0 .. Len(f)]
        /\ next \in [A -> D] /\ \A p \in A : rank[next[p]] > rank[p]
    BY PastIs
  <1>2. \E h : /\ h \in [D -> Seq(LogRecords)]
               /\ h = [q \in D |-> IF Valid(f, q) THEN <<RecordAt(f, q)>> \o h[Past(f, q)]
                                     ELSE << >>]
    <2> DEFINE g == [p \in A |-> [x \in Seq(LogRecords) |-> <<RecordAt(f, p)>> \o x]]
               base == [p \in D |-> << >>]
    <2>1. g \in [A -> [Seq(LogRecords) -> Seq(LogRecords)]] /\ base \in [D -> Seq(LogRecords)]
      <3>1. \A p \in A : RecordAt(f, p) \in LogRecords
        BY <1>1, ValidIs
      <3>2. \A p \in A, x \in Seq(LogRecords) : <<RecordAt(f, p)>> \o x \in Seq(LogRecords)
        BY <3>1
      <3> QED BY <3>2
    <2>2. PICK h : Follows(h, D, Seq(LogRecords), A, next, g, base)
      <3> HIDE DEF D, A, rank, next, g, base
      <3> QED BY <1>1, <2>1, UpwardRecursion, Zenon
    <2>3. h \in [D -> Seq(LogRecords)]
      BY <2>2 DEF Follows
    <2>4. ASSUME NEW p \in D
          PROVE  h[p] = IF Valid(f, p) THEN <<RecordAt(f, p)>> \o h[Past(f, p)] ELSE << >>
      <3>1. h[p] = IF p \in A THEN g[p][h[next[p]]] ELSE base[p]
        BY <2>2, Zenon DEF Follows
      <3>2. CASE p \in A
        <4>1. next[p] = Past(f, p) /\ h[next[p]] \in Seq(LogRecords)
          BY <1>1, <2>3, <3>2
        <4> QED BY <3>1, <3>2, <4>1, Zenon
      <3>3. CASE p \notin A
        BY <3>1, <3>3
      <3> QED BY <3>2, <3>3
    <2> QED BY <2>3, <2>4, Zenon
  <1>3. \E h : /\ h \in [D -> D]
               /\ h = [q \in D |-> IF Valid(f, q) THEN h[Past(f, q)] ELSE q]
    <2> DEFINE g == [p \in A |-> [x \in D |-> x]]
               base == [p \in D |-> p]
    <2>1. g \in [A -> [D -> D]] /\ base \in [D -> D]
      OBVIOUS
    <2>2. PICK h : Follows(h, D, D, A, next, g, base)
      <3> HIDE DEF D, A, rank, next, g, base
      <3> QED BY <1>1, <2>1, UpwardRecursion, Zenon
    <2>3. h \in [D -> D]
      BY <2>2 DEF Follows
    <2>4. ASSUME NEW p \in D
          PROVE  h[p] = IF Valid(f, p) THEN h[Past(f, p)] ELSE p
      <3>1. h[p] = IF p \in A THEN g[p][h[next[p]]] ELSE base[p]
        BY <2>2 DEF Follows
      <3>2. CASE p \in A
        <4>1. next[p] = Past(f, p) /\ h[next[p]] \in D
          BY <1>1, <2>3, <3>2
        <4> QED BY <3>1, <3>2, <4>1
      <3>3. CASE p \notin A
        BY <3>1, <3>3
      <3> QED BY <3>2, <3>3
    <2> QED BY <2>3, <2>4
  <1> DEFINE from == CHOOSE h : h = [q \in 0 .. Len(f) |->
                                       IF Valid(f, q) THEN <<RecordAt(f, q)>> \o h[Past(f, q)]
                                       ELSE << >>]
             end == CHOOSE h : h = [q \in 0 .. Len(f) |->
                                      IF Valid(f, q) THEN h[Past(f, q)] ELSE q]
  <1>4. ScanRecords(f) = [records |-> from[0], end |-> end[0]]
    BY DEF ScanRecords, Past
  <1>5. from = [q \in 0 .. Len(f) |->
                  IF Valid(f, q) THEN <<RecordAt(f, q)>> \o from[Past(f, q)] ELSE << >>]
    BY <1>2, Zenon
  <1>6. end = [q \in 0 .. Len(f) |-> IF Valid(f, q) THEN end[Past(f, q)] ELSE q]
    BY <1>3, Zenon
  <1> HIDE DEF from, end
  <1>7. Scans(f, from, end)
    BY <1>5, <1>6, Zenon DEF Scans
  <1> QED BY <1>4, <1>7

\* A walk that starts with a valid record goes on with the walk from its end.
LEMMA WalkOn ==
  ASSUME NEW f \in Seq(FileCells), NEW p \in 0 .. Len(f), Valid(f, p),
         NEW rs, NEW at, WalkFrom(f, Past(f, p), rs, at)
  PROVE  \E at1 : /\ WalkFrom(f, p, <<RecordAt(f, p)>> \o rs, at1)
                  /\ at1[Len(<<RecordAt(f, p)>> \o rs)] = at[Len(rs)]
  <1>1. /\ rs \in Seq(LogRecords) /\ Len(rs) \in Nat /\ Len(f) \in Nat /\ p \in Nat
        /\ at \in [0 .. Len(rs) -> 0 .. Len(f)] /\ at[0] = Past(f, p)
        /\ RecordAt(f, p) \in LogRecords /\ RecordAt(f, p).kind = f[p + 1].kind
    BY ValidIs DEF WalkFrom
  <1> DEFINE r == RecordAt(f, p)
             rs1 == <<r>> \o rs
             at1 == [k \in 0 .. Len(rs) + 1 |-> IF k = 0 THEN p ELSE at[k - 1]]
  <1> HIDE DEF r
  <1>2. /\ rs1 \in Seq(LogRecords) /\ Len(rs1) = Len(rs) + 1 /\ rs1[1] = r
        /\ \A k \in 2 .. Len(rs1) : rs1[k] = rs[k - 1]
    BY <1>1 DEF r
  <1>3. at1 \in [0 .. Len(rs1) -> 0 .. Len(f)] /\ at1[0] = p /\ at1[1] = Past(f, p)
    BY <1>1, <1>2
  <1>4. \A k \in 1 .. Len(rs1) : at1[k] = at[k - 1]
    BY <1>1, <1>2
  <1> HIDE DEF rs1, at1
  <1>5. ASSUME NEW k \in 1 .. Len(rs1)
        PROVE  /\ Valid(f, at1[k - 1]) /\ rs1[k] = RecordAt(f, at1[k - 1])
               /\ at1[k] = at1[k - 1] + Cells(rs1[k].kind)
    <2>1. CASE k = 1
      BY <1>1, <1>2, <1>3, <2>1 DEF Past, r
    <2>2. CASE k # 1
      <3>1. /\ k - 1 \in 1 .. Len(rs) /\ k \in 2 .. Len(rs1) /\ k - 1 \in 1 .. Len(rs1)
        BY <1>1, <1>2, <2>2
      <3>2. PICK j \in 1 .. Len(rs) : j = k - 1
        BY <3>1
      <3>3. at1[k] = at[j] /\ at1[k - 1] = at[j - 1] /\ rs1[k] = rs[j]
        BY <1>2, <1>4, <3>1, <3>2, Zenon
      <3>4. Valid(f, at[j - 1]) /\ rs[j] = RecordAt(f, at[j - 1]) /\ at[j] = at[j - 1] + Cells(rs[j].kind)
        BY DEF WalkFrom
      <3> QED BY <3>2, <3>3, <3>4
    <2> QED BY <2>1, <2>2
  <1>6. at1[Len(rs1)] = at[Len(rs)] /\ ~ Valid(f, at[Len(rs)])
    BY <1>1, <1>2, <1>4 DEF WalkFrom
  <1>7. WalkFrom(f, p, rs1, at1)
    BY <1>2, <1>3, <1>5, <1>6 DEF WalkFrom
  <1> QED BY <1>6, <1>7 DEF rs1, r

\* scan_records walks over the file from its start.
LEMMA ScanWalks ==
  ASSUME NEW f \in Seq(FileCells)
  PROVE  \E rs, at : Walk(f, rs, at) /\ ScanRecords(f) = [records |-> rs, end |-> at[Len(rs)]]
  <1>1. PICK from, end : Scans(f, from, end) /\ ScanRecords(f) = [records |-> from[0], end |-> end[0]]
    BY ScanEquations
  <1> DEFINE N == Len(f)
             Meets(p) == \E rs, at : WalkFrom(f, p, rs, at) /\ from[p] = rs /\ end[p] = at[Len(rs)]
             S == {n \in Nat : \A p \in 0 .. N : p >= N - n => Meets(p)}
  <1>2. N \in Nat
    OBVIOUS
  <1>3. ASSUME NEW p \in 0 .. N, \A q \in 0 .. N : q > p => Meets(q) PROVE Meets(p)
    <2>1. CASE Valid(f, p)
      <3>1. Past(f, p) \in 0 .. N /\ Past(f, p) > p
        BY <2>1, PastIs
      <3>2. PICK rs, at : /\ WalkFrom(f, Past(f, p), rs, at)
                          /\ from[Past(f, p)] = rs /\ end[Past(f, p)] = at[Len(rs)]
        BY <1>3, <3>1
      <3>3. from[p] = <<RecordAt(f, p)>> \o rs /\ end[p] = at[Len(rs)]
        BY <1>1, <2>1, <3>2, Zenon DEF Scans
      <3>4. PICK at1 : /\ WalkFrom(f, p, <<RecordAt(f, p)>> \o rs, at1)
                       /\ at1[Len(<<RecordAt(f, p)>> \o rs)] = at[Len(rs)]
        BY <2>1, <3>2, WalkOn
      <3> QED BY <3>3, <3>4, Zenon
    <2>2. CASE ~ Valid(f, p)
      <3>1. from[p] = << >> /\ end[p] = p
        BY <1>1, <2>2, Zenon DEF Scans
      <3> DEFINE at == [k \in 0 .. 0 |-> p]
      <3>2. WalkFrom(f, p, << >>, at) /\ at[Len(<< >>)] = p
        BY <2>2 DEF WalkFrom
      <3> HIDE DEF at
      <3> QED BY <3>1, <3>2
    <2> QED BY <2>1, <2>2
  <1> HIDE DEF Meets
  <1>4. 0 \in S
    <2> SUFFICES ASSUME NEW p \in 0 .. N, p >= N PROVE Meets(p)
      BY <1>2
    <2>1. \A q \in 0 .. N : ~ (q > p)
      BY <1>2
    <2> QED BY <1>3, <2>1
  <1>5. ASSUME NEW n \in Nat, n \in S PROVE n + 1 \in S
    <2> SUFFICES ASSUME NEW p \in 0 .. N, p >= N - (n + 1) PROVE Meets(p)
      BY <1>2
    <2>1. \A q \in 0 .. N : q > p => Meets(q)
      <3> SUFFICES ASSUME NEW q \in 0 .. N, q > p PROVE Meets(q)
        OBVIOUS
      <3>1. q >= N - n
        BY <1>2
      <3> QED BY <1>5, <3>1
    <2> QED BY <1>3, <2>1
  <1>6. N \in S
    <2> HIDE DEF S
    <2> QED BY <1>2, <1>4, <1>5, NumberInduction
  <1>7. Meets(0)
    BY <1>2, <1>6
  <1> QED BY <1>1, <1>7 DEF Walk, Meets

\* The offsets of a walk go up, by a cell at least for every record.
LEMMA WalkUp ==
  ASSUME NEW f \in Seq(FileCells), NEW rs, NEW at, Walk(f, rs, at)
  PROVE  /\ Len(rs) \in Nat
         /\ \A k \in 0 .. Len(rs) : at[k] \in 0 .. Len(f) /\ k <= at[k]
         /\ \A j, k \in 0 .. Len(rs) : j <= k => at[j] <= at[k]
  <1>1. /\ rs \in Seq(LogRecords) /\ Len(rs) \in Nat /\ Len(f) \in Nat
        /\ at \in [0 .. Len(rs) -> 0 .. Len(f)] /\ at[0] = 0
    BY DEF Walk, WalkFrom
  <1>2. ASSUME NEW k \in 1 .. Len(rs) PROVE at[k] >= at[k - 1] + 1
    <2>1. k - 1 \in 0 .. Len(rs) /\ at[k - 1] \in Nat
      BY <1>1, SMTT(30)
    <2>2. at[k] = at[k - 1] + Cells(rs[k].kind) /\ rs[k].kind \in Kinds
      <3>1. rs[k] \in LogRecords
        BY <1>1
      <3> QED BY <3>1 DEF Walk, WalkFrom, LogRecords
    <2>3. Cells(rs[k].kind) \in {1, 2}
      BY <2>2, CellFacts
    <2> QED BY <2>1, <2>2, <2>3
  <1> DEFINE S == {m \in Nat : \A j \in 0 .. Len(rs) : j + m <= Len(rs) => at[j + m] >= at[j] + m}
  <1>3. 0 \in S
    BY <1>1
  <1>4. ASSUME NEW m \in Nat, m \in S PROVE m + 1 \in S
    <2> SUFFICES ASSUME NEW j \in 0 .. Len(rs), j + (m + 1) <= Len(rs)
                 PROVE  at[j + (m + 1)] >= at[j] + (m + 1)
      OBVIOUS
    <2>1. PICK k \in 1 .. Len(rs) : k = j + (m + 1) /\ k - 1 = j + m
      BY <1>1
    <2>2. at[k - 1] \in Nat /\ at[k] \in Nat /\ at[j] \in Nat
      BY <1>1, <2>1, SMTT(30)
    <2>3. at[j + m] >= at[j] + m
      BY <1>1, <1>4, <2>1
    <2>4. at[k] >= at[k - 1] + 1
      BY <1>2
    <2> QED BY <2>1, <2>2, <2>3, <2>4, SMTT(30)
  <1>5. \A m \in Nat : m \in S
    <2> HIDE DEF S
    <2> QED BY <1>3, <1>4, NumberInduction
  <1>6. ASSUME NEW j \in 0 .. Len(rs), NEW k \in 0 .. Len(rs), j <= k PROVE at[k] >= at[j] + (k - j)
    <2>1. PICK m \in Nat : m = k - j /\ j + m = k
      BY <1>1, <1>6
    <2> QED BY <1>1, <1>5, <2>1
  <1>7. ASSUME NEW k \in 0 .. Len(rs) PROVE at[k] \in 0 .. Len(f) /\ k <= at[k]
    BY <1>1, <1>6
  <1>8. ASSUME NEW j \in 0 .. Len(rs), NEW k \in 0 .. Len(rs), j <= k PROVE at[j] <= at[k]
    <2>1. at[k] >= at[j] + (k - j)
      BY <1>6, <1>8
    <2>2. at[j] \in Nat /\ at[k] \in Nat
      BY <1>1
    <2> QED BY <1>8, <2>1, <2>2
  <1> QED BY <1>1, <1>7, <1>8

\* A file in which less is valid has fewer records, the first of the others.
LEMMA WalkPrefix ==
  ASSUME NEW f \in Seq(FileCells), NEW rs, NEW at, Walk(f, rs, at),
         NEW g \in Seq(FileCells), NEW ss, NEW bt, Walk(g, ss, bt),
         \A p \in Nat : Valid(g, p) => Valid(f, p) /\ g[p + 1] = f[p + 1]
  PROVE  /\ Len(ss) <= Len(rs)
         /\ \A k \in 0 .. Len(ss) : bt[k] = at[k]
         /\ \A k \in 1 .. Len(ss) : ss[k] = rs[k]
  <1>1. /\ Len(rs) \in Nat /\ at \in [0 .. Len(rs) -> 0 .. Len(f)] /\ at[0] = 0
        /\ Len(ss) \in Nat /\ bt \in [0 .. Len(ss) -> 0 .. Len(g)] /\ bt[0] = 0
        /\ Len(f) \in Nat /\ Len(g) \in Nat
    BY DEF Walk, WalkFrom
  <1> DEFINE Agree(k) == k <= Len(rs) /\ bt[k] = at[k] /\ (k # 0 => ss[k] = rs[k])
             S == {k \in Nat : k <= Len(ss) => Agree(k)}
  <1>2. 0 \in S
    BY <1>1
  <1>3. ASSUME NEW k \in Nat, k \in S PROVE k + 1 \in S
    <2> SUFFICES ASSUME k + 1 <= Len(ss) PROVE Agree(k + 1)
      OBVIOUS
    <2>1. k <= Len(rs) /\ bt[k] = at[k] /\ k \in 0 .. Len(ss) /\ k + 1 \in 1 .. Len(ss)
      BY <1>1, <1>3
    <2>2. PICK p \in Nat : p = bt[k] /\ p = at[k]
      BY <1>1, <2>1, SMTT(30)
    <2>3. Valid(g, p) /\ ss[k + 1] = RecordAt(g, p) /\ bt[k + 1] = p + Cells(ss[k + 1].kind)
      BY <2>1, <2>2 DEF Walk, WalkFrom
    <2>4. Valid(f, p) /\ g[p + 1] = f[p + 1]
      BY <2>3
    <2>5. k # Len(rs)
      BY <2>2, <2>4 DEF Walk, WalkFrom
    <2>6. k + 1 \in 1 .. Len(rs)
      BY <1>1, <2>1, <2>5
    <2>7. rs[k + 1] = RecordAt(f, p) /\ at[k + 1] = p + Cells(rs[k + 1].kind)
      BY <2>2, <2>6 DEF Walk, WalkFrom
    <2>8. ss[k + 1] = rs[k + 1]
      BY <2>3, <2>4, <2>7 DEF RecordAt
    <2> QED BY <2>3, <2>6, <2>7, <2>8
  <1>4. \A k \in Nat : k \in S
    <2> HIDE DEF S
    <2> QED BY <1>2, <1>3, NumberInduction, Zenon
  <1>5. \A k \in 0 .. Len(ss) : Agree(k)
    BY <1>1, <1>4
  <1> QED BY <1>1, <1>5

\* The walk from the start is what scan_records returns.
LEMMA ScanIs ==
  ASSUME NEW f \in Seq(FileCells), NEW rs, NEW at, Walk(f, rs, at)
  PROVE  ScanRecords(f) = [records |-> rs, end |-> at[Len(rs)]]
  <1>1. PICK ss, bt : Walk(f, ss, bt) /\ ScanRecords(f) = [records |-> ss, end |-> bt[Len(ss)]]
    BY ScanWalks
  <1>2. Len(ss) <= Len(rs) /\ \A k \in 0 .. Len(ss) : bt[k] = at[k]
    BY <1>1, WalkPrefix
  <1>3. Len(rs) <= Len(ss) /\ \A k \in 1 .. Len(rs) : rs[k] = ss[k]
    BY <1>1, WalkPrefix
  <1>4. rs \in Seq(LogRecords) /\ ss \in Seq(LogRecords)
    BY <1>1 DEF Walk, WalkFrom
  <1>5. Len(ss) \in Nat /\ Len(rs) \in Nat /\ Len(ss) = Len(rs)
    BY <1>2, <1>3, <1>4
  <1>6. ss = rs
    BY <1>3, <1>4, <1>5
  <1> QED BY <1>1, <1>2, <1>5, <1>6

-----------------------------------------------------------------------------
(* Changing a file *)

\* The first records are still there when their cells are.
LEMMA StillThere ==
  ASSUME NEW f \in Seq(FileCells), NEW rs, NEW at, Walk(f, rs, at),
         NEW g \in Seq(FileCells), NEW m \in 0 .. Len(rs), at[m] <= Len(g),
         \A i \in 1 .. at[m] : g[i] = f[i],
         NEW k \in 1 .. m
  PROVE  Valid(g, at[k - 1]) /\ rs[k] = RecordAt(g, at[k - 1])
  <1>1. /\ rs \in Seq(LogRecords) /\ Len(rs) \in Nat /\ Len(f) \in Nat /\ Len(g) \in Nat
        /\ k - 1 \in 0 .. Len(rs) /\ k \in 0 .. Len(rs) /\ k \in 1 .. Len(rs)
    BY DEF Walk, WalkFrom
  <1>2. PICK p \in Nat, q \in Nat, l \in Nat : p = at[k - 1] /\ q = at[k] /\ l = at[m] /\ q <= l
    <2>1. at[k - 1] \in Nat /\ at[k] \in Nat /\ at[m] \in Nat
      BY <1>1, WalkUp
    <2>2. at[k] <= at[m]
      BY <1>1, WalkUp
    <2> QED BY <2>1, <2>2, Zenon
  <1>3. Valid(f, p) /\ rs[k] = RecordAt(f, p) /\ q = p + Cells(rs[k].kind)
    BY <1>1, <1>2, Zenon DEF Walk, WalkFrom
  <1>4. f[p + 1].kind \in Kinds /\ rs[k].kind = f[p + 1].kind /\ p < Len(f) /\ Complete(f, p)
    BY <1>3, ValidIs
  <1>5. Cells(f[p + 1].kind) \in {1, 2} /\ (Cells(f[p + 1].kind) = 2 <=> f[p + 1].kind = "new")
    BY <1>4, CellFacts, Zenon
  <1>6. p + 1 \in 1 .. l /\ (f[p + 1].kind = "new" => p + 2 \in 1 .. l)
    <2>1. PICK c \in {1, 2} : q = p + c /\ (c = 2 <=> f[p + 1].kind = "new")
      BY <1>3, <1>4, <1>5, Zenon
    <2>2. p + c <= l
      BY <1>2, <2>1
    <2>3. p + 1 \in 1 .. l /\ (c = 2 => p + 2 \in 1 .. l)
      BY <2>2
    <2> QED BY <2>1, <2>3, Zenon
  <1>7. g[p + 1] = f[p + 1] /\ (f[p + 1].kind = "new" => g[p + 2] = f[p + 2])
    BY <1>2, <1>6, Zenon
  <1>8. p < Len(g) /\ Complete(g, p)
    <2>1. l <= Len(g)
      BY <1>2
    <2>2. p < Len(g) /\ (f[p + 1].kind = "new" => p + 2 <= Len(g))
      BY <1>1, <1>6, <2>1, SMTT(30)
    <2> QED BY <1>4, <1>7, <2>2 DEF Complete
  <1>9. Valid(g, p) /\ RecordAt(g, p) = RecordAt(f, p)
    BY <1>7, <1>8, ValidIs, Zenon DEF RecordAt
  <1> QED BY <1>2, <1>3, <1>9

\* The log stays as it is when its cells do and no record follows them.
LEMMA WalkStays ==
  ASSUME NEW f \in Seq(FileCells), NEW rs, NEW at, Walk(f, rs, at),
         NEW g \in Seq(FileCells), at[Len(rs)] <= Len(g),
         \A i \in 1 .. at[Len(rs)] : g[i] = f[i], ~ Valid(g, at[Len(rs)])
  PROVE  Walk(g, rs, at)
  <1>1. /\ rs \in Seq(LogRecords) /\ Len(rs) \in Nat /\ Len(f) \in Nat /\ Len(g) \in Nat
        /\ at \in [0 .. Len(rs) -> 0 .. Len(f)] /\ at[0] = 0
    BY DEF Walk, WalkFrom
  <1>2. ASSUME NEW k \in 1 .. Len(rs)
        PROVE  /\ Valid(g, at[k - 1]) /\ rs[k] = RecordAt(g, at[k - 1])
               /\ at[k] = at[k - 1] + Cells(rs[k].kind)
    <2>1. at[k] = at[k - 1] + Cells(rs[k].kind)
      BY DEF Walk, WalkFrom
    <2>2. Len(rs) \in 0 .. Len(rs)
      BY <1>1
    <2> QED BY <2>1, <2>2, StillThere
  <1>3. at \in [0 .. Len(rs) -> 0 .. Len(g)]
    <2>1. \A k \in 0 .. Len(rs) : at[k] \in Nat /\ at[k] <= at[Len(rs)] /\ at[Len(rs)] \in Nat
      BY <1>1, WalkUp, SMTT(30)
    <2>2. \A k \in 0 .. Len(rs) : at[k] \in 0 .. Len(g)
      BY <1>1, <2>1
    <2> QED BY <1>1, <2>2
  <1> QED BY <1>1, <1>2, <1>3 DEF Walk, WalkFrom

\* A record completed just past the log becomes its last.
LEMMA WalkGrows ==
  ASSUME NEW f \in Seq(FileCells), NEW rs, NEW at, Walk(f, rs, at),
         NEW g \in Seq(FileCells), at[Len(rs)] <= Len(g),
         \A i \in 1 .. at[Len(rs)] : g[i] = f[i],
         Valid(g, at[Len(rs)]), ~ Valid(g, Past(g, at[Len(rs)]))
  PROVE  \E bt : /\ Walk(g, Append(rs, RecordAt(g, at[Len(rs)])), bt)
                 /\ bt[Len(rs) + 1] = Past(g, at[Len(rs)])
  <1>1. /\ rs \in Seq(LogRecords) /\ Len(rs) \in Nat /\ Len(f) \in Nat /\ Len(g) \in Nat
        /\ at \in [0 .. Len(rs) -> 0 .. Len(f)] /\ at[0] = 0
    BY DEF Walk, WalkFrom
  <1>2. PICK n \in Nat, e \in Nat : n = Len(rs) /\ e = at[n] /\ e <= Len(g) /\ n \in 0 .. Len(rs)
    BY <1>1
  <1>3. /\ RecordAt(g, e) \in LogRecords /\ RecordAt(g, e).kind = g[e + 1].kind
        /\ Past(g, e) \in 0 .. Len(g)
    BY <1>1, <1>2, ValidIs, PastIs
  <1> DEFINE r == RecordAt(g, e)
             ss == Append(rs, r)
             bt == [k \in 0 .. n + 1 |-> IF k = n + 1 THEN Past(g, e) ELSE at[k]]
  <1> HIDE DEF r
  <1>4. /\ ss \in Seq(LogRecords) /\ Len(ss) = n + 1 /\ ss[n + 1] = r
        /\ \A k \in 1 .. n : ss[k] = rs[k]
    BY <1>1, <1>2, <1>3 DEF r
  <1>5. /\ bt[n + 1] = Past(g, e) /\ \A k \in 0 .. n : bt[k] = at[k]
    OBVIOUS
  <1>6. bt \in [0 .. n + 1 -> 0 .. Len(g)]
    <2>1. \A k \in 0 .. n : at[k] \in Nat /\ at[k] <= e
      BY <1>1, <1>2, WalkUp, SMTT(30)
    <2>2. \A k \in 0 .. n + 1 : bt[k] \in 0 .. Len(g)
      BY <1>1, <1>2, <1>3, <2>1, SMTT(30)
    <2> QED BY <2>2
  <1> HIDE DEF ss, bt
  <1>7. ASSUME NEW k \in 1 .. n + 1
        PROVE  /\ Valid(g, bt[k - 1]) /\ ss[k] = RecordAt(g, bt[k - 1])
               /\ bt[k] = bt[k - 1] + Cells(ss[k].kind)
    <2>1. CASE k = n + 1
      <3>1. bt[k - 1] = e /\ bt[k] = Past(g, e) /\ ss[k] = r
        BY <1>2, <1>4, <1>5, <2>1
      <3> QED BY <1>2, <1>3, <3>1, Zenon DEF r, Past
    <2>2. CASE k \in 1 .. n
      <3>1. bt[k - 1] = at[k - 1] /\ bt[k] = at[k] /\ ss[k] = rs[k]
        <4>1. k \in 0 .. n /\ k - 1 \in 0 .. n
          BY <2>2, SMTT(30)
        <4> QED BY <1>4, <1>5, <2>2, <4>1, Zenon
      <3>2. Valid(g, at[k - 1]) /\ rs[k] = RecordAt(g, at[k - 1])
        BY <1>2, <2>2, StillThere, SMTT(30)
      <3>3. at[k] = at[k - 1] + Cells(rs[k].kind)
        BY <1>2, <2>2 DEF Walk, WalkFrom
      <3> QED BY <3>1, <3>2, <3>3
    <2> QED BY <2>1, <2>2
  <1>8. bt[0] = 0
    BY <1>1, <1>2, <1>5
  <1>9. Walk(g, ss, bt)
    BY <1>2, <1>4, <1>5, <1>6, <1>7, <1>8 DEF Walk, WalkFrom
  <1> QED BY <1>2, <1>5, <1>9 DEF ss, r

\* Cells of g that differ from those of f hold zeros or damage.
Damaged(g, f) ==
  \A i \in 1 .. Len(g) : (i <= Len(f) /\ g[i] = f[i]) \/ g[i] \in {Zero, Garbage}

\* No record becomes readable by zeros or damage, at the end of the file or
\* elsewhere, and the first ones stay when their cells do.
LEMMA WalkShrinks ==
  ASSUME NEW f \in Seq(FileCells), NEW rs, NEW at, Walk(f, rs, at),
         NEW g \in Seq(FileCells), Damaged(g, f),
         NEW m \in 0 .. Len(rs), at[m] <= Len(g), \A i \in 1 .. at[m] : g[i] = f[i]
  PROVE  \E n, bt : /\ n \in m .. Len(rs) /\ Walk(g, SubSeq(rs, 1, n), bt)
                    /\ \A k \in 0 .. n : bt[k] = at[k]
  <1>1. PICK ss, bt : Walk(g, ss, bt)
    BY ScanWalks
  <1>2. /\ rs \in Seq(LogRecords) /\ Len(rs) \in Nat /\ Len(f) \in Nat
        /\ ss \in Seq(LogRecords) /\ Len(ss) \in Nat /\ Len(g) \in Nat
        /\ \A k \in 1 .. Len(rs) : rs[k] \in LogRecords
    BY <1>1 DEF Walk, WalkFrom
  <1>3. ASSUME NEW p \in Nat, Valid(g, p) PROVE Valid(f, p) /\ g[p + 1] = f[p + 1]
    <2>1. p < Len(g) /\ Complete(g, p)
      BY <1>3, ValidIs
    <2>2. p + 1 \in 1 .. Len(g)
      BY <1>2, <2>1
    <2>3. g[p + 1] # Zero /\ g[p + 1] # Garbage
      BY <2>1, CellFacts, Zenon DEF Complete
    <2>4. p + 1 <= Len(f) /\ g[p + 1] = f[p + 1]
      BY <2>2, <2>3, Zenon DEF Damaged
    <2>5. ASSUME g[p + 1].kind = "new" PROVE p + 2 <= Len(f) /\ g[p + 2] = f[p + 2]
      <3>1. g[p + 2] = Rest(g[p + 1].serial) /\ p + 2 \in 1 .. Len(g)
        BY <1>2, <2>1, <2>5 DEF Complete
      <3>2. g[p + 1].serial \in Nat
        BY <2>1, <2>2, CellFacts DEF Complete
      <3>3. g[p + 2] # Zero /\ g[p + 2] # Garbage
        BY <3>1, <3>2, CellFacts
      <3> QED BY <3>1, <3>3, Zenon DEF Damaged
    <2>6. p < Len(f) /\ Complete(f, p)
      BY <1>2, <2>1, <2>4, <2>5 DEF Complete
    <2> QED BY <2>4, <2>6, ValidIs, Zenon
  <1>4. /\ Len(ss) <= Len(rs) /\ \A k \in 0 .. Len(ss) : bt[k] = at[k]
        /\ \A k \in 1 .. Len(ss) : ss[k] = rs[k]
    BY <1>1, <1>3, WalkPrefix
  <1>5. ss = SubSeq(rs, 1, Len(ss))
    <2>1. PICK t : t = SubSeq(rs, 1, Len(ss))
      BY Zenon
    <2>2. t \in Seq(LogRecords) /\ Len(t) = Len(ss) /\ \A k \in 1 .. Len(ss) : t[k] = rs[k]
      <3>1. \A k \in 1 .. Len(ss) : rs[k] \in LogRecords
        BY <1>2, <1>4
      <3> QED BY <1>2, <1>4, <2>1, <3>1, SubSeqProperties
    <2>3. t \in Seq(LogRecords) /\ Len(t) = Len(ss) /\ \A k \in 1 .. Len(ss) : t[k] = ss[k]
      BY <1>4, <2>2
    <2>4. t = ss
      BY <1>2, <2>3, SeqEqual, Zenon
    <2> QED BY <2>1, <2>4
  <1>6. Len(ss) >= m
    <2> SUFFICES ASSUME Len(ss) < m PROVE FALSE
      BY <1>2
    <2>1. PICK k \in 1 .. m : k = Len(ss) + 1 /\ k - 1 = Len(ss) /\ k - 1 \in 0 .. Len(ss)
      BY <1>2
    <2>2. Valid(g, at[k - 1])
      BY StillThere, Zenon
    <2>3. ~ Valid(g, bt[Len(ss)])
      BY <1>1 DEF Walk, WalkFrom
    <2> QED BY <1>4, <2>1, <2>2, <2>3, Zenon
  <1>7. Len(ss) \in m .. Len(rs)
    BY <1>2, <1>4, <1>6
  <1> QED BY <1>1, <1>4, <1>5, <1>7, Zenon

-----------------------------------------------------------------------------
(* The offset of a record, and the iterator *)

\* The cells of the first n records end where the walk is past them.
LEMMA OffsetIs ==
  ASSUME NEW f \in Seq(FileCells), NEW rs, NEW at, Walk(f, rs, at), NEW n \in 0 .. Len(rs)
  PROVE  OffsetOf(f, n) = at[n]
  <1>1. /\ Len(rs) \in Nat /\ at[0] = 0 /\ at \in [0 .. Len(rs) -> 0 .. Len(f)]
        /\ ScanRecords(f).records = rs
    <2>1. ScanRecords(f) = [records |-> rs, end |-> at[Len(rs)]]
      BY ScanIs
    <2> QED BY <2>1 DEF Walk, WalkFrom
  <1> DEFINE Eq(h) == h = [k \in 0 .. n |-> IF k = 0 THEN 0
                                            ELSE h[k - 1] + Cells(ScanRecords(f).records[k].kind)]
             end == CHOOSE h : Eq(h)
             start == [k \in 0 .. n |-> at[k]]
  <1>2. \A k \in 1 .. n : at[k] = at[k - 1] + Cells(rs[k].kind)
    BY <1>1 DEF Walk, WalkFrom
  <1>3. Eq(start)
    <2>1. \A k \in 0 .. n :
            start[k] = IF k = 0 THEN 0 ELSE start[k - 1] + Cells(ScanRecords(f).records[k].kind)
      BY <1>1, <1>2
    <2> QED BY <2>1
  <1>4. OffsetOf(f, n) = end[n]
    BY DEF OffsetOf
  <1>5. Eq(end)
    BY <1>3, Zenon
  <1>6. \A k \in 0 .. n : end[k] = IF k = 0 THEN 0 ELSE end[k - 1] + Cells(rs[k].kind)
    BY <1>1, <1>5, ZenonT(30)
  <1> HIDE DEF end, Eq, start
  <1> DEFINE S == {k \in Nat : k <= n => end[k] = at[k]}
  <1>7. 0 \in S
    BY <1>1, <1>6
  <1>8. ASSUME NEW k \in Nat, k \in S PROVE k + 1 \in S
    <2> SUFFICES ASSUME k + 1 <= n PROVE end[k + 1] = at[k + 1]
      OBVIOUS
    <2>1. k + 1 \in 0 .. n /\ k + 1 \in 1 .. n /\ k + 1 # 0 /\ (k + 1) - 1 = k /\ end[k] = at[k]
      BY <1>8
    <2> QED BY <1>2, <1>6, <2>1
  <1>9. \A k \in Nat : k \in S
    <2> HIDE DEF S
    <2> QED BY <1>7, <1>8, NumberInduction, Zenon
  <1> QED BY <1>1, <1>4, <1>9

\* What WalIterator can find.
Outcomes == {"none", "TruncatedRecord", "Corruption", "record"}

\* It finds a record where a valid one ends by end_pos, and nothing past it.
LEMMA FoundIs ==
  ASSUME NEW f \in Seq(FileCells), NEW e \in 0 .. Len(f), NEW q \in 0 .. Len(f)
  PROVE  /\ Found(f, e, q) = "record" <=> q < e /\ Valid(f, q) /\ Past(f, q) <= e
         /\ q >= e => Found(f, e, q) = "none"
         /\ Found(f, e, q) \in Outcomes
  <1>1. Len(f) \in Nat /\ q \in Nat /\ e \in Nat
    OBVIOUS
  <1>2. CASE q >= e
    BY <1>1, <1>2 DEF Found, Outcomes
  <1>3. CASE q < e
    <2>1. q < Len(f) /\ q + 1 \in 1 .. Len(f) /\ f[q + 1] \in FileCells
      BY <1>1, <1>3
    <2>2. ASSUME ChecksumOk(f, q)
          PROVE  HasHeader(f, q) /\ (EndsBy(f, q, e) <=> Past(f, q) <= e)
      BY <2>2, Zenon DEF ChecksumOk, HasHeader, EndsBy, Past
    <2>3. ASSUME ChecksumOk(f, q), Past(f, q) <= e PROVE Valid(f, q)
      <3>1. f[q + 1].kind \in Kinds
        BY <2>1, <2>3, CellFacts, Zenon DEF ChecksumOk
      <3>2. Cells(f[q + 1].kind) \in {1, 2}
        BY <3>1, CellFacts
      <3>3. Past(f, q) \in Nat /\ Past(f, q) <= Len(f)
        BY <1>1, <2>3, <3>2 DEF Past
      <3> QED BY <2>1, <2>2, <2>3, <3>3 DEF Valid, EndsBy, Past
    <2>4. Valid(f, q) => ChecksumOk(f, q)
      BY DEF Valid
    <2>5. Found(f, e, q) = "record" <=> HasHeader(f, q) /\ EndsBy(f, q, e) /\ ChecksumOk(f, q)
      BY <1>1, <1>3 DEF Found
    <2>6. Found(f, e, q) \in Outcomes
      BY Zenon DEF Found, Outcomes
    <2> QED BY <1>1, <1>3, <2>2, <2>3, <2>4, <2>5, <2>6
  <1> QED BY <1>1, <1>2, <1>3

\* The places of the iterator: a read_pos, and a current_record.
Places(f) == {q \in (0 .. Len(f)) \X (0 .. Len(f)) : q[2] <= q[1]}

\* What one place yields, given what the next one does.
Yields(f, n, p, rest) ==
  IF p[2] + 1 <= n THEN rest ELSE [rest EXCEPT !.records = <<RecordAt(f, p[1])>> \o @]

\* The recursive function of Iterate exists.
LEMMA IterateEquations ==
  ASSUME NEW f \in Seq(FileCells), NEW e \in 0 .. Len(f), NEW n \in Nat
  PROVE  \E from : /\ Iterate(f, e, n) = from[<<0, 0>>]
                   /\ \A p \in Places(f) :
                        from[p] = IF Found(f, e, p[1]) # "record"
                                    THEN [records |-> << >>, error |-> Found(f, e, p[1])]
                                    ELSE Yields(f, n, p, from[<<Past(f, p[1]), p[2] + 1>>])
  <1> DEFINE D == Places(f)
             A == {p \in D : Found(f, e, p[1]) = "record"}
             X == [records : Seq(LogRecords), error : Outcomes]
             rank == [p \in D |-> p[1]]
             next == [p \in A |-> <<Past(f, p[1]), p[2] + 1>>]
             g == [p \in A |-> [x \in X |-> Yields(f, n, p, x)]]
             base == [p \in D |-> [records |-> << >>, error |-> Found(f, e, p[1])]]
  <1>1. /\ Len(f) \in Nat /\ A \in SUBSET D
        /\ \A p \in D : p[1] \in 0 .. Len(f) /\ p[2] \in 0 .. Len(f) /\ p[2] <= p[1]
    BY DEF Places
  <1>2. \A p \in A : Valid(f, p[1]) /\ Past(f, p[1]) \in 0 .. Len(f) /\ Past(f, p[1]) > p[1]
    <2> SUFFICES ASSUME NEW p \in A
                 PROVE  Valid(f, p[1]) /\ Past(f, p[1]) \in 0 .. Len(f) /\ Past(f, p[1]) > p[1]
      OBVIOUS
    <2>1. p[1] \in 0 .. Len(f) /\ Found(f, e, p[1]) = "record"
      BY <1>1
    <2>2. Valid(f, p[1])
      BY <2>1, FoundIs
    <2> QED BY <2>1, <2>2, PastIs
  <1>3. rank \in [D -> 0 .. Len(f)]
    BY <1>1
  <1>4. ASSUME NEW p \in A PROVE next[p] \in D /\ rank[next[p]] > rank[p]
    <2>1. PICK a \in 0 .. Len(f), b \in 0 .. Len(f) : a = p[1] /\ b = p[2] /\ b <= a
      BY <1>1
    <2>2. PICK c \in 0 .. Len(f) : c = Past(f, a) /\ c > a
      BY <1>2, <2>1
    <2>3. next[p] = <<c, b + 1>> /\ b + 1 \in 0 .. Len(f) /\ b + 1 <= c
      BY <1>1, <2>1, <2>2, SMTT(30)
    <2>4. next[p] \in D /\ next[p][1] = c
      BY <2>3, Zenon DEF Places
    <2> QED BY <2>1, <2>2, <2>4
  <1>5. next \in [A -> D]
    <2> HIDE DEF D, A
    <2> QED BY <1>4, Zenon
  <1>6. g \in [A -> [X -> X]]
    <2>1. ASSUME NEW p \in A, NEW x \in X PROVE Yields(f, n, p, x) \in X
      <3>1. RecordAt(f, p[1]) \in LogRecords
        BY <1>1, <1>2, ValidIs
      <3>2. <<RecordAt(f, p[1])>> \o x.records \in Seq(LogRecords)
        BY <3>1
      <3> QED BY <3>2, Zenon DEF Yields
    <2> HIDE DEF A, X
    <2> QED BY <2>1
  <1>7. base \in [D -> X]
    <2>1. ASSUME NEW p \in D PROVE [records |-> << >>, error |-> Found(f, e, p[1])] \in X
      <3>1. Found(f, e, p[1]) \in Outcomes
        BY <1>1, FoundIs
      <3> QED BY <3>1
    <2> HIDE DEF D, X
    <2> QED BY <2>1
  <1>8. PICK h : Follows(h, D, X, A, next, g, base)
    <2> HIDE DEF D, A, X, rank, next, g, base
    <2> QED BY <1>1, <1>3, <1>4, <1>5, <1>6, <1>7, UpwardRecursion, Zenon
  <1>9. ASSUME NEW p \in D
        PROVE  h[p] = IF Found(f, e, p[1]) # "record"
                        THEN [records |-> << >>, error |-> Found(f, e, p[1])]
                        ELSE Yields(f, n, p, h[<<Past(f, p[1]), p[2] + 1>>])
    <2>1. h[p] = IF p \in A THEN g[p][h[next[p]]] ELSE base[p]
      BY <1>8, Zenon DEF Follows
    <2>2. CASE p \in A
      <3>1. next[p] = <<Past(f, p[1]), p[2] + 1>>
        BY <2>2
      <3>2. h[next[p]] \in X
        <4> HIDE DEF D, X, A, next
        <4> QED BY <1>5, <1>8, <2>2, Zenon DEF Follows
      <3>3. g[p][h[next[p]]] = Yields(f, n, p, h[next[p]])
        <4> HIDE DEF X, A, next
        <4> QED BY <2>2, <3>2
      <3> QED BY <2>1, <2>2, <3>1, <3>3, Zenon
    <2>3. CASE p \notin A
      BY <2>1, <2>3, Zenon
    <2> QED BY <2>2, <2>3, Zenon
  <1> DEFINE Eq(k) == k = [p \in {q \in (0 .. Len(f)) \X (0 .. Len(f)) : q[2] <= q[1]} |->
                             IF Found(f, e, p[1]) # "record"
                               THEN [records |-> << >>, error |-> Found(f, e, p[1])]
                               ELSE LET rest == k[<<p[1] + Cells(f[p[1] + 1].kind), p[2] + 1>>]
                                    IN IF p[2] + 1 <= n THEN rest
                                       ELSE [rest EXCEPT !.records = <<RecordAt(f, p[1])>> \o @]]
             from == CHOOSE k : Eq(k)
  <1>10. Eq(h)
    <2>1. h = [p \in D |-> h[p]]
      BY <1>8 DEF Follows
    <2> HIDE DEF A, X, rank, next, g, base
    <2> QED BY <1>9, <2>1, Zenon DEF Places, Past, Yields
  <1>11. Iterate(f, e, n) = from[<<0, 0>>]
    BY Zenon DEF Iterate
  <1>12. Eq(from)
    BY <1>10, Zenon
  <1> HIDE DEF from
  <1>13. \A p \in Places(f) :
           from[p] = IF Found(f, e, p[1]) # "record"
                       THEN [records |-> << >>, error |-> Found(f, e, p[1])]
                       ELSE Yields(f, n, p, from[<<Past(f, p[1]), p[2] + 1>>])
    <2> HIDE DEF D, A, X, rank, next, g, base
    <2> QED BY <1>12, Zenon DEF Places, Past, Yields
  <1> QED BY <1>11, <1>13

\* From any record on, the iterator yields the records that follow and no
\* error, when it ends where the log does.
LEMMA IterateIs ==
  ASSUME NEW f \in Seq(FileCells), NEW rs, NEW at, Walk(f, rs, at), NEW n \in 0 .. Len(rs)
  PROVE  Iterate(f, at[Len(rs)], n) = [records |-> SubSeq(rs, n + 1, Len(rs)), error |-> "none"]
  <1>1. /\ rs \in Seq(LogRecords) /\ Len(rs) \in Nat /\ Len(f) \in Nat /\ at[0] = 0
        /\ at \in [0 .. Len(rs) -> 0 .. Len(f)]
    BY DEF Walk, WalkFrom
  <1>2. PICK L \in Nat, e \in 0 .. Len(f) : L = Len(rs) /\ e = at[L]
    BY <1>1, SMTT(30)
  <1>3. PICK from : /\ Iterate(f, e, n) = from[<<0, 0>>]
                    /\ \A p \in Places(f) :
                         from[p] = IF Found(f, e, p[1]) # "record"
                                     THEN [records |-> << >>, error |-> Found(f, e, p[1])]
                                     ELSE Yields(f, n, p, from[<<Past(f, p[1]), p[2] + 1>>])
    <2>1. n \in Nat
      BY <1>1
    <2> QED BY <1>2, <2>1, IterateEquations, Zenon
  <1> DEFINE Left(k) == [records |-> SubSeq(rs, (IF k < n THEN n ELSE k) + 1, L), error |-> "none"]
             S == {j \in Nat : j <= L => from[<<at[L - j], L - j>>] = Left(L - j)}
  <1>4. ASSUME NEW k \in 0 .. L
        PROVE  <<at[k], k>> \in Places(f) /\ <<at[k], k>>[1] = at[k] /\ <<at[k], k>>[2] = k
    <2>1. k \in 0 .. Len(rs)
      BY <1>2
    <2>2. at[k] \in 0 .. Len(f) /\ k <= at[k]
      BY <2>1, WalkUp
    <2>3. k \in 0 .. Len(f)
      BY <1>1, <2>2
    <2> QED BY <2>2, <2>3 DEF Places
  <1>5. 0 \in S
    <2>1. Found(f, e, at[L]) = "none"
      BY <1>2, FoundIs
    <2>2. from[<<at[L], L>>] = [records |-> << >>, error |-> "none"]
      <3>1. L \in 0 .. L
        BY <1>2
      <3>2. PICK p \in Places(f) : p = <<at[L], L>> /\ p[1] = at[L] /\ p[2] = L
        BY <1>4, <3>1, Zenon
      <3> QED BY <1>3, <2>1, <3>2, Zenon
    <2>3. SubSeq(rs, L + 1, L) = << >>
      BY SubSeqEmpty
    <2>4. n <= L /\ (IF L < n THEN n ELSE L) = L
      BY <1>2
    <2> QED BY <2>2, <2>3, <2>4
  <1>6. ASSUME NEW j \in Nat, j \in S PROVE j + 1 \in S
    <2> HIDE DEF Left
    <2> SUFFICES ASSUME j + 1 <= L PROVE from[<<at[L - (j + 1)], L - (j + 1)>>] = Left(L - (j + 1))
      BY DEF S
    <2>0. L - (j + 1) \in 0 .. L /\ (L - (j + 1)) + 1 = L - j /\ L - j \in 1 .. L
      BY <1>2
    <2>1. PICK k \in 0 .. L : k = L - (j + 1) /\ k + 1 = L - j /\ k + 1 \in 1 .. L
      BY <2>0
    <2>2. from[<<at[k + 1], k + 1>>] = Left(k + 1)
      BY <1>6, <2>1, SMTT(30)
    <2>3. PICK p \in Places(f) : p = <<at[k], k>> /\ p[1] = at[k] /\ p[2] = k
      BY <1>4, Zenon
    <2>4. k \in 0 .. Len(rs) /\ k + 1 \in 1 .. Len(rs) /\ k + 1 \in 0 .. Len(rs)
      BY <1>2, <2>1
    <2>5. /\ Valid(f, at[k]) /\ rs[k + 1] = RecordAt(f, at[k])
          /\ at[k + 1] = at[k] + Cells(rs[k + 1].kind)
      BY <2>4 DEF Walk, WalkFrom
    <2>6. at[k] \in 0 .. Len(f) /\ at[k + 1] \in Nat /\ at[k + 1] <= e
      BY <1>2, <2>4, WalkUp, SMTT(30)
    <2>7. at[k + 1] = Past(f, at[k]) /\ Past(f, at[k]) > at[k]
      <3>1. RecordAt(f, at[k]).kind = f[at[k] + 1].kind
        BY <2>5, <2>6, ValidIs, SMTT(30)
      <3> QED BY <2>5, <2>6, <3>1, PastIs, Zenon DEF Past
    <2>8. Found(f, e, at[k]) = "record"
      <3>1. at[k] < e
        BY <1>2, <2>6, <2>7
      <3> QED BY <2>5, <2>6, <2>7, <3>1, FoundIs, SMTT(30)
    <2>9. from[p] = Yields(f, n, p, Left(k + 1))
      BY <1>3, <2>2, <2>3, <2>7, <2>8, Zenon
    <2> HIDE DEF S
    <2>10. CASE k + 1 <= n
      <3>1. Left(k) = Left(k + 1)
        <4>1. (IF k < n THEN n ELSE k) = n /\ (IF k + 1 < n THEN n ELSE k + 1) = n
          BY <2>10
        <4> QED BY <4>1, Zenon DEF Left
      <3> QED BY <2>1, <2>3, <2>9, <2>10, <3>1 DEF Yields
    <2>11. CASE ~ (k + 1 <= n)
      <3>1. (IF k < n THEN n ELSE k) = k /\ (IF k + 1 < n THEN n ELSE k + 1) = k + 1
        BY <2>11
      <3>2. Left(k) = [records |-> SubSeq(rs, k + 1, L), error |-> "none"]
            /\ Left(k + 1) = [records |-> SubSeq(rs, k + 1 + 1, L), error |-> "none"]
        BY <3>1, Zenon DEF Left
      <3>3. SubSeq(rs, k + 1, L) = <<rs[k + 1]>> \o SubSeq(rs, k + 1 + 1, L)
        BY <1>1, <1>2, <2>4, SubSeqRecursiveFirst, SMTT(30)
      <3>4. Yields(f, n, p, Left(k + 1)) =
              [records |-> <<RecordAt(f, at[k])>> \o SubSeq(rs, k + 1 + 1, L), error |-> "none"]
        <4>1. \A x, z : [[records |-> x, error |-> "none"] EXCEPT !.records = z]
                          = [records |-> z, error |-> "none"]
          BY ONLY TRUE
        <4>2. Yields(f, n, p, Left(k + 1))
                = [Left(k + 1) EXCEPT !.records = <<RecordAt(f, at[k])>> \o Left(k + 1).records]
          BY <2>3, <2>11, Zenon DEF Yields
        <4>3. Left(k + 1).records = SubSeq(rs, k + 1 + 1, L)
          BY <3>2
        <4>4. PICK x, z : x = SubSeq(rs, k + 1 + 1, L) /\ z = <<RecordAt(f, at[k])>> \o x
          BY Zenon
        <4>5. Yields(f, n, p, Left(k + 1)) = [[records |-> x, error |-> "none"] EXCEPT !.records = z]
          BY <3>2, <4>2, <4>3, <4>4, Zenon
        <4> QED BY <4>1, <4>4, <4>5, Zenon
      <3> QED BY <2>1, <2>3, <2>5, <2>9, <3>2, <3>3, <3>4, Zenon
    <2> QED BY <2>10, <2>11, Zenon
  <1>7. L \in S
    <2> HIDE DEF S
    <2> QED BY <1>5, <1>6, NumberInduction, Zenon
  <1>8. from[<<0, 0>>] = Left(0)
    <2>1. L - L = 0 /\ L <= L
      BY <1>2
    <2>2. at[L - L] = 0
      BY <1>1, <2>1
    <2> HIDE DEF Left
    <2> QED BY <1>7, <2>1, <2>2, Zenon
  <1>9. (IF 0 < n THEN n ELSE 0) = n
    OBVIOUS
  <1> QED BY <1>2, <1>3, <1>8, <1>9, Zenon


(* What the calls of Wal do to the log *)

\* What scan_records returns.
LEMMA ScanFacts ==
  ASSUME NEW f \in Seq(FileCells)
  PROVE  /\ ScanRecords(f).records \in Seq(LogRecords) /\ Len(ScanRecords(f).records) \in Nat
         /\ ScanRecords(f).end \in 0 .. Len(f)
         /\ ScanRecords(f) = [records |-> ScanRecords(f).records, end |-> ScanRecords(f).end]
  <1>1. PICK rs, at : Walk(f, rs, at) /\ ScanRecords(f) = [records |-> rs, end |-> at[Len(rs)]]
    BY ScanWalks
  <1>2. rs \in Seq(LogRecords) /\ Len(rs) \in Nat /\ at[Len(rs)] \in 0 .. Len(f)
    BY <1>1 DEF Walk, WalkFrom
  <1> QED BY <1>1, <1>2

\* set_len keeps the cells it can and fills with zeros.
LEMMA SetLenIs ==
  ASSUME NEW f \in Seq(FileCells), NEW n \in Nat
  PROVE  /\ SetLen(f, n) \in Seq(FileCells) /\ Len(SetLen(f, n)) = n
         /\ \A i \in 1 .. n : SetLen(f, n)[i] = IF i <= Len(f) THEN f[i] ELSE Zero
  <1>1. ASSUME NEW i \in 1 .. n PROVE (IF i <= Len(f) THEN f[i] ELSE Zero) \in FileCells
    BY CellFacts
  <1>2. SetLen(f, n) \in [1 .. n -> FileCells]
    BY <1>1 DEF SetLen
  <1> QED BY <1>2 DEF SetLen

\* It leaves the log alone when the log ends by then.
LEMMA SetLenKeeps ==
  ASSUME NEW f \in Seq(FileCells), NEW n \in Nat, ScanRecords(f).end <= n
  PROVE  ScanRecords(SetLen(f, n)) = ScanRecords(f)
  <1>1. PICK rs, at : Walk(f, rs, at) /\ ScanRecords(f) = [records |-> rs, end |-> at[Len(rs)]]
    BY ScanWalks
  <1>2. rs \in Seq(LogRecords) /\ Len(rs) \in Nat /\ at[Len(rs)] \in 0 .. Len(f) /\ Len(f) \in Nat
    BY <1>1 DEF Walk, WalkFrom
  <1>3. PICK g \in Seq(FileCells) :
          /\ g = SetLen(f, n) /\ Len(g) = n
          /\ \A i \in 1 .. n : g[i] = IF i <= Len(f) THEN f[i] ELSE Zero
    BY SetLenIs
  <1>4. PICK m \in 0 .. Len(rs) : m = Len(rs) /\ at[m] = ScanRecords(f).end /\ at[m] \in 0 .. Len(f)
    BY <1>1, <1>2
  <1>5. Damaged(g, f) /\ at[m] <= Len(g) /\ \A i \in 1 .. at[m] : g[i] = f[i]
    BY <1>2, <1>3, <1>4 DEF Damaged
  <1>6. PICK k, bt : /\ k \in m .. Len(rs) /\ Walk(g, SubSeq(rs, 1, k), bt)
                     /\ \A j \in 0 .. k : bt[j] = at[j]
    BY <1>1, <1>5, WalkShrinks
  <1>7. k = Len(rs) /\ SubSeq(rs, 1, k) = rs
    BY <1>2, <1>4, <1>6, SubSeqFull
  <1>8. bt[Len(rs)] = at[Len(rs)]
    BY <1>2, <1>6, <1>7
  <1>9. Walk(g, rs, bt)
    BY <1>6, <1>7, Zenon
  <1> QED BY <1>1, <1>3, <1>8, <1>9, ScanIs

\* The file g is f with the cell c at offset p.
Stored(f, p, c, g) ==
  /\ g \in Seq(FileCells) /\ Len(g) = Len(f)
  /\ \A i \in 1 .. Len(f) : g[i] = IF i = p + 1 THEN c ELSE f[i]

\* A store through the mapping changes one cell.
LEMMA WriteIs ==
  ASSUME NEW f \in Seq(FileCells), NEW p \in Nat, p < Len(f), NEW c \in FileCells
  PROVE  Stored(f, p, c, Write(f, p, c))
  <1>1. p + 1 \in 1 .. Len(f)
    BY SMTT(30)
  <1> QED BY <1>1, ExceptSeq DEF Stored, Write

\* A header just past the log adds no record before the payload is complete.
LEMMA HeaderKeeps ==
  ASSUME NEW f \in Seq(FileCells), NEW e, e = ScanRecords(f).end, e < Len(f),
         NEW k \in Kinds, NEW n \in Nat, NEW stage \in {"length", "crc", "payload"},
         stage = "payload" => k = "new" /\ \A i \in 1 .. Len(f) : i = e + 2 => f[i] = Zero
  PROVE  ScanRecords(Write(f, e, Header(k, n, stage))) = ScanRecords(f)
  <1>1. PICK rs, at : Walk(f, rs, at) /\ ScanRecords(f) = [records |-> rs, end |-> at[Len(rs)]]
    BY ScanWalks
  <1>2. rs \in Seq(LogRecords) /\ Len(rs) \in Nat /\ at[Len(rs)] = e /\ e \in Nat /\ Len(f) \in Nat
    BY <1>1, SMTT(30) DEF Walk, WalkFrom
  <1>3. PICK c \in FileCells : /\ c = Header(k, n, stage) /\ c.part = "header" /\ c.kind = k
                               /\ c.serial = n /\ c.stage = stage
    BY CellFacts
  <1>4. PICK g \in Seq(FileCells) : /\ g = Write(f, e, c) /\ Len(g) = Len(f)
                                    /\ \A i \in 1 .. Len(f) : g[i] = IF i = e + 1 THEN c ELSE f[i]
    <2>1. Stored(f, e, c, Write(f, e, c))
      BY <1>2, WriteIs, Zenon
    <2> QED BY <2>1, Zenon DEF Stored
  <1>5. e + 1 \in 1 .. Len(f) /\ g[e + 1] = c
    BY <1>2, <1>4
  <1>6. ~ Valid(g, e)
    <2> SUFFICES ASSUME Valid(g, e) PROVE FALSE
      OBVIOUS
    <2>1. Complete(g, e)
      BY <1>2, ValidIs, Zenon
    <2>2. stage = "payload" /\ e + 2 \in 1 .. Len(f) /\ g[e + 2] = Rest(n)
      BY <1>2, <1>3, <1>4, <1>5, <2>1, SMTT(30) DEF Complete
    <2>3. g[e + 2] = Zero
      BY <1>2, <1>4, <2>2, SMTT(30)
    <2> QED BY <2>2, <2>3, CellFacts, Zenon
  <1>7. at[Len(rs)] <= Len(g) /\ \A i \in 1 .. at[Len(rs)] : g[i] = f[i]
    BY <1>2, <1>4
  <1>8. Walk(g, rs, at)
    BY <1>1, <1>2, <1>6, <1>7, WalkStays, ZenonT(30)
  <1> QED BY <1>1, <1>3, <1>4, <1>8, ScanIs

\* The file g holds the log of f, which ends at e, and past it the complete
\* record of the command n and zeros.
Completed(f, e, g, k, n) ==
  /\ e = ScanRecords(f).end /\ e + Cells(k) <= Len(g)
  /\ \A i \in 1 .. e : g[i] = f[i]
  /\ g[e + 1] = Header(k, n, "payload") /\ (k = "new" => g[e + 2] = Rest(n))
  /\ \A i \in 1 .. Len(g) : i > e + Cells(k) => g[i] = Zero

\* The store that completes a record adds it to the log.
LEMMA LogGrows ==
  ASSUME NEW f \in Seq(FileCells), NEW g \in Seq(FileCells), NEW k \in Kinds, NEW n \in Nat,
         NEW e, Completed(f, e, g, k, n)
  PROVE  ScanRecords(g) = [records |-> Append(ScanRecords(f).records, [serial |-> n, kind |-> k]),
                           end |-> e + Cells(k)]
  <1>0. /\ e = ScanRecords(f).end /\ e + Cells(k) <= Len(g)
        /\ \A i \in 1 .. e : g[i] = f[i]
        /\ g[e + 1] = Header(k, n, "payload") /\ (k = "new" => g[e + 2] = Rest(n))
        /\ \A i \in 1 .. Len(g) : i > e + Cells(k) => g[i] = Zero
    BY Zenon DEF Completed
  <1> USE <1>0
  <1>1. PICK rs, at : Walk(f, rs, at) /\ ScanRecords(f) = [records |-> rs, end |-> at[Len(rs)]]
    BY ScanWalks, Zenon
  <1>2. rs \in Seq(LogRecords) /\ Len(rs) \in Nat /\ at[Len(rs)] = e /\ e \in Nat /\ Len(g) \in Nat
    BY <1>1, SMTT(30) DEF Walk, WalkFrom
  <1>3. Cells(k) \in {1, 2} /\ (Cells(k) = 2 <=> k = "new")
    BY CellFacts
  <1>4. /\ g[e + 1].part = "header" /\ g[e + 1].kind = k
        /\ g[e + 1].serial = n /\ g[e + 1].stage = "payload"
    BY CellFacts
  <1>5. Valid(g, e)
    <2>1. Complete(g, e)
      BY <1>2, <1>3, <1>4, Zenon DEF Complete
    <2>2. e < Len(g)
      BY <1>2, <1>3, SMTT(30)
    <2> QED BY <1>2, <2>1, <2>2, ValidIs, Zenon
  <1>6. Past(g, e) = e + Cells(k) /\ RecordAt(g, e) = [serial |-> n, kind |-> k]
    BY <1>4, Zenon DEF Past, RecordAt
  <1>7. ~ Valid(g, e + Cells(k))
    <2> SUFFICES ASSUME Valid(g, e + Cells(k)) PROVE FALSE
      BY Zenon
    <2>1. PICK p \in Nat : p = e + Cells(k)
      BY <1>2, <1>3, SMTT(30)
    <2>2. p < Len(g) /\ g[p + 1].part = "header"
      BY <2>1, ValidIs, Zenon DEF Complete
    <2>3. g[p + 1] = Zero
      <3>1. p + 1 \in 1 .. Len(g) /\ p + 1 > e + Cells(k)
        BY <1>2, <2>1, <2>2, SMTT(30)
      <3> QED BY <3>1, Zenon
    <2> QED BY <2>2, <2>3, CellFacts, Zenon
  <1>8. at[Len(rs)] <= Len(g) /\ \A i \in 1 .. at[Len(rs)] : g[i] = f[i]
    BY <1>2, <1>3
  <1>9. Valid(g, at[Len(rs)]) /\ ~ Valid(g, Past(g, at[Len(rs)]))
    BY <1>2, <1>5, <1>6, <1>7, Zenon
  <1>10. PICK bt : /\ Walk(g, Append(rs, RecordAt(g, at[Len(rs)])), bt)
                   /\ bt[Len(rs) + 1] = Past(g, at[Len(rs)])
    BY <1>1, <1>8, <1>9, WalkGrows
  <1>11. PICK ss : ss = Append(rs, [serial |-> n, kind |-> k])
    BY Zenon
  <1>12. Walk(g, ss, bt) /\ bt[Len(rs) + 1] = e + Cells(k)
    BY <1>2, <1>6, <1>10, <1>11, Zenon
  <1>13. Len(ss) = Len(rs) + 1
    BY <1>2, <1>11, SMTT(30)
  <1>14. ScanRecords(g) = [records |-> ss, end |-> e + Cells(k)]
    BY <1>12, <1>13, ScanIs
  <1>15. ScanRecords(f).records = rs
    <2>1. ScanRecords(f) = [records |-> rs, end |-> at[Len(rs)]]
      BY <1>1, Zenon
    <2> QED BY ONLY <2>1, RecordsOf, Zenon
  <1> QED BY <1>11, <1>14, <1>15

\* Zeros and damage leave a prefix of the log, with the records whose cells
\* are as they were.
LEMMA LogShrinks ==
  ASSUME NEW f \in Seq(FileCells), NEW g \in Seq(FileCells), Damaged(g, f),
         NEW m \in 0 .. Len(ScanRecords(f).records), OffsetOf(f, m) <= Len(g),
         \A i \in 1 .. OffsetOf(f, m) : g[i] = f[i]
  PROVE  /\ OffsetOf(g, m) = OffsetOf(f, m)
         /\ \E n \in m .. Len(ScanRecords(f).records) :
              /\ ScanRecords(g).records = SubSeq(ScanRecords(f).records, 1, n)
              /\ Len(ScanRecords(g).records) = n
              /\ \A k \in 1 .. n : ScanRecords(g).records[k] = ScanRecords(f).records[k]
  <1>1. PICK rs, at : Walk(f, rs, at) /\ ScanRecords(f) = [records |-> rs, end |-> at[Len(rs)]]
    BY ScanWalks, ZenonT(30)
  <1>2. rs \in Seq(LogRecords) /\ Len(rs) \in Nat /\ rs = ScanRecords(f).records
    BY <1>1 DEF Walk, WalkFrom
  <1>3. m \in 0 .. Len(rs) /\ OffsetOf(f, m) = at[m]
    BY <1>1, <1>2, OffsetIs
  <1>4. PICK n, bt : /\ n \in m .. Len(rs) /\ Walk(g, SubSeq(rs, 1, n), bt)
                     /\ \A k \in 0 .. n : bt[k] = at[k]
    BY <1>1, <1>3, WalkShrinks
  <1>5. PICK ss : ss = SubSeq(rs, 1, n)
    BY Zenon
  <1>6. Len(ss) = n /\ (\A k \in 1 .. n : ss[k] = rs[k]) /\ n \in Nat /\ n \in 0 .. Len(rs)
    <2>1. n \in 0 .. Len(rs) /\ n \in Nat
      BY <1>2, <1>3, <1>4
    <2>2. \A k \in 1 .. n : rs[k] \in LogRecords
      BY <1>2, <2>1
    <2> QED BY <1>5, <2>1, <2>2, SubSeqProperties, SMTT(30)
  <1>7. Walk(g, ss, bt)
    BY <1>4, <1>5, Zenon
  <1>8. OffsetOf(g, m) = bt[m] /\ bt[m] = at[m]
    <2>1. m \in 0 .. Len(ss)
      BY <1>3, <1>4, <1>6
    <2> QED BY <1>4, <1>6, <1>7, <2>1, OffsetIs, SMTT(30)
  <1>9. ScanRecords(g).records = ss
    BY <1>7, ScanIs
  <1> QED BY <1>2, <1>3, <1>4, <1>5, <1>6, <1>8, <1>9, Zenon

\* The offset of the first m records is in the log, and when all that follows
\* it is zero these are all there are.
LEMMA CutIs ==
  ASSUME NEW f \in Seq(FileCells), NEW m \in 0 .. Len(ScanRecords(f).records)
  PROVE  /\ OffsetOf(f, m) \in 0 .. Len(f) /\ OffsetOf(f, m) <= ScanRecords(f).end
         /\ OffsetOf(f, 0) = 0
         /\ (\A i \in 1 .. Len(f) : i > OffsetOf(f, m) => f[i] = Zero) =>
              ScanRecords(f).end = OffsetOf(f, m) /\ Len(ScanRecords(f).records) = m
  <1>1. PICK rs, at : Walk(f, rs, at) /\ ScanRecords(f) = [records |-> rs, end |-> at[Len(rs)]]
    BY ScanWalks, Zenon
  <1>2. /\ rs \in Seq(LogRecords) /\ Len(rs) \in Nat /\ rs = ScanRecords(f).records
        /\ at[Len(rs)] = ScanRecords(f).end
    BY <1>1 DEF Walk, WalkFrom
  <1>3. m \in 0 .. Len(rs) /\ OffsetOf(f, m) = at[m]
    BY <1>1, <1>2, OffsetIs
  <1>4. at[m] \in 0 .. Len(f) /\ at[m] <= at[Len(rs)]
    BY <1>1, <1>2, <1>3, WalkUp, SMTT(30)
  <1>5. ASSUME \A i \in 1 .. Len(f) : i > at[m] => f[i] = Zero PROVE m = Len(rs)
    <2> SUFFICES ASSUME m # Len(rs) PROVE FALSE
      OBVIOUS
    <2>1. PICK k \in 1 .. Len(rs) : k - 1 = m
      BY <1>2, <1>3
    <2>2. Valid(f, at[m])
      BY <1>1, <2>1 DEF Walk, WalkFrom
    <2>3. PICK p \in Nat : p = at[m]
      BY <1>4
    <2>4. p < Len(f) /\ f[p + 1].part = "header"
      BY <2>2, <2>3, ValidIs, Zenon DEF Complete
    <2>5. f[p + 1] = Zero
      <3>1. p + 1 \in 1 .. Len(f) /\ p + 1 > at[m]
        BY <2>3, <2>4
      <3> QED BY <1>5, <3>1
    <2> QED BY <2>4, <2>5, CellFacts
  <1>6. OffsetOf(f, 0) = 0
    <2>1. 0 \in 0 .. Len(rs) /\ at[0] = 0
      BY <1>1, <1>2 DEF Walk, WalkFrom
    <2> QED BY <1>1, <2>1, OffsetIs
  <1> QED BY <1>2, <1>3, <1>4, <1>5, <1>6, Zenon

\* The iterator, on the file as scan_records finds it.
LEMMA IteratorIs ==
  ASSUME NEW f \in Seq(FileCells), NEW n \in 0 .. Len(ScanRecords(f).records)
  PROVE  Iterate(f, ScanRecords(f).end, n)
           = [records |-> SubSeq(ScanRecords(f).records, n + 1, Len(ScanRecords(f).records)),
              error |-> "none"]
  <1>1. PICK rs, at : Walk(f, rs, at) /\ ScanRecords(f) = [records |-> rs, end |-> at[Len(rs)]]
    BY ScanWalks
  <1>2. rs = ScanRecords(f).records /\ at[Len(rs)] = ScanRecords(f).end
    BY <1>1
  <1>3. Iterate(f, at[Len(rs)], n) = [records |-> SubSeq(rs, n + 1, Len(rs)), error |-> "none"]
    BY <1>1, <1>2, IterateIs, Zenon
  <1> QED BY <1>2, <1>3, Zenon

(* The steps of the log *)

\* The log of a state, as a sequence of records.
LEMMA LogIs ==
  ASSUME file \in Seq(FileCells)
  PROVE  /\ Log \in Seq(LogRecords) /\ Len(Log) \in Nat /\ DOMAIN Log = 1 .. Len(Log)
         /\ Log = ScanRecords(file).records
         /\ \A k \in 1 .. Len(Log) : Log[k] \in LogRecords /\ Log[k].serial \in Nat
  <1>1. Log = ScanRecords(file).records
    BY DEF Log
  <1>2. Log \in Seq(LogRecords) /\ Len(Log) \in Nat
    BY <1>1, ScanFacts
  <1>3. \A k \in 1 .. Len(Log) : Log[k] \in LogRecords
    BY <1>2
  <1> QED BY <1>1, <1>2, <1>3 DEF LogRecords

\* A step that leaves the log alone is one the abstract log allows.
LEMMA LogKept ==
  ASSUME WalInv, Log' = Log, damage' = damage, phase' \notin {"zero", "done"},
         \/ serial' = serial /\ phase # "done"
         \/ serial' = serial + 1 /\ phase # "zero",
         acked' \subseteq acked \cup {Log[k].serial : k \in DOMAIN Log}
  PROVE  SerialInv' /\ AckedInv' /\ [Durable!Next]_(Durable!vars)
  <1>1. /\ Log \in Seq(LogRecords) /\ DOMAIN Log = 1 .. Len(Log) /\ serial \in Nat
        /\ \A k \in DOMAIN Log : Log[k].serial \in Nat
    BY LogIs DEF WalInv, WalTypeOK
  <1>2. SerialInv'
    <2> SUFFICES ASSUME NEW k \in DOMAIN Log PROVE Log[k].serial < serial'
      BY DEF SerialInv
    <2>1. \/ Log[k].serial < serial
          \/ phase = "done" /\ Log[k] = [serial |-> serial, kind |-> kind]
      BY DEF WalInv, SerialInv
    <2>2. Log[k].serial \in Nat /\ serial \in Nat
      BY <1>1
    <2>3. CASE Log[k].serial < serial
      BY <2>2, <2>3
    <2>4. CASE phase = "done" /\ Log[k] = [serial |-> serial, kind |-> kind]
      <3>1. Log[k].serial = serial /\ serial' = serial + 1
        BY <2>4
      <3> QED BY <2>2, <3>1
    <2> QED BY <2>1, <2>3, <2>4, Zenon
  <1>3. AckedInv'
    <2> SUFFICES ASSUME damage = 0, NEW n \in acked' PROVE \E k \in DOMAIN Log : Log[k].serial = n
      BY DEF AckedInv
    <2>1. CASE n \in acked
      BY <2>1, Zenon DEF WalInv, AckedInv
    <2>2. CASE n \in {Log[k].serial : k \in DOMAIN Log}
      BY <2>2
    <2> QED BY <2>1, <2>2, Zenon
  <1>4. [Durable!Next]_(Durable!vars)
    <2>1. CASE serial' = serial /\ phase # "zero"
      BY <2>1 DEF Durable!vars
    <2>2. CASE serial' = serial /\ phase = "zero"
      BY <2>2 DEF Durable!Next, Durable!EndTruncate
    <2>3. CASE serial' = serial + 1 /\ phase # "zero"
      BY <2>3 DEF Durable!Next, Durable!NextCommand
    <2> QED BY <2>1, <2>2, <2>3, Zenon
  <1> QED BY <1>2, <1>3, <1>4, Zenon

\* A step that completes the record of the command under way adds it once.
LEMMA LogAdded ==
  ASSUME WalInv, Log' = Append(Log, [serial |-> serial, kind |-> kind]),
         phase \notin {"zero", "done"}, phase' = "done", UNCHANGED <<serial, kind, acked, damage>>
  PROVE  SerialInv' /\ AckedInv' /\ [Durable!Next]_(Durable!vars)
  <1>1. /\ Log \in Seq(LogRecords) /\ DOMAIN Log = 1 .. Len(Log) /\ serial \in Nat /\ kind \in Kinds
        /\ \A k \in DOMAIN Log : Log[k].serial \in Nat
    BY LogIs, Zenon DEF WalInv, WalTypeOK
  <1>2. PICK r \in LogRecords : r = [serial |-> serial, kind |-> kind] /\ r.serial = serial
    BY <1>1 DEF LogRecords
  <1>3. /\ Log' \in Seq(LogRecords) /\ Len(Log') = Len(Log) + 1 /\ DOMAIN Log' = 1 .. Len(Log')
        /\ Log'[Len(Log')] = r /\ \A k \in 1 .. Len(Log) : Log'[k] = Log[k]
    BY <1>1, <1>2, AppendProperties
  <1>4. \A k \in DOMAIN Log : Log[k].serial < serial
    BY Zenon DEF WalInv, SerialInv
  <1>5. SerialInv'
    <2> SUFFICES ASSUME NEW k \in DOMAIN Log', k # Len(Log') PROVE Log'[k].serial < serial
      BY <1>2, <1>3, Zenon DEF SerialInv
    <2>1. k \in DOMAIN Log
      BY <1>1, <1>3, SMTT(30)
    <2> QED BY <1>1, <1>3, <1>4, <2>1, Zenon
  <1>6. AckedInv'
    <2> SUFFICES ASSUME damage = 0, NEW n \in acked PROVE \E k \in DOMAIN Log' : Log'[k].serial = n
      BY DEF AckedInv
    <2>1. PICK k \in DOMAIN Log : Log[k].serial = n
      BY Zenon DEF WalInv, AckedInv
    <2>2. k \in DOMAIN Log' /\ Log'[k] = Log[k]
      BY <1>1, <1>3, <2>1
    <2> QED BY <2>1, <2>2, Zenon
  <1>7. serial \notin Durable!Serials
    BY <1>1, <1>4 DEF Durable!Serials
  <1>8. Durable!Add
    BY <1>1, <1>7 DEF Durable!Add
  <1> QED BY <1>5, <1>6, <1>8, Zenon DEF Durable!Next

\* What every step of the log keeps, and what it is for the abstract log.
WalStep == WalInv' /\ [Durable!Next]_(Durable!vars)

\* open_with_size: the file grows to the smallest mapping, zeros at its end.
LEMMA OpenExtendStep == ASSUME WalInv, OpenExtend PROVE WalStep
  <1>1. /\ file \in Seq(FileCells) /\ Len(file) \in Nat /\ phase = "closed" /\ phase' = "scan"
        /\ UNCHANGED <<write_pos, record_count, kind, serial, acked, cut, truncated, damage>>
        /\ write_pos = 0
    BY DEF OpenExtend, cutVars, WalInv, WalTypeOK, FieldsInv
  <1>2. mapped_size' \in Nat /\ Len(file) <= mapped_size' /\ file' = SetLen(file, mapped_size')
    BY <1>1, WalAssumption DEF OpenExtend
  <1>3. file' \in Seq(FileCells) /\ Len(file') = mapped_size'
    BY <1>1, <1>2, SetLenIs, Zenon
  <1>4. ScanRecords(file') = ScanRecords(file)
    <2>1. ScanRecords(file).end \in 0 .. Len(file)
      BY <1>1, ScanFacts
    <2>2. ScanRecords(file).end <= mapped_size'
      BY <1>1, <1>2, <2>1
    <2> QED BY <1>1, <1>2, <2>2, SetLenKeeps, Zenon
  <1>5. WalTypeOK'
    BY <1>1, <1>2, <1>3, Zenon DEF WalInv, WalTypeOK
  <1>6. FieldsInv' /\ ScanInv' /\ TailInv'
    BY <1>1, <1>3, Zenon DEF FieldsInv, ScanInv, TailInv
  <1>7. SerialInv' /\ AckedInv' /\ [Durable!Next]_(Durable!vars)
    BY <1>1, <1>4, LogKept, Zenon DEF Log
  <1> QED BY <1>5, <1>6, <1>7, Zenon DEF WalStep, WalInv

\* open_with_size: the file is cut where scan_records ended.
LEMMA OpenTruncateStep == ASSUME WalInv, OpenTruncate PROVE WalStep
  <1>1. /\ file \in Seq(FileCells) /\ Len(file) \in Nat /\ phase = "scan" /\ phase' = "remap"
        /\ UNCHANGED <<mapped_size, kind, serial, acked, cut, truncated, damage>>
        /\ mapped_size = Len(file)
        /\ write_pos' = ScanRecords(file).end /\ record_count' = Len(Log)
        /\ file' = SetLen(file, write_pos')
    BY DEF OpenTruncate, cutVars, WalInv, WalTypeOK, FieldsInv, Log
  <1>2. write_pos' \in Nat /\ write_pos' <= mapped_size /\ record_count' \in Nat
    BY <1>1, ScanFacts, LogIs
  <1>3. file' \in Seq(FileCells) /\ Len(file') = write_pos'
    BY <1>1, <1>2, SetLenIs, Zenon
  <1>4. ScanRecords(file') = ScanRecords(file)
    BY <1>1, <1>2, SetLenKeeps
  <1>5. Log' = Log
    BY <1>4 DEF Log
  <1>6. WalTypeOK'
    BY <1>1, <1>2, <1>3, Zenon DEF WalInv, WalTypeOK
  <1>7. FieldsInv' /\ ScanInv' /\ TailInv'
    BY <1>1, <1>2, <1>3, <1>4, <1>5, Zenon DEF FieldsInv, ScanInv, TailInv
  <1>8. SerialInv' /\ AckedInv' /\ [Durable!Next]_(Durable!vars)
    BY <1>1, <1>5, LogKept
  <1> QED BY <1>6, <1>7, <1>8 DEF WalStep, WalInv

\* open_with_size: the file grows to the mapping again, zeros past the log.
LEMMA OpenRemapStep == ASSUME WalInv, OpenRemap PROVE WalStep
  <1>1. /\ file \in Seq(FileCells) /\ phase = "remap" /\ phase' = "open"
        /\ UNCHANGED <<mapped_size, write_pos, record_count, kind, serial, acked, cut, truncated, damage>>
        /\ file' = SetLen(file, mapped_size)
        /\ Len(file) = write_pos /\ write_pos <= mapped_size
        /\ write_pos = ScanRecords(file).end /\ record_count = Len(Log)
        /\ mapped_size \in Nat /\ write_pos \in Nat
    BY DEF OpenRemap, walVars, cutVars, WalInv, WalTypeOK, FieldsInv, ScanInv
  <1>2. /\ file' \in Seq(FileCells) /\ Len(file') = mapped_size
        /\ \A i \in 1 .. mapped_size : file'[i] = IF i <= Len(file) THEN file[i] ELSE Zero
    BY <1>1, SetLenIs, Zenon
  <1>3. ScanRecords(file') = ScanRecords(file)
    BY <1>1, SetLenKeeps, Zenon
  <1>4. Log' = Log
    BY <1>3 DEF Log
  <1>5. WalTypeOK'
    BY <1>1, <1>2, Zenon DEF WalInv, WalTypeOK
  <1>6. FieldsInv' /\ ScanInv'
    BY <1>1, <1>2, <1>3, <1>4 DEF FieldsInv, ScanInv
  <1>7. TailInv'
    <2> SUFFICES ASSUME NEW i \in DOMAIN file', i > write_pos PROVE file'[i] = Zero
      BY <1>1, Zenon DEF TailInv, Pending
    <2>1. i \in 1 .. mapped_size /\ ~ (i <= Len(file))
      BY <1>1, <1>2, SMTT(30)
    <2> QED BY <1>2, <2>1
  <1>8. SerialInv' /\ AckedInv' /\ [Durable!Next]_(Durable!vars)
    BY <1>1, <1>4, LogKept, Zenon
  <1> QED BY <1>5, <1>6, <1>7, <1>8, Zenon DEF WalStep, WalInv

\* What the invariant says of an open log.
OpenLog(f) ==
  /\ f \in Seq(FileCells) /\ mapped_size <= Len(f) /\ write_pos <= mapped_size
  /\ write_pos = ScanRecords(f).end /\ record_count = Len(ScanRecords(f).records)
  /\ \A i \in 1 .. Len(f) : i > write_pos => f[i] = Zero

\* The invariant gives that log.
LEMMA OpenLogIs == ASSUME WalInv, phase = "open" PROVE OpenLog(file)
  <1>1. file \in Seq(FileCells) /\ DOMAIN file = 1 .. Len(file)
    BY DEF WalInv, WalTypeOK
  <1>2. \A i \in DOMAIN file : i > write_pos => file[i] = Zero
    BY DEF WalInv, TailInv, Pending
  <1> QED BY <1>1, <1>2, Zenon DEF OpenLog, WalInv, FieldsInv, ScanInv, Log

\* ensure_capacity resizes the file without a change to the log.
LEMMA Resized ==
  ASSUME WalInv, phase = "open", NEW k \in Kinds, Needs(k) > mapped_size
  PROVE  /\ NewSize(k) \in Nat /\ mapped_size <= NewSize(k) /\ Needs(k) <= NewSize(k)
         /\ OpenLog(SetLen(file, NewSize(k))) /\ Len(SetLen(file, NewSize(k))) = NewSize(k)
         /\ ScanRecords(SetLen(file, NewSize(k))) = ScanRecords(file)
  <1>1. OpenLog(file) /\ mapped_size \in Nat /\ write_pos \in Nat /\ Cells(k) \in {1, 2}
    BY OpenLogIs, CellFacts DEF WalInv, WalTypeOK
  <1>2. PICK n \in Nat : n = NewSize(k) /\ mapped_size <= n /\ Needs(k) <= n
    BY <1>1 DEF NewSize, Needs
  <1>3. /\ file \in Seq(FileCells) /\ Len(file) \in Nat
        /\ write_pos <= mapped_size /\ write_pos = ScanRecords(file).end
        /\ record_count = Len(ScanRecords(file).records)
        /\ \A i \in 1 .. Len(file) : i > write_pos => file[i] = Zero
    BY <1>1 DEF OpenLog
  <1>4. PICK g \in Seq(FileCells) :
          /\ g = SetLen(file, n) /\ Len(g) = n
          /\ \A i \in 1 .. n : g[i] = IF i <= Len(file) THEN file[i] ELSE Zero
    BY <1>3, SetLenIs, Zenon
  <1>5. ScanRecords(g) = ScanRecords(file)
    <2>1. ScanRecords(file).end <= n
      BY <1>1, <1>2, <1>3
    <2> QED BY <1>3, <1>4, <2>1, SetLenKeeps, Zenon
  <1>6. ASSUME NEW i \in 1 .. Len(g), i > write_pos PROVE g[i] = Zero
    <2>1. CASE i <= Len(file)
      BY <1>3, <1>4, <1>6, <2>1
    <2>2. CASE ~ (i <= Len(file))
      BY <1>4, <2>2, Zenon
    <2> QED BY <2>1, <2>2, Zenon
  <1>7. OpenLog(g)
    BY <1>2, <1>3, <1>4, <1>5, <1>6, Zenon DEF OpenLog
  <1> QED BY <1>2, <1>4, <1>5, <1>7, Zenon

\* append: ensure_capacity has made room for the record.
LEMMA AppendBeginStep == ASSUME WalInv, NEW k \in Kinds, AppendBegin(k) PROVE WalStep
  <1>1. /\ phase = "open" /\ phase' = "length" /\ kind' = k
        /\ UNCHANGED <<write_pos, record_count, serial, acked, cut, truncated, damage>>
        /\ write_pos \in Nat /\ mapped_size \in Nat
    BY DEF AppendBegin, cutVars, WalInv, WalTypeOK
  <1>2. /\ file' \in Seq(FileCells) /\ mapped_size' \in Nat /\ mapped_size' <= Len(file')
        /\ write_pos <= mapped_size' /\ Needs(k) <= mapped_size'
        /\ \A i \in 1 .. Len(file') : i > write_pos => file'[i] = Zero
        /\ ScanRecords(file') = ScanRecords(file)
        /\ write_pos = ScanRecords(file).end /\ record_count = Len(ScanRecords(file).records)
    <2>1. OpenLog(file)
      BY <1>1, OpenLogIs
    <2>2. CASE Needs(k) <= mapped_size
      <3>1. UNCHANGED <<file, mapped_size>>
        BY <2>2, Zenon DEF AppendBegin
      <3> QED BY <1>1, <2>1, <2>2, <3>1, Zenon DEF OpenLog
    <2>3. CASE ~ (Needs(k) <= mapped_size)
      <3>1. mapped_size' = NewSize(k) /\ file' = SetLen(file, NewSize(k))
        BY <2>3 DEF AppendBegin
      <3>2. Needs(k) > mapped_size
        BY <1>1, <2>3, CellFacts DEF Needs
      <3>3. /\ NewSize(k) \in Nat /\ mapped_size <= NewSize(k) /\ Needs(k) <= NewSize(k)
            /\ OpenLog(SetLen(file, NewSize(k))) /\ Len(SetLen(file, NewSize(k))) = NewSize(k)
            /\ ScanRecords(SetLen(file, NewSize(k))) = ScanRecords(file)
        BY <1>1, <3>2, Resized
      <3> QED BY <1>1, <2>1, <3>1, <3>3 DEF OpenLog
    <2> QED BY <2>2, <2>3
  <1>3. Log' = Log
    BY <1>2 DEF Log
  <1>4. WalTypeOK'
    BY <1>1, <1>2, Zenon DEF WalInv, WalTypeOK
  <1>5. FieldsInv'
    BY <1>1, <1>2, Zenon DEF FieldsInv, Needs
  <1>6. ScanInv'
    BY <1>1, <1>2, <1>3 DEF ScanInv, Log
  <1>7. TailInv'
    BY <1>1, <1>2, SMTT(30) DEF TailInv, Pending
  <1>8. SerialInv' /\ AckedInv' /\ [Durable!Next]_(Durable!vars)
    BY <1>1, <1>3, LogKept, Zenon
  <1> QED BY <1>4, <1>5, <1>6, <1>7, <1>8, Zenon DEF WalStep, WalInv

\* append: ensure_capacity fails, with the file resized or not.
LEMMA AppendFailsStep == ASSUME WalInv, NEW k \in Kinds, AppendFails(k) PROVE WalStep
  <1>1. /\ phase = "open" /\ phase' = "open" /\ Needs(k) > mapped_size /\ serial' = serial + 1
        /\ UNCHANGED <<mapped_size, write_pos, record_count, kind, acked, cut, truncated, damage>>
        /\ write_pos \in Nat /\ mapped_size \in Nat /\ serial \in Nat
    BY DEF AppendFails, walVars, cutVars, WalInv, WalTypeOK
  <1>2. OpenLog(file') /\ ScanRecords(file') = ScanRecords(file)
    <2>1. CASE file' = file
      BY <1>1, <2>1, OpenLogIs, Zenon
    <2>2. CASE file' = SetLen(file, NewSize(k))
      BY <1>1, <2>2, Resized
    <2> QED BY <2>1, <2>2 DEF AppendFails
  <1>3. Log' = Log
    BY <1>2 DEF Log
  <1>4. /\ file' \in Seq(FileCells) /\ mapped_size <= Len(file') /\ write_pos <= mapped_size
        /\ write_pos = ScanRecords(file').end /\ record_count = Len(ScanRecords(file').records)
        /\ \A i \in 1 .. Len(file') : i > write_pos => file'[i] = Zero
    BY <1>2 DEF OpenLog
  <1>5. WalTypeOK'
    BY <1>1, <1>4 DEF WalInv, WalTypeOK
  <1>6. FieldsInv'
    BY <1>1, <1>4, Zenon DEF FieldsInv
  <1>7. ScanInv'
    BY <1>1, <1>4 DEF ScanInv, Log
  <1>8. TailInv'
    BY <1>1, <1>4, SMTT(30) DEF TailInv, Pending
  <1>9. SerialInv' /\ AckedInv' /\ [Durable!Next]_(Durable!vars)
    BY <1>1, <1>3, LogKept, Zenon
  <1> QED BY <1>5, <1>6, <1>7, <1>8, <1>9, SMTT(30) DEF WalStep, WalInv

\* The phases in which append writes a record.
Writing == {"length", "crc", "payload", "rest"}

\* The log then ends at write_pos, and there is room for the record.
LEMMA WritingIs ==
  ASSUME WalInv, phase \in Writing
  PROVE  /\ file \in Seq(FileCells) /\ Len(file) \in Nat /\ DOMAIN file = 1 .. Len(file)
         /\ mapped_size \in Nat /\ write_pos \in Nat /\ serial \in Nat /\ kind \in Kinds
         /\ mapped_size <= Len(file) /\ write_pos + Cells(kind) <= mapped_size
         /\ write_pos < Len(file) /\ Cells(kind) \in {1, 2} /\ (Cells(kind) = 2 <=> kind = "new")
         /\ write_pos = ScanRecords(file).end /\ record_count = Len(Log)
         /\ \A i \in 1 .. Len(file) : i > write_pos + 1 => file[i] = Zero
         /\ (phase = "rest" => kind = "new" /\ file[write_pos + 1] = Header(kind, serial, "payload"))
  <1>1. /\ file \in Seq(FileCells) /\ Len(file) \in Nat /\ DOMAIN file = 1 .. Len(file)
        /\ mapped_size \in Nat /\ write_pos \in Nat /\ serial \in Nat /\ kind \in Kinds
    BY DEF WalInv, WalTypeOK
  <1>2. Cells(kind) \in {1, 2} /\ (Cells(kind) = 2 <=> kind = "new")
    BY <1>1, CellFacts
  <1>3. /\ mapped_size <= Len(file) /\ write_pos + Cells(kind) <= mapped_size
        /\ (phase = "rest" => kind = "new")
    BY DEF Writing, WalInv, FieldsInv, Needs
  <1>4. write_pos < Len(file)
    BY <1>1, <1>2, <1>3
  <1>5. write_pos = ScanRecords(file).end /\ record_count = Len(Log)
    BY DEF Writing, WalInv, ScanInv
  <1>6. \A i \in DOMAIN file : i > write_pos => file[i] = Pending(i)
    BY DEF Writing, WalInv, TailInv
  <1>7. ASSUME NEW i \in 1 .. Len(file), i > write_pos + 1 PROVE file[i] = Zero
    BY <1>1, <1>6, <1>7 DEF Pending
  <1>8. phase = "rest" => file[write_pos + 1] = Header(kind, serial, "payload")
    <2>1. write_pos + 1 \in DOMAIN file /\ write_pos + 1 > write_pos
      BY <1>1, <1>4
    <2> QED BY <1>6, <2>1 DEF Pending
  <1> QED BY <1>1, <1>2, <1>3, <1>4, <1>5, <1>7, <1>8, Zenon

\* The stores of append that leave the record incomplete.
LEMMA HeaderStep ==
  ASSUME WalInv, NEW stage \in {"length", "crc", "payload"}, NEW nxt \in {"crc", "payload", "rest"},
         WriteHeader(stage, nxt),
         nxt = (IF stage = "length" THEN "crc" ELSE IF stage = "crc" THEN "payload" ELSE "rest"),
         stage = "payload" => kind = "new"
  PROVE  WalStep
  <1>1. /\ phase = stage /\ phase' = nxt /\ phase \in Writing /\ phase' \in Writing
        /\ UNCHANGED <<mapped_size, write_pos, record_count, kind, serial, acked, cut, truncated, damage>>
        /\ file' = Write(file, write_pos, Header(kind, serial, stage))
    BY Zenon DEF WriteHeader, walVars, cutVars, Writing
  <1>2. /\ file \in Seq(FileCells) /\ Len(file) \in Nat /\ DOMAIN file = 1 .. Len(file)
        /\ mapped_size \in Nat /\ write_pos \in Nat /\ serial \in Nat /\ kind \in Kinds
        /\ mapped_size <= Len(file) /\ write_pos + Cells(kind) <= mapped_size
        /\ write_pos < Len(file) /\ Cells(kind) \in {1, 2}
        /\ write_pos = ScanRecords(file).end /\ record_count = Len(Log)
        /\ \A i \in 1 .. Len(file) : i > write_pos + 1 => file[i] = Zero
    BY <1>1, WritingIs, Zenon
  <1>3. PICK c \in FileCells : c = Header(kind, serial, stage)
    BY <1>2, CellFacts, Zenon
  <1>4. /\ file' \in Seq(FileCells) /\ Len(file') = Len(file) /\ DOMAIN file' = 1 .. Len(file)
        /\ \A i \in 1 .. Len(file) : file'[i] = IF i = write_pos + 1 THEN c ELSE file[i]
    <2>1. Stored(file, write_pos, c, Write(file, write_pos, c))
      BY <1>2, WriteIs, Zenon
    <2>2. file' = Write(file, write_pos, c)
      BY <1>1, <1>3
    <2>3. Stored(file, write_pos, c, file')
      BY <2>1, <2>2, Zenon
    <2>4. DOMAIN file' = 1 .. Len(file')
      BY <2>3 DEF Stored
    <2> QED BY <2>3, <2>4, Zenon DEF Stored
  <1>5. ScanRecords(file') = ScanRecords(file)
    <2>1. \A i \in 1 .. Len(file) : i = write_pos + 2 => file[i] = Zero
      BY <1>2
    <2> QED BY <1>1, <1>2, <2>1, HeaderKeeps, SMTT(30)
  <1>6. Log' = Log
    BY <1>5 DEF Log
  <1>7. WalTypeOK'
    BY <1>1, <1>2, <1>4, ZenonT(30) DEF WalInv, WalTypeOK
  <1>8. FieldsInv'
    BY <1>1, <1>2, <1>4, SMTT(30) DEF FieldsInv, Needs
  <1>9. ScanInv'
    BY <1>1, <1>2, <1>5, <1>6, Zenon DEF ScanInv
  <1>10. TailInv'
    <2> SUFFICES ASSUME NEW i \in 1 .. Len(file), i > write_pos
                 PROVE  file'[i] = IF i = write_pos + 1 THEN c ELSE Zero
      BY <1>1, <1>3, <1>4, Zenon DEF TailInv, Pending, Writing
    <2>1. CASE i = write_pos + 1
      BY <1>4, <2>1, Zenon
    <2>2. CASE i # write_pos + 1
      BY <1>2, <1>4, <2>2
    <2> QED BY <2>1, <2>2
  <1>11. SerialInv' /\ AckedInv' /\ [Durable!Next]_(Durable!vars)
    BY <1>1, <1>6, LogKept, Zenon DEF Writing
  <1> QED BY <1>7, <1>8, <1>9, <1>10, <1>11, Zenon DEF WalStep, WalInv

\* The store of append that completes the record.
LEMMA CompleteStep ==
  ASSUME WalInv, phase \in Writing, phase' = "done",
         UNCHANGED <<mapped_size, write_pos, record_count, kind, serial, acked, cut, truncated, damage>>,
         file' \in Seq(FileCells), Len(file') = Len(file),
         \A i \in 1 .. write_pos : file'[i] = file[i],
         file'[write_pos + 1] = Header(kind, serial, "payload"),
         kind = "new" => file'[write_pos + 2] = Rest(serial),
         \A i \in 1 .. Len(file) : i > write_pos + Cells(kind) => file'[i] = Zero
  PROVE  WalStep
  <1>2. /\ file \in Seq(FileCells) /\ Len(file) \in Nat
        /\ mapped_size \in Nat /\ write_pos \in Nat /\ serial \in Nat /\ kind \in Kinds
        /\ mapped_size <= Len(file) /\ write_pos + Cells(kind) <= mapped_size
        /\ write_pos < Len(file) /\ Cells(kind) \in {1, 2}
        /\ write_pos = ScanRecords(file).end /\ record_count = Len(Log)
    BY WritingIs, ZenonT(30)
  <1>3. ScanRecords(file') = [records |-> Append(ScanRecords(file).records, [serial |-> serial, kind |-> kind]),
                              end |-> write_pos + Cells(kind)]
    <2>1. write_pos + Cells(kind) <= Len(file')
      BY <1>2
    <2>2. Completed(file, write_pos, file', kind, serial)
      BY <1>2, <2>1, Zenon DEF Completed
    <2> QED BY <1>2, <2>2, LogGrows, SMTT(30)
  <1>4. Log' = Append(Log, [serial |-> serial, kind |-> kind]) /\ ScanRecords(file').end = Needs(kind)
    BY <1>3 DEF Log, Needs
  <1>5. WalTypeOK'
    BY <1>2, Zenon DEF WalInv, WalTypeOK
  <1>6. FieldsInv'
    BY <1>2, SMTT(30) DEF FieldsInv, Needs
  <1>7. ScanInv'
    <2>1. Log \in Seq(LogRecords) /\ [serial |-> serial, kind |-> kind] \in LogRecords
      BY <1>2, LogIs, Zenon DEF LogRecords
    <2>2. Len(Log') = Len(Log) + 1
      BY <1>4, <2>1, AppendProperties
    <2> QED BY <1>2, <1>4, <2>2, Zenon DEF ScanInv, Needs
  <1>8. TailInv'
    <2>1. DOMAIN file' = 1 .. Len(file)
      OBVIOUS
    <2> QED BY <2>1, Zenon DEF TailInv, Needs
  <1>9. SerialInv' /\ AckedInv' /\ [Durable!Next]_(Durable!vars)
    BY <1>4, LogAdded, Zenon DEF Writing
  <1> QED BY <1>5, <1>6, <1>7, <1>8, <1>9, Zenon DEF WalStep, WalInv

\* append: the length.
LEMMA WriteLengthStep == ASSUME WalInv, WriteLength PROVE WalStep
  BY HeaderStep DEF WriteLength

\* append: the checksum, written over the header.
LEMMA WriteCrcStep == ASSUME WalInv, WriteCrc PROVE WalStep
  BY HeaderStep DEF WriteCrc

\* append: the payload, all of it for a cancel and its first cell for an order.
LEMMA WritePayloadStep == ASSUME WalInv, WritePayload PROVE WalStep
  <1>1. CASE kind = "new"
    BY <1>1, HeaderStep, Zenon DEF WritePayload
  <1>2. CASE kind # "new"
    <2>1. /\ phase = "payload" /\ phase \in Writing /\ phase' = "done"
          /\ UNCHANGED <<mapped_size, write_pos, record_count, kind, serial, acked, cut, truncated, damage>>
          /\ file' = Write(file, write_pos, Header(kind, serial, "payload"))
      BY <1>2, Zenon DEF WritePayload, WriteHeader, walVars, cutVars, Writing
    <2>2. /\ file \in Seq(FileCells) /\ Len(file) \in Nat
          /\ write_pos \in Nat /\ serial \in Nat /\ kind \in Kinds
          /\ write_pos < Len(file) /\ Cells(kind) \in {1, 2} /\ (Cells(kind) = 2 <=> kind = "new")
          /\ \A i \in 1 .. Len(file) : i > write_pos + 1 => file[i] = Zero
      BY <2>1, WritingIs, Zenon
    <2>3. PICK c \in FileCells : c = Header(kind, serial, "payload")
      BY <2>2, CellFacts, Zenon
    <2>4. Stored(file, write_pos, c, Write(file, write_pos, c))
      BY <2>2, WriteIs, Zenon
    <2>5. /\ file' \in Seq(FileCells) /\ Len(file') = Len(file)
          /\ \A i \in 1 .. Len(file) : file'[i] = IF i = write_pos + 1 THEN c ELSE file[i]
      BY <2>1, <2>3, <2>4, Zenon DEF Stored
    <2>6. /\ \A i \in 1 .. write_pos : file'[i] = file[i]
          /\ file'[write_pos + 1] = Header(kind, serial, "payload")
          /\ \A i \in 1 .. Len(file) : i > write_pos + Cells(kind) => file'[i] = Zero
      BY <1>2, <2>2, <2>3, <2>5, SMTT(30)
    <2> QED BY <1>2, <2>1, <2>5, <2>6, CompleteStep, Zenon
  <1> QED BY <1>1, <1>2

\* append: the second cell of an order's payload.
LEMMA WriteRestStep == ASSUME WalInv, WriteRest PROVE WalStep
  <1>1. /\ phase = "rest" /\ phase \in Writing /\ phase' = "done"
        /\ UNCHANGED <<mapped_size, write_pos, record_count, kind, serial, acked, cut, truncated, damage>>
        /\ file' = Write(file, write_pos + 1, Rest(serial))
    BY Zenon DEF WriteRest, walVars, cutVars, Writing
  <1>2. /\ file \in Seq(FileCells) /\ Len(file) \in Nat
        /\ write_pos \in Nat /\ serial \in Nat /\ kind = "new" /\ Cells(kind) = 2
        /\ mapped_size \in Nat /\ mapped_size <= Len(file) /\ write_pos + Cells(kind) <= mapped_size
        /\ \A i \in 1 .. Len(file) : i > write_pos + 1 => file[i] = Zero
        /\ file[write_pos + 1] = Header(kind, serial, "payload")
    BY <1>1, WritingIs, Zenon
  <1>3. PICK c \in FileCells : c = Rest(serial)
    BY <1>2, CellFacts, Zenon
  <1>4. PICK p \in Nat : p = write_pos + 1 /\ p < Len(file) /\ p + 1 = write_pos + 2
    BY <1>2
  <1>5. Stored(file, p, c, Write(file, p, c))
    <2>1. file \in Seq(FileCells) /\ p \in Nat /\ p < Len(file) /\ c \in FileCells
      BY <1>2, <1>3, <1>4, Zenon
    <2> QED BY <2>1, WriteIs, Zenon
  <1>6. /\ file' \in Seq(FileCells) /\ Len(file') = Len(file)
        /\ \A i \in 1 .. Len(file) : file'[i] = IF i = write_pos + 2 THEN c ELSE file[i]
    <2>1. file' = Write(file, p, c)
      BY <1>1, <1>3, <1>4, Zenon
    <2>2. Stored(file, p, c, file')
      BY <1>5, <2>1, Zenon
    <2> QED BY <1>4, <2>2, Zenon DEF Stored
  <1>7. /\ \A i \in 1 .. write_pos : file'[i] = file[i]
        /\ file'[write_pos + 1] = Header(kind, serial, "payload")
        /\ file'[write_pos + 2] = Rest(serial)
        /\ \A i \in 1 .. Len(file) : i > write_pos + Cells(kind) => file'[i] = Zero
    BY <1>2, <1>3, <1>6, SMTT(30)
  <1> QED BY <1>1, <1>6, <1>7, CompleteStep, Zenon

\* append returns Ok: the fields move past the record.
LEMMA AppendReturnsStep == ASSUME WalInv, AppendReturns PROVE WalStep
  <1>1. /\ phase = "done" /\ phase' = "open" /\ serial' = serial + 1
        /\ write_pos' = write_pos + Cells(kind) /\ record_count' = record_count + 1
        /\ acked' = acked \cup {serial}
        /\ UNCHANGED <<file, mapped_size, kind, cut, truncated, damage>>
    BY DEF AppendReturns, cutVars, Needs
  <1>2. /\ file \in Seq(FileCells) /\ DOMAIN file = 1 .. Len(file) /\ Len(file) \in Nat
        /\ write_pos \in Nat /\ record_count \in Nat /\ serial \in Nat /\ mapped_size \in Nat
        /\ kind \in Kinds /\ Cells(kind) \in {1, 2}
    BY CellFacts DEF WalInv, WalTypeOK
  <1>3. /\ write_pos + Cells(kind) <= mapped_size /\ mapped_size <= Len(file)
        /\ write_pos + Cells(kind) = ScanRecords(file).end /\ record_count + 1 = Len(Log)
        /\ \A i \in DOMAIN file : i > write_pos + Cells(kind) => file[i] = Zero
    BY <1>1 DEF WalInv, FieldsInv, ScanInv, TailInv, Needs
  <1>4. Log' = Log
    BY <1>1, Zenon DEF Log
  <1>5. WalTypeOK'
    BY <1>1, <1>2 DEF WalInv, WalTypeOK
  <1>6. FieldsInv' /\ ScanInv' /\ TailInv'
    BY <1>1, <1>3, <1>4, Zenon DEF FieldsInv, ScanInv, TailInv, Pending
  <1>7. serial \in {Log[k].serial : k \in DOMAIN Log}
    <2>1. Len(Log) \in DOMAIN Log /\ DOMAIN Log = 1 .. Len(Log) /\ Len(Log) \in Nat
      BY <1>2, <1>3, LogIs, SMTT(30)
    <2>2. Log[Len(Log)].serial = serial
      BY <1>1 DEF WalInv, SerialInv
    <2> QED BY <2>1, <2>2, ZenonT(30)
  <1>8. SerialInv' /\ AckedInv' /\ [Durable!Next]_(Durable!vars)
    BY <1>1, <1>4, <1>7, LogKept, Zenon
  <1> QED BY <1>5, <1>6, <1>8 DEF WalStep, WalInv

\* truncate_to: the offset of the records to keep.
LEMMA TruncateBeginStep == ASSUME WalInv, NEW n \in 0 .. record_count - 1, TruncateBegin(n) PROVE WalStep
  <1>1. /\ phase = "open" /\ phase' = "zero"
        /\ cut' = [offset |-> OffsetOf(file, n), record_count |-> n]
        /\ acked' = {ScanRecords(file).records[k].serial : k \in 1 .. n} \cap acked
        /\ UNCHANGED <<file, mapped_size, write_pos, record_count, kind, serial, damage>>
    BY Zenon DEF TruncateBegin, walVars
  <1>2. /\ file \in Seq(FileCells) /\ write_pos \in Nat /\ record_count \in Nat /\ serial \in Nat
        /\ write_pos = ScanRecords(file).end /\ record_count = Len(Log)
        /\ Log = ScanRecords(file).records /\ DOMAIN Log = 1 .. Len(Log)
        /\ \A k \in DOMAIN Log : Log[k].serial < serial
    BY <1>1, LogIs, Zenon DEF WalInv, WalTypeOK, ScanInv, SerialInv
  <1>3. n \in 0 .. Len(Log) /\ n \in Nat
    BY <1>2
  <1>4. OffsetOf(file, n) \in Nat /\ OffsetOf(file, n) <= write_pos
    BY <1>2, <1>3, CutIs
  <1>5. Log' = Log
    BY <1>1, Zenon DEF Log
  <1>6. WalTypeOK'
    BY <1>1, <1>3, <1>4, Zenon DEF WalInv, WalTypeOK
  <1>7. FieldsInv' /\ TailInv'
    BY <1>1, ZenonT(30) DEF WalInv, FieldsInv, TailInv, Pending
  <1>8. ScanInv'
    BY <1>1, <1>2, <1>3, <1>4, <1>5 DEF ScanInv
  <1>9. SerialInv'
    BY <1>1, <1>2, <1>5, ZenonT(30) DEF SerialInv
  <1>10. AckedInv'
    BY <1>1, <1>2, <1>3, <1>5, SMTT(30) DEF AckedInv
  <1>11. [Durable!Next]_(Durable!vars)
    BY <1>1, <1>5 DEF Durable!Next, Durable!BeginTruncate
  <1> QED BY <1>6, <1>7, <1>8, <1>9, <1>10, <1>11, Zenon DEF WalStep, WalInv

\* truncate_to: a cell of the discarded records is overwritten.
LEMMA ZeroCellStep == ASSUME WalInv, NEW i \in ToZero, ZeroCell(i) PROVE WalStep
  <1>1. /\ phase = "zero" /\ phase' = "zero" /\ file' = [file EXCEPT ![i] = Zero]
        /\ UNCHANGED <<mapped_size, write_pos, record_count, kind, serial, acked, cut, truncated, damage>>
    BY DEF ZeroCell, walVars, cutVars
  <1>2. /\ file \in Seq(FileCells) /\ write_pos \in Nat /\ mapped_size \in Nat /\ Len(file) \in Nat
        /\ cut.offset \in Nat /\ cut.record_count \in Nat
        /\ write_pos <= mapped_size /\ mapped_size <= Len(file)
        /\ cut.record_count <= Len(Log) /\ cut.offset = OffsetOf(file, cut.record_count)
        /\ \A j \in 1 .. Len(file) : j > write_pos => file[j] = Zero
        /\ \A k \in DOMAIN Log : Log[k].serial < serial
    BY <1>1, SMTT(30) DEF WalInv, WalTypeOK, FieldsInv, ScanInv, SerialInv, TailInv, Pending
  <1>3. i \in 1 .. Len(file) /\ i > cut.offset
    BY <1>2, SMTT(30) DEF ToZero
  <1>4. /\ file' \in Seq(FileCells) /\ Len(file') = Len(file)
        /\ \A j \in 1 .. Len(file) : file'[j] = IF j = i THEN Zero ELSE file[j]
    BY <1>1, <1>2, <1>3, ExceptSeq, CellFacts
  <1>5. Len(Log) \in Nat /\ Log = ScanRecords(file).records /\ DOMAIN Log = 1 .. Len(Log)
    BY <1>2, LogIs, ZenonT(30)
  <1>6. PICK m \in 0 .. Len(Log) : m = cut.record_count
    BY <1>2, <1>5
  <1>7. /\ OffsetOf(file', m) = OffsetOf(file, m)
        /\ \E n \in m .. Len(Log) :
             /\ ScanRecords(file').records = SubSeq(Log, 1, n) /\ Len(ScanRecords(file').records) = n
             /\ \A k \in 1 .. n : ScanRecords(file').records[k] = Log[k]
    <2>1. Damaged(file', file)
      BY <1>2, <1>4, SMTT(30) DEF Damaged
    <2>2. OffsetOf(file, m) = cut.offset /\ cut.offset <= Len(file')
      <3>1. cut.offset <= Len(file)
        BY <1>2, <1>3, SMTT(30)
      <3> QED BY <1>2, <1>4, <1>6, <3>1, ZenonT(30)
    <2>3. \A j \in 1 .. OffsetOf(file, m) : file'[j] = file[j]
      BY <1>2, <1>3, <1>4, <2>2
    <2>4. OffsetOf(file, m) <= Len(file')
      BY <2>2, Zenon
    <2> QED BY <1>2, <1>4, <1>5, <2>1, <2>3, <2>4, LogShrinks, ZenonT(30)
  <1>8. PICK n \in m .. Len(Log) : /\ Log' = SubSeq(Log, 1, n) /\ Len(Log') = n
                                   /\ \A k \in 1 .. n : Log'[k] = Log[k]
    BY <1>7, Zenon DEF Log
  <1>9. n \in Nat /\ n <= Len(Log) /\ m <= n /\ DOMAIN Log' = 1 .. n
    <2>1. DOMAIN Log' = 1 .. Len(Log')
      BY <1>4, ScanFacts DEF Log
    <2> QED BY <1>5, <1>6, <1>8, <2>1, SMTT(30)
  <1>10. WalTypeOK'
    BY <1>1, <1>4, Zenon DEF WalInv, WalTypeOK
  <1>11. FieldsInv'
    BY <1>1, <1>2, <1>4, Zenon DEF FieldsInv
  <1>12. ScanInv'
    BY <1>1, <1>2, <1>6, <1>7, <1>8, <1>9, ZenonT(30) DEF WalInv, ScanInv
  <1>13. TailInv'
    BY <1>1, <1>2, <1>4, SMTT(30) DEF TailInv, Pending
  <1>14. SerialInv'
    BY <1>1, <1>2, <1>5, <1>8, <1>9 DEF SerialInv
  <1>15. AckedInv'
    <2> SUFFICES ASSUME damage = 0, NEW a \in acked
                 PROVE  \E k \in DOMAIN Log' : Log'[k].serial = a /\ k <= cut.record_count
      BY <1>1, Zenon DEF AckedInv
    <2>1. PICK k \in DOMAIN Log : Log[k].serial = a /\ k <= cut.record_count
      BY <1>1, Zenon DEF WalInv, AckedInv
    <2>2. k \in 1 .. n
      BY <1>5, <1>6, <1>9, <2>1
    <2> QED BY <1>8, <1>9, <2>1, <2>2, Zenon
  <1>16. [Durable!Next]_(Durable!vars)
    <2>1. n \in 0 .. Len(Log)
      BY <1>9
    <2> QED BY <1>1, <1>8, <2>1, Zenon DEF Durable!Next, Durable!Cut
  <1> QED BY <1>10, <1>11, <1>12, <1>13, <1>14, <1>15, <1>16, ZenonT(30) DEF WalStep, WalInv

\* truncate_to returns: all that follows the cut is zero.
LEMMA TruncateReturnsStep == ASSUME WalInv, TruncateReturns PROVE WalStep
  <1>1. /\ phase = "zero" /\ phase' = "open" /\ ToZero = {}
        /\ write_pos' = cut.offset /\ record_count' = cut.record_count
        /\ UNCHANGED <<file, mapped_size, kind, serial, acked, cut, truncated, damage>>
    BY DEF TruncateReturns, cutVars
  <1>2. /\ file \in Seq(FileCells) /\ write_pos \in Nat /\ mapped_size \in Nat /\ Len(file) \in Nat
        /\ cut.offset \in Nat /\ cut.record_count \in Nat
        /\ write_pos <= mapped_size /\ mapped_size <= Len(file) /\ DOMAIN file = 1 .. Len(file)
        /\ cut.record_count <= Len(Log) /\ cut.offset = OffsetOf(file, cut.record_count)
        /\ cut.offset <= write_pos
        /\ \A j \in 1 .. Len(file) : j > write_pos => file[j] = Zero
    BY <1>1 DEF WalInv, WalTypeOK, FieldsInv, ScanInv, TailInv, Pending
  <1>3. ASSUME NEW j \in 1 .. Len(file), j > cut.offset PROVE file[j] = Zero
    <2>1. CASE j > write_pos
      BY <1>2, <2>1, Zenon
    <2>2. CASE ~ (j > write_pos)
      BY <1>1, <1>2, <1>3, <2>2, SMTT(30) DEF ToZero
    <2> QED BY <2>1, <2>2, Zenon
  <1>4. Len(Log) \in Nat /\ Log = ScanRecords(file).records
    BY <1>2, LogIs, Zenon
  <1>5. PICK m \in 0 .. Len(ScanRecords(file).records) : m = cut.record_count
    BY <1>2, <1>4
  <1>6. ScanRecords(file).end = cut.offset /\ Len(Log) = cut.record_count
    BY <1>2, <1>3, <1>4, <1>5, CutIs, Zenon
  <1>7. Log' = Log
    BY <1>1, Zenon DEF Log
  <1>8. WalTypeOK'
    BY <1>1, <1>2, ZenonT(30) DEF WalInv, WalTypeOK
  <1>9. FieldsInv'
    BY <1>1, <1>2 DEF FieldsInv
  <1>10. ScanInv'
    BY <1>1, <1>6, <1>7, Zenon DEF ScanInv
  <1>11. TailInv'
    BY <1>1, <1>2, <1>3, Zenon DEF TailInv, Pending
  <1>12. SerialInv' /\ AckedInv' /\ [Durable!Next]_(Durable!vars)
    BY <1>1, <1>7, LogKept, Zenon
  <1> QED BY <1>8, <1>9, <1>10, <1>11, <1>12, Zenon DEF WalStep, WalInv

\* The process dies, in a call of Wal or between two.
LEMMA ProcessDiesStep == ASSUME WalInv, ProcessDies PROVE WalStep
  <1>1. /\ phase # "closed" /\ phase' = "closed"
        /\ serial' = IF phase \in {"scan", "remap", "open", "zero"} THEN serial ELSE serial + 1
        /\ mapped_size' = 0 /\ write_pos' = 0 /\ record_count' = 0
        /\ UNCHANGED <<file, kind, acked, cut, truncated, damage>>
    BY DEF ProcessDies, cutVars
  <1>2. Log' = Log
    BY <1>1, Zenon DEF Log
  <1>3. WalTypeOK'
    BY <1>1 DEF WalInv, WalTypeOK
  <1>4. FieldsInv' /\ ScanInv' /\ TailInv'
    BY <1>1, Zenon DEF FieldsInv, ScanInv, TailInv
  <1>5. SerialInv' /\ AckedInv' /\ [Durable!Next]_(Durable!vars)
    BY <1>1, <1>2, LogKept, Zenon
  <1> QED BY <1>3, <1>4, <1>5 DEF WalStep, WalInv

\* The file is damaged while it is closed.
LEMMA CorruptStep == ASSUME WalInv, Corrupt PROVE WalStep
  <1>1. /\ phase = "closed" /\ phase' = "closed" /\ damage' = damage + 1
        /\ UNCHANGED <<mapped_size, write_pos, record_count, kind, serial, acked, cut, truncated>>
        /\ damage \in Nat
    BY Zenon DEF Corrupt, walVars, cutVars, WalInv, WalTypeOK
  <1>2. /\ file \in Seq(FileCells) /\ Len(file) \in Nat /\ DOMAIN file = 1 .. Len(file)
        /\ \A k \in DOMAIN Log : Log[k].serial < serial
    <2>1. WalTypeOK /\ SerialInv
      BY Zenon DEF WalInv
    <2>2. file \in Seq(FileCells)
      BY <2>1, Zenon DEF WalTypeOK
    <2>3. Len(file) \in Nat /\ DOMAIN file = 1 .. Len(file)
      BY <2>2
    <2>4. \A k \in DOMAIN Log : Log[k].serial < serial
      BY <1>1, <2>1, Zenon DEF SerialInv
    <2> QED BY <2>2, <2>3, <2>4, Zenon
  <1>3. file' \in Seq(FileCells) /\ Damaged(file', file)
    <2>1. PICK i \in 1 .. Len(file) : file' = [file EXCEPT ![i] = Garbage] \/ file' = SetLen(file, i - 1)
      BY <1>2, Zenon DEF Corrupt
    <2>2. CASE file' = [file EXCEPT ![i] = Garbage]
      <3>1. /\ file' \in Seq(FileCells) /\ Len(file') = Len(file)
            /\ \A j \in 1 .. Len(file) : file'[j] = IF j = i THEN Garbage ELSE file[j]
        BY <1>2, <2>1, <2>2, ExceptSeq, CellFacts
      <3> QED BY <1>2, <3>1, SMTT(30) DEF Damaged
    <2>3. CASE file' = SetLen(file, i - 1)
      <3>1. PICK n \in Nat : n = i - 1 /\ n <= Len(file)
        BY <1>2, <2>1
      <3>2. /\ SetLen(file, n) \in Seq(FileCells) /\ Len(SetLen(file, n)) = n
            /\ \A j \in 1 .. n : SetLen(file, n)[j] = IF j <= Len(file) THEN file[j] ELSE Zero
        BY <1>2, SetLenIs, Zenon
      <3>3. file' = SetLen(file, n)
        BY <2>3, <3>1, Zenon
      <3> QED BY <1>2, <3>1, <3>2, <3>3, Zenon DEF Damaged
    <2> QED BY <2>1, <2>2, <2>3, Zenon
  <1>4. Len(Log) \in Nat /\ Log = ScanRecords(file).records /\ DOMAIN Log = 1 .. Len(Log)
    BY <1>2, LogIs, Zenon
  <1>5. \E n \in 0 .. Len(Log) :
          /\ ScanRecords(file').records = SubSeq(Log, 1, n) /\ Len(ScanRecords(file').records) = n
          /\ \A k \in 1 .. n : ScanRecords(file').records[k] = Log[k]
    <2>1. PICK m \in 0 .. Len(ScanRecords(file).records) : m = 0
      BY <1>4
    <2>2. OffsetOf(file, m) = 0
      BY <1>2, <2>1, CutIs, Zenon
    <2>3. OffsetOf(file, m) <= Len(file') /\ \A j \in 1 .. OffsetOf(file, m) : file'[j] = file[j]
      BY <1>3, <2>2
    <2> QED BY <1>2, <1>3, <1>4, <2>1, <2>3, LogShrinks, Zenon
  <1>6. PICK n \in 0 .. Len(Log) : /\ Log' = SubSeq(Log, 1, n) /\ Len(Log') = n
                                   /\ \A k \in 1 .. n : Log'[k] = Log[k]
    BY <1>5, Zenon DEF Log
  <1>7. DOMAIN Log' = 1 .. n /\ n \in Nat /\ n <= Len(Log)
    <2>1. DOMAIN Log' = 1 .. Len(Log')
      BY <1>3, ScanFacts DEF Log
    <2>2. DOMAIN Log' = 1 .. n
      BY <1>6, <2>1, Zenon
    <2>3. n \in Nat /\ n <= Len(Log)
      BY <1>4
    <2> QED BY <2>2, <2>3, Zenon
  <1>8. WalTypeOK'
    BY <1>1, <1>3 DEF WalInv, WalTypeOK
  <1>9. FieldsInv' /\ ScanInv' /\ TailInv'
    BY <1>1, ZenonT(30) DEF WalInv, FieldsInv, ScanInv, TailInv
  <1>10. SerialInv'
    BY <1>1, <1>2, <1>4, <1>6, <1>7, SMTT(30) DEF SerialInv
  <1>11. AckedInv'
    BY <1>1 DEF AckedInv
  <1>12. [Durable!Next]_(Durable!vars)
    BY <1>1, <1>6 DEF Durable!Next, Durable!Damage
  <1> QED BY <1>8, <1>9, <1>10, <1>11, <1>12, Zenon DEF WalStep, WalInv

\* Every step keeps the invariant and is one the abstract log allows.
LEMMA WalSteps == WalInv /\ [WalNext]_logVars => WalStep
  <1> SUFFICES ASSUME WalInv, [WalNext]_logVars PROVE WalStep
    OBVIOUS
  <1>1. CASE OpenExtend \/ OpenTruncate \/ OpenRemap
    BY <1>1, OpenExtendStep, OpenTruncateStep, OpenRemapStep, Zenon
  <1>2. CASE \E k \in Kinds : AppendBegin(k) \/ AppendFails(k)
    BY <1>2, AppendBeginStep, AppendFailsStep, Zenon
  <1>3. CASE WriteLength \/ WriteCrc \/ WritePayload \/ WriteRest \/ AppendReturns
    BY <1>3, WriteLengthStep, WriteCrcStep, WritePayloadStep, WriteRestStep, AppendReturnsStep, Zenon
  <1>4. CASE \E n \in 0 .. record_count - 1 : TruncateBegin(n)
    BY <1>4, TruncateBeginStep
  <1>5. CASE \E i \in ToZero : ZeroCell(i)
    BY <1>5, ZeroCellStep, Zenon
  <1>6. CASE TruncateReturns \/ ProcessDies \/ Corrupt
    BY <1>6, TruncateReturnsStep, ProcessDiesStep, CorruptStep
  <1>7. CASE UNCHANGED logVars
    <2>1. UNCHANGED <<file, phase, mapped_size, write_pos, record_count, kind, serial, acked, cut,
                      truncated, damage>>
      BY <1>7 DEF logVars, walVars, cutVars
    <2>2. Log' = Log
      BY <2>1, Zenon DEF Log
    <2>3. WalTypeOK' /\ FieldsInv'
      BY <2>1 DEF WalInv, WalTypeOK, FieldsInv, Needs
    <2>4. ScanInv' /\ TailInv'
      BY <2>1, <2>2, Zenon DEF WalInv, ScanInv, TailInv, Needs, Pending
    <2>5. SerialInv' /\ AckedInv'
      BY <2>1, <2>2, Zenon DEF WalInv, SerialInv, AckedInv
    <2>6. UNCHANGED Durable!vars
      BY <2>1, <2>2 DEF Durable!vars
    <2> QED BY <2>3, <2>4, <2>5, <2>6, Zenon DEF WalStep, WalInv
  <1> QED BY <1>1, <1>2, <1>3, <1>4, <1>5, <1>6, <1>7, Zenon DEF WalNext

\* A new file has an empty log.
LEMMA WalStart == WalInit => WalInv /\ Durable!Init
  <1> SUFFICES ASSUME WalInit PROVE WalInv /\ Durable!Init
    OBVIOUS
  <1>1. file \in Seq(FileCells) /\ Len(file) = 0
    BY DEF WalInit
  <1>2. PICK rs, at : Walk(file, rs, at) /\ ScanRecords(file) = [records |-> rs, end |-> at[Len(rs)]]
    BY <1>1, ScanWalks, Zenon
  <1>3. rs \in Seq(LogRecords) /\ Len(rs) = 0
    <2>1. rs \in Seq(LogRecords) /\ Len(rs) \in Nat
      BY <1>2 DEF Walk, WalkFrom
    <2>2. Len(rs) \in 0 .. Len(rs)
      BY <2>1
    <2>3. at[Len(rs)] \in 0 .. 0 /\ Len(rs) <= at[Len(rs)]
      BY <1>1, <1>2, <2>2, WalkUp, Zenon
    <2> QED BY <2>1, <2>3
  <1>4. Log = << >> /\ DOMAIN Log = {}
    BY <1>2, <1>3 DEF Log
  <1>5. WalTypeOK /\ FieldsInv /\ ScanInv /\ TailInv
    BY <1>1, Zenon DEF WalInit, WalTypeOK, FieldsInv, ScanInv, TailInv, Kinds
  <1>6. SerialInv /\ AckedInv
    BY <1>4 DEF WalInit, SerialInv, AckedInv
  <1>7. Durable!Init
    BY <1>4 DEF WalInit, Durable!Init
  <1> QED BY <1>5, <1>6, <1>7 DEF WalInv

\* The inductive invariant of the write-ahead log.
THEOREM WalInvariant == WalSpec => []WalInv
  BY WalStart, WalSteps, PTL DEF WalSpec, WalStep

\* No access through the mapping faults: it ends within the file, and the log
\* within it, whichever call of append, open or truncate_to is under way.
THEOREM MappingStaysBacked == WalSpec => []MappingBacked
  <1>1. WalInv => MappingBacked
    <2> SUFFICES ASSUME WalInv, phase \notin {"closed", "remap"}
                 PROVE  write_pos <= mapped_size /\ mapped_size <= Len(file)
      BY DEF MappingBacked
    <2>1. CASE phase = "scan"
      BY <2>1 DEF WalInv, WalTypeOK, FieldsInv
    <2>2. CASE phase # "scan"
      BY <2>2, Zenon DEF WalInv, FieldsInv
    <2> QED BY <2>1, <2>2
  <1> QED BY <1>1, WalInvariant, PTL

\* The module invariant of open_with_size: past the log of an open file there
\* are zeros, so that no record of an earlier run becomes readable again.
THEOREM ZerosBeyondEnd == WalSpec => []ZeroBeyondEnd
  <1>1. WalInv => ZeroBeyondEnd
    BY DEF WalInv, TailInv, Pending, ZeroBeyondEnd
  <1> QED BY <1>1, WalInvariant, PTL

\* Of an open log the iterator yields what the scan of open found, from any
\* record on and without an error, and the fields of Wal describe it.
THEOREM IteratorMatchesScan == WalSpec => []IteratorAgrees
  <1>1. WalInv => IteratorAgrees
    <2> SUFFICES ASSUME WalInv, phase = "open" PROVE IteratorAgrees
      BY DEF IteratorAgrees
    <2>1. /\ file \in Seq(FileCells) /\ write_pos = ScanRecords(file).end
          /\ record_count = Len(ScanRecords(file).records)
      BY Zenon DEF WalInv, WalTypeOK, ScanInv, Log
    <2>2. \A n \in 0 .. record_count :
            Iterate(file, write_pos, n) =
              [records |-> SubSeq(ScanRecords(file).records, n + 1, record_count), error |-> "none"]
      BY <2>1, IteratorIs, Zenon
    <2> QED BY <2>1, <2>2, Zenon DEF IteratorAgrees
  <1> QED BY <1>1, WalInvariant, PTL

\* A command whose append has returned is recovered, wherever the process dies.
THEOREM AckedAlwaysSurvive == WalSpec => []AckedSurvives
  <1>1. WalInv => AckedSurvives
    BY DEF WalInv, AckedInv, AckedSurvives
  <1> QED BY <1>1, WalInvariant, PTL

\* The log implements the durable log: what a recovery would read changes only
\* by the command being appended, added once and at the end, and by a
\* truncation or damage, which leave a prefix.
THEOREM WalRefines == WalSpec => ImplementsDurableLog
  <1>1. WalInit => Durable!Init
    BY WalStart
  <1>2. WalInv /\ [WalNext]_logVars => [Durable!Next]_(Durable!vars)
    BY WalSteps DEF WalStep
  <1> QED BY <1>1, <1>2, WalInvariant, PTL DEF WalSpec, ImplementsDurableLog, Durable!Spec
=============================================================================
