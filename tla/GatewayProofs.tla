---------------------------- MODULE GatewayProofs ----------------------------
(***************************************************************************)
(* Proofs about Ring for every capacity, cursor width, value set and both  *)
(* builds of the cursor cache, and about the two threads of Gateway that   *)
(* share the ring, for every number of commands and every set of them that *)
(* panic.                                                                  *)
(***************************************************************************)
EXTENDS Gateway, SequenceTheorems, TLAPS

-----------------------------------------------------------------------------
(* Wrapping arithmetic *)

\* A remainder is in range, and the remainder of a number within one modulus
\* of the range 0 .. m-1 is a subtraction, nothing or an addition away.
LEMMA ModCases ==
  ASSUME NEW m \in Nat \ {0}, NEW x \in Int
  PROVE  /\ x % m \in 0 .. m - 1
         /\ x \in 0 .. m - 1 => x % m = x
         /\ x \in m .. 2 * m - 1 => x % m = x - m
         /\ x \in -m .. -1 => x % m = x + m
  OBVIOUS

\* A number is its quotient times the divisor plus its remainder.
LEMMA Division ==
  ASSUME NEW m \in Nat \ {0}, NEW x \in Int
  PROVE  /\ x \div m \in Int
         /\ x = (m * (x \div m)) + (x % m)
  OBVIOUS

\* The remainder is determined by such a decomposition.
LEMMA ModUnique ==
  ASSUME NEW m \in Nat \ {0}, NEW q \in Int, NEW r \in 0 .. m - 1
  PROVE  ((m * q) + r) % m = r
  OBVIOUS

\* Adding a multiple of the modulus leaves the remainder.
LEMMA ModPeriodic ==
  ASSUME NEW m \in Nat \ {0}, NEW x \in Int, NEW q \in Int
  PROVE  (x - (m * q)) % m = x % m
  <1>1. PICK d \in Int, r \in 0 .. m - 1 : x = (m * d) + r /\ r = x % m
    <2>1. x % m \in 0 .. m - 1
      BY ModCases
    <2> QED BY <2>1, Division, Zenon
  <1>2. PICK e \in Int : e = d - q
    OBVIOUS
  <1>3. x - (m * q) = (m * e) + r
    BY <1>1, <1>2
  <1>4. ((m * e) + r) % m = r
    BY ModUnique
  <1> QED BY <1>1, <1>3, <1>4

\* Two numbers less than the modulus apart have the same remainder only if
\* they are equal.
LEMMA ModInjective ==
  ASSUME NEW m \in Nat \ {0}, NEW x \in Int, NEW y \in Int,
         x % m = y % m, x - y < m, y - x < m
  PROVE  x = y
  <1> DEFINE q == (x \div m) - (y \div m)
  <1>1. q \in Int /\ x - y = m * q
    BY Division
  <1>2. CASE q >= 1
    <2>1. m * q >= m
      BY <1>1, <1>2
    <2> QED BY <1>1, <2>1
  <1>3. CASE q <= -1
    <2>1. m * q <= -m
      BY <1>1, <1>3
    <2> QED BY <1>1, <2>1
  <1>4. CASE q = 0
    BY <1>1, <1>4
  <1> QED BY <1>1, <1>2, <1>3, <1>4

\* The modulus is a positive number no smaller than twice the capacity.
LEMMA ModulusNat ==
  /\ Modulus \in Nat \ {0}
  /\ Modulus >= 2 * Capacity
  /\ Capacity \in Nat \ {0}
  <1>1. Capacity \in Nat \ {0} /\ Laps \in Nat /\ Laps >= 2
    BY RingAssumption
  <1>2. Capacity * Laps \in Nat /\ Capacity * Laps >= Capacity * 2
    BY <1>1
  <1> QED BY <1>1, <1>2 DEF Modulus

\* wrapping_sub of two cursors, without the remainder.
LEMMA WSubCases ==
  ASSUME NEW a \in Cursors, NEW b \in Cursors
  PROVE  /\ WSub(a, b) = IF a >= b THEN a - b ELSE (a - b) + Modulus
         /\ WSub(a, b) \in Cursors
  <1>1. a - b \in Int /\ a \in 0 .. Modulus - 1 /\ b \in 0 .. Modulus - 1
    BY ModulusNat DEF Cursors
  <1>2. (a - b) % Modulus \in 0 .. Modulus - 1
    BY <1>1, ModulusNat, ModCases
  <1>3. CASE a >= b
    <2>1. a - b \in 0 .. Modulus - 1
      BY <1>1, <1>3, ModulusNat
    <2>2. (a - b) % Modulus = a - b
      BY <1>1, <2>1, ModulusNat, ModCases, Zenon
    <2> QED BY <1>2, <1>3, <2>2 DEF WSub, Cursors
  <1>4. CASE ~(a >= b)
    <2>1. a - b \in -Modulus .. -1
      BY <1>1, <1>4, ModulusNat
    <2>2. (a - b) % Modulus = (a - b) + Modulus
      BY <1>1, <2>1, ModulusNat, ModCases, Zenon
    <2> QED BY <1>2, <1>4, <2>2 DEF WSub, Cursors
  <1> QED BY <1>3, <1>4

\* wrapping_add of a cursor and a distance, without the remainder.
LEMMA WAddCases ==
  ASSUME NEW a \in Cursors, NEW k \in 0 .. Modulus - 1
  PROVE  /\ WAdd(a, k) = IF a + k < Modulus THEN a + k ELSE (a + k) - Modulus
         /\ WAdd(a, k) \in Cursors
  <1>1. a + k \in Int /\ a \in 0 .. Modulus - 1 /\ k \in Int
    BY ModulusNat DEF Cursors
  <1>2. (a + k) % Modulus \in 0 .. Modulus - 1
    BY <1>1, ModulusNat, ModCases
  <1>3. CASE a + k < Modulus
    <2>1. a + k \in 0 .. Modulus - 1
      BY <1>1, <1>3, ModulusNat
    <2>2. (a + k) % Modulus = a + k
      BY <1>1, <2>1, ModulusNat, ModCases, Zenon
    <2> QED BY <1>2, <1>3, <2>2 DEF WAdd, Cursors
  <1>4. CASE ~(a + k < Modulus)
    <2>1. a + k \in Modulus .. 2 * Modulus - 1
      BY <1>1, <1>4, ModulusNat
    <2>2. (a + k) % Modulus = (a + k) - Modulus
      BY <1>1, <2>1, ModulusNat, ModCases, Zenon
    <2> QED BY <1>1, <1>2, <1>4, <2>2, ModulusNat DEF WAdd, Cursors
  <1> QED BY <1>3, <1>4

\* A cursor a distance d ahead of another is d ahead of it.
LEMMA WAddWSub ==
  ASSUME NEW a \in Cursors, NEW b \in Cursors
  PROVE  WAdd(a, WSub(b, a)) = b
  <1> DEFINE d == WSub(b, a)
  <1>1. d \in Cursors /\ d = IF b >= a THEN b - a ELSE (b - a) + Modulus
    BY WSubCases
  <1>2. WAdd(a, d) = IF a + d < Modulus THEN a + d ELSE (a + d) - Modulus
    BY <1>1, WAddCases, Zenon DEF Cursors
  <1> HIDE DEF d
  <1>3. WAdd(a, d) = b
    BY <1>1, <1>2, ModulusNat DEF Cursors
  <1> QED BY <1>3 DEF d

\* Masking is a homomorphism: the capacity divides the modulus, so that a
\* cursor that wraps keeps pointing at the next slot.
LEMMA IndexWAdd ==
  ASSUME NEW a \in Cursors, NEW k \in 0 .. Modulus - 1
  PROVE  Index(WAdd(a, k)) = (a + k) % Capacity
  <1>1. a + k \in Int /\ Laps \in Int /\ Capacity \in Nat \ {0} /\ Modulus \in Int
    BY RingAssumption, ModulusNat DEF Cursors
  <1>2. CASE a + k < Modulus
    BY <1>2, WAddCases DEF Index
  <1>3. CASE ~(a + k < Modulus)
    <2>1. WAdd(a, k) = (a + k) - Modulus
      BY <1>3, WAddCases
    <2>2. ((a + k) - (Capacity * Laps)) % Capacity = (a + k) % Capacity
      BY <1>1, ModPeriodic, Zenon
    <2> QED BY <2>1, <2>2 DEF Index, Modulus
  <1> QED BY <1>2, <1>3

\* Cursors less than a capacity apart use different slots.
LEMMA IndexInjective ==
  ASSUME NEW a \in Cursors, NEW j \in 0 .. Capacity - 1, NEW k \in 0 .. Capacity - 1,
         Index(WAdd(a, j)) = Index(WAdd(a, k))
  PROVE  j = k
  <1>1. (a + j) % Capacity = (a + k) % Capacity
    BY IndexWAdd, ModulusNat
  <1>2. a + j \in Int /\ a + k \in Int /\ (a + j) - (a + k) < Capacity /\ (a + k) - (a + j) < Capacity
    BY ModulusNat DEF Cursors
  <1>3. a + j = a + k
    BY <1>1, <1>2, ModInjective, ModulusNat
  <1> QED BY <1>3, ModulusNat DEF Cursors

\* The slots of a capacity's worth of consecutive cursors are all the slots.
LEMMA IndexOnto ==
  ASSUME NEW a \in Cursors, NEW i \in 0 .. Capacity - 1
  PROVE  \E k \in 0 .. Capacity - 1 : Index(WAdd(a, k)) = i
  <1>1. a \in Int /\ i \in Int /\ i - a \in Int /\ Capacity \in Int
    BY ModulusNat DEF Cursors
  <1>2. PICK k \in 0 .. Capacity - 1, q \in Int : i - a = (Capacity * q) + k
    <2>1. (i - a) % Capacity \in 0 .. Capacity - 1
      BY <1>1, ModulusNat, ModCases
    <2>2. /\ (i - a) \div Capacity \in Int
          /\ i - a = (Capacity * ((i - a) \div Capacity)) + ((i - a) % Capacity)
      BY <1>1, ModulusNat, Division
    <2> QED BY <2>1, <2>2, Zenon
  <1>3. PICK c \in Int : c = Capacity * q
    BY <1>1
  <1>4. a + k = i - c
    BY <1>1, <1>2, <1>3
  <1>5. (i - (Capacity * q)) % Capacity = i % Capacity
    BY <1>1, ModPeriodic, ModulusNat
  <1>6. (a + k) % Capacity = i
    BY <1>3, <1>4, <1>5, ModCases, ModulusNat, SMTT(30)
  <1> QED BY <1>6, IndexWAdd, ModulusNat

\* One step forward of the front or of the back of a distance.
LEMMA Advance ==
  ASSUME NEW a \in Cursors, NEW b \in Cursors
  PROVE  /\ WAdd(a, 1) \in Cursors
         /\ WSub(a, b) < Modulus - 1 => WSub(WAdd(a, 1), b) = WSub(a, b) + 1
         /\ a # b => WSub(a, WAdd(b, 1)) = WSub(a, b) - 1
         /\ WSub(a, b) = 0 <=> a = b
  <1>1. /\ WAdd(a, 1) \in Cursors
        /\ WAdd(a, 1) = IF a + 1 < Modulus THEN a + 1 ELSE (a + 1) - Modulus
    BY WAddCases, ModulusNat
  <1>2. /\ WAdd(b, 1) \in Cursors
        /\ WAdd(b, 1) = IF b + 1 < Modulus THEN b + 1 ELSE (b + 1) - Modulus
    BY WAddCases, ModulusNat
  <1>3. WSub(a, b) = IF a >= b THEN a - b ELSE (a - b) + Modulus
    BY WSubCases
  <1>4. WSub(WAdd(a, 1), b) = IF WAdd(a, 1) >= b THEN WAdd(a, 1) - b ELSE (WAdd(a, 1) - b) + Modulus
    BY <1>1, WSubCases
  <1>5. WSub(a, WAdd(b, 1)) = IF a >= WAdd(b, 1) THEN a - WAdd(b, 1) ELSE (a - WAdd(b, 1)) + Modulus
    BY <1>2, WSubCases
  <1>6. a \in Int /\ b \in Int /\ a >= 0 /\ b >= 0 /\ a < Modulus /\ b < Modulus /\ Modulus \in Int
    BY ModulusNat DEF Cursors
  <1> QED BY <1>1, <1>2, <1>3, <1>4, <1>5, <1>6

\* Every loadable value is a cursor between the one last seen and the
\* current one, measured to any cursor limit the current one has not passed.
LEMMA LoadBelow ==
  ASSUME NEW seen \in Cursors, NEW current \in Cursors, NEW limit \in Cursors,
         WSub(limit, current) <= WSub(limit, seen),
         NEW t \in Loadable(seen, current)
  PROVE  /\ t \in Cursors
         /\ WSub(limit, current) <= WSub(limit, t)
         /\ WSub(limit, t) <= WSub(limit, seen)
  <1>1. /\ WSub(current, seen) \in Cursors
        /\ WSub(current, seen) = IF current >= seen THEN current - seen ELSE (current - seen) + Modulus
    BY WSubCases
  <1>2. PICK d \in 0 .. WSub(current, seen) : t = WAdd(seen, d)
    BY DEF Loadable
  <1>3. d \in 0 .. Modulus - 1 /\ d <= WSub(current, seen)
    BY <1>1, ModulusNat DEF Cursors
  <1>4. t \in Cursors /\ t = IF seen + d < Modulus THEN seen + d ELSE (seen + d) - Modulus
    BY <1>2, <1>3, WAddCases
  <1>5. WSub(limit, current) = IF limit >= current THEN limit - current ELSE (limit - current) + Modulus
    BY WSubCases
  <1>6. WSub(limit, seen) = IF limit >= seen THEN limit - seen ELSE (limit - seen) + Modulus
    BY WSubCases
  <1>7. WSub(limit, t) = IF limit >= t THEN limit - t ELSE (limit - t) + Modulus
    BY <1>4, WSubCases
  <1>8. /\ seen \in 0 .. Modulus - 1 /\ current \in 0 .. Modulus - 1 /\ limit \in 0 .. Modulus - 1
        /\ Modulus \in Int
    BY ModulusNat DEF Cursors
  <1> QED BY <1>1, <1>3, <1>4, <1>5, <1>6, <1>7, <1>8

\* The same, measured from a cursor the last seen one has not fallen behind.
LEMMA LoadAbove ==
  ASSUME NEW seen \in Cursors, NEW current \in Cursors, NEW base \in Cursors,
         WSub(seen, base) <= WSub(current, base),
         NEW t \in Loadable(seen, current)
  PROVE  /\ t \in Cursors
         /\ WSub(seen, base) <= WSub(t, base)
         /\ WSub(t, base) <= WSub(current, base)
  <1>1. /\ WSub(current, seen) \in Cursors
        /\ WSub(current, seen) = IF current >= seen THEN current - seen ELSE (current - seen) + Modulus
    BY WSubCases
  <1>2. PICK d \in 0 .. WSub(current, seen) : t = WAdd(seen, d)
    BY DEF Loadable
  <1>3. d \in 0 .. Modulus - 1 /\ d <= WSub(current, seen)
    BY <1>1, ModulusNat DEF Cursors
  <1>4. t \in Cursors /\ t = IF seen + d < Modulus THEN seen + d ELSE (seen + d) - Modulus
    BY <1>2, <1>3, WAddCases
  <1>5. WSub(current, base) = IF current >= base THEN current - base ELSE (current - base) + Modulus
    BY WSubCases
  <1>6. WSub(seen, base) = IF seen >= base THEN seen - base ELSE (seen - base) + Modulus
    BY WSubCases
  <1>7. WSub(t, base) = IF t >= base THEN t - base ELSE (t - base) + Modulus
    BY <1>4, WSubCases
  <1>8. /\ seen \in 0 .. Modulus - 1 /\ current \in 0 .. Modulus - 1 /\ base \in 0 .. Modulus - 1
        /\ Modulus \in Int
    BY ModulusNat DEF Cursors
  <1> QED BY <1>1, <1>3, <1>4, <1>5, <1>6, <1>7, <1>8

\* Slots counted from the next cursor are those counted from this one, one
\* further; a whole capacity further is the same slot again.
LEMMA IndexShift ==
  ASSUME NEW a \in Cursors, NEW k \in 0 .. Capacity - 1
  PROVE  /\ Index(WAdd(WAdd(a, 1), k)) = Index(WAdd(a, k + 1))
         /\ Index(WAdd(a, k)) \in 0 .. Capacity - 1
         /\ Index(WAdd(a, 0)) = Index(a)
         /\ Index(WAdd(a, Capacity)) = Index(a)
  <1>1. /\ a \in Int /\ Capacity \in Nat \ {0} /\ Modulus \in Int /\ k \in 0 .. Modulus - 1
        /\ k + 1 \in 0 .. Modulus - 1 /\ Capacity \in 0 .. Modulus - 1 /\ 0 \in 0 .. Modulus - 1
        /\ 1 \in 0 .. Modulus - 1
    BY ModulusNat DEF Cursors
  <1>2. /\ WAdd(a, 1) \in Cursors
        /\ WAdd(a, 1) = IF a + 1 < Modulus THEN a + 1 ELSE (a + 1) - Modulus
    BY <1>1, WAddCases
  <1>3. Index(WAdd(WAdd(a, 1), k)) = (WAdd(a, 1) + k) % Capacity
    BY <1>1, <1>2, IndexWAdd
  <1>4. Index(WAdd(a, k + 1)) = (a + (k + 1)) % Capacity
    BY <1>1, IndexWAdd
  <1>5. (WAdd(a, 1) + k) % Capacity = (a + (k + 1)) % Capacity
    <2>1. CASE a + 1 < Modulus
      <3>1. WAdd(a, 1) + k = a + (k + 1)
        BY <1>1, <1>2, <2>1
      <3> QED BY <3>1
    <2>2. CASE ~(a + 1 < Modulus)
      <3>1. WAdd(a, 1) + k = (a + (k + 1)) - Modulus
        BY <1>1, <1>2, <2>2
      <3>2. ((a + (k + 1)) - (Capacity * Laps)) % Capacity = (a + (k + 1)) % Capacity
        <4>1. a + (k + 1) \in Int /\ Laps \in Int
          BY <1>1, RingAssumption
        <4> QED BY <1>1, <4>1, ModPeriodic, Zenon
      <3> QED BY <3>1, <3>2 DEF Modulus
    <2> QED BY <2>1, <2>2
  <1>6. Index(WAdd(a, k)) \in 0 .. Capacity - 1
    <2>1. a + k \in Int
      BY <1>1
    <2> QED BY <1>1, <2>1, IndexWAdd, ModCases
  <1>7. Index(WAdd(a, 0)) = Index(a)
    <2>1. WAdd(a, 0) = a
      BY <1>1, WAddCases DEF Cursors
    <2> QED BY <2>1
  <1>8. Index(WAdd(a, Capacity)) = Index(a)
    <2>1. Index(WAdd(a, Capacity)) = (a + Capacity) % Capacity
      BY <1>1, IndexWAdd
    <2>2. ((a + Capacity) - (Capacity * 1)) % Capacity = (a + Capacity) % Capacity
      <3>1. a + Capacity \in Int /\ 1 \in Int
        BY <1>1
      <3> QED BY <1>1, <3>1, ModPeriodic, Zenon
    <2>3. (a + Capacity) - (Capacity * 1) = a
      BY <1>1
    <2> QED BY <2>1, <2>2, <2>3 DEF Index
  <1> QED BY <1>3, <1>4, <1>5, <1>6, <1>7, <1>8
-----------------------------------------------------------------------------
(* The inductive invariant *)

IInv == TypeOK /\ CursorInv /\ SlotInv

\* The freshly built ring satisfies it.
LEMMA InitIInv == Init => IInv
  <1> SUFFICES ASSUME Init PROVE IInv
    OBVIOUS
  <1>1. 0 \in Cursors /\ WSub(0, 0) = 0
    BY ModulusNat, WSubCases DEF Cursors
  <1>2. TypeOK
    BY <1>1 DEF Init, TypeOK, Cells
  <1>3. CursorInv
    BY <1>1, ModulusNat DEF Init, CursorInv
  <1>4. SlotInv
    <2>1. ASSUME NEW k \in 0 .. Capacity - 1
          PROVE  slots[Index(WAdd(Oldest, k))] = NoValue /\ ~Live(k)
      <3>1. Oldest = 0
        BY DEF Oldest, Init
      <3>2. Index(WAdd(0, k)) \in 0 .. Capacity - 1
        BY <1>1, IndexShift
      <3> QED BY <1>1, <3>1, <3>2, ModulusNat DEF Init, Live
    <2> QED BY <2>1, Zenon DEF SlotInv, Init
  <1> QED BY <1>2, <1>3, <1>4 DEF IInv

\* Every step preserves the types.
LEMMA NextType == IInv /\ [Next]_vars => TypeOK'
  <1> SUFFICES ASSUME IInv, [Next]_vars PROVE TypeOK'
    OBVIOUS
  <1> USE DEF IInv, TypeOK, producerVars, consumerVars
  <1>1. /\ WAdd(head, 1) \in Cursors /\ WAdd(tail, 1) \in Cursors
        /\ Index(head) \in 0 .. Capacity - 1 /\ Index(tail) \in 0 .. Capacity - 1
    <2>1. head \in Int /\ tail \in Int
      BY ModulusNat DEF Cursors
    <2>2. Index(head) \in 0 .. Capacity - 1 /\ Index(tail) \in 0 .. Capacity - 1
      BY <2>1, ModCases, ModulusNat, Zenon DEF Index
    <2> QED BY <2>2, Advance
  <1>2. ASSUME NEW v \in Values, PushBegin(v) PROVE TypeOK'
    BY <1>2 DEF PushBegin, Cells
  <1>3. CASE PushReload
    <2>1. ASSUME NEW t \in Loadable(cachedTail, tail) PROVE t \in Cursors
      BY <2>1, LoadBelow DEF CursorInv
    <2> QED BY <1>3, <2>1 DEF PushReload, Synchronize, Cells
  <1>4. CASE PushWrite
    BY <1>1, <1>4 DEF PushWrite
  <1>5. CASE PushPublish
    BY <1>1, <1>5 DEF PushPublish, Cells
  <1>6. CASE PopBegin
    BY <1>6 DEF PopBegin
  <1>7. CASE PopReload
    <2>1. ASSUME NEW h \in Loadable(cachedHead, head) PROVE h \in Cursors
      BY <2>1, LoadAbove, Zenon DEF CursorInv
    <2> QED BY <1>7, <2>1 DEF PopReload, Synchronize
  <1>8. CASE PopRead
    BY <1>1, <1>8 DEF PopRead, Cells
  <1>9. CASE PopPublish
    BY <1>1, <1>9 DEF PopPublish, Cells
  <1>10. CASE DropProducer
    BY <1>10 DEF DropProducer
  <1>11. CASE DropConsumer
    BY <1>11 DEF DropConsumer
  <1>12. CASE DropSlot
    <2>1. Oldest \in Cursors
      BY DEF Oldest
    <2>2. WAdd(Oldest, 1) \in Cursors
      BY <2>1, Advance
    <2>3. slots' \in [0 .. Capacity - 1 -> Cells]
      BY <1>12, Zenon DEF DropSlot, Cells
    <2> QED BY <1>12, <2>2, <2>3 DEF DropSlot
  <1>13. CASE UNCHANGED vars
    BY <1>13 DEF vars
  <1> QED
    BY <1>2, <1>3, <1>4, <1>5, <1>6, <1>7, <1>8, <1>9, <1>10, <1>11, <1>12, <1>13, Zenon
    DEF Next, Push, Pop

\* Every step preserves the order of the cursors.
LEMMA NextCursor == IInv /\ [Next]_vars => CursorInv'
  <1> SUFFICES ASSUME IInv, [Next]_vars PROVE CursorInv'
    OBVIOUS
  <1> USE DEF producerVars, consumerVars
  <1>1. /\ head \in Cursors /\ tail \in Cursors /\ cachedTail \in Cursors
        /\ cachedHead \in Cursors /\ CursorInv
    BY DEF IInv, TypeOK
  <1>2. /\ WSub(head, tail) \in Nat /\ WSub(head, cachedTail) \in Nat
        /\ WSub(cachedHead, tail) \in Nat /\ Capacity \in Nat \ {0}
        /\ Modulus \in Nat /\ Modulus >= 2 * Capacity
    <2>1. \A c \in Cursors : c \in Nat
      BY ModulusNat DEF Cursors
    <2>2. /\ WSub(head, tail) \in Cursors /\ WSub(head, cachedTail) \in Cursors
          /\ WSub(cachedHead, tail) \in Cursors
      BY <1>1, WSubCases
    <2> QED BY <2>1, <2>2, ModulusNat
  <1>3. ASSUME NEW v \in Values, PushBegin(v) PROVE CursorInv'
    <2>1. pcP' \in {"reload", "write"} /\ (pcP' = "write" => WSub(head, cachedTail) # Capacity)
      BY <1>3, RingAssumption, Zenon DEF PushBegin
    <2> QED BY <1>1, <1>2, <1>3, <2>1 DEF PushBegin, CursorInv, Closed
  <1>4. CASE PushReload
    <2>1. PICK t \in Loadable(cachedTail, tail) :
            /\ cachedTail' = t
            /\ knownTail' = t
            /\ pcP' = "write" => WSub(head, t) # Capacity
            /\ pcP' \in {"idle", "write"}
      BY <1>4 DEF PushReload, Synchronize
    <2>2. /\ t \in Cursors
          /\ WSub(head, tail) <= WSub(head, t)
          /\ WSub(head, t) <= WSub(head, cachedTail)
      BY <1>1, LoadBelow DEF CursorInv
    <2>3. WSub(head, t) \in Nat
      BY <1>1, <2>2, WSubCases DEF Cursors
    <2> QED BY <1>1, <1>2, <1>4, <2>1, <2>2, <2>3 DEF PushReload, CursorInv, Closed
  <1>5. CASE PushWrite
    BY <1>1, <1>5, Zenon DEF PushWrite, CursorInv, Closed
  <1>6. CASE PushPublish
    <2>1. /\ WSub(head', tail) = WSub(head, tail) + 1
          /\ WSub(head', cachedTail) = WSub(head, cachedTail) + 1
      BY <1>1, <1>2, <1>6, Advance DEF PushPublish, CursorInv
    <2> QED BY <1>1, <1>2, <1>6, <2>1 DEF PushPublish, CursorInv, Closed
  <1>7. CASE PopBegin
    BY <1>1, <1>7, Zenon DEF PopBegin, CursorInv, Closed
  <1>8. CASE PopReload
    <2>1. PICK h \in Loadable(cachedHead, head) :
            /\ cachedHead' = h
            /\ knownHead' = h
            /\ pcC' = "read" => tail # h
            /\ pcC' \in {"idle", "read"}
      BY <1>8 DEF PopReload, Synchronize
    <2>2. h \in Cursors /\ WSub(h, tail) <= WSub(head, tail)
      BY <1>1, LoadAbove DEF CursorInv
    <2> QED BY <1>1, <1>2, <1>8, <2>1, <2>2 DEF PopReload, CursorInv, Closed
  <1>9. CASE PopRead
    BY <1>1, <1>9, Zenon DEF PopRead, CursorInv, Closed
  <1>10. CASE PopPublish
    <2>1. cachedHead # tail
      BY <1>1, <1>10 DEF PopPublish, CursorInv
    <2>2. head # tail
      BY <1>1, <1>2, <2>1, Advance DEF CursorInv
    <2>3. /\ WSub(head, tail') = WSub(head, tail) - 1
          /\ WSub(cachedHead, tail') = WSub(cachedHead, tail) - 1
      BY <1>1, <1>10, <2>1, <2>2, Advance DEF PopPublish
    <2>4. WSub(cachedHead, tail) # 0
      BY <1>1, <2>1, Advance, Zenon
    <2> QED BY <1>1, <1>2, <1>10, <2>3, <2>4 DEF PopPublish, CursorInv, Closed
  <1>11. CASE DropProducer
    BY <1>1, <1>11, Zenon DEF DropProducer, CursorInv, Closed
  <1>12. CASE DropConsumer
    BY <1>1, <1>12, Zenon DEF DropConsumer, CursorInv, Closed
  <1>13. CASE DropSlot
    <2>1. Oldest \in Cursors /\ WSub(head, Oldest) <= WSub(head, tail)
      BY <1>1, <1>2 DEF Oldest, CursorInv, IInv, TypeOK
    <2>2. WSub(head, WAdd(Oldest, 1)) = WSub(head, Oldest) - 1
      BY <1>1, <1>13, <2>1, Advance DEF DropSlot
    <2>3. WSub(head, Oldest) \in Nat
      BY <1>1, <2>1, WSubCases DEF Cursors
    <2> QED BY <1>1, <1>2, <1>13, <2>1, <2>2, <2>3 DEF DropSlot, CursorInv, Closed
  <1>14. CASE UNCHANGED vars
    BY <1>1, <1>14 DEF vars, CursorInv, Closed
  <1> QED
    BY <1>3, <1>4, <1>5, <1>6, <1>7, <1>8, <1>9, <1>10, <1>11, <1>12, <1>13, <1>14
    DEF Next, Push, Pop

\* A consumer past its emptiness check has something to read.
LEMMA NonEmpty ==
  ASSUME IInv, pcC \in {"read", "publish"}
  PROVE  head # tail /\ WSub(head, tail) >= 1
  <1>1. /\ cachedHead \in Cursors /\ head \in Cursors /\ tail \in Cursors
        /\ cachedHead # tail /\ WSub(cachedHead, tail) <= WSub(head, tail)
    BY DEF IInv, TypeOK, CursorInv
  <1>2. WSub(cachedHead, tail) # 0
    BY <1>1, Advance
  <1>3. WSub(cachedHead, tail) \in Cursors /\ WSub(head, tail) \in Cursors
    BY <1>1, WSubCases
  <1>4. WSub(head, tail) >= 1
    BY <1>1, <1>2, <1>3, ModulusNat, SMTT(30) DEF Cursors
  <1> QED BY <1>1, <1>3, <1>4, Advance

\* Every step preserves which slots own a value.
LEMMA NextSlot == IInv /\ [Next]_vars => SlotInv'
  <1> SUFFICES ASSUME IInv, [Next]_vars PROVE SlotInv'
    OBVIOUS
  <1> USE DEF producerVars, consumerVars
  <1>1. /\ TypeOK /\ CursorInv /\ SlotInv
        /\ head \in Cursors /\ tail \in Cursors /\ Oldest \in Cursors
        /\ slots \in [0 .. Capacity - 1 -> Cells]
    BY DEF IInv, TypeOK, Oldest
  <1>2. /\ WSub(head, Oldest) \in Nat /\ WSub(head, tail) \in Nat
        /\ WSub(head, Oldest) <= WSub(head, tail) /\ WSub(head, tail) <= Capacity
        /\ pcP \in {"write", "publish"} => WSub(head, Oldest) < Capacity
        /\ Capacity \in Nat \ {0} /\ Modulus \in Nat /\ Modulus >= 2 * Capacity
    <2>1. \A c \in Cursors : c \in Nat
      BY ModulusNat DEF Cursors
    <2>2. /\ WSub(head, tail) \in Cursors /\ WSub(head, Oldest) \in Cursors
          /\ WSub(head, cachedTail) \in Cursors
      BY <1>1, WSubCases, Zenon DEF TypeOK
    <2>3. WSub(head, Oldest) <= WSub(head, tail)
      BY <1>1, <2>1, <2>2 DEF Oldest, CursorInv
    <2>4. WSub(head, tail) <= Capacity
      BY <1>1, <2>1, <2>2, ModulusNat DEF CursorInv
    <2>5. pcP \in {"write", "publish"} => WSub(head, Oldest) < Capacity
      BY <1>1, <2>1, <2>2, <2>3, ModulusNat DEF CursorInv
    <2> QED BY <2>1, <2>2, <2>3, <2>4, <2>5, ModulusNat, Zenon
  <1>3. Index(head) = Index(WAdd(Oldest, WSub(head, Oldest)))
    BY <1>1, WAddWSub
  <1>4. Index(Oldest) = Index(WAdd(Oldest, 0)) /\ Index(Oldest) \in 0 .. Capacity - 1
    <2>1. 0 \in 0 .. Capacity - 1
      BY <1>2
    <2> QED BY <1>1, <2>1, IndexShift
  <1>5. \A k \in 0 .. Capacity - 1 : Index(WAdd(Oldest, k)) \in 0 .. Capacity - 1
    BY <1>1, IndexShift
  <1>6. \A j, k \in 0 .. Capacity - 1 :
          Index(WAdd(Oldest, j)) = Index(WAdd(Oldest, k)) => j = k
    BY <1>1, IndexInjective
  <1>7. ASSUME pcC # "dropped" \/ pcP # "dropped" PROVE Oldest = tail /\ dropCursor = NoValue
    BY <1>1, <1>7, Zenon DEF CursorInv, Closed, Oldest
  <1>8. ASSUME NEW v \in Values, PushBegin(v) PROVE SlotInv'
    <2>1. pcP' \in {"reload", "write"} /\ pcP = "idle"
      BY <1>8 DEF PushBegin
    <2>2. pval' # NoValue
      BY <1>8, RingAssumption, Zenon DEF PushBegin
    <2> QED BY <1>1, <1>8, <2>1, <2>2 DEF PushBegin, SlotInv, Live, Oldest
  <1>9. CASE PushReload
    <2>1. /\ pcP = "reload"
          /\ pcP' = "idle" \/ (pcP' = "write" /\ pval' = pval)
      BY <1>9, Zenon DEF PushReload
    <2> QED BY <1>1, <1>9, <2>1 DEF PushReload, SlotInv, Live, Oldest
  <1>10. CASE PushWrite
    <2> DEFINE n == WSub(head, Oldest)
    <2>1. n \in 0 .. Capacity - 1
      BY <1>2, <1>10 DEF PushWrite
    <2>2. pval # NoValue /\ pval \in Cells
      BY <1>1, <1>10, Zenon DEF PushWrite, SlotInv, TypeOK
    <2>3. /\ slots'[Index(head)] = pval
          /\ \A k \in 0 .. Capacity - 1 : k # n =>
               slots'[Index(WAdd(Oldest, k))] = slots[Index(WAdd(Oldest, k))]
      BY <1>1, <1>3, <1>5, <1>6, <1>10, <2>1, Zenon DEF PushWrite
    <2>4. ASSUME NEW k \in 0 .. Capacity - 1
          PROVE  (slots'[Index(WAdd(Oldest, k))] # NoValue) <=> Live(k)'
      BY <1>1, <1>2, <1>3, <1>10, <2>1, <2>2, <2>3 DEF PushWrite, SlotInv, Live, Oldest
    <2> QED BY <1>1, <1>10, <2>2, <2>3, <2>4, Zenon DEF PushWrite, SlotInv, Oldest
  <1>11. CASE PushPublish
    <2>1. Oldest' = tail /\ Oldest = tail /\ dropCursor = NoValue
      BY <1>7, <1>11 DEF PushPublish, Oldest
    <2>2. WSub(head', tail) = WSub(head, tail) + 1
      BY <1>1, <1>2, <1>11, <2>1, Advance DEF PushPublish
    <2>3. pcC = "publish" => WSub(head, tail) >= 1
      BY NonEmpty, Zenon
    <2>4. ASSUME NEW k \in 0 .. Capacity - 1
          PROVE  (slots'[Index(WAdd(Oldest', k))] # NoValue) <=> Live(k)'
      BY <1>1, <1>2, <1>11, <2>1, <2>2, <2>3 DEF PushPublish, SlotInv, Live
    <2> QED BY <1>1, <1>11, <2>4 DEF PushPublish, SlotInv
  <1>12. CASE PopBegin
    <2>1. pcC = "idle" /\ pcC' \in {"reload", "read"}
      BY <1>12, Zenon DEF PopBegin
    <2> QED BY <1>1, <1>12, <2>1 DEF PopBegin, SlotInv, Live, Oldest
  <1>13. CASE PopReload
    <2>1. pcC = "reload" /\ pcC' \in {"idle", "read"}
      BY <1>13, Zenon DEF PopReload
    <2> QED BY <1>1, <1>13, <2>1 DEF PopReload, SlotInv, Live, Oldest
  <1>14. CASE PopRead
    <2> DEFINE n == WSub(head, Oldest)
    <2>1. Oldest = tail /\ Oldest' = tail /\ n >= 1
      <3>1. Oldest = tail /\ dropCursor = NoValue
        BY <1>7, <1>14 DEF PopRead
      <3>2. WSub(head, tail) >= 1
        BY <1>14, NonEmpty DEF PopRead
      <3> QED BY <1>2, <1>14, <3>1, <3>2 DEF PopRead, Oldest
    <2>2. /\ slots'[Index(WAdd(tail, 0))] = NoValue
          /\ \A k \in 0 .. Capacity - 1 : k # 0 =>
               slots'[Index(WAdd(tail, k))] = slots[Index(WAdd(tail, k))]
      BY <1>1, <1>2, <1>4, <1>5, <1>6, <1>14, <2>1 DEF PopRead
    <2>3. cval' # NoValue
      BY <1>1, <1>2, <1>4, <1>14, <2>1, SMTT(30) DEF PopRead, SlotInv, Live
    <2>4. ASSUME NEW k \in 0 .. Capacity - 1
          PROVE  (slots'[Index(WAdd(Oldest', k))] # NoValue) <=> Live(k)'
      BY <1>1, <1>2, <1>14, <2>1, <2>2 DEF PopRead, SlotInv, Live
    <2>5. ASSUME pcP = "publish" PROVE slots'[Index(head)] = pval
      <3>1. n \in 0 .. Capacity - 1 /\ n # 0
        BY <1>2, <2>1, <2>5
      <3> QED BY <1>1, <1>3, <2>1, <2>2, <2>5, <3>1, Zenon DEF SlotInv
    <2> QED BY <1>1, <1>14, <2>3, <2>4, <2>5, Zenon DEF PopRead, SlotInv
  <1>15. ASSUME head # Oldest, Live(0) => pcC = "dropped",
                Oldest' = WAdd(Oldest, 1), head' = head, pcP' = pcP, pcC' # "publish",
                slots'[Index(Oldest)] = NoValue,
                \A i \in 0 .. Capacity - 1 : i # Index(Oldest) => slots'[i] = slots[i]
         PROVE  \A k \in 0 .. Capacity - 1 :
                  (slots'[Index(WAdd(Oldest', k))] # NoValue) <=> Live(k)'
    <2> TAKE k \in 0 .. Capacity - 1
    <2> DEFINE n == WSub(head, Oldest)
    <2>1. WSub(head', Oldest') = n - 1 /\ n >= 1
      BY <1>1, <1>2, <1>15, Advance
    <2>2. Index(WAdd(Oldest', k)) = Index(WAdd(Oldest, k + 1))
      BY <1>1, <1>15, IndexShift
    <2>3. pcP = "publish" => n < Capacity
      BY <1>2, Zenon
    <2>4. CASE k = Capacity - 1
      <3>1. Index(WAdd(Oldest, k + 1)) = Index(Oldest)
        BY <1>1, <1>2, <2>4, IndexShift
      <3> QED BY <1>2, <1>15, <2>1, <2>2, <2>3, <2>4, <3>1 DEF Live
    <2>5. CASE k # Capacity - 1
      <3>1. k + 1 \in 0 .. Capacity - 1 /\ k + 1 > 0
        BY <1>2, <2>5
      <3>2. Index(WAdd(Oldest, k + 1)) # Index(Oldest)
        BY <1>2, <1>4, <1>6, <3>1
      <3>3. slots'[Index(WAdd(Oldest', k))] = slots[Index(WAdd(Oldest, k + 1))]
        BY <1>5, <1>15, <2>2, <3>1, <3>2, Zenon
      <3>4. (slots[Index(WAdd(Oldest, k + 1))] # NoValue) <=> Live(k + 1)
        BY <1>1, <3>1, Zenon DEF SlotInv
      <3>5. Live(k)' <=> Live(k + 1)
        BY <1>2, <1>15, <2>1, <3>1 DEF Live
      <3> QED BY <3>3, <3>4, <3>5
    <2> QED BY <2>4, <2>5
  <1>16. CASE PopPublish
    <2>1. /\ Oldest = tail /\ dropCursor = NoValue /\ dropCursor' = NoValue
          /\ Oldest' = WAdd(Oldest, 1)
      BY <1>7, <1>16 DEF PopPublish, Oldest
    <2>2. head # Oldest /\ WSub(head, Oldest) >= 1
      BY <1>16, <2>1, NonEmpty, Zenon DEF PopPublish
    <2>3. ~Live(0)
      BY <1>2, <1>16, <2>2 DEF Live, PopPublish
    <2>4. slots[Index(Oldest)] = NoValue
      BY <1>1, <1>2, <1>4, <2>3 DEF SlotInv
    <2>5. \A k \in 0 .. Capacity - 1 :
            (slots'[Index(WAdd(Oldest', k))] # NoValue) <=> Live(k)'
      BY <1>15, <1>16, <2>1, <2>2, <2>3, <2>4, Zenon DEF PopPublish
    <2> QED BY <1>1, <1>16, <2>5 DEF PopPublish, SlotInv
  <1>17. CASE DropProducer
    BY <1>1, <1>17, Zenon DEF DropProducer, SlotInv, Live, Oldest
  <1>18. CASE DropConsumer
    BY <1>1, <1>18, Zenon DEF DropConsumer, SlotInv, Live, Oldest
  <1>19. CASE DropSlot
    <2>1. Oldest' = WAdd(Oldest, 1)
      <3>1. WAdd(Oldest, 1) \in Cursors
        BY <1>1, Advance
      <3>2. WAdd(Oldest, 1) # NoValue
        BY <3>1, RingAssumption, ModulusNat DEF Cursors
      <3> QED BY <1>19, <3>2, Zenon DEF DropSlot, Oldest
    <2>2. /\ slots'[Index(Oldest)] = NoValue
          /\ \A i \in 0 .. Capacity - 1 : i # Index(Oldest) => slots'[i] = slots[i]
      BY <1>1, <1>4, <1>19, Zenon DEF DropSlot
    <2>3. \A k \in 0 .. Capacity - 1 :
            (slots'[Index(WAdd(Oldest', k))] # NoValue) <=> Live(k)'
      BY <1>15, <1>19, <2>1, <2>2, Zenon DEF DropSlot, Closed
    <2> QED BY <1>1, <1>19, <2>3, Zenon DEF DropSlot, SlotInv, Closed
  <1>20. CASE UNCHANGED vars
    BY <1>1, <1>20 DEF vars, SlotInv, Live, Oldest
  <1> QED
    BY <1>8, <1>9, <1>10, <1>11, <1>12, <1>13, <1>14, <1>16, <1>17, <1>18, <1>19, <1>20
    DEF Next, Push, Pop

\* IInv holds in every reachable state.
LEMMA Inductive == Spec => []IInv
  <1>1. IInv /\ [Next]_vars => IInv'
    BY NextType, NextCursor, NextSlot DEF IInv
  <1> QED BY InitIInv, <1>1, PTL DEF Spec
-----------------------------------------------------------------------------
(* The properties *)

\* Every variable keeps its type.
THEOREM TypeCorrect == Spec => []TypeOK
  <1>1. IInv => TypeOK
    BY Zenon DEF IInv
  <1> QED BY <1>1, Inductive, PTL

\* The slot accesses of push and pop never race, whatever stale values the
\* cursor loads return and however often the cursors have wrapped.
THEOREM RaceFree == Spec => []NoDataRace
  <1>1. IInv => NoDataRace
    <2> SUFFICES ASSUME IInv PROVE NoDataRace
      OBVIOUS
    <2>1. /\ head \in Cursors /\ tail \in Cursors /\ cachedTail \in Cursors
          /\ cachedHead \in Cursors /\ CursorInv
      BY DEF IInv, TypeOK
    <2>2. /\ WSub(head, tail) \in Nat /\ WSub(head, cachedTail) \in Nat
          /\ WSub(cachedHead, tail) \in Nat /\ Capacity \in Nat
      <3>1. \A c \in Cursors : c \in Nat
        BY ModulusNat DEF Cursors
      <3> QED BY <2>1, <3>1, WSubCases, ModulusNat
    <2>3. cachedHead # tail => WSub(cachedHead, tail) # 0
      BY <2>1, Advance, Zenon
    <2> QED BY <2>1, <2>2, <2>3 DEF NoDataRace, CursorInv
  <1> QED BY <1>1, Inductive, PTL

\* No push overwrites a live value and neither pop nor the drop loop touches
\* an empty slot.
THEOREM Ownership == Spec => []SlotOwnership
  <1>1. IInv => SlotOwnership
    <2> SUFFICES ASSUME IInv PROVE SlotOwnership
      OBVIOUS
    <2>1. /\ TypeOK /\ CursorInv /\ SlotInv
          /\ head \in Cursors /\ tail \in Cursors /\ Oldest \in Cursors
      BY DEF IInv, TypeOK, Oldest
    <2>2. /\ WSub(head, Oldest) \in Nat /\ WSub(head, tail) \in Nat
          /\ WSub(head, cachedTail) \in Nat /\ Capacity \in Nat \ {0}
          /\ 0 \in 0 .. Capacity - 1
      <3>1. \A c \in Cursors : c \in Nat
        BY ModulusNat DEF Cursors
      <3> QED BY <2>1, <3>1, WSubCases, ModulusNat DEF TypeOK
    <2>3. ASSUME pcP = "write" PROVE slots[Index(head)] = NoValue
      <3>1. Oldest = tail
        BY <2>1, <2>3, Zenon DEF CursorInv, Closed, Oldest
      <3>2. WSub(head, Oldest) \in 0 .. Capacity - 1
        BY <2>1, <2>2, <2>3, <3>1 DEF CursorInv
      <3>3. ~Live(WSub(head, Oldest))
        BY <2>2, <2>3 DEF Live
      <3>4. WAdd(Oldest, WSub(head, Oldest)) = head
        BY <2>1, WAddWSub
      <3> QED BY <2>1, <3>2, <3>3, <3>4, Zenon DEF SlotInv
    <2>4. ASSUME Oldest # head, pcC # "publish" PROVE slots[Index(Oldest)] # NoValue
      <3>1. WSub(head, Oldest) # 0
        BY <2>1, <2>4, Advance
      <3>2. Live(0)
        BY <2>2, <2>4, <3>1 DEF Live
      <3>3. Index(WAdd(Oldest, 0)) = Index(Oldest)
        BY <2>1, <2>2, IndexShift
      <3> QED BY <2>1, <2>2, <3>2, <3>3 DEF SlotInv
    <2>5. ASSUME pcC = "read" PROVE slots[Index(tail)] # NoValue
      <3>1. Oldest = tail
        BY <2>1, <2>5, Zenon DEF CursorInv, Closed, Oldest
      <3> QED BY <2>4, <2>5, <3>1, NonEmpty, Zenon
    <2> QED BY <2>3, <2>4, <2>5, Zenon DEF SlotOwnership, Closed
  <1> QED BY <1>1, Inductive, PTL

\* Dropping the ring drops every value left in it.
THEOREM DropClean == Spec => []DropLeaksNothing
  <1>1. IInv => DropLeaksNothing
    <2> SUFFICES ASSUME IInv, Closed, Oldest = head, NEW i \in 0 .. Capacity - 1
                 PROVE  slots[i] = NoValue
      BY DEF DropLeaksNothing, IInv, TypeOK
    <2>1. SlotInv /\ Oldest \in Cursors /\ head \in Cursors
      BY DEF IInv, TypeOK, Oldest
    <2>2. PICK k \in 0 .. Capacity - 1 : Index(WAdd(Oldest, k)) = i
      BY <2>1, IndexOnto, Zenon
    <2>3. WSub(head, Oldest) = 0
      BY <2>1, Advance
    <2>4. ~Live(k)
      BY <2>3, ModulusNat DEF Live, Closed
    <2> QED BY <2>1, <2>2, <2>4, Zenon DEF SlotInv
  <1> QED BY <1>1, Inductive, PTL
-----------------------------------------------------------------------------
(* The ring implements the abstract queue *)

\* The content of the ring is a sequence of values, item by item.
ContentFacts ==
  /\ WSub(head, Oldest) \in 0 .. Capacity
  /\ Content \in Seq(Values)
  /\ Len(Content) = WSub(head, Oldest)
  /\ \A k \in 1 .. WSub(head, Oldest) : Content[k] = Item(k)

\* In every state of the invariant the content is such a sequence.
LEMMA ContentSeq == IInv => ContentFacts
  <1> SUFFICES ASSUME IInv PROVE ContentFacts
    OBVIOUS
  <1> DEFINE n == WSub(head, Oldest)
  <1>1. /\ TypeOK /\ CursorInv /\ SlotInv
        /\ head \in Cursors /\ tail \in Cursors /\ Oldest \in Cursors
    BY DEF IInv, TypeOK, Oldest
  <1>2. n \in 0 .. Capacity
    <2>1. \A c \in Cursors : c \in Nat
      BY ModulusNat DEF Cursors
    <2>2. WSub(head, tail) \in Nat /\ n \in Nat /\ WSub(head, cachedTail) \in Nat
      BY <1>1, <2>1, WSubCases, Zenon DEF TypeOK
    <2>3. n <= WSub(head, tail)
      BY <1>1, <2>2 DEF Oldest, CursorInv
    <2> QED BY <1>1, <2>2, <2>3, ModulusNat DEF CursorInv
  <1>3. ASSUME NEW k \in 1 .. n PROVE Item(k) \in Values
    <2>1. CASE k = 1 /\ pcC = "publish"
      BY <1>1, <2>1, Zenon DEF Item, SlotInv, TypeOK, Cells
    <2>2. CASE ~(k = 1 /\ pcC = "publish")
      <3>1. k - 1 \in 0 .. Capacity - 1
        BY <1>2, ModulusNat
      <3>2. Live(k - 1)
        BY <1>2, <2>2 DEF Live
      <3>3. Index(WAdd(Oldest, k - 1)) \in 0 .. Capacity - 1
        BY <1>1, <3>1, IndexShift, Zenon
      <3>4. slots[Index(WAdd(Oldest, k - 1))] # NoValue
        BY <1>1, <3>1, <3>2 DEF SlotInv
      <3> QED BY <1>1, <2>2, <3>3, <3>4 DEF Item, TypeOK, Cells
    <2> QED BY <2>1, <2>2, Zenon
  <1>4. /\ Content \in [1 .. n -> Values]
        /\ \A k \in 1 .. n : Content[k] = Item(k)
    BY <1>3, Zenon DEF Content
  <1>5. n \in Nat
    BY <1>2, ModulusNat
  <1>6. Content \in Seq(Values)
    BY <1>4, <1>5, SeqDef, Zenon
  <1>7. DOMAIN Content = 1 .. n
    BY <1>4, Zenon
  <1>8. Len(Content) = n
    BY <1>5, <1>6, <1>7, LenProperties
  <1> QED BY <1>2, <1>4, <1>6, <1>8, Zenon DEF ContentFacts

\* Two states with the same items in the same number have the same content.
LEMMA ContentSame ==
  ASSUME ContentFacts, ContentFacts',
         WSub(head, Oldest)' = WSub(head, Oldest),
         \A k \in 1 .. WSub(head, Oldest) : Item(k)' = Item(k)
  PROVE  Content' = Content
  <1>1. /\ Content \in Seq(Values) /\ Content' \in Seq(Values)
        /\ Len(Content') = Len(Content)
        /\ \A k \in 1 .. Len(Content') : Content'[k] = Content[k]
    BY DEF ContentFacts
  <1> QED BY <1>1, SeqEqual, Zenon

\* One item less at the front is the tail of the content.
LEMMA ContentTail ==
  ASSUME ContentFacts, ContentFacts',
         WSub(head, Oldest) > 0,
         WSub(head, Oldest)' = WSub(head, Oldest) - 1,
         \A k \in 1 .. WSub(head, Oldest)' : Item(k)' = Item(k + 1)
  PROVE  Content # << >> /\ Head(Content) = Item(1) /\ Content' = Tail(Content)
  <1> DEFINE n == WSub(head, Oldest)
  <1>1. /\ n \in Nat /\ n > 0 /\ Content \in Seq(Values) /\ Content' \in Seq(Values)
        /\ Len(Content) = n /\ Len(Content') = n - 1
    BY ModulusNat DEF ContentFacts
  <1>2. Content # << >>
    BY <1>1, EmptySeq
  <1>3. /\ Tail(Content) \in Seq(Values) /\ Len(Tail(Content)) = n - 1
        /\ \A i \in 1 .. Len(Tail(Content)) : Tail(Content)[i] = Content[i + 1]
    BY <1>1, <1>2, HeadTailProperties, Zenon
  <1>4. ASSUME NEW i \in 1 .. Len(Content') PROVE Content'[i] = Tail(Content)[i]
    <2>1. i \in 1 .. n - 1 /\ i + 1 \in 1 .. n
      BY <1>1, SMTT(30)
    <2>2. Content'[i] = Item(i)' /\ Content[i + 1] = Item(i + 1)
      BY <1>1, <2>1, Zenon DEF ContentFacts
    <2> QED BY <1>1, <1>3, <2>1, <2>2, Zenon
  <1>5. Content' = Tail(Content)
    BY <1>1, <1>3, <1>4, SeqEqual, Zenon
  <1>6. Head(Content) = Item(1)
    BY <1>1 DEF ContentFacts
  <1> QED BY <1>2, <1>5, <1>6, Zenon

\* The steps of the ring that store no cursor the other side reads.
QuietStep ==
  \/ (\E v \in Values : PushBegin(v)) \/ PushReload \/ PushWrite
  \/ PopBegin \/ PopReload \/ PopRead
  \/ DropProducer \/ DropConsumer \/ UNCHANGED vars

\* What a step does to the content: the store of head appends the pushed
\* value, the store of tail takes the oldest one, a turn of the drop loop
\* discards it, and the rest of a push or of a pop is invisible.
ContentMoves ==
  /\ QuietStep => UNCHANGED <<Content, popped>>
  /\ PushPublish => /\ Content' = Append(Content, pval) /\ popped' = popped
                    /\ pval \in Values /\ Len(Content) < Capacity
  /\ PopPublish => /\ Content # << >> /\ popped' = Head(Content)
                   /\ Content' = Tail(Content)
  /\ DropSlot => /\ Content # << >> /\ popped' = popped
                 /\ Content' = Tail(Content)

\* Every step of the ring moves the content so.
LEMMA StepContent == IInv /\ IInv' => ContentMoves
  <1> SUFFICES ASSUME IInv, IInv' PROVE ContentMoves
    BY Zenon
  <1> USE DEF producerVars, consumerVars
  <1> DEFINE n == WSub(head, Oldest)
  <1>1. /\ TypeOK /\ CursorInv /\ SlotInv
        /\ head \in Cursors /\ tail \in Cursors /\ Oldest \in Cursors
        /\ slots \in [0 .. Capacity - 1 -> Cells]
    BY DEF IInv, TypeOK, Oldest
  <1>2. ContentFacts
    BY ContentSeq
  <1>3. ContentFacts'
    BY ContentSeq, PTL
  <1>4. /\ n \in 0 .. Capacity /\ Capacity \in Nat \ {0}
        /\ Modulus \in Nat /\ Modulus >= 2 * Capacity
    BY <1>2, ModulusNat, Zenon DEF ContentFacts
  <1>5. \A k \in 0 .. Capacity - 1 : Index(WAdd(Oldest, k)) \in 0 .. Capacity - 1
    BY <1>1, IndexShift, Zenon
  <1>6. \A j, k \in 0 .. Capacity - 1 :
          Index(WAdd(Oldest, j)) = Index(WAdd(Oldest, k)) => j = k
    BY <1>1, IndexInjective, Zenon
  <1>7. Index(Oldest) = Index(WAdd(Oldest, 0)) /\ Index(Oldest) \in 0 .. Capacity - 1
    <2>1. 0 \in 0 .. Capacity - 1
      BY <1>4
    <2> QED BY <1>1, <2>1, IndexShift
  <1>8. ASSUME pcC # "dropped" \/ pcP # "dropped" PROVE Oldest = tail /\ dropCursor = NoValue
    BY <1>1, <1>8, Zenon DEF CursorInv, Closed, Oldest
  <1>9. ASSUME head' = head, Oldest' = Oldest, slots' = slots, popped' = popped,
               cval' = cval, (pcC' = "publish") <=> (pcC = "publish")
        PROVE  Content' = Content
    <2>1. WSub(head, Oldest)' = n
      BY <1>9
    <2>2. \A k \in 1 .. n : Item(k)' = Item(k)
      BY <1>9, Zenon DEF Item
    <2> QED BY <1>2, <1>3, <2>1, <2>2, ContentSame, Zenon
  <1>10. ASSUME NEW v \in Values, PushBegin(v) PROVE UNCHANGED <<Content, popped>>
    BY <1>9, <1>10, Zenon DEF PushBegin, Oldest
  <1>11. ASSUME PushReload PROVE UNCHANGED <<Content, popped>>
    BY <1>9, <1>11 DEF PushReload, Oldest
  <1>12. ASSUME PushWrite PROVE UNCHANGED <<Content, popped>>
    <2>1. popped' = popped /\ Oldest' = Oldest /\ Oldest = tail
      BY <1>8, <1>12, Zenon DEF PushWrite, Oldest
    <2>2. n < Capacity /\ Index(head) = Index(WAdd(Oldest, n))
      <3>1. \A c \in Cursors : c \in Nat
        BY ModulusNat DEF Cursors
      <3>2. WSub(head, cachedTail) \in Nat
        BY <1>1, <3>1, WSubCases, Zenon DEF TypeOK
      <3> QED BY <1>1, <1>4, <1>12, <2>1, <3>2, WAddWSub DEF PushWrite, CursorInv
    <2>3. ASSUME NEW k \in 1 .. n PROVE Item(k)' = Item(k)
      <3>1. k - 1 \in 0 .. Capacity - 1 /\ n \in 0 .. Capacity - 1 /\ k - 1 # n
        BY <1>4, <2>2
      <3>2. Index(WAdd(Oldest, k - 1)) # Index(head)
        BY <1>6, <2>2, <3>1, Zenon
      <3>3. slots'[Index(WAdd(Oldest, k - 1))] = slots[Index(WAdd(Oldest, k - 1))]
        BY <1>1, <1>5, <1>12, <3>1, <3>2, Zenon DEF PushWrite
      <3> QED BY <1>12, <2>1, <3>3, Zenon DEF PushWrite, Item
    <2>4. WSub(head, Oldest)' = n
      BY <1>12, <2>1, Zenon DEF PushWrite
    <2>5. Content' = Content
      BY <1>2, <1>3, <2>3, <2>4, ContentSame, Zenon
    <2> QED BY <2>1, <2>5, Zenon
  <1>13. ASSUME PushPublish
         PROVE  /\ Content' = Append(Content, pval) /\ popped' = popped
                /\ pval \in Values /\ Len(Content) < Capacity
    <2>1. /\ Oldest' = tail /\ Oldest = tail
          /\ popped' = popped /\ pval \in Values /\ slots[Index(head)] = pval
      BY <1>1, <1>8, <1>13, Zenon DEF PushPublish, Oldest, SlotInv, TypeOK, Cells
    <2>2. n < Capacity /\ Index(head) = Index(WAdd(Oldest, n))
      <3>1. \A c \in Cursors : c \in Nat
        BY ModulusNat DEF Cursors
      <3>2. WSub(head, cachedTail) \in Nat
        BY <1>1, <3>1, WSubCases DEF TypeOK
      <3> QED BY <1>1, <1>4, <1>13, <2>1, <3>2, WAddWSub, SMTT(30) DEF PushPublish, CursorInv
    <2>3. WSub(head, Oldest)' = n + 1
      BY <1>1, <1>4, <1>13, <2>1, <2>2, Advance DEF PushPublish
    <2>4. pcC = "publish" => n >= 1
      BY <2>1, NonEmpty, Zenon
    <2>5. ASSUME NEW k \in 1 .. n PROVE Item(k)' = Item(k)
      BY <1>13, <2>1, Zenon DEF PushPublish, Item
    <2>6. ASSUME NEW k \in Nat, k = n + 1 PROVE Item(k)' = pval
      <3>1. k - 1 = n
        BY <1>4, <2>6
      <3>2. Item(k)' = slots[Index(WAdd(tail, k - 1))]
        BY <1>4, <1>13, <2>1, <2>4, <2>6 DEF PushPublish, Item
      <3> QED BY <2>1, <2>2, <3>1, <3>2
    <2>7. /\ Content \in Seq(Values) /\ Len(Content) = n
          /\ Content' \in Seq(Values) /\ Len(Content') = n + 1
      BY <1>2, <1>3, <2>3, Zenon DEF ContentFacts
    <2>8. /\ Append(Content, pval) \in Seq(Values) /\ Len(Append(Content, pval)) = n + 1
          /\ \A k \in 1 .. n : Append(Content, pval)[k] = Content[k]
          /\ Append(Content, pval)[n + 1] = pval
      BY <2>1, <2>7, AppendProperties
    <2>9. ASSUME NEW k \in 1 .. Len(Content') PROVE Content'[k] = Append(Content, pval)[k]
      <3>1. Content'[k] = Item(k)'
        BY <1>3, <2>3, <2>7 DEF ContentFacts
      <3>2. CASE k = n + 1
        BY <1>4, <2>6, <2>8, <3>1, <3>2
      <3>3. CASE k # n + 1
        <4>1. k \in 1 .. n
          BY <1>4, <2>7, <3>3
        <4>2. Content[k] = Item(k)
          BY <1>2, <4>1 DEF ContentFacts
        <4> QED BY <2>5, <2>8, <3>1, <4>1, <4>2, Zenon
      <3> QED BY <3>2, <3>3, Zenon
    <2>10. Content' = Append(Content, pval)
      BY <2>7, <2>8, <2>9, SeqEqual, Zenon
    <2> QED BY <2>1, <2>2, <2>7, <2>10, Zenon
  <1>14. ASSUME PopBegin PROVE UNCHANGED <<Content, popped>>
    <2>1. pcC = "idle" /\ pcC' \in {"reload", "read"}
      BY <1>14 DEF PopBegin
    <2> QED BY <1>9, <1>14, <2>1 DEF PopBegin, Oldest
  <1>15. ASSUME PopReload PROVE UNCHANGED <<Content, popped>>
    <2>1. pcC = "reload" /\ pcC' \in {"idle", "read"}
      BY <1>15 DEF PopReload
    <2> QED BY <1>9, <1>15, <2>1 DEF PopReload, Oldest
  <1>16. ASSUME PopRead PROVE UNCHANGED <<Content, popped>>
    <2>1. /\ popped' = popped /\ Oldest' = tail /\ Oldest = tail
          /\ pcC = "read" /\ pcC' = "publish"
      BY <1>8, <1>16 DEF PopRead, Oldest
    <2>2. ASSUME NEW k \in 1 .. n PROVE Item(k)' = Item(k)
      <3>1. k - 1 \in 0 .. Capacity - 1 /\ 0 \in 0 .. Capacity - 1
        BY <1>4
      <3>2. CASE k = 1
        <4>1. Item(k)' = slots[Index(tail)]
          BY <1>16, <2>1, <3>2 DEF PopRead, Item
        <4>2. Item(k) = slots[Index(WAdd(Oldest, 0))]
          BY <2>1, <3>2 DEF Item
        <4> QED BY <1>7, <2>1, <4>1, <4>2, Zenon
      <3>3. CASE k # 1
        <4>1. Index(WAdd(Oldest, k - 1)) # Index(Oldest)
          BY <1>6, <1>7, <3>1, <3>3
        <4>2. slots'[Index(WAdd(Oldest, k - 1))] = slots[Index(WAdd(Oldest, k - 1))]
          BY <1>1, <1>5, <1>16, <2>1, <3>1, <4>1, Zenon DEF PopRead
        <4> QED BY <2>1, <3>3, <4>2, Zenon DEF Item
      <3> QED BY <3>2, <3>3
    <2>3. WSub(head, Oldest)' = n
      BY <1>16, <2>1, Zenon DEF PopRead
    <2>4. Content' = Content
      BY <1>2, <1>3, <2>2, <2>3, ContentSame
    <2> QED BY <2>1, <2>4
  <1>17. ASSUME head # Oldest, Oldest' = WAdd(Oldest, 1), head' = head, pcC' # "publish",
                \A i \in 0 .. Capacity - 1 : i # Index(Oldest) => slots'[i] = slots[i]
         PROVE  Content # << >> /\ Head(Content) = Item(1) /\ Content' = Tail(Content)
    <2>1. n > 0 /\ WSub(head, Oldest)' = n - 1
      BY <1>1, <1>4, <1>17, Advance, SMTT(30)
    <2>2. ASSUME NEW k \in 1 .. WSub(head, Oldest)' PROVE Item(k)' = Item(k + 1)
      <3>1. k \in 1 .. n - 1 /\ k \in 0 .. Capacity - 1 /\ k - 1 \in 0 .. Capacity - 1
            /\ 0 \in 0 .. Capacity - 1 /\ (k - 1) + 1 = k /\ (k + 1) - 1 = k /\ k + 1 # 1 /\ k # 0
        BY <1>4, <2>1
      <3>2. Index(WAdd(WAdd(Oldest, 1), k - 1)) = Index(WAdd(Oldest, (k - 1) + 1))
        BY <1>1, <3>1, IndexShift, Zenon
      <3>3. Index(WAdd(Oldest, k)) # Index(Oldest)
        BY <1>6, <1>7, <3>1, Zenon
      <3>4. slots'[Index(WAdd(Oldest', k - 1))] = slots[Index(WAdd(Oldest, k))]
        BY <1>5, <1>17, <3>1, <3>2, <3>3, Zenon
      <3>5. Item(k)' = slots'[Index(WAdd(Oldest', k - 1))]
        BY <1>17 DEF Item
      <3>6. Item(k + 1) = slots[Index(WAdd(Oldest, k))]
        BY <3>1 DEF Item
      <3> QED BY <3>4, <3>5, <3>6, Zenon
    <2> QED BY <1>2, <1>3, <2>1, <2>2, ContentTail, Zenon
  <1>18. ASSUME PopPublish
         PROVE  Content # << >> /\ popped' = Head(Content) /\ Content' = Tail(Content)
    <2>1. /\ Oldest = tail /\ Oldest' = WAdd(Oldest, 1) /\ head' = head
          /\ pcC = "publish" /\ pcC' = "idle" /\ slots' = slots
          /\ popped' = cval
      BY <1>8, <1>18 DEF PopPublish, Oldest
    <2>2. head # Oldest
      BY <2>1, NonEmpty
    <2>3. Content # << >> /\ Head(Content) = Item(1) /\ Content' = Tail(Content)
      BY <1>17, <2>1, <2>2
    <2>4. Item(1) = cval
      BY <2>1 DEF Item
    <2> QED BY <2>1, <2>3, <2>4, Zenon
  <1>19. ASSUME DropProducer PROVE UNCHANGED <<Content, popped>>
    BY <1>9, <1>19 DEF DropProducer, Oldest
  <1>20. ASSUME DropConsumer PROVE UNCHANGED <<Content, popped>>
    <2>1. pcC = "idle" /\ pcC' = "dropped"
      BY <1>20 DEF DropConsumer
    <2> QED BY <1>9, <1>20, <2>1 DEF DropConsumer, Oldest
  <1>21. ASSUME DropSlot
         PROVE  Content # << >> /\ popped' = popped /\ Content' = Tail(Content)
    <2>1. Oldest' = WAdd(Oldest, 1)
      <3>1. WAdd(Oldest, 1) \in Cursors
        BY <1>1, Advance
      <3>2. WAdd(Oldest, 1) # NoValue
        BY <3>1, RingAssumption, ModulusNat DEF Cursors
      <3> QED BY <1>21, <3>2, Zenon DEF DropSlot, Oldest
    <2>2. \A i \in 0 .. Capacity - 1 : i # Index(Oldest) => slots'[i] = slots[i]
      BY <1>1, <1>7, <1>21 DEF DropSlot
    <2>3. popped' = popped /\ head' = head /\ pcC' # "publish"
      BY <1>21 DEF DropSlot, Closed
    <2>4. head # Oldest
      BY <1>21, Zenon DEF DropSlot
    <2>5. Content # << >> /\ Content' = Tail(Content)
      BY <1>17, <2>1, <2>2, <2>3, <2>4, Zenon
    <2> QED BY <2>3, <2>5, Zenon
  <1>22. ASSUME UNCHANGED vars PROVE UNCHANGED <<Content, popped>>
    BY <1>9, <1>22 DEF vars, Oldest
  <1>23. ASSUME QuietStep PROVE UNCHANGED <<Content, popped>>
    BY <1>10, <1>11, <1>12, <1>14, <1>15, <1>16, <1>19, <1>20, <1>22, <1>23, Zenon DEF QuietStep
  <1> QED BY <1>13, <1>18, <1>21, <1>23 DEF ContentMoves

\* Every step of the ring is a step of the queue or leaves it unchanged: the
\* store of head is the put, the store of tail the take, the drop of the
\* second handle the close.
LEMMA StepFifo == IInv /\ IInv' /\ [Next]_vars => [Fifo!Next]_(Fifo!vars)
  <1> SUFFICES ASSUME IInv, IInv', [Next]_vars PROVE [Fifo!Next]_(Fifo!vars)
    OBVIOUS
  <1> USE DEF producerVars, consumerVars
  <1>1. ContentMoves
    BY StepContent
  <1>2. CASE PushPublish
    <2>1. ~Closed /\ Closed' = Closed
      BY <1>2 DEF PushPublish, Closed
    <2>2. Fifo!Put(pval) /\ pval \in Values
      BY <1>1, <1>2, <2>1 DEF ContentMoves, Fifo!Put
    <2> QED BY <2>2 DEF Fifo!Next
  <1>3. CASE PopPublish
    <2>1. ~Closed /\ Closed' = Closed
      BY <1>3 DEF PopPublish, Closed
    <2>2. Fifo!Take
      BY <1>1, <1>3, <2>1 DEF ContentMoves, Fifo!Take
    <2> QED BY <2>2 DEF Fifo!Next
  <1>4. CASE DropSlot
    <2>1. Closed /\ Closed' = Closed
      BY <1>4 DEF DropSlot, Closed
    <2>2. Fifo!Discard
      BY <1>1, <1>4, <2>1 DEF ContentMoves, Fifo!Discard
    <2> QED BY <2>2 DEF Fifo!Next
  <1>5. CASE QuietStep
    <2>1. Content' = Content /\ popped' = popped
      BY <1>1, <1>5, ZenonT(30) DEF ContentMoves
    <2>2. Closed' = Closed \/ (~Closed /\ Closed' = TRUE)
      BY <1>5 DEF QuietStep, PushBegin, PushReload, PushWrite, PopBegin, PopReload, PopRead,
                  DropProducer, DropConsumer, vars, Closed
    <2> QED BY <2>1, <2>2 DEF Fifo!Next, Fifo!Close, Fifo!vars
  <1> QED BY <1>2, <1>3, <1>4, <1>5 DEF Next, Push, Pop, QuietStep

\* A new ring is empty.
LEMMA InitContent == Init => Content = << >>
  <1> SUFFICES ASSUME Init PROVE Content = << >>
    OBVIOUS
  <1>1. ContentFacts
    BY InitIInv, ContentSeq
  <1>2. WSub(head, Oldest) = 0
    <2>1. head \in Cursors /\ Oldest = head
      BY ModulusNat DEF Init, Oldest, Cursors
    <2> QED BY <2>1, Advance
  <1> QED BY <1>1, <1>2, EmptySeq DEF ContentFacts

\* The ring implements the bounded queue: every value is popped or dropped
\* exactly once, in the order of the pushes, at most Capacity at a time.
THEOREM Refinement == Spec => ImplementsFifo
  <1>1. Init => Fifo!Init
    BY InitContent, RingAssumption DEF Init, Fifo!Init, Closed
  <1> QED BY <1>1, StepFifo, Inductive, PTL DEF Spec, ImplementsFifo, Fifo!Spec
-----------------------------------------------------------------------------
(* The two threads of the gateway *)

GInv == IInv /\ GatewayInv

\* The ring and the two threads start in the invariant.
LEMMA InitGInv == GatewayInit => GInv
  <1> SUFFICES ASSUME GatewayInit PROVE GInv
    OBVIOUS
  <1>1. Init /\ IInv
    BY InitIInv DEF GatewayInit
  <1>2. Content = << >>
    BY <1>1, InitContent
  <1>3. GatewayTypeOK
    BY GatewayAssumption, EmptySeq DEF GatewayInit, GatewayTypeOK
  <1>4. HandlesInv
    BY DEF GatewayInit, Init, HandlesInv
  <1>5. Len(executed) = 0 /\ Len(Content) = 0 /\ DOMAIN executed = {} /\ DOMAIN Content = {}
    BY <1>2 DEF GatewayInit
  <1>6. OrderInv
    BY <1>5 DEF GatewayInit, OrderInv, Taken, Published
  <1>7. ShutdownInv
    BY DEF GatewayInit, ShutdownInv
  <1> QED BY <1>1, <1>3, <1>4, <1>6, <1>7 DEF GInv, GatewayInv

\* Every step of the threads is a step of the ring or leaves it unchanged, but
\* for the early return of run, which frees both handles at once.
LEMMA ThreadsUseRing ==
  GInv /\ [GatewayNext]_gatewayVars => [Next]_vars \/ UdpFails
  <1> SUFFICES ASSUME GInv, [GatewayNext]_gatewayVars, ~UdpFails PROVE [Next]_vars
    OBVIOUS
  <1>1. CASE PushCommand
    <2>1. received \in Values
      BY <1>1, GatewayAssumption DEF PushCommand, GInv, GatewayInv, GatewayTypeOK
    <2> QED BY <1>1, <2>1 DEF PushCommand, Next, Push
  <1>2. CASE PopCommand
    BY <1>2 DEF PopCommand, Next, Pop
  <1>3. CASE ListenerFails \/ Join
    BY <1>3 DEF ListenerFails, Join, Next
  <1>4. CASE Panic \/ EndLoop
    BY <1>4, Zenon DEF Panic, EndLoop, Next
  <1>5. CASE \/ Spawn \/ BindListener \/ Accept \/ ReadCommand \/ ClientLeaves \/ ClientFails
             \/ StoreFlag \/ ProcessCommand \/ FlagUnset \/ FlagSeen
    BY <1>5 DEF Spawn, BindListener, Accept, ReadCommand, ClientLeaves, ClientFails,
                StoreFlag, ProcessCommand, FlagUnset, FlagSeen
  <1>6. CASE UNCHANGED gatewayVars
    BY <1>6 DEF gatewayVars
  <1> QED BY <1>1, <1>2, <1>3, <1>4, <1>5, <1>6 DEF GatewayNext

\* A ring whose handles are both idle is as sound when both are freed.
LEMMA UdpFailsIInv == GInv /\ UdpFails => IInv' /\ UNCHANGED <<Content, popped>>
  <1> SUFFICES ASSUME GInv, UdpFails PROVE IInv' /\ UNCHANGED <<Content, popped>>
    BY Zenon
  <1>1. /\ TypeOK /\ CursorInv /\ SlotInv /\ dropCursor = NoValue
        /\ pcP = "idle" /\ pcC = "idle" /\ pcP' = "dropped" /\ pcC' = "dropped"
        /\ UNCHANGED <<slots, head, tail, cachedTail, cachedHead, knownTail, knownHead,
                       pval, cval, popped, dropCursor>>
    BY DEF UdpFails, GInv, GatewayInv, HandlesInv, IInv
  <1>2. Oldest' = Oldest
    BY <1>1, Zenon DEF Oldest
  <1>3. TypeOK'
    BY <1>1, Zenon DEF TypeOK
  <1>4. CursorInv'
    BY <1>1 DEF CursorInv
  <1>5. \A k : Live(k)' <=> Live(k)
    BY <1>1, <1>2, Zenon DEF Live
  <1>6. SlotInv'
    BY <1>1, <1>2, <1>5 DEF SlotInv
  <1>7. IInv /\ IInv'
    BY <1>3, <1>4, <1>6 DEF IInv, GInv
  <1>8. ContentFacts /\ ContentFacts'
    BY <1>7, ContentSeq, PTL
  <1>9. \A k : Item(k)' = Item(k)
    BY <1>1, <1>2 DEF Item
  <1>10. WSub(head, Oldest)' = WSub(head, Oldest)
    BY <1>1, <1>2
  <1>11. Content' = Content
    BY <1>8, <1>9, <1>10, ContentSame
  <1> QED BY <1>1, <1>7, <1>11

\* So the invariant of the ring is kept by the threads.
LEMMA ThreadsKeepRing == GInv /\ [GatewayNext]_gatewayVars => IInv'
  BY ThreadsUseRing, UdpFailsIInv, NextType, NextCursor, NextSlot DEF IInv, GInv

\* No step of the threads runs the loop that frees the slots.
LEMMA DropCursorKept == [GatewayNext]_gatewayVars => UNCHANGED dropCursor
  <1> SUFFICES ASSUME [GatewayNext]_gatewayVars PROVE dropCursor' = dropCursor
    BY Zenon
  <1> USE DEF vars, producerVars, consumerVars
  <1>1. CASE PushCommand
    BY <1>1, Zenon DEF PushCommand, PushBegin, PushReload, PushWrite, PushPublish
  <1>2. CASE PopCommand
    BY <1>2, Zenon DEF PopCommand, PopBegin, PopReload, PopRead, PopPublish
  <1>3. CASE UdpFails \/ ListenerFails \/ Join \/ Panic \/ EndLoop
    BY <1>3, Zenon DEF UdpFails, ListenerFails, Join, Panic, EndLoop, DropProducer, DropConsumer
  <1>4. CASE \/ Spawn \/ BindListener \/ Accept \/ ReadCommand \/ ClientLeaves \/ ClientFails
             \/ StoreFlag \/ ProcessCommand \/ FlagUnset \/ FlagSeen
    BY <1>4, Zenon DEF Spawn, BindListener, Accept, ReadCommand, ClientLeaves, ClientFails,
                StoreFlag, ProcessCommand, FlagUnset, FlagSeen
  <1>5. CASE UNCHANGED gatewayVars
    BY <1>5 DEF gatewayVars
  <1> QED BY <1>1, <1>2, <1>3, <1>4, <1>5 DEF GatewayNext

\* What a step of the threads does to the content of the ring is what the
\* steps of the ring do, and the early return of run leaves it alone.
LEMMA ThreadsMoveContent ==
  GInv /\ [GatewayNext]_gatewayVars
    => ContentMoves /\ (UdpFails \/ QuietStep => UNCHANGED <<Content, popped>>)
  <1> SUFFICES ASSUME GInv, [GatewayNext]_gatewayVars
               PROVE  ContentMoves /\ (UdpFails \/ QuietStep => UNCHANGED <<Content, popped>>)
    OBVIOUS
  <1>1. ContentMoves
    BY ThreadsKeepRing, StepContent DEF GInv
  <1> QED BY <1>1, UdpFailsIInv DEF ContentMoves

\* The invariant in one place, with what the steps need of it.
GatewayFacts ==
  /\ GatewayTypeOK /\ HandlesInv /\ OrderInv /\ ShutdownInv
  /\ Content \in Seq(Values) /\ Len(Content) \in Nat /\ Len(executed) \in Nat
  /\ DOMAIN Content = 1 .. Len(Content) /\ DOMAIN executed = 1 .. Len(executed)
  /\ Taken \in Nat /\ Published \in Nat /\ received \in Nat

\* The facts hold in every state of the invariant.
LEMMA FactsHold == GInv => GatewayFacts
  <1> SUFFICES ASSUME GInv PROVE GatewayFacts
    OBVIOUS
  <1>1. GatewayTypeOK /\ HandlesInv /\ OrderInv /\ ShutdownInv /\ IInv
    BY DEF GInv, GatewayInv
  <1>2. Content \in Seq(Values)
    BY <1>1, ContentSeq DEF ContentFacts
  <1>3. Len(Content) \in Nat /\ DOMAIN Content = 1 .. Len(Content)
    BY <1>2, LenProperties
  <1>4. Len(executed) \in Nat /\ DOMAIN executed = 1 .. Len(executed)
    BY <1>1, LenProperties DEF GatewayTypeOK
  <1>5. received \in Nat /\ (runPc = "push" => received > 0)
    BY <1>1, GatewayAssumption DEF GatewayTypeOK
  <1> QED BY <1>1, <1>2, <1>3, <1>4, <1>5 DEF GatewayFacts, Taken, Published

\* The program counters and counters of the threads stay in range.
LEMMA NextGatewayType == GInv /\ [GatewayNext]_gatewayVars => GatewayTypeOK'
  <1> SUFFICES ASSUME GInv, [GatewayNext]_gatewayVars PROVE GatewayTypeOK'
    OBVIOUS
  <1> USE DEF GatewayTypeOK, loopVars, runVars
  <1>1. GatewayFacts /\ GatewayTypeOK
    BY FactsHold DEF GatewayFacts
  <1>2. CASE PushCommand
    BY <1>1, <1>2 DEF PushCommand
  <1>3. CASE PopCommand
    BY <1>1, <1>3, Zenon DEF PopCommand
  <1>4. CASE UdpFails \/ ListenerFails \/ Join
    BY <1>1, <1>4, Zenon DEF UdpFails, ListenerFails, Join
  <1>5. CASE Panic \/ EndLoop \/ FlagUnset \/ FlagSeen
    BY <1>1, <1>5, Zenon DEF Panic, EndLoop, FlagUnset, FlagSeen
  <1>6. CASE Spawn \/ BindListener \/ Accept \/ ClientLeaves \/ ClientFails \/ StoreFlag
    BY <1>1, <1>6, Zenon DEF Spawn, BindListener, Accept, ClientLeaves, ClientFails, StoreFlag
  <1>7. CASE ReadCommand
    BY <1>1, <1>7, GatewayAssumption DEF ReadCommand
  <1>8. CASE ProcessCommand
    <2>1. popped \in Nat
      BY <1>1, <1>8, Zenon DEF ProcessCommand, GatewayFacts, OrderInv
    <2>2. executed' \in Seq(Nat)
      BY <1>1, <1>8, <2>1, AppendProperties, Zenon DEF ProcessCommand
    <2> QED BY <1>1, <1>8, <2>2, Zenon DEF ProcessCommand
  <1>9. CASE UNCHANGED gatewayVars
    BY <1>1, <1>9, Zenon DEF gatewayVars
  <1> QED BY <1>2, <1>3, <1>4, <1>5, <1>6, <1>7, <1>8, <1>9, Zenon DEF GatewayNext

\* Each thread uses its own half of the ring, and only while it pushes or pops.
LEMMA NextHandles == GInv /\ [GatewayNext]_gatewayVars => HandlesInv'
  <1> SUFFICES ASSUME GInv, [GatewayNext]_gatewayVars PROVE HandlesInv'
    OBVIOUS
  <1> USE DEF HandlesInv, loopVars, runVars, vars, producerVars, consumerVars
  <1>1. HandlesInv /\ dropCursor' = NoValue
    BY DropCursorKept, Zenon DEF GInv, GatewayInv
  <1>2. CASE PushCommand
    <2>1. CASE PushBegin(received) \/ PushReload \/ PushWrite
      BY <1>1, <1>2, <2>1, Zenon DEF PushCommand, PushBegin, PushReload, PushWrite, PushPublish
    <2>2. CASE PushPublish
      BY <1>1, <1>2, <2>2, Zenon DEF PushCommand, PushBegin, PushReload, PushWrite, PushPublish
    <2> QED BY <1>2, <2>1, <2>2, Zenon DEF PushCommand
  <1>3. CASE PopCommand
    BY <1>1, <1>3, Zenon DEF PopCommand, PopBegin, PopReload, PopRead, PopPublish
  <1>4. CASE UdpFails \/ ListenerFails \/ Join
    BY <1>1, <1>4, Zenon DEF UdpFails, ListenerFails, Join, DropProducer
  <1>5. CASE Panic \/ EndLoop \/ FlagUnset \/ FlagSeen \/ ProcessCommand
    BY <1>1, <1>5, Zenon DEF Panic, EndLoop, FlagUnset, FlagSeen, ProcessCommand, DropConsumer
  <1>6. CASE Spawn \/ BindListener \/ Accept \/ ClientLeaves \/ ClientFails \/ StoreFlag
    BY <1>1, <1>6, Zenon DEF Spawn, BindListener, Accept, ClientLeaves, ClientFails, StoreFlag
  <1>7. CASE ReadCommand
    BY <1>1, <1>7, Zenon DEF ReadCommand
  <1>8. CASE UNCHANGED gatewayVars
    BY <1>1, <1>8, Zenon DEF gatewayVars
  <1> QED BY <1>2, <1>3, <1>4, <1>5, <1>6, <1>7, <1>8, Zenon DEF GatewayNext

\* Nothing else than the two publishing steps and the processing of a command
\* changes what is published, taken, executed or in the ring.
LEMMA OrderKept ==
  ASSUME OrderInv, Content' = Content, popped' = popped, executed' = executed,
         Published' = Published, Taken' = Taken, loopPc' = "process" => loopPc = "process"
  PROVE  OrderInv'
  BY DEF OrderInv

\* The order of the commands is kept by every step of the two threads.
LEMMA NextOrder == GInv /\ [GatewayNext]_gatewayVars => OrderInv'
  <1> SUFFICES ASSUME GInv, [GatewayNext]_gatewayVars PROVE OrderInv'
    OBVIOUS
  <1> USE DEF loopVars, runVars
  <1>1. GatewayFacts /\ OrderInv /\ HandlesInv /\ ContentMoves
    BY FactsHold, ThreadsMoveContent DEF GatewayFacts
  <1>2. ASSUME UdpFails \/ QuietStep PROVE Content' = Content /\ popped' = popped
    BY <1>2, ThreadsMoveContent, Zenon
  <1>3. CASE PushCommand /\ PushPublish /\ runPc' = "read"
    <2>1. /\ runPc = "push" /\ runPc' = "read" /\ pval = received
          /\ UNCHANGED <<received, executed, loopPc>>
      BY <1>1, <1>3, Zenon DEF HandlesInv, PushPublish, PushCommand
    <2>2. Content' = Append(Content, received) /\ popped' = popped /\ received \in Values
      BY <1>1, <1>3, <2>1, Zenon DEF ContentMoves
    <2>3. Published' = received /\ Published = received - 1 /\ Taken' = Taken
      BY <2>1, Zenon DEF Published, Taken
    <2>4. /\ Len(Content') = Len(Content) + 1 /\ Content' \in Seq(Values)
          /\ \A k \in 1 .. Len(Content) : Content'[k] = Content[k]
          /\ Content'[Len(Content) + 1] = received
      BY <1>1, <2>2, AppendProperties DEF GatewayFacts
    <2>5. Taken + Len(Content') = Published'
      BY <1>1, <2>3, <2>4 DEF GatewayFacts, OrderInv
    <2>6. DOMAIN Content' = 1 .. Len(Content) + 1
      BY <2>4, LenProperties, Zenon
    <2>7. ASSUME NEW k \in DOMAIN Content' PROVE Content'[k] = Taken + k
      BY <1>1, <2>3, <2>4, <2>5, <2>6, SMTT(30) DEF GatewayFacts, OrderInv
    <2> QED BY <1>1, <2>1, <2>2, <2>3, <2>5, <2>7, Zenon DEF OrderInv
  <1>4. CASE PopCommand /\ PopPublish /\ loopPc' = "process"
    <2>1. loopPc = "pop" /\ loopPc' = "process" /\ UNCHANGED <<runPc, received, executed>>
      BY <1>4 DEF PopCommand
    <2>2. Content # << >> /\ popped' = Head(Content) /\ Content' = Tail(Content)
      BY <1>1, <1>4 DEF ContentMoves
    <2>3. Published' = Published /\ Taken' = Taken + 1
      BY <2>1 DEF Published, Taken
    <2>4. /\ Len(Content') = Len(Content) - 1 /\ Content' \in Seq(Values)
          /\ \A k \in 1 .. Len(Content') : Content'[k] = Content[k + 1]
      BY <1>1, <2>2, HeadTailProperties DEF GatewayFacts
    <2>5. Len(Content) > 0
      BY <1>1, <2>2, EmptySeq DEF GatewayFacts
    <2>6. popped' = Taken'
      BY <1>1, <2>2, <2>3, <2>5, SMTT(30) DEF GatewayFacts, OrderInv
    <2>7. DOMAIN Content' = 1 .. Len(Content')
      BY <2>4, LenProperties
    <2>8. ASSUME NEW k \in DOMAIN Content' PROVE Content'[k] = Taken' + k
      <3>1. /\ k \in Nat /\ k \in 1 .. Len(Content') /\ Taken \in Nat
            /\ k + 1 \in DOMAIN Content
        BY <1>1, <2>4, <2>5, <2>7 DEF GatewayFacts
      <3>2. Content'[k] = Content[k + 1] /\ Content[k + 1] = Taken + (k + 1)
        BY <1>1, <2>4, <3>1, Zenon DEF OrderInv
      <3> QED BY <2>3, <3>1, <3>2
    <2>9. Taken' + Len(Content') = Published'
      <3>1. Taken \in Nat /\ Len(Content) \in Nat /\ Taken + Len(Content) = Published
        BY <1>1, Zenon DEF GatewayFacts, OrderInv
      <3> QED BY <2>3, <2>4, <3>1
    <2> QED BY <1>1, <2>1, <2>6, <2>8, <2>9 DEF OrderInv
  <1>5. CASE ProcessCommand
    <2>1. /\ loopPc = "process" /\ loopPc' = "pop" /\ UNCHANGED <<vars, runPc, received>>
          /\ executed' = Append(executed, popped)
      BY <1>5 DEF ProcessCommand
    <2>2. Content' = Content /\ popped' = popped
      BY <1>2, <2>1, Zenon DEF QuietStep
    <2>3. popped = Len(executed) + 1 /\ popped \in Nat /\ Taken = Len(executed) + 1
      BY <1>1, <2>1 DEF GatewayFacts, OrderInv, Taken
    <2>4. executed \in Seq(Nat)
      BY <1>1, Zenon DEF GatewayFacts, GatewayTypeOK
    <2>5. /\ executed' \in Seq(Nat) /\ Len(executed') = Len(executed) + 1
          /\ \A k \in 1 .. Len(executed) : executed'[k] = executed[k]
          /\ executed'[Len(executed) + 1] = popped
      BY <2>1, <2>3, <2>4, AppendProperties
    <2>6. DOMAIN executed' = 1 .. Len(executed) + 1
      BY <2>5, LenProperties, Zenon
    <2>7. ASSUME NEW k \in DOMAIN executed' PROVE executed'[k] = k
      BY <1>1, <2>3, <2>5, <2>6, SMTT(30) DEF GatewayFacts, OrderInv
    <2>8. Taken' = Taken /\ Published' = Published
      BY <2>1, <2>3, <2>5 DEF Taken, Published
    <2> QED BY <1>1, <2>1, <2>2, <2>7, <2>8, Zenon DEF OrderInv
  <1>6. CASE PushCommand /\ (PushBegin(received) \/ PushReload \/ PushWrite) /\ UNCHANGED runPc
    <2>1. received \in Values
      BY <1>1, <1>6, GatewayAssumption DEF PushCommand, GatewayFacts, GatewayTypeOK
    <2>2. QuietStep
      BY <1>6, <2>1 DEF QuietStep
    <2>3. Published' = Published /\ Taken' = Taken /\ executed' = executed /\ loopPc' = loopPc
      BY <1>6 DEF PushCommand, Published, Taken
    <2> QED BY <1>1, <1>2, <2>2, <2>3, OrderKept, Zenon
  <1>7. CASE PopCommand /\ (PopBegin \/ PopReload \/ PopRead) /\ loopPc' \in {"pop", "empty"}
    <2>1. QuietStep
      BY <1>7 DEF QuietStep
    <2>2. Published' = Published /\ Taken' = Taken /\ executed' = executed /\ loopPc' # "process"
      BY <1>7 DEF PopCommand, Published, Taken
    <2> QED BY <1>1, <1>2, <2>1, <2>2, OrderKept
  <1>8. CASE UdpFails \/ ListenerFails \/ Join
    <2>1. UdpFails \/ QuietStep
      BY <1>8, Zenon DEF ListenerFails, Join, QuietStep
    <2>2. Published' = Published /\ Taken' = Taken /\ executed' = executed /\ loopPc' = loopPc
      BY <1>8, Zenon DEF UdpFails, ListenerFails, Join, Published, Taken
    <2> QED BY <1>1, <1>2, <2>1, <2>2, OrderKept, Zenon
  <1>9. CASE Panic \/ EndLoop \/ FlagUnset \/ FlagSeen
    <2>1. QuietStep
      BY <1>9, Zenon DEF Panic, EndLoop, FlagUnset, FlagSeen, QuietStep
    <2>2. Published' = Published /\ Taken' = Taken /\ executed' = executed /\ loopPc' # "process"
      BY <1>9 DEF Panic, EndLoop, FlagUnset, FlagSeen, Published, Taken
    <2> QED BY <1>1, <1>2, <2>1, <2>2, OrderKept
  <1>10. CASE Spawn \/ BindListener \/ Accept \/ ClientLeaves \/ ClientFails \/ StoreFlag
    <2>1. QuietStep
      BY <1>10, Zenon DEF Spawn, BindListener, Accept, ClientLeaves, ClientFails, StoreFlag, QuietStep
    <2>2. loopPc' = loopPc \/ (runPc = "udp" /\ loopPc' = "pop")
      BY <1>10, Zenon DEF Spawn, BindListener, Accept, ClientLeaves, ClientFails, StoreFlag
    <2>3. Taken' = Taken /\ (loopPc' = "process" => loopPc = "process") /\ executed' = executed
      BY <1>1, <1>10, <2>2, Zenon DEF Spawn, BindListener, Accept, ClientLeaves, ClientFails, StoreFlag,
                               Taken, HandlesInv
    <2>4. Published' = Published
      BY <1>10 DEF Spawn, BindListener, Accept, ClientLeaves, ClientFails, StoreFlag, Published
    <2> QED BY <1>1, <1>2, <2>1, <2>3, <2>4, OrderKept, Zenon
  <1>11. CASE ReadCommand
    <2>1. QuietStep
      BY <1>11 DEF ReadCommand, QuietStep
    <2>2. Published' = Published
      BY <1>1, <1>11 DEF ReadCommand, Published, GatewayFacts
    <2>3. Taken' = Taken /\ executed' = executed /\ loopPc' = loopPc
      BY <1>11, Zenon DEF ReadCommand, Taken
    <2> QED BY <1>1, <1>2, <2>1, <2>2, <2>3, OrderKept, Zenon
  <1>12. CASE UNCHANGED gatewayVars
    <2>1. QuietStep
      BY <1>12 DEF gatewayVars, QuietStep
    <2>2. Published' = Published /\ Taken' = Taken /\ executed' = executed /\ loopPc' = loopPc
      BY <1>12, Zenon DEF gatewayVars, Published, Taken
    <2> QED BY <1>1, <1>2, <2>1, <2>2, OrderKept
  <1>13. CASE PushCommand
    BY <1>3, <1>6, <1>13, Zenon DEF PushCommand
  <1>14. CASE PopCommand
    BY <1>4, <1>7, <1>14, Zenon DEF PopCommand
  <1> QED BY <1>5, <1>8, <1>9, <1>10, <1>11, <1>12, <1>13, <1>14, Zenon DEF GatewayNext

\* A drained ring stays drained: after the store of the flag nothing is pushed.
LEMMA NextShutdown == GInv /\ [GatewayNext]_gatewayVars => ShutdownInv'
  <1> SUFFICES ASSUME GInv, [GatewayNext]_gatewayVars PROVE ShutdownInv'
    OBVIOUS
  <1> USE DEF ShutdownInv, loopVars, runVars
  <1>1. GatewayFacts /\ ShutdownInv /\ HandlesInv /\ ContentMoves /\ GatewayTypeOK
    BY FactsHold, ThreadsMoveContent DEF GatewayFacts
  <1>2. ASSUME UdpFails \/ QuietStep PROVE Content' = Content
    BY <1>2, ThreadsMoveContent, Zenon
  <1>3. CASE PushCommand
    BY <1>1, <1>3, Zenon DEF PushCommand
  <1>4. CASE PopCommand /\ loopPc' # "empty"
    BY <1>1, <1>4, Zenon DEF PopCommand
  <1>5. CASE PopCommand /\ loopPc' = "empty"
    <2>1. /\ PopReload /\ pcC' = "idle" /\ loopPc = "pop"
          /\ draining => cachedHead' = head
          /\ UNCHANGED <<draining, runPc, result, shutdown>>
      BY <1>5, Zenon DEF PopCommand
    <2>2. tail = cachedHead' /\ head' = head /\ tail' = tail /\ dropCursor' = dropCursor
      BY <2>1 DEF PopReload
    <2>3. ASSUME draining PROVE Content' = << >>
      <3>1. head' = Oldest'
        BY <1>1, <2>1, <2>2, <2>3 DEF Oldest, HandlesInv
      <3>2. IInv'
        BY ThreadsKeepRing
      <3>3. ContentFacts' /\ TypeOK'
        BY <3>2, ContentSeq, PTL DEF IInv
      <3>4. WSub(head', Oldest') = 0
        BY <3>1, <3>3, Advance, Zenon DEF TypeOK
      <3>5. Content' \in Seq(Values) /\ Len(Content') = 0
        BY <3>3, <3>4 DEF ContentFacts
      <3> QED BY <3>5, EmptySeq, Zenon
    <2> QED BY <1>1, <1>5, <2>1, <2>3, Zenon
  <1>6. CASE UdpFails \/ ListenerFails \/ Join
    <2>1. UdpFails \/ QuietStep
      BY <1>6 DEF ListenerFails, Join, QuietStep
    <2>2. Content' = Content
      BY <1>2, <2>1, Zenon
    <2>3. CASE UdpFails
      BY <1>1, <2>2, <2>3, Zenon DEF UdpFails
    <2>4. CASE ListenerFails
      BY <1>1, <2>2, <2>4, Zenon DEF ListenerFails
    <2>5. CASE Join
      BY <1>1, <2>2, <2>5, Zenon DEF Join
    <2> QED BY <1>6, <2>3, <2>4, <2>5, Zenon
  <1>7. CASE Panic \/ EndLoop \/ FlagUnset \/ FlagSeen \/ ProcessCommand
    <2>1. QuietStep
      BY <1>7, Zenon DEF Panic, EndLoop, FlagUnset, FlagSeen, ProcessCommand, QuietStep
    <2> QED BY <1>1, <1>2, <1>7, <2>1 DEF Panic, EndLoop, FlagUnset, FlagSeen, ProcessCommand
  <1>8. CASE \/ Spawn \/ BindListener \/ Accept \/ ReadCommand \/ ClientLeaves \/ ClientFails
             \/ StoreFlag
    <2>1. QuietStep
      BY <1>8, Zenon DEF Spawn, BindListener, Accept, ReadCommand, ClientLeaves, ClientFails,
                  StoreFlag, QuietStep
    <2> QED BY <1>1, <1>2, <1>8, <2>1, SMTT(30) DEF Spawn, BindListener, Accept, ReadCommand,
                                          ClientLeaves, ClientFails, StoreFlag
  <1>9. CASE UNCHANGED gatewayVars
    <2>1. QuietStep
      BY <1>9 DEF gatewayVars, QuietStep
    <2> QED BY <1>1, <1>2, <1>9, <2>1 DEF gatewayVars
  <1> QED BY <1>3, <1>4, <1>5, <1>6, <1>7, <1>8, <1>9, Zenon DEF GatewayNext

\* The invariant of the gateway holds in every reachable state, for every
\* capacity and cursor width of the ring and every stream of commands.
THEOREM GatewayInvariant == GatewaySpec => []GInv
  <1>1. GInv /\ [GatewayNext]_gatewayVars => GInv'
    BY ThreadsKeepRing, NextGatewayType, NextHandles, NextOrder, NextShutdown, Zenon
    DEF GInv, GatewayInv
  <1> QED BY <1>1, InitGInv, PTL DEF GatewaySpec

\* The commands are processed in the order the client sent them, none twice
\* and none that was not sent.
THEOREM ExecutesInOrder == GatewaySpec => []ExecutedInOrder
  <1>1. GInv => ExecutedInOrder
    <2> SUFFICES ASSUME GInv PROVE ExecutedInOrder
      OBVIOUS
    <2>1. GatewayFacts
      BY FactsHold, Zenon
    <2>2. Len(executed) <= received
      BY <2>1 DEF GatewayFacts, OrderInv, Taken, Published
    <2> QED BY <2>1, <2>2 DEF GatewayFacts, OrderInv, ExecutedInOrder
  <1> QED BY <1>1, GatewayInvariant, PTL

\* When run has served a client and returns without a panic, every command it
\* read has been processed.
THEOREM NothingIsLeft == GatewaySpec => []NothingLeftInRing
  <1>1. GInv => NothingLeftInRing
    <2> SUFFICES ASSUME GInv, runPc = "returned", result \in {"Ok", "ClientErr"}
                 PROVE  Len(executed) = received
      BY DEF NothingLeftInRing
    <2>1. GatewayFacts
      BY FactsHold
    <2>2. loopPc = "ended" /\ Content = << >>
      BY <2>1 DEF GatewayFacts, ShutdownInv
    <2>3. Len(Content) = 0
      BY <2>2
    <2> QED BY <2>1, <2>2, <2>3 DEF GatewayFacts, OrderInv, Taken, Published
  <1> QED BY <1>1, GatewayInvariant, PTL
==============================================================================
