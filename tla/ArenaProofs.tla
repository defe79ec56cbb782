----------------------------- MODULE ArenaProofs -----------------------------
(***************************************************************************)
(* The arena's lists and the levels, proved for every capacity, width of a *)
(* quantity and set of prices.  First what the proofs need of sequences,   *)
(* sums and recursive functions, none of which mentions the state.         *)
(***************************************************************************)
EXTENDS OrderBook, FiniteSetTheorems, TLAPS

(* Remainders, induction over the naturals, finite sets *)

\* A number is its quotient times the divisor plus a remainder in range.
LEMMA ModFacts ==
  ASSUME NEW m \in Nat \ {0}, NEW x \in Int
  PROVE  x % m \in 0 .. m - 1 /\ x \div m \in Int /\ x = (m * (x \div m)) + (x % m)
  OBVIOUS

\* Such a decomposition determines the remainder.
LEMMA ModUnique ==
  ASSUME NEW m \in Nat \ {0}, NEW q \in Int, NEW r \in 0 .. m - 1
  PROVE  ((m * q) + r) % m = r
  OBVIOUS

\* Two numbers that differ by a multiple of the modulus are congruent.
LEMMA ModCongruent ==
  ASSUME NEW m \in Nat \ {0}, NEW x \in Int, NEW y \in Int, NEW q \in Int,
         x = y + (m * q)
  PROVE  x % m = y % m
  <1>1. PICK d \in Int : d = y \div m
    BY ModFacts
  <1>2. PICK r \in 0 .. m - 1 : r = y % m /\ y = (m * d) + r
    BY ModFacts, <1>1, Zenon
  <1>3. PICK e \in Int : e = d + q
    OBVIOUS
  <1>4. x = (m * e) + r
    BY <1>2, <1>3
  <1> QED BY <1>2, <1>4, ModUnique, Zenon

\* Wrapping before adding changes nothing.
LEMMA WrappedSum ==
  ASSUME NEW m \in Nat \ {0}, NEW x \in Int, NEW y \in Int
  PROVE  ((x % m) + y) % m = (x + y) % m
  <1>1. PICK q \in Int : q = x \div m
    BY ModFacts
  <1>2. PICK r \in 0 .. m - 1 : r = x % m
    BY ModFacts
  <1>3. x = (m * q) + r
    BY <1>1, <1>2, ModFacts
  <1>4. x + y \in Int /\ r + y \in Int /\ x + y = (r + y) + (m * q)
    BY <1>3
  <1>5. (x + y) % m = (r + y) % m
    BY <1>4, ModCongruent, Zenon
  <1> QED BY <1>2, <1>5

\* A set that holds 0 and with each natural number the next holds them all.
LEMMA SetInduction ==
  ASSUME NEW S, 0 \in S, \A n \in Nat : n \in S => n + 1 \in S
  PROVE  Nat \subseteq S
  <1> DEFINE T == Nat \ S
  <1> SUFFICES ASSUME T # {} PROVE FALSE
    OBVIOUS
  <1>1. \E x \in T : \A y \in T : ~(<<y, x>> \in OpToRel(<, Nat))
    <2>1. T \subseteq Nat
      OBVIOUS
    <2> HIDE DEF T
    <2> QED BY <2>1, NatLessThanWellFounded, WFMin
  <1>2. PICK x \in T : \A y \in T : ~(<<y, x>> \in OpToRel(<, Nat))
    BY <1>1
  <1>3. \A y \in T : ~ (y < x)
    BY <1>2, Zenon DEF OpToRel
  <1>4. x # 0 /\ x - 1 \in Nat /\ x - 1 < x
    OBVIOUS
  <1>5. x - 1 \in S
    BY <1>3, <1>4
  <1>6. x \in S
    BY <1>4, <1>5
  <1> QED BY <1>6

\* f is the solution over 0 .. n of the recursion that starts at a and takes
\* its k-th value from the one before by g[k].
Solves(f, n, X, a, g) ==
  f \in [0 .. n -> X] /\ f[0] = a /\ \A k \in 1 .. n : f[k] = g[k][f[k - 1]]

\* A finite recursion has a solution.
LEMMA FiniteRecursion ==
  ASSUME NEW N \in Nat, NEW X, NEW a \in X, NEW g \in [1 .. N -> [X -> X]]
  PROVE  \E f : Solves(f, N, X, a, g)
  <1> DEFINE S == {n \in Nat : n <= N => \E f : Solves(f, n, X, a, g)}
  <1>1. 0 \in S
    <2> DEFINE f == [k \in 0 .. 0 |-> a]
    <2>1. f \in [0 .. 0 -> X] /\ f[0] = a /\ \A k \in 1 .. 0 : f[k] = g[k][f[k - 1]]
      OBVIOUS
    <2> HIDE DEF f
    <2> QED BY <2>1 DEF Solves
  <1>2. ASSUME NEW n \in Nat, n \in S PROVE n + 1 \in S
    <2> SUFFICES ASSUME n + 1 <= N PROVE \E f : Solves(f, n + 1, X, a, g)
      OBVIOUS
    <2>1. PICK f : Solves(f, n, X, a, g)
      BY <1>2
    <2>2. /\ f \in [0 .. n -> X] /\ f[0] = a
          /\ \A k \in 1 .. n : f[k] = g[k][f[k - 1]]
      BY <2>1 DEF Solves
    <2> DEFINE e == [k \in 0 .. n + 1 |-> IF k = n + 1 THEN g[n + 1][f[n]] ELSE f[k]]
    <2>3. e \in [0 .. n + 1 -> X]
      <3>1. g[n + 1] \in [X -> X] /\ f[n] \in X
        BY <2>2
      <3>2. g[n + 1][f[n]] \in X
        BY <3>1
      <3> QED BY <2>2, <3>2
    <2>4. e[0] = a
      BY <2>2
    <2>5. ASSUME NEW k \in 1 .. n + 1 PROVE e[k] = g[k][e[k - 1]]
      <3>1. CASE k = n + 1
        BY <3>1
      <3>2. CASE k \in 1 .. n
        BY <2>2, <3>2
      <3> QED BY <3>1, <3>2
    <2> HIDE DEF e
    <2> QED BY <2>3, <2>4, <2>5 DEF Solves
  <1>3. N \in S
    <2> HIDE DEF S
    <2> QED BY <1>1, <1>2, SetInduction
  <1> QED BY <1>3

\* What Append does to a sequence.
LEMMA AppendIs ==
  ASSUME NEW S, NEW s \in Seq(S), NEW e \in S
  PROVE  /\ Append(s, e) \in Seq(S) /\ Append(s, e) # << >>
         /\ Len(Append(s, e)) = Len(s) + 1
         /\ \A i \in 1 .. Len(s) : Append(s, e)[i] = s[i]
         /\ Append(s, e)[Len(s) + 1] = e
  OBVIOUS

\* A sequence of distinct elements of a finite set is no longer than the set.
LEMMA DistinctBound ==
  ASSUME NEW T, IsFiniteSet(T), NEW s \in Seq(T),
         \A j, k \in 1 .. Len(s) : s[j] = s[k] => j = k
  PROVE  Len(s) <= Cardinality(T)
  <1>1. Len(s) \in Nat /\ s \in [1 .. Len(s) -> T]
    OBVIOUS
  <1>2. s \in Injection(1 .. Len(s), T)
    BY <1>1 DEF Injection, IsInjective
  <1>3. Cardinality(1 .. Len(s)) <= Cardinality(T)
    BY <1>2, FS_Injection
  <1>4. Cardinality(1 .. Len(s)) = Len(s)
    BY <1>1, FS_Interval, SMTT(30)
  <1> QED BY <1>3, <1>4

\* A finite set of integers that is not empty has a least and a greatest
\* element.
LEMMA FiniteBounds ==
  ASSUME NEW T, IsFiniteSet(T), T \subseteq Int, T # {}
  PROVE  /\ \E m \in T : \A x \in T : x <= m
         /\ \E m \in T : \A x \in T : m <= x
  <1> DEFINE Bounded(U) == /\ \E m \in U : \A x \in U : x <= m
                           /\ \E m \in U : \A x \in U : m <= x
             S == {n \in Nat : \A U \in SUBSET Int :
                     IsFiniteSet(U) /\ Cardinality(U) = n + 1 => Bounded(U)}
  <1>1. 0 \in S
    <2> SUFFICES ASSUME NEW U \in SUBSET Int, IsFiniteSet(U), Cardinality(U) = 1
                 PROVE  Bounded(U)
      OBVIOUS
    <2>1. PICK x : U = {x}
      BY FS_Singleton
    <2> QED BY <2>1
  <1>2. ASSUME NEW n \in Nat, n \in S PROVE n + 1 \in S
    <2> SUFFICES ASSUME NEW U \in SUBSET Int, IsFiniteSet(U), Cardinality(U) = n + 2
                 PROVE  Bounded(U)
      OBVIOUS
    <2>1. PICK x \in U : TRUE
      <3>1. U # {}
        BY FS_EmptySet
      <3> QED BY <3>1, Zenon
    <2>2. IsFiniteSet(U \ {x}) /\ Cardinality(U \ {x}) = n + 1
      BY <2>1, FS_RemoveElement
    <2>3. Bounded(U \ {x})
      BY <1>2, <2>2
    <2>4. PICK m \in U \ {x}, l \in U \ {x} : \A y \in U \ {x} : y <= m /\ l <= y
      BY <2>3, Zenon
    <2>5. x \in Int /\ m \in Int /\ l \in Int
      BY <2>1, <2>4
    <2>6. \E h \in U : \A y \in U : y <= h
      <3>1. CASE x <= m
        BY <2>4, <2>5, <3>1
      <3>2. CASE m <= x
        <4>1. \A y \in U : y <= x
          BY <2>4, <2>5, <3>2
        <4> QED BY <2>1, <4>1
      <3> QED BY <2>5, <3>1, <3>2
    <2>7. \E h \in U : \A y \in U : h <= y
      <3>1. CASE l <= x
        BY <2>4, <2>5, <3>1
      <3>2. CASE x <= l
        <4>1. \A y \in U : x <= y
          BY <2>4, <2>5, <3>2
        <4> QED BY <2>1, <4>1
      <3> QED BY <2>5, <3>1, <3>2
    <2> QED BY <2>6, <2>7, Zenon
  <1>3. Nat \subseteq S
    <2> HIDE DEF S
    <2> QED BY <1>1, <1>2, SetInduction
  <1>4. Cardinality(T) \in Nat /\ Cardinality(T) # 0
    BY FS_CardinalityType, FS_EmptySet
  <1>5. Cardinality(T) - 1 \in S /\ (Cardinality(T) - 1) + 1 = Cardinality(T)
    BY <1>3, <1>4
  <1> QED BY <1>5
-----------------------------------------------------------------------------
(* Sequences *)

\* A function over 1 .. n is a sequence of length n.
LEMMA FunctionIsSeq ==
  ASSUME NEW S, NEW n \in Nat, NEW f \in [1 .. n -> S]
  PROVE  f \in Seq(S) /\ Len(f) = n /\ DOMAIN f = 1 .. n
  OBVIOUS

\* And a sequence is a function over 1 .. its length.
LEMMA SeqIsFunction ==
  ASSUME NEW S, NEW s \in Seq(S)
  PROVE  Len(s) \in Nat /\ s \in [1 .. Len(s) -> S] /\ DOMAIN s = 1 .. Len(s)
  OBVIOUS

\* A sequence is empty when its length is 0.
LEMMA EmptySequence ==
  ASSUME NEW S, NEW s \in Seq(S)
  PROVE  Len(s) = 0 <=> s = << >>
  OBVIOUS

\* A concatenation takes its parts one after the other.
Joins(f, n, seqs, T) ==
  /\ f \in [0 .. n -> Seq(T)] /\ f[0] = << >>
  /\ \A k \in 1 .. n : f[k] = f[k - 1] \o seqs[k]

\* A concatenation is the last of the partial ones.
LEMMA ConcatenationIs ==
  ASSUME NEW T, NEW n \in Nat, NEW seqs \in [1 .. n -> Seq(T)]
  PROVE  \E f : Joins(f, n, seqs, T) /\ Concatenation(seqs) = f[n]
  <1> DEFINE g == [k \in 1 .. n |-> [x \in Seq(T) |-> x \o seqs[k]]]
  <1>1. g \in [1 .. n -> [Seq(T) -> Seq(T)]]
    <2>1. \A k \in 1 .. n, x \in Seq(T) : x \o seqs[k] \in Seq(T)
      <3>1. \A k \in 1 .. n : seqs[k] \in Seq(T)
        OBVIOUS
      <3> QED BY <3>1
    <2> QED BY <2>1
  <1>2. << >> \in Seq(T)
    OBVIOUS
  <1>3. PICK f : Solves(f, n, Seq(T), << >>, g)
    <2> HIDE DEF g
    <2> QED BY <1>1, <1>2, FiniteRecursion, Zenon
  <1>4. \A k \in 1 .. n : f[k] = f[k - 1] \o seqs[k]
    <2>1. f \in [0 .. n -> Seq(T)] /\ \A k \in 1 .. n : f[k] = g[k][f[k - 1]]
      BY <1>3, Zenon DEF Solves
    <2>2. \A k \in 1 .. n : f[k - 1] \in Seq(T)
      BY <2>1
    <2> QED BY <2>1, <2>2, Zenon
  <1> HIDE DEF g
  <1> DEFINE Eq(h) == h = [k \in 0 .. n |-> IF k = 0 THEN << >> ELSE h[k - 1] \o seqs[k]]
             first == CHOOSE h : Eq(h)
  <1>5. Eq(f)
    <2>1. f \in [0 .. n -> Seq(T)] /\ f[0] = << >>
      BY <1>3 DEF Solves
    <2>2. \A k \in 0 .. n : f[k] = IF k = 0 THEN << >> ELSE f[k - 1] \o seqs[k]
      <3> TAKE k \in 0 .. n
      <3>1. CASE k = 0
        BY <2>1, <3>1
      <3>2. CASE k # 0
        <4>1. k \in 1 .. n
          BY <3>2
        <4> QED BY <1>4, <3>2, <4>1, Zenon
      <3> QED BY <3>1, <3>2
    <2> QED BY <2>1, <2>2, Zenon
  <1>6. Eq(first)
    BY <1>5, Zenon
  <1>7. Concatenation(seqs) = first[n]
    <2>1. Len(seqs) = n
      BY FunctionIsSeq, Zenon
    <2> QED BY <2>1 DEF Concatenation
  <1>8. \A k \in 0 .. n : first[k] = IF k = 0 THEN << >> ELSE first[k - 1] \o seqs[k]
    BY <1>6, Zenon
  <1> DEFINE S == {m \in Nat : m <= n => first[m] = f[m]}
  <1> HIDE DEF first, Eq
  <1>9. f \in [0 .. n -> Seq(T)] /\ f[0] = << >>
    BY <1>3 DEF Solves
  <1>10. 0 \in S
    BY <1>8, <1>9
  <1>11. ASSUME NEW m \in Nat, m \in S PROVE m + 1 \in S
    <2> SUFFICES ASSUME m + 1 <= n PROVE first[m + 1] = f[m + 1]
      OBVIOUS
    <2>1. m + 1 \in 0 .. n /\ m + 1 \in 1 .. n /\ m + 1 # 0 /\ (m + 1) - 1 = m
      OBVIOUS
    <2>2. first[m] = f[m]
      BY <1>11
    <2>3. first[m + 1] = first[m] \o seqs[m + 1]
      BY <1>8, <2>1, Zenon
    <2>4. f[m + 1] = f[m] \o seqs[m + 1]
      BY <1>4, <2>1, Zenon
    <2> QED BY <2>2, <2>3, <2>4
  <1>12. n \in S
    <2> HIDE DEF S
    <2> QED BY <1>10, <1>11, SetInduction, Zenon
  <1>13. Joins(f, n, seqs, T)
    BY <1>4, <1>9, Zenon DEF Joins
  <1>14. Concatenation(seqs) = f[n]
    BY <1>7, <1>12
  <1> QED BY <1>13, <1>14

-----------------------------------------------------------------------------
(* Prices from the best *)

\* Among finitely many prices there is one of every rank.
Ranked(side, U) ==
  \A j \in 1 .. Cardinality(U) :
    \E p \in U : Cardinality({r \in U : Better(side, r, p)}) = j - 1

\* Counting the better ones ranks any set of prices.
LEMMA Ranks ==
  ASSUME NEW side \in Sides, NEW K \in SUBSET Prices
  PROVE  Ranked(side, K)
  <1> DEFINE S == {n \in Nat : \A U \in SUBSET Prices :
                                 Cardinality(U) = n => Ranked(side, U)}
  <1>1. 0 \in S
    BY DEF Ranked
  <1>2. ASSUME NEW n \in Nat, n \in S PROVE n + 1 \in S
    <2> SUFFICES ASSUME NEW U \in SUBSET Prices, Cardinality(U) = n + 1
                 PROVE  Ranked(side, U)
      OBVIOUS
    <2>1. IsFiniteSet(U) /\ U \subseteq Int
      BY BookAssumption, FS_Subset, FS_CardinalityType, Zenon
    <2>2. U # {}
      BY FS_EmptySet
    <2>3. PICK w \in U : \A x \in U : x # w => Better(side, x, w)
      <3>1. PICK h \in U : \A x \in U : x <= h
        BY <2>1, <2>2, FiniteBounds, Zenon
      <3>2. PICK l \in U : \A x \in U : l <= x
        BY <2>1, <2>2, FiniteBounds, Zenon
      <3>3. CASE side = "Bid"
        BY <2>1, <3>2, <3>3 DEF Better
      <3>4. CASE side # "Bid"
        BY <2>1, <3>1, <3>4 DEF Better
      <3> QED BY <3>3, <3>4
    <2> DEFINE V == U \ {w}
    <2>4. V \in SUBSET Prices /\ Cardinality(V) = n
      <3>1. Cardinality(V) = Cardinality(U) - 1
        BY <2>1, <2>3, FS_RemoveElement, Zenon
      <3> QED BY <3>1
    <2>5. Ranked(side, V)
      BY <1>2, <2>4
    <2>6. \A x, y \in U : Better(side, x, y) => ~Better(side, y, x)
      BY <2>1 DEF Better
    <2>7. ASSUME NEW j \in 1 .. n + 1
          PROVE  \E p \in U : Cardinality({r \in U : Better(side, r, p)}) = j - 1
      <3>1. CASE j = n + 1
        <4>1. ~Better(side, w, w)
          BY <2>1, <2>3, <2>6
        <4>2. {r \in U : Better(side, r, w)} = V
          BY <2>3, <4>1
        <4>3. Cardinality({r \in U : Better(side, r, w)}) = j - 1
          BY <2>4, <3>1, <4>2
        <4> QED BY <2>3, <4>3, Zenon
      <3>2. CASE j # n + 1
        <4>1. j \in 1 .. Cardinality(V)
          BY <2>4, <3>2
        <4>2. PICK p \in V : Cardinality({r \in V : Better(side, r, p)}) = j - 1
          BY <2>5, <4>1, Zenon DEF Ranked
        <4>3. ~Better(side, w, p)
          BY <2>3, <2>6, <4>2
        <4>4. {r \in U : Better(side, r, p)} = {r \in V : Better(side, r, p)}
          BY <4>3
        <4>5. p \in U /\ Cardinality({r \in U : Better(side, r, p)}) = j - 1
          BY <4>2, <4>4
        <4> QED BY <4>5, Zenon
      <3> QED BY <3>1, <3>2, Zenon
    <2> QED BY <2>7, Zenon DEF Ranked
  <1>3. Nat \subseteq S
    <2> HIDE DEF S
    <2> QED BY <1>1, <1>2, SetInduction
  <1>4. Cardinality(K) \in Nat
    BY BookAssumption, FS_Subset, FS_CardinalityType, Zenon
  <1> QED BY <1>3, <1>4

\* The prices of a set from the best; each is listed once.
FromKeys(side, K) ==
  [k \in 1 .. Cardinality(K) |->
     CHOOSE p \in K : Cardinality({r \in K : Better(side, r, p)}) = k - 1]

\* f lists the elements of K, each once.
Lists(f, n, K) ==
  /\ f \in [1 .. n -> K]
  /\ \A j, k \in 1 .. n : f[j] = f[k] => j = k
  /\ \A p \in K : \E k \in 1 .. n : f[k] = p

\* The prices from the best are the prices, each once.
LEMMA FromKeysIs ==
  ASSUME NEW side \in Sides, NEW K \in SUBSET Prices
  PROVE  \E n \in Nat : Lists(FromKeys(side, K), n, K)
  <1>1. PICK n \in Nat : n = Cardinality(K)
    BY BookAssumption, FS_Subset, FS_CardinalityType, Zenon
  <1>2. \A k \in 1 .. n : \E p \in K : Cardinality({r \in K : Better(side, r, p)}) = k - 1
    BY <1>1, Ranks DEF Ranked
  <1>3. PICK f : f = FromKeys(side, K)
    OBVIOUS
  <1>4. f = [k \in 1 .. n |-> CHOOSE p \in K : Cardinality({r \in K : Better(side, r, p)}) = k - 1]
    BY <1>1, <1>3 DEF FromKeys
  <1>5. \A k \in 1 .. n : /\ f[k] \in K
                          /\ Cardinality({r \in K : Better(side, r, f[k])}) = k - 1
    BY <1>2, <1>4, Zenon
  <1>6. f \in [1 .. n -> K]
    BY <1>4, <1>5, Zenon
  <1>7. \A j, k \in 1 .. n : f[j] = f[k] => j = k
    <2> TAKE j \in 1 .. n, k \in 1 .. n
    <2>1. f[j] = f[k] => j - 1 = k - 1
      BY <1>5, Zenon
    <2> QED BY <2>1
  <1>8. \A p \in K : \E k \in 1 .. n : f[k] = p
    <2>1. f \in Injection(1 .. n, K)
      BY <1>6, <1>7 DEF Injection, IsInjective
    <2>2. IsFiniteSet(K)
      BY BookAssumption, FS_Subset, Zenon
    <2>3. Cardinality(1 .. n) = n
      BY FS_Interval
    <2>4. f \in Surjection(1 .. n, K)
      BY <1>1, <2>1, <2>2, <2>3, FS_Injection
    <2> QED BY <2>4 DEF Surjection
  <1> QED BY <1>3, <1>6, <1>7, <1>8 DEF Lists

-----------------------------------------------------------------------------
(* The sum of a sequence *)

\* t are the partial sums of qs.
Sums(t, qs, n) ==
  t \in [0 .. n -> Int] /\ t[0] = 0 /\ \A k \in 1 .. n : t[k] = t[k - 1] + qs[k]

\* The total of a sequence is the last of its partial sums.
LEMMA TotalIs ==
  ASSUME NEW n \in Nat, NEW qs \in [1 .. n -> Int], NEW t, Sums(t, qs, n)
  PROVE  Total(qs) = t[n]
  <1> DEFINE Eq(h) == h = [k \in 0 .. n |-> IF k = 0 THEN 0 ELSE h[k - 1] + qs[k]]
             sum == CHOOSE h : Eq(h)
  <1>1. Eq(t)
    BY DEF Sums
  <1>2. Eq(sum)
    BY <1>1, Zenon
  <1>3. Total(qs) = sum[n]
    <2>1. Len(qs) = n
      BY FunctionIsSeq
    <2> QED BY <2>1 DEF Total
  <1>4. \A k \in 0 .. n : sum[k] = IF k = 0 THEN 0 ELSE sum[k - 1] + qs[k]
    BY <1>2, Zenon
  <1> DEFINE S == {m \in Nat : m <= n => sum[m] = t[m]}
  <1> HIDE DEF sum, Eq
  <1>5. 0 \in S
    BY <1>4 DEF Sums
  <1>6. ASSUME NEW m \in Nat, m \in S PROVE m + 1 \in S
    <2> SUFFICES ASSUME m + 1 <= n PROVE sum[m + 1] = t[m + 1]
      OBVIOUS
    <2>1. m + 1 \in 0 .. n /\ m + 1 \in 1 .. n /\ m + 1 # 0 /\ (m + 1) - 1 = m
      OBVIOUS
    <2>2. sum[m] = t[m]
      BY <1>6
    <2> QED BY <1>4, <2>1, <2>2 DEF Sums
  <1>7. n \in S
    <2> HIDE DEF S
    <2> QED BY <1>5, <1>6, SetInduction, Zenon
  <1> QED BY <1>3, <1>7

\* Every sequence of integers has partial sums, and a total.
LEMMA TotalSums ==
  ASSUME NEW n \in Nat, NEW qs \in [1 .. n -> Int]
  PROVE  \E t : Sums(t, qs, n) /\ Total(qs) = t[n]
  <1> DEFINE g == [k \in 1 .. n |-> [x \in Int |-> x + qs[k]]]
  <1>1. g \in [1 .. n -> [Int -> Int]] /\ 0 \in Int
    OBVIOUS
  <1>2. \E t : Solves(t, n, Int, 0, g)
    <2> HIDE DEF g
    <2> QED BY <1>1, FiniteRecursion, Zenon
  <1>3. PICK t : Solves(t, n, Int, 0, g)
    BY <1>2, Zenon
  <1>4. t \in [0 .. n -> Int] /\ t[0] = 0 /\ \A k \in 1 .. n : t[k] = g[k][t[k - 1]]
    BY <1>3 DEF Solves
  <1>5. ASSUME NEW k \in 1 .. n PROVE t[k] = t[k - 1] + qs[k]
    <2>1. k - 1 \in 0 .. n
      OBVIOUS
    <2>2. t[k - 1] \in Int
      BY <1>4, <2>1
    <2>3. t[k] = g[k][t[k - 1]]
      BY <1>4
    <2> QED BY <2>2, <2>3
  <1>6. Sums(t, qs, n)
    BY <1>4, <1>5 DEF Sums
  <1> HIDE DEF g
  <1> QED BY <1>6, TotalIs

\* The elements of a sequence without the k-th.
Cut(s, k) == [j \in 1 .. Len(s) - 1 |-> IF j < k THEN s[j] ELSE s[j + 1]]

\* What becomes of the total when an element is added at the end, taken out
\* or changed.
LEMMA TotalAppend ==
  ASSUME NEW n \in Nat, NEW qs \in [1 .. n -> Int], NEW x \in Int, NEW rs \in [1 .. n + 1 -> Int],
         rs[n + 1] = x, \A k \in 1 .. n : rs[k] = qs[k]
  PROVE  Total(rs) = Total(qs) + x
  <1>1. PICK t : Sums(t, qs, n) /\ Total(qs) = t[n]
    BY TotalSums
  <1>2. t \in [0 .. n -> Int] /\ t[0] = 0 /\ \A k \in 1 .. n : t[k] = t[k - 1] + qs[k]
    BY <1>1 DEF Sums
  <1> DEFINE u == [k \in 0 .. n + 1 |-> IF k <= n THEN t[k] ELSE t[n] + x]
  <1>3. u \in [0 .. n + 1 -> Int] /\ u[0] = 0 /\ u[n + 1] = t[n] + x
    BY <1>2
  <1>4. ASSUME NEW k \in 1 .. n + 1 PROVE u[k] = u[k - 1] + rs[k]
    <2>1. CASE k = n + 1
      BY <2>1
    <2>2. CASE k \in 1 .. n
      BY <1>2, <2>2
    <2> QED BY <2>1, <2>2
  <1> HIDE DEF u
  <1>5. Sums(u, rs, n + 1)
    BY <1>3, <1>4 DEF Sums
  <1>6. n + 1 \in Nat
    OBVIOUS
  <1>7. Total(rs) = u[n + 1]
    BY <1>5, <1>6, TotalIs
  <1> QED BY <1>1, <1>3, <1>7

\* A quantity that is taken out leaves the total of the others.
LEMMA TotalCut ==
  ASSUME NEW n \in Nat, NEW qs \in [1 .. n + 1 -> Int], NEW i \in 1 .. n + 1, NEW rs \in [1 .. n -> Int],
         \A k \in 1 .. n : rs[k] = IF k < i THEN qs[k] ELSE qs[k + 1]
  PROVE  Total(rs) = Total(qs) - qs[i]
  <1>1. PICK t : Sums(t, qs, n + 1) /\ Total(qs) = t[n + 1]
    <2>1. n + 1 \in Nat
      OBVIOUS
    <2> QED BY <2>1, TotalSums
  <1>2. t \in [0 .. n + 1 -> Int] /\ t[0] = 0 /\ \A k \in 1 .. n + 1 : t[k] = t[k - 1] + qs[k]
    BY <1>1 DEF Sums
  <1>3. PICK y \in Int : y = qs[i]
    OBVIOUS
  <1> DEFINE u == [k \in 0 .. n |-> IF k < i THEN t[k] ELSE t[k + 1] - y]
  <1>4. u \in [0 .. n -> Int] /\ u[0] = 0
    <2>1. ASSUME NEW k \in 0 .. n PROVE u[k] \in Int
      <3>1. t[k] \in Int /\ t[k + 1] \in Int
        BY <1>2
      <3> QED BY <3>1
    <2>2. u[0] = 0
      BY <1>2
    <2> QED BY <2>1, <2>2
  <1>5. u[n] = t[n + 1] - y
    <2>1. CASE i = n + 1
      <3>1. t[n + 1] = t[n] + y /\ t[n] \in Int
        BY <1>2, <1>3, <2>1
      <3>2. u[n] = t[n]
        BY <2>1
      <3> HIDE DEF u
      <3> QED BY <3>1, <3>2
    <2>2. CASE i < n + 1
      BY <2>2
    <2> QED BY <2>1, <2>2
  <1>6. ASSUME NEW k \in 1 .. n PROVE u[k] = u[k - 1] + rs[k]
    <2>1. /\ k \in 1 .. n + 1 /\ k + 1 \in 1 .. n + 1 /\ k \in 0 .. n + 1 /\ k - 1 \in 0 .. n + 1
          /\ (k + 1) - 1 = k /\ (k - 1) + 1 = k /\ k - 1 \in 0 .. n /\ k \in 0 .. n /\ k + 1 \in 0 .. n + 1
      OBVIOUS
    <2>2. t[k] = t[k - 1] + qs[k] /\ t[k + 1] = t[k] + qs[k + 1]
      BY <1>2, <2>1, Zenon
    <2>3. t[k] \in Int /\ t[k - 1] \in Int /\ t[k + 1] \in Int /\ qs[k] \in Int /\ qs[k + 1] \in Int
      BY <1>2, <2>1, Zenon
    <2>4. /\ u[k] = IF k < i THEN t[k] ELSE t[k + 1] - y
          /\ u[k - 1] = IF k - 1 < i THEN t[k - 1] ELSE t[k] - y
      BY <2>1
    <2> HIDE DEF u
    <2>5. CASE k < i
      BY <2>2, <2>3, <2>4, <2>5
    <2>6. CASE k = i
      <3>1. rs[k] = qs[k + 1] /\ qs[k] = y /\ u[k] = t[k + 1] - y /\ u[k - 1] = t[k - 1]
        BY <1>3, <2>4, <2>6
      <3>2. PICK v \in Int, w \in Int : v = t[k - 1] /\ w = qs[k + 1]
        BY <2>3, Zenon
      <3>3. t[k + 1] = (v + y) + w
        BY <2>2, <3>1, <3>2
      <3> QED BY <3>1, <3>2, <3>3, SMTT(30)
    <2>7. CASE k > i
      BY <2>2, <2>3, <2>4, <2>7, SMTT(30)
    <2> QED BY <2>5, <2>6, <2>7
  <1> HIDE DEF u
  <1>7. Sums(u, rs, n)
    BY <1>4, <1>6 DEF Sums
  <1>8. Total(rs) = u[n]
    BY <1>7, TotalIs
  <1> QED BY <1>1, <1>3, <1>5, <1>8

\* A quantity that changes changes the total by as much.
LEMMA TotalChange ==
  ASSUME NEW n \in Nat, NEW qs \in [1 .. n -> Int], NEW i \in 1 .. n, NEW x \in Int,
         NEW rs \in [1 .. n -> Int], \A k \in 1 .. n : rs[k] = IF k = i THEN x ELSE qs[k]
  PROVE  Total(rs) = (Total(qs) - qs[i]) + x
  <1>1. PICK t : Sums(t, qs, n) /\ Total(qs) = t[n]
    BY TotalSums
  <1>2. t \in [0 .. n -> Int] /\ t[0] = 0 /\ \A k \in 1 .. n : t[k] = t[k - 1] + qs[k]
    BY <1>1 DEF Sums
  <1>3. PICK y \in Int : y = qs[i]
    OBVIOUS
  <1> DEFINE u == [k \in 0 .. n |-> IF k < i THEN t[k] ELSE (t[k] - y) + x]
  <1>4. u \in [0 .. n -> Int] /\ u[0] = 0 /\ u[n] = (t[n] - y) + x
    BY <1>2, SMTT(30)
  <1>5. ASSUME NEW k \in 1 .. n PROVE u[k] = u[k - 1] + rs[k]
    <2>1. k \in 0 .. n /\ k - 1 \in 0 .. n
      OBVIOUS
    <2>2. t[k] = t[k - 1] + qs[k] /\ t[k] \in Int /\ t[k - 1] \in Int /\ qs[k] \in Int
      BY <1>2, <2>1, Zenon
    <2>3. /\ u[k] = IF k < i THEN t[k] ELSE (t[k] - y) + x
          /\ u[k - 1] = IF k - 1 < i THEN t[k - 1] ELSE (t[k - 1] - y) + x
      BY <2>1
    <2> HIDE DEF u
    <2>4. CASE k < i
      BY <2>2, <2>3, <2>4
    <2>5. CASE k = i
      BY <1>3, <2>2, <2>3, <2>5
    <2>6. CASE k > i
      BY <2>2, <2>3, <2>6
    <2> QED BY <2>4, <2>5, <2>6
  <1> HIDE DEF u
  <1>6. Sums(u, rs, n)
    BY <1>4, <1>5 DEF Sums
  <1>7. Total(rs) = u[n]
    BY <1>6, TotalIs
  <1> QED BY <1>1, <1>3, <1>4, <1>7
-----------------------------------------------------------------------------
(* Lists of nodes *)

\* The ends of a list of nodes.
First(s) == IF s = << >> THEN ARENA_NULL ELSE s[1]
Last(s) == IF s = << >> THEN ARENA_NULL ELSE s[Len(s)]

\* The nodes are distinct and linked by next, from the first to the last.
Linked(st, s) ==
  /\ s \in Seq(Indices)
  /\ \A j, k \in 1 .. Len(s) : s[j] = s[k] => j = k
  /\ \A k \in 1 .. Len(s) : st[s[k]].next = IF k = Len(s) THEN ARENA_NULL ELSE s[k + 1]

\* There are ArenaCapacity indices, and none is ARENA_NULL.
LEMMA IndexFacts ==
  /\ Indices \subseteq Nat /\ ARENA_NULL \notin Indices /\ ARENA_NULL \in Int
  /\ IsFiniteSet(Indices) /\ Cardinality(Indices) = ArenaCapacity
  <1>1. ArenaCapacity \in Nat /\ 0 \in Int /\ ArenaCapacity - 1 \in Int
    BY ArenaAssumption
  <1>2. IsFiniteSet(Indices) /\ Cardinality(Indices) = ArenaCapacity
    BY <1>1, FS_Interval DEF Indices
  <1> QED BY <1>1, <1>2 DEF Indices, ARENA_NULL

\* A list has no more nodes than the arena.
LEMMA LinkedBound ==
  ASSUME NEW st, NEW s, Linked(st, s)
  PROVE  Len(s) \in 0 .. ArenaCapacity
  <1>1. Len(s) <= Cardinality(Indices)
    BY IndexFacts, DistinctBound DEF Linked
  <1> QED BY <1>1, IndexFacts, ArenaAssumption DEF Linked

\* Chain walks the list.
LEMMA ChainIs ==
  ASSUME NEW a, NEW s, Linked(a.storage, s)
  PROVE  Chain(a, First(s)) = s
  <1> DEFINE C == ArenaCapacity
             X == Indices \cup {ARENA_NULL}
             after == [i \in X |-> IF i = ARENA_NULL THEN ARENA_NULL ELSE a.storage[i].next]
             Eq(h) == h = [k \in 0 .. C |-> IF k = 0 THEN First(s) ELSE after[h[k - 1]]]
             hop == CHOOSE h : Eq(h)
  <1>1. PICK n \in 0 .. C : n = Len(s)
    BY LinkedBound
  <1>2. C \in Nat
    BY ArenaAssumption
  <1>3. /\ s \in [1 .. n -> Indices] /\ ARENA_NULL \notin Indices
        /\ \A k \in 1 .. n : a.storage[s[k]].next = IF k = n THEN ARENA_NULL ELSE s[k + 1]
    BY <1>1, SeqIsFunction, IndexFacts DEF Linked
  <1>4. First(s) = IF n = 0 THEN ARENA_NULL ELSE s[1]
    <2>1. n = 0 <=> s = << >>
      BY <1>1 DEF Linked
    <2> QED BY <2>1 DEF First
  <1> DEFINE f == [k \in 0 .. C |-> IF k < n THEN s[k + 1] ELSE ARENA_NULL]
  <1>5. ASSUME NEW k \in 0 .. C PROVE f[k] = IF k = 0 THEN First(s) ELSE after[f[k - 1]]
    <2>1. CASE k = 0
      BY <1>2, <1>4, <2>1
    <2>2. CASE k # 0 /\ k - 1 < n
      <3>1. k - 1 \in 0 .. C /\ k \in 1 .. n /\ (k - 1) + 1 = k
        BY <1>1, <1>2, <2>2
      <3>2. f[k - 1] = s[k]
        BY <2>2, <3>1
      <3>3. after[s[k]] = a.storage[s[k]].next
        BY <1>3, <3>1
      <3>4. f[k] = IF k = n THEN ARENA_NULL ELSE s[k + 1]
        BY <1>1, <3>1
      <3> QED BY <1>3, <2>2, <3>1, <3>2, <3>3, <3>4
    <2>3. CASE k # 0 /\ ~(k - 1 < n)
      <3>1. f[k - 1] = ARENA_NULL /\ f[k] = ARENA_NULL
        BY <1>1, <1>2, <2>3
      <3> HIDE DEF f
      <3> QED BY <2>3, <3>1
    <2> QED BY <2>1, <2>2, <2>3
  <1>6. Eq(f)
    <2> HIDE DEF after
    <2> QED BY <1>5, Zenon
  <1>7. Eq(hop)
    <2> HIDE DEF f, after
    <2> QED BY <1>6, Zenon
  <1>8. \A k \in 0 .. C : hop[k] = IF k = 0 THEN First(s) ELSE after[hop[k - 1]]
    <2> HIDE DEF after, hop
    <2> QED BY <1>7, Zenon
  <1>9. Chain(a, First(s)) =
          [k \in 1 .. Cardinality({j \in DOMAIN hop : hop[j] # ARENA_NULL}) |-> hop[k - 1]]
    BY DEF Chain
  <1>10. DOMAIN hop = 0 .. C
    <2> HIDE DEF hop, after
    <2> QED BY <1>7
  <1> HIDE DEF hop, Eq
  <1>11. \A k \in 0 .. C : hop[k] = f[k]
    <2> DEFINE S == {k \in Nat : k <= C => hop[k] = f[k]}
    <2>1. 0 \in S
      <3> HIDE DEF f, after
      <3> QED BY <1>2, <1>5, <1>8
    <2>2. ASSUME NEW k \in Nat, k \in S PROVE k + 1 \in S
      <3> HIDE DEF f, after
      <3> SUFFICES ASSUME k + 1 <= C PROVE hop[k + 1] = f[k + 1]
        OBVIOUS
      <3>1. k + 1 \in 0 .. C /\ k + 1 # 0 /\ (k + 1) - 1 = k /\ k <= C
        BY <1>2
      <3>2. hop[k] = f[k]
        BY <2>2, <3>1
      <3>3. hop[k + 1] = after[hop[k]]
        BY <1>8, <3>1
      <3>4. f[k + 1] = after[f[k]]
        BY <1>5, <3>1
      <3> QED BY <3>2, <3>3, <3>4
    <2>3. Nat \subseteq S
      <3> HIDE DEF S
      <3> QED BY <2>1, <2>2, SetInduction
    <2> HIDE DEF f
    <2> SUFFICES ASSUME NEW k \in 0 .. C PROVE hop[k] = f[k]
      OBVIOUS
    <2>4. k \in Nat /\ k <= C
      BY <1>2
    <2> QED BY <2>3, <2>4
  <1> HIDE DEF after
  <1>12. {j \in DOMAIN hop : hop[j] # ARENA_NULL} = 0 .. n - 1
    <2>1. \A j \in 0 .. C : hop[j] # ARENA_NULL <=> j < n
      <3> SUFFICES ASSUME NEW j \in 0 .. C PROVE hop[j] # ARENA_NULL <=> j < n
        OBVIOUS
      <3>1. hop[j] = IF j < n THEN s[j + 1] ELSE ARENA_NULL
        BY <1>11
      <3>2. j < n => s[j + 1] \in Indices
        BY <1>1, <1>2, <1>3
      <3> QED BY <1>3, <3>1, <3>2
    <2>2. n \in Nat /\ n <= C
      BY <1>1, <1>2
    <2> HIDE DEF f
    <2> QED BY <1>2, <1>10, <2>1, <2>2
  <1>13. Cardinality(0 .. n - 1) = n
    <2>1. n \in Nat /\ 0 \in Int /\ n - 1 \in Int
      BY <1>1, <1>2
    <2> QED BY <2>1, FS_Interval
  <1>14. Chain(a, First(s)) = [k \in 1 .. n |-> hop[k - 1]]
    BY <1>9, <1>12, <1>13, Zenon
  <1>15. \A k \in 1 .. n : hop[k - 1] = s[k]
    <2> SUFFICES ASSUME NEW k \in 1 .. n PROVE hop[k - 1] = s[k]
      OBVIOUS
    <2>1. k - 1 \in 0 .. C /\ k - 1 < n /\ (k - 1) + 1 = k
      BY <1>1, <1>2
    <2>2. hop[k - 1] = f[k - 1]
      BY <1>11, <2>1
    <2> QED BY <2>1, <2>2
  <1> QED BY <1>3, <1>14, <1>15
-----------------------------------------------------------------------------
(* The operations on a level *)

\* What a link may be, a node of the arena, and the arena.
Links == Indices \cup {ARENA_NULL}
Slots == [order : Takers \cup {NoOrder}, prev : Links, next : Links]
Arenas == [storage : [Indices -> Slots], free_head : Links, count : Int]

\* What a write to one link leaves.
SetNextEffect(r, a, i, v) ==
  /\ r \in Arenas /\ r.free_head = a.free_head /\ r.count = a.count
  /\ \A j \in Indices :
       /\ r.storage[j].order = a.storage[j].order
       /\ r.storage[j].prev = a.storage[j].prev
       /\ r.storage[j].next = IF j = i THEN v ELSE a.storage[j].next

\* The same for the other link.
SetPrevEffect(r, a, i, v) ==
  /\ r \in Arenas /\ r.free_head = a.free_head /\ r.count = a.count
  /\ \A j \in Indices :
       /\ r.storage[j].order = a.storage[j].order
       /\ r.storage[j].next = a.storage[j].next
       /\ r.storage[j].prev = IF j = i THEN v ELSE a.storage[j].prev

\* A guarded write of next changes that link of that node, if there is one.
LEMMA SetNextIs ==
  ASSUME NEW a \in Arenas, NEW i \in Links, NEW v \in Links
  PROVE  SetNextEffect(SetNext(a, i, v), a, i, v)
  <1>0. \A j \in Indices : a.storage[j] \in Slots
    BY DEF Arenas
  <1>1. PICK r : r = SetNext(a, i, v)
    OBVIOUS
  <1>2. CASE i = ARENA_NULL
    BY <1>0, <1>2, IndexFacts DEF SetNext, SetNextEffect
  <1>3. CASE i \in Indices
    <2>1. r = [a EXCEPT !.storage[i].next = v]
      BY <1>1, <1>3, IndexFacts DEF SetNext
    <2>2. /\ r.free_head = a.free_head /\ r.count = a.count
          /\ r.storage = [a.storage EXCEPT ![i] = [@ EXCEPT !.next = v]]
          /\ r \in [storage : {r.storage}, free_head : Links, count : Int]
      BY <2>1 DEF Arenas
    <2>3. ASSUME NEW j \in Indices
          PROVE  /\ r.storage[j] \in Slots
                 /\ r.storage[j].order = a.storage[j].order
                 /\ r.storage[j].prev = a.storage[j].prev
                 /\ r.storage[j].next = IF j = i THEN v ELSE a.storage[j].next
      BY <1>0, <1>3, <2>2 DEF Arenas, Slots
    <2>4. r.storage \in [Indices -> Slots]
      BY <2>2, <2>3, Zenon DEF Arenas
    <2>5. r \in Arenas
      BY <2>2, <2>4 DEF Arenas
    <2> QED BY <1>1, <2>2, <2>3, <2>5 DEF SetNextEffect
  <1> QED BY <1>2, <1>3 DEF Links

\* A guarded write of prev changes that link of that node, if there is one.
LEMMA SetPrevIs ==
  ASSUME NEW a \in Arenas, NEW i \in Links, NEW v \in Links
  PROVE  SetPrevEffect(SetPrev(a, i, v), a, i, v)
  <1>0. \A j \in Indices : a.storage[j] \in Slots
    BY DEF Arenas
  <1>1. PICK r : r = SetPrev(a, i, v)
    OBVIOUS
  <1>2. CASE i = ARENA_NULL
    BY <1>0, <1>2, IndexFacts DEF SetPrev, SetPrevEffect
  <1>3. CASE i \in Indices
    <2>1. r = [a EXCEPT !.storage[i].prev = v]
      BY <1>1, <1>3, IndexFacts DEF SetPrev
    <2>2. /\ r.free_head = a.free_head /\ r.count = a.count
          /\ r.storage = [a.storage EXCEPT ![i] = [@ EXCEPT !.prev = v]]
          /\ r \in [storage : {r.storage}, free_head : Links, count : Int]
      BY <2>1 DEF Arenas
    <2>3. ASSUME NEW j \in Indices
          PROVE  /\ r.storage[j] \in Slots
                 /\ r.storage[j].order = a.storage[j].order
                 /\ r.storage[j].next = a.storage[j].next
                 /\ r.storage[j].prev = IF j = i THEN v ELSE a.storage[j].prev
      BY <1>0, <1>3, <2>2 DEF Arenas, Slots
    <2>4. r.storage \in [Indices -> Slots]
      BY <2>2, <2>3, Zenon DEF Arenas
    <2>5. r \in Arenas
      BY <2>2, <2>4 DEF Arenas
    <2> QED BY <1>1, <2>2, <2>3, <2>5 DEF SetPrevEffect
  <1> QED BY <1>2, <1>3 DEF Links

\* What PushBack and Remove leave, node by node.
PushBackEffect(r, a, level, i) ==
  /\ r.arena \in Arenas /\ r.arena.free_head = a.free_head /\ r.arena.count = a.count
  /\ \A j \in Indices :
       /\ r.arena.storage[j].order = a.storage[j].order
       /\ r.arena.storage[j].prev = IF j = i THEN level.tail ELSE a.storage[j].prev
       /\ r.arena.storage[j].next = IF j = level.tail THEN i
                                    ELSE IF j = i THEN ARENA_NULL ELSE a.storage[j].next
  /\ r.level = [head  |-> IF level.tail = ARENA_NULL THEN i ELSE level.head,
                tail  |-> i,
                count |-> level.count + 1,
                qty   |-> (level.qty + a.storage[i].order.quantity) % QtyModulus]

\* push_back writes the links of the new node and of the old tail, and
\* no other.
LEMMA PushBackIs ==
  ASSUME NEW a \in Arenas, NEW level, level.tail \in Links, NEW i \in Indices, level.tail # i
  PROVE  PushBackEffect(PushBack(a, level, i), a, level, i)
  <1> DEFINE r == PushBack(a, level, i)
             tail == level.tail
             linked == [a EXCEPT !.storage[i].prev = level.tail, !.storage[i].next = ARENA_NULL]
  <1>0. i \in Links /\ ARENA_NULL \in Links /\ i # ARENA_NULL
    BY IndexFacts DEF Links
  <1>1. PICK one : one = SetPrev(a, i, tail)
    OBVIOUS
  <1>2. PICK two : two = SetNext(one, i, ARENA_NULL)
    OBVIOUS
  <1>3. linked = two
    BY <1>0, <1>1, <1>2 DEF SetPrev, SetNext
  <1>4. SetPrevEffect(one, a, i, tail)
    BY <1>0, <1>1, SetPrevIs
  <1>5. one \in Arenas
    BY <1>4 DEF SetPrevEffect
  <1>6. SetNextEffect(two, one, i, ARENA_NULL)
    BY <1>0, <1>2, <1>5, SetNextIs
  <1>7. two \in Arenas
    BY <1>6 DEF SetNextEffect
  <1>8. /\ r.arena = SetNext(linked, tail, i)
        /\ r.level = [head  |-> IF tail = ARENA_NULL THEN i ELSE level.head,
                      tail  |-> i,
                      count |-> level.count + 1,
                      qty   |-> (level.qty + a.storage[i].order.quantity) % QtyModulus]
    BY Zenon DEF PushBack
  <1> HIDE DEF linked, r
  <1>9. SetNextEffect(r.arena, two, tail, i)
    BY <1>0, <1>3, <1>7, <1>8, SetNextIs, Zenon
  <1>10. r.arena \in Arenas /\ r.arena.free_head = a.free_head /\ r.arena.count = a.count
    BY <1>4, <1>6, <1>9, Zenon DEF SetNextEffect, SetPrevEffect
  <1>11. ASSUME NEW j \in Indices
         PROVE  /\ r.arena.storage[j].order = a.storage[j].order
                /\ r.arena.storage[j].prev = IF j = i THEN tail ELSE a.storage[j].prev
                /\ r.arena.storage[j].next = IF j = tail THEN i
                                              ELSE IF j = i THEN ARENA_NULL ELSE a.storage[j].next
    <2>1. /\ one.storage[j].order = a.storage[j].order /\ one.storage[j].next = a.storage[j].next
          /\ one.storage[j].prev = IF j = i THEN tail ELSE a.storage[j].prev
      BY <1>4, Zenon DEF SetPrevEffect
    <2>2. /\ two.storage[j].order = one.storage[j].order /\ two.storage[j].prev = one.storage[j].prev
          /\ two.storage[j].next = IF j = i THEN ARENA_NULL ELSE one.storage[j].next
      BY <1>6, Zenon DEF SetNextEffect
    <2>3. /\ r.arena.storage[j].order = two.storage[j].order
          /\ r.arena.storage[j].prev = two.storage[j].prev
          /\ r.arena.storage[j].next = IF j = tail THEN i ELSE two.storage[j].next
      BY <1>9, Zenon DEF SetNextEffect
    <2> QED BY <2>1, <2>2, <2>3, Zenon
  <1> QED BY <1>8, <1>10, <1>11, Zenon DEF PushBackEffect, r

\* The neighbours of the node are linked to each other.
RemoveEffect(r, a, level, i, prev, next) ==
  /\ r.arena \in Arenas /\ r.arena.free_head = a.free_head /\ r.arena.count = a.count
  /\ \A j \in Indices :
       /\ r.arena.storage[j].order = a.storage[j].order
       /\ r.arena.storage[j].prev = IF j = next THEN prev ELSE a.storage[j].prev
       /\ r.arena.storage[j].next = IF j = prev THEN next ELSE a.storage[j].next
  /\ r.level = [head  |-> IF prev = ARENA_NULL THEN next ELSE level.head,
                tail  |-> IF next = ARENA_NULL THEN prev ELSE level.tail,
                count |-> level.count - 1,
                qty   |-> (level.qty - a.storage[i].order.quantity) % QtyModulus]

\* remove writes one link of each neighbour, and no other.
LEMMA RemoveIs ==
  ASSUME NEW a \in Arenas, NEW level, NEW i \in Indices,
         NEW prev \in Links, NEW next \in Links,
         prev = a.storage[i].prev, next = a.storage[i].next
  PROVE  RemoveEffect(Remove(a, level, i), a, level, i, prev, next)
  <1> DEFINE r == Remove(a, level, i)
  <1>1. PICK one : one = SetNext(a, prev, next)
    OBVIOUS
  <1>2. SetNextEffect(one, a, prev, next)
    BY <1>1, SetNextIs
  <1>3. one \in Arenas
    BY <1>2, Zenon DEF SetNextEffect
  <1>4. /\ r.arena = SetPrev(one, next, prev)
        /\ r.level = [head  |-> IF prev = ARENA_NULL THEN next ELSE level.head,
                      tail  |-> IF next = ARENA_NULL THEN prev ELSE level.tail,
                      count |-> level.count - 1,
                      qty   |-> (level.qty - a.storage[i].order.quantity) % QtyModulus]
    BY <1>1, Zenon DEF Remove
  <1> HIDE DEF r
  <1>5. SetPrevEffect(r.arena, one, next, prev)
    BY <1>3, <1>4, SetPrevIs, Zenon
  <1>6. ASSUME NEW j \in Indices
        PROVE  /\ r.arena.storage[j].order = a.storage[j].order
               /\ r.arena.storage[j].prev = IF j = next THEN prev ELSE a.storage[j].prev
               /\ r.arena.storage[j].next = IF j = prev THEN next ELSE a.storage[j].next
    BY <1>2, <1>5 DEF SetNextEffect, SetPrevEffect
  <1>7. r.arena \in Arenas /\ r.arena.free_head = a.free_head /\ r.arena.count = a.count
    BY <1>2, <1>5, Zenon DEF SetNextEffect, SetPrevEffect
  <1>8. RemoveEffect(r, a, level, i, prev, next)
    BY <1>4, <1>6, <1>7, Zenon DEF RemoveEffect
  <1> QED BY <1>8 DEF r

\* Popping the front is removing the head.
LEMMA PopFrontIsRemove ==
  ASSUME NEW a, NEW level, a.storage[level.head].prev = ARENA_NULL
  PROVE  PopFront(a, level) = Remove(a, level, level.head)
  BY Zenon DEF PopFront, Remove, SetNext

\* The nodes s are the queue of a level: doubly linked, holding orders of its
\* side and price, and counted by the level.
Quantities(st, s) == [k \in 1 .. Len(s) |-> st[s[k]].order.quantity]

\* The level that describes the queue, its total wrapped.
LevelOf(st, s) == [head |-> First(s), tail |-> Last(s), count |-> Len(s),
                   qty |-> Total(Quantities(st, s)) % QtyModulus]

\* The list is linked both ways and holds orders of one side and price.
IsQueue(st, s, side, price) ==
  /\ Linked(st, s)
  /\ \A k \in 1 .. Len(s) :
       /\ st[s[k]].prev = IF k = 1 THEN ARENA_NULL ELSE s[k - 1]
       /\ st[s[k]].order \in Takers
       /\ st[s[k]].order.side = side /\ st[s[k]].order.price = price

\* Nothing of this depends on the other nodes.
SameNodes(st, st2, s) ==
  \A k \in 1 .. Len(s) : /\ st2[s[k]].order = st[s[k]].order
                         /\ st2[s[k]].prev = st[s[k]].prev /\ st2[s[k]].next = st[s[k]].next

\* A queue is still one, of the same level, when its nodes are the same.
LEMMA QueueFrame ==
  ASSUME NEW st, NEW st2, NEW s, NEW side, NEW price, IsQueue(st, s, side, price),
         SameNodes(st, st2, s)
  PROVE  IsQueue(st2, s, side, price) /\ LevelOf(st2, s) = LevelOf(st, s)
  <1>1. IsQueue(st2, s, side, price)
    BY SMTT(30) DEF IsQueue, Linked, SameNodes
  <1>2. Quantities(st2, s) = Quantities(st, s)
    BY DEF Quantities, SameNodes
  <1> QED BY <1>1, <1>2, Zenon DEF LevelOf

\* The quantities of a queue are integers, and so is their total.
LEMMA QuantitiesType ==
  ASSUME NEW st, NEW s, NEW side, NEW price, IsQueue(st, s, side, price)
  PROVE  /\ Len(s) \in Nat /\ s \in [1 .. Len(s) -> Indices]
         /\ Quantities(st, s) \in [1 .. Len(s) -> Int]
         /\ Total(Quantities(st, s)) \in Int
  <1>1. Len(s) \in Nat /\ s \in [1 .. Len(s) -> Indices]
    BY SeqIsFunction DEF IsQueue, Linked
  <1>2. \A k \in 1 .. Len(s) : st[s[k]].order.quantity \in Int
    <2> SUFFICES ASSUME NEW k \in 1 .. Len(s) PROVE st[s[k]].order.quantity \in Int
      OBVIOUS
    <2>1. st[s[k]].order \in Takers
      BY DEF IsQueue
    <2>2. st[s[k]].order.quantity \in 0 .. MaxQuantity
      BY <2>1 DEF Takers
    <2> QED BY <2>2, BookAssumption
  <1>3. Quantities(st, s) \in [1 .. Len(s) -> Int]
    BY <1>2 DEF Quantities
  <1>4. PICK t : Sums(t, Quantities(st, s), Len(s)) /\ Total(Quantities(st, s)) = t[Len(s)]
    BY <1>1, <1>3, TotalSums
  <1>5. Total(Quantities(st, s)) \in Int
    BY <1>1, <1>4 DEF Sums
  <1> QED BY <1>1, <1>3, <1>5, Zenon

\* Adding a node at the back of a queue.
LEMMA PushBackQueue ==
  ASSUME NEW a \in Arenas, NEW s, NEW side, NEW price, IsQueue(a.storage, s, side, price),
         NEW i \in Indices, \A k \in 1 .. Len(s) : s[k] # i,
         a.storage[i].order \in Takers,
         a.storage[i].order.side = side, a.storage[i].order.price = price,
         NEW r, PushBackEffect(r, a, LevelOf(a.storage, s), i)
  PROVE  /\ IsQueue(r.arena.storage, Append(s, i), side, price)
         /\ r.level = LevelOf(r.arena.storage, Append(s, i))
  <1> DEFINE st == a.storage
             st2 == r.arena.storage
             level == LevelOf(st, s)
             e == Append(s, i)
  <1>1. PICK n \in Nat : n = Len(s)
    BY QuantitiesType
  <1>2. /\ s \in [1 .. n -> Indices] /\ Quantities(st, s) \in [1 .. n -> Int]
        /\ Total(Quantities(st, s)) \in Int
    BY <1>1, QuantitiesType, Zenon
  <1>3. /\ e \in Seq(Indices) /\ Len(e) = n + 1 /\ e[n + 1] = i
        /\ \A k \in 1 .. n : e[k] = s[k] /\ s[k] \in Indices
    BY <1>1, <1>2, AppendIs, SMTT(30) DEF IsQueue, Linked
  <1>4. /\ \A j, k \in 1 .. n : s[j] = s[k] => j = k
        /\ \A k \in 1 .. n : st[s[k]].next = IF k = n THEN ARENA_NULL ELSE s[k + 1]
        /\ \A k \in 1 .. n : st[s[k]].prev = IF k = 1 THEN ARENA_NULL ELSE s[k - 1]
        /\ \A k \in 1 .. n : /\ st[s[k]].order \in Takers
                             /\ st[s[k]].order.side = side /\ st[s[k]].order.price = price
    BY <1>1, Zenon DEF IsQueue, Linked
  <1>5. PICK tail \in Links : tail = level.tail /\ tail = IF n = 0 THEN ARENA_NULL ELSE s[n]
    <2>1. n = 0 <=> s = << >>
      BY <1>1 DEF IsQueue, Linked
    <2>2. level.tail = IF n = 0 THEN ARENA_NULL ELSE s[n]
      BY <1>1, <2>1, ZenonT(30) DEF LevelOf, Last
    <2> QED BY <1>2, <2>2 DEF Links
  <1>6. /\ \A j \in Indices :
             /\ st2[j].order = st[j].order
             /\ st2[j].prev = IF j = i THEN tail ELSE st[j].prev
             /\ st2[j].next = IF j = tail THEN i ELSE IF j = i THEN ARENA_NULL ELSE st[j].next
        /\ r.level = [head  |-> IF tail = ARENA_NULL THEN i ELSE level.head,
                      tail  |-> i,
                      count |-> level.count + 1,
                      qty   |-> (level.qty + st[i].order.quantity) % QtyModulus]
    BY <1>5, SMTT(30) DEF PushBackEffect
  <1>7. \A k \in 1 .. n : s[k] # i /\ (s[k] = tail <=> k = n)
    BY <1>1, <1>4, <1>5
  <1>8. tail # i /\ (tail = ARENA_NULL <=> n = 0)
    BY <1>2, <1>5, <1>7, IndexFacts, SMTT(30)
  <1> HIDE DEF st, st2, e, level
  <1>9. ASSUME NEW j \in 1 .. n + 1, NEW k \in 1 .. n + 1, e[j] = e[k] PROVE j = k
    BY <1>3, <1>4, <1>7, <1>9, SMTT(30)
  <1>10. ASSUME NEW k \in 1 .. n + 1
         PROVE  /\ st2[e[k]].next = IF k = n + 1 THEN ARENA_NULL ELSE e[k + 1]
                /\ st2[e[k]].prev = IF k = 1 THEN ARENA_NULL ELSE e[k - 1]
                /\ st2[e[k]].order \in Takers
                /\ st2[e[k]].order.side = side /\ st2[e[k]].order.price = price
    <2>1. CASE k = n + 1
      <3>1. e[k] = i /\ i \in Indices
        BY <1>3, <2>1, Zenon
      <3>2. st2[i].next = ARENA_NULL /\ st2[i].prev = tail /\ st2[i].order = st[i].order
        BY <1>6, <1>8, Zenon
      <3>3. tail = IF k = 1 THEN ARENA_NULL ELSE e[k - 1]
        BY <1>3, <1>5, <2>1, SMTT(30)
      <3> QED BY <2>1, <3>1, <3>2, <3>3, Zenon DEF st
    <2>2. CASE k \in 1 .. n
      <3>1. e[k] = s[k] /\ s[k] \in Indices /\ s[k] # i
        BY <1>3, <1>7, <2>2, Zenon
      <3>2. /\ st2[s[k]].prev = st[s[k]].prev /\ st2[s[k]].order = st[s[k]].order
            /\ st2[s[k]].next = IF k = n THEN i ELSE st[s[k]].next
        BY <1>6, <1>7, <2>2, <3>1, Zenon
      <3>3. k + 1 \in 1 .. n + 1 /\ (k # 1 => k - 1 \in 1 .. n)
        BY <2>2
      <3>4. (k = n => e[k + 1] = i) /\ (k # n => e[k + 1] = s[k + 1]) /\ (k # 1 => e[k - 1] = s[k - 1])
        BY <1>3, <2>2, <3>3, SMTT(30)
      <3>5. /\ st[s[k]].next = IF k = n THEN ARENA_NULL ELSE s[k + 1]
            /\ st[s[k]].prev = IF k = 1 THEN ARENA_NULL ELSE s[k - 1]
            /\ st[s[k]].order \in Takers
            /\ st[s[k]].order.side = side /\ st[s[k]].order.price = price
        BY <1>4, <2>2, Zenon
      <3>6. k # n + 1
        BY <2>2, SMTT(30)
      <3> QED BY <3>1, <3>2, <3>4, <3>5, <3>6, Zenon
    <2> QED BY <2>1, <2>2, SMTT(30)
  <1>11. IsQueue(st2, e, side, price)
    BY <1>3, <1>9, <1>10 DEF IsQueue, Linked
  <1>12. Total(Quantities(st2, e)) = Total(Quantities(st, s)) + st[i].order.quantity
    <2>1. Quantities(st2, e) \in [1 .. n + 1 -> Int]
      BY <1>3, <1>11, QuantitiesType, SMTT(30)
    <2>2. Quantities(st2, e)[n + 1] = st[i].order.quantity
      BY <1>3, <1>6, SMTT(30) DEF Quantities
    <2>3. \A k \in 1 .. n : Quantities(st2, e)[k] = Quantities(st, s)[k]
      BY <1>1, <1>3, <1>6 DEF Quantities
    <2>4. st[i].order.quantity \in Int
      BY <2>1, <2>2, SMTT(30)
    <2> QED BY <1>2, <2>1, <2>2, <2>3, <2>4, TotalAppend, Zenon
  <1>13. r.level = LevelOf(st2, e)
    <2>1. e # << >> /\ First(e) = e[1] /\ Last(e) = i
      BY <1>3 DEF First, Last
    <2>2. /\ level.head = IF n = 0 THEN ARENA_NULL ELSE s[1]
          /\ level.count = n
          /\ level.qty = Total(Quantities(st, s)) % QtyModulus
      <3>1. n = 0 <=> s = << >>
        BY <1>1 DEF IsQueue, Linked
      <3> QED BY <1>1, <3>1, Zenon DEF level, LevelOf, First
    <2>3. First(e) = IF tail = ARENA_NULL THEN i ELSE level.head
      <3>1. CASE n = 0
        BY <1>3, <1>8, <2>1, <3>1, SMTT(30)
      <3>2. CASE n # 0
        BY <1>3, <1>8, <2>1, <2>2, <3>2, SMTT(30)
      <3> QED BY <3>1, <3>2, Zenon
    <2>4. (level.qty + st[i].order.quantity) % QtyModulus = Total(Quantities(st2, e)) % QtyModulus
      <3>1. st[i].order.quantity \in Int
        <4>1. st[i].order.quantity \in 0 .. MaxQuantity
          BY Zenon DEF st, Takers
        <4> QED BY <4>1, BookAssumption
      <3> QED BY <1>2, <1>12, <2>2, <3>1, WrappedSum, ArenaAssumption, ZenonT(30)
    <2> QED BY <1>3, <1>6, <2>1, <2>2, <2>3, <2>4, Zenon DEF LevelOf
  <1> QED BY <1>11, <1>13 DEF st2, e

\* The links of the storages st and st2, before and after the node at x of the
\* queue s is bridged over, and the queue c that is left.
CutAt(st, st2, s, c, n, x, prev, next, side, price) ==
  /\ x \in 1 .. n + 1 /\ s \in [1 .. n + 1 -> Indices]
  /\ \A k \in 1 .. n : c[k] = IF k < x THEN s[k] ELSE s[k + 1]
  /\ \A j, k \in 1 .. n + 1 : s[j] = s[k] => j = k
  /\ \A k \in 1 .. n + 1 : st[s[k]].next = IF k = n + 1 THEN ARENA_NULL ELSE s[k + 1]
  /\ \A k \in 1 .. n + 1 : st[s[k]].prev = IF k = 1 THEN ARENA_NULL ELSE s[k - 1]
  /\ \A k \in 1 .. n + 1 : /\ st[s[k]].order \in Takers
                           /\ st[s[k]].order.side = side /\ st[s[k]].order.price = price
  /\ prev = IF x = 1 THEN ARENA_NULL ELSE s[x - 1]
  /\ next = IF x = n + 1 THEN ARENA_NULL ELSE s[x + 1]
  /\ \A j \in Indices :
       /\ st2[j].order = st[j].order
       /\ st2[j].prev = IF j = next THEN prev ELSE st[j].prev
       /\ st2[j].next = IF j = prev THEN next ELSE st[j].next
  /\ \A k \in 1 .. n + 1 : (s[k] = prev <=> k = x - 1) /\ (s[k] = next <=> k = x + 1)

\* The n nodes of c are distinct, linked both ways, and hold orders of the queue.
LinksHold(st, c, n, side, price) ==
  /\ \A j, k \in 1 .. n : c[j] = c[k] => j = k
  /\ \A k \in 1 .. n :
       /\ st[c[k]].next = IF k = n THEN ARENA_NULL ELSE c[k + 1]
       /\ st[c[k]].prev = IF k = 1 THEN ARENA_NULL ELSE c[k - 1]
       /\ st[c[k]].order \in Takers
       /\ st[c[k]].order.side = side /\ st[c[k]].order.price = price

\* remove's two bridging writes, of the predecessor's next link and of the
\* successor's prev link, leave the other nodes linked in their order.
LEMMA CutLinked ==
  ASSUME NEW st, NEW st2, NEW s, NEW c, NEW n \in Nat, NEW x, NEW prev, NEW next, NEW side, NEW price,
         CutAt(st, st2, s, c, n, x, prev, next, side, price)
  PROVE  LinksHold(st2, c, n, side, price)
  <1>2. s \in [1 .. n + 1 -> Indices] /\ x \in 1 .. n + 1
    BY Zenon DEF CutAt
  <1>3. \A k \in 1 .. n : c[k] = IF k < x THEN s[k] ELSE s[k + 1]
    BY Zenon DEF CutAt
  <1>5. /\ \A j, k \in 1 .. n + 1 : s[j] = s[k] => j = k
        /\ \A k \in 1 .. n + 1 : st[s[k]].next = IF k = n + 1 THEN ARENA_NULL ELSE s[k + 1]
        /\ \A k \in 1 .. n + 1 : st[s[k]].prev = IF k = 1 THEN ARENA_NULL ELSE s[k - 1]
        /\ \A k \in 1 .. n + 1 : /\ st[s[k]].order \in Takers
                                 /\ st[s[k]].order.side = side /\ st[s[k]].order.price = price
    BY Zenon DEF CutAt
  <1>6. prev = IF x = 1 THEN ARENA_NULL ELSE s[x - 1]
    BY Zenon DEF CutAt
  <1>7. next = IF x = n + 1 THEN ARENA_NULL ELSE s[x + 1]
    BY Zenon DEF CutAt
  <1>8. \A j \in Indices :
          /\ st2[j].order = st[j].order
          /\ st2[j].prev = IF j = next THEN prev ELSE st[j].prev
          /\ st2[j].next = IF j = prev THEN next ELSE st[j].next
    BY Zenon DEF CutAt
  <1>9. \A k \in 1 .. n + 1 : (s[k] = prev <=> k = x - 1) /\ (s[k] = next <=> k = x + 1)
    BY DEF CutAt
  <1>10. ASSUME NEW j \in 1 .. n, NEW k \in 1 .. n, c[j] = c[k] PROVE j = k
    <2>1. j \in 1 .. n + 1 /\ j + 1 \in 1 .. n + 1 /\ k \in 1 .. n + 1 /\ k + 1 \in 1 .. n + 1
      OBVIOUS
    <2>2. c[j] = (IF j < x THEN s[j] ELSE s[j + 1]) /\ c[k] = (IF k < x THEN s[k] ELSE s[k + 1])
      BY <1>3, Zenon
    <2>3. CASE j < x /\ k < x
      BY <1>5, <1>10, <2>1, <2>2, <2>3, Zenon
    <2>4. CASE j < x /\ ~(k < x)
      <3>1. j = k + 1
        <4>1. s[j] = s[k + 1]
          BY <1>10, <2>2, <2>4, Zenon
        <4> QED BY <1>5, <2>1, <4>1
      <3> QED BY <1>2, <2>4, <3>1, SMTT(30)
    <2>5. CASE ~(j < x) /\ k < x
      <3>1. j + 1 = k
        <4>1. s[j + 1] = s[k]
          BY <1>10, <2>2, <2>5, Zenon
        <4> QED BY <1>5, <2>1, <4>1
      <3> QED BY <1>2, <2>5, <3>1
    <2>6. CASE ~(j < x) /\ ~(k < x)
      <3>1. j + 1 = k + 1
        <4>1. s[j + 1] = s[k + 1]
          BY <1>10, <2>2, <2>6, Zenon
        <4> QED BY <1>5, <2>1, <4>1
      <3> QED BY <3>1
    <2> QED BY <2>3, <2>4, <2>5, <2>6, Zenon
  <1>11. ASSUME NEW k \in 1 .. n
         PROVE  /\ st2[c[k]].next = IF k = n THEN ARENA_NULL ELSE c[k + 1]
                /\ st2[c[k]].prev = IF k = 1 THEN ARENA_NULL ELSE c[k - 1]
                /\ st2[c[k]].order \in Takers
                /\ st2[c[k]].order.side = side /\ st2[c[k]].order.price = price
    <2>1. CASE k < x
      <3>1. /\ c[k] = s[k] /\ s[k] \in Indices /\ k \in 1 .. n + 1
            /\ (k # n => c[k + 1] = IF k + 1 < x THEN s[k + 1] ELSE s[k + 2])
            /\ (k # 1 => c[k - 1] = s[k - 1])
        <4>1. /\ c[k] = s[k] /\ s[k] \in Indices /\ k \in 1 .. n + 1
          BY <1>2, <1>3, <2>1, SMTT(30)
        <4>2. ASSUME k # n PROVE c[k + 1] = IF k + 1 < x THEN s[k + 1] ELSE s[k + 2]
          <5>1. k + 1 \in 1 .. n /\ (k + 1) + 1 = k + 2
            BY <4>2
          <5> QED BY <1>3, <5>1
        <4>3. ASSUME k # 1 PROVE c[k - 1] = s[k - 1]
          <5>1. k - 1 \in 1 .. n /\ k - 1 < x
            BY <1>2, <2>1, <4>3
          <5> QED BY <1>3, <5>1
        <4> QED BY <4>1, <4>2, <4>3, Zenon
      <3>2. s[k] # next /\ (s[k] = prev <=> k = x - 1)
        BY <1>2, <1>9, <2>1, <3>1, SMTT(30)
      <3>3. /\ st2[s[k]].order = st[s[k]].order /\ st2[s[k]].prev = st[s[k]].prev
            /\ st2[s[k]].next = IF k = x - 1 THEN next ELSE st[s[k]].next
        BY <1>8, <3>1, <3>2, Zenon
      <3>4. st2[s[k]].next = IF k = n THEN ARENA_NULL ELSE c[k + 1]
        <4>1. CASE k = x - 1
          <5>0. x \in Int /\ k \in Int
            BY <1>2
          <5>1. x = k + 1 /\ x + 1 = k + 2
            BY <4>1, <5>0, SMTT(30)
          <5>2. st2[s[k]].next = IF k = n THEN ARENA_NULL ELSE s[k + 2]
            BY <1>7, <3>3, <4>1, <5>1, SMTT(30)
          <5> QED BY <3>1, <5>1, <5>2
        <4>2. CASE k # x - 1
          <5>1. k # n /\ k + 1 < x
            BY <1>2, <2>1, <4>2, SMTT(30)
          <5>2. st2[s[k]].next = s[k + 1]
            <6>1. k # n + 1
              BY <5>1, SMTT(30)
            <6>2. st[s[k]].next = s[k + 1]
              BY <1>5, <3>1, <6>1, Zenon
            <6> QED BY <3>3, <4>2, <6>2, Zenon
          <5> QED BY <3>1, <5>1, <5>2, Zenon
        <4> QED BY <4>1, <4>2, Zenon
      <3>5. st2[s[k]].prev = IF k = 1 THEN ARENA_NULL ELSE c[k - 1]
        BY <1>5, <3>1, <3>3, ZenonT(30)
      <3> QED BY <1>5, <3>1, <3>3, <3>4, <3>5, SMTT(30)
    <2>2. CASE ~(k < x)
      <3>1. /\ c[k] = s[k + 1] /\ s[k + 1] \in Indices /\ k + 1 \in 1 .. n + 1
            /\ (k # n => c[k + 1] = s[k + 2])
            /\ (k # 1 => c[k - 1] = IF k - 1 < x THEN s[k - 1] ELSE s[k])
        <4>1. c[k] = s[k + 1] /\ s[k + 1] \in Indices /\ k + 1 \in 1 .. n + 1
          BY <1>2, <1>3, <2>2
        <4>2. ASSUME k # n PROVE c[k + 1] = s[k + 2]
          <5>1. k + 1 \in 1 .. n /\ (k + 1) + 1 = k + 2 /\ ~(k + 1 < x)
            BY <1>2, <2>2, <4>2
          <5> QED BY <1>3, <5>1, Zenon
        <4>3. ASSUME k # 1 PROVE c[k - 1] = IF k - 1 < x THEN s[k - 1] ELSE s[k]
          <5>1. k - 1 \in 1 .. n /\ (k - 1) + 1 = k
            BY <4>3
          <5> QED BY <1>3, <5>1
        <4> QED BY <4>1, <4>2, <4>3, Zenon
      <3>2. s[k + 1] # prev /\ (s[k + 1] = next <=> k = x)
        BY <1>2, <1>9, <2>2, <3>1, SMTT(30)
      <3>3. /\ st2[s[k + 1]].order = st[s[k + 1]].order /\ st2[s[k + 1]].next = st[s[k + 1]].next
            /\ st2[s[k + 1]].prev = IF k = x THEN prev ELSE st[s[k + 1]].prev
        BY <1>8, <3>1, <3>2, Zenon
      <3>4. st2[s[k + 1]].next = IF k = n THEN ARENA_NULL ELSE c[k + 1]
        <4>1. st[s[k + 1]].next = IF k + 1 = n + 1 THEN ARENA_NULL ELSE s[(k + 1) + 1]
          BY <1>5, <3>1
        <4>2. (k + 1 = n + 1 <=> k = n) /\ (k + 1) + 1 = k + 2
          OBVIOUS
        <4> QED BY <3>1, <3>3, <4>1, <4>2, Zenon
      <3>5. st2[s[k + 1]].prev = IF k = 1 THEN ARENA_NULL ELSE c[k - 1]
        <4>1. CASE k = x
          BY <1>2, <1>6, <3>1, <3>3, <4>1, SMTT(30)
        <4>2. CASE k # x
          <5>1. k # 1 /\ ~(k - 1 < x) /\ (k + 1) - 1 = k /\ k + 1 # 1
            BY <1>2, <2>2, <4>2, SMTT(30)
          <5>2. st2[s[k + 1]].prev = s[k]
            BY <1>5, <3>1, <3>3, <4>2, <5>1, Zenon
          <5> QED BY <3>1, <5>1, <5>2, Zenon
        <4> QED BY <4>1, <4>2, Zenon
      <3> QED BY <1>5, <3>1, <3>3, <3>4, <3>5, SMTT(30)
    <2> QED BY <2>1, <2>2, ZenonT(30)
  <1> QED BY <1>10, <1>11, Zenon DEF LinksHold

\* Taking a node out of a queue, wherever it is.
RemovedAt(r, a, s, x, side, price) ==
  /\ a \in Arenas /\ IsQueue(a.storage, s, side, price) /\ x \in 1 .. Len(s)
  /\ RemoveEffect(r, a, LevelOf(a.storage, s), s[x], a.storage[s[x]].prev, a.storage[s[x]].next)

\* remove leaves the queue without the node, wherever it stood, and the
\* level that describes what is left.
LEMMA RemoveQueue ==
  ASSUME NEW r, NEW a, NEW s, NEW x, NEW side, NEW price, RemovedAt(r, a, s, x, side, price)
  PROVE  /\ IsQueue(r.arena.storage, Cut(s, x), side, price)
         /\ r.level = LevelOf(r.arena.storage, Cut(s, x))
  <1> SUFFICES ASSUME a \in Arenas, IsQueue(a.storage, s, side, price), x \in 1 .. Len(s),
                      RemoveEffect(r, a, LevelOf(a.storage, s), s[x],
                                   a.storage[s[x]].prev, a.storage[s[x]].next)
               PROVE  /\ IsQueue(r.arena.storage, Cut(s, x), side, price)
                      /\ r.level = LevelOf(r.arena.storage, Cut(s, x))
    BY Zenon DEF RemovedAt
  <1> DEFINE st == a.storage
             st2 == r.arena.storage
             level == LevelOf(st, s)
             c == Cut(s, x)
  <1>1. PICK n \in Nat : n + 1 = Len(s)
    <2>1. Len(s) \in Nat
      BY QuantitiesType, Zenon
    <2>2. Len(s) - 1 \in Nat /\ (Len(s) - 1) + 1 = Len(s)
      BY <2>1
    <2> QED BY <2>2, Zenon
  <1>2. /\ s \in [1 .. n + 1 -> Indices] /\ Quantities(st, s) \in [1 .. n + 1 -> Int]
        /\ Total(Quantities(st, s)) \in Int /\ x \in 1 .. n + 1
    BY <1>1, QuantitiesType, Zenon
  <1>3. /\ c \in [1 .. n -> Indices]
        /\ \A k \in 1 .. n : c[k] = IF k < x THEN s[k] ELSE s[k + 1]
    <2>1. c = [k \in 1 .. n |-> IF k < x THEN s[k] ELSE s[k + 1]]
      BY <1>1 DEF Cut
    <2>2. ASSUME NEW k \in 1 .. n PROVE s[k] \in Indices /\ s[k + 1] \in Indices
      BY <1>2
    <2> HIDE DEF c
    <2> QED BY <2>1, <2>2, Zenon
  <1>4. c \in Seq(Indices) /\ Len(c) = n
    BY <1>3, FunctionIsSeq, Zenon
  <1>5. /\ \A j, k \in 1 .. n + 1 : s[j] = s[k] => j = k
        /\ \A k \in 1 .. n + 1 : st[s[k]].next = IF k = n + 1 THEN ARENA_NULL ELSE s[k + 1]
        /\ \A k \in 1 .. n + 1 : st[s[k]].prev = IF k = 1 THEN ARENA_NULL ELSE s[k - 1]
        /\ \A k \in 1 .. n + 1 : /\ st[s[k]].order \in Takers
                                 /\ st[s[k]].order.side = side /\ st[s[k]].order.price = price
    BY <1>1, Zenon DEF IsQueue, Linked
  <1>6. PICK prev \in Links : /\ prev = st[s[x]].prev
                              /\ prev = IF x = 1 THEN ARENA_NULL ELSE s[x - 1]
    <2>1. st[s[x]].prev = IF x = 1 THEN ARENA_NULL ELSE s[x - 1]
      BY <1>2, <1>5, Zenon
    <2>2. x # 1 => x - 1 \in 1 .. n + 1
      BY <1>2, SMTT(30)
    <2>3. x # 1 => s[x - 1] \in Indices
      BY <1>2, <2>2, Zenon
    <2> QED BY <2>1, <2>3, Zenon DEF Links
  <1>7. PICK next \in Links : /\ next = st[s[x]].next
                              /\ next = IF x = n + 1 THEN ARENA_NULL ELSE s[x + 1]
    <2>1. st[s[x]].next = IF x = n + 1 THEN ARENA_NULL ELSE s[x + 1]
      BY <1>2, <1>5, Zenon
    <2>2. x # n + 1 => x + 1 \in 1 .. n + 1
      BY <1>2, SMTT(30)
    <2>3. x # n + 1 => s[x + 1] \in Indices
      BY <1>2, <2>2, Zenon
    <2> QED BY <2>1, <2>3, Zenon DEF Links
  <1>8. /\ \A j \in Indices :
             /\ st2[j].order = st[j].order
             /\ st2[j].prev = IF j = next THEN prev ELSE st[j].prev
             /\ st2[j].next = IF j = prev THEN next ELSE st[j].next
        /\ r.level = [head  |-> IF prev = ARENA_NULL THEN next ELSE level.head,
                      tail  |-> IF next = ARENA_NULL THEN prev ELSE level.tail,
                      count |-> level.count - 1,
                      qty   |-> (level.qty - st[s[x]].order.quantity) % QtyModulus]
    BY <1>6, <1>7, ZenonT(30) DEF RemoveEffect
  <1>9. \A k \in 1 .. n + 1 : (s[k] = prev <=> k = x - 1) /\ (s[k] = next <=> k = x + 1)
    <2> SUFFICES ASSUME NEW k \in 1 .. n + 1
                 PROVE  (s[k] = prev <=> k = x - 1) /\ (s[k] = next <=> k = x + 1)
      BY Zenon
    <2>1. s[k] \in Indices /\ s[k] # ARENA_NULL
      BY <1>2, IndexFacts, Zenon
    <2>2. s[k] = prev <=> k = x - 1
      <3>1. CASE x = 1
        BY <1>6, <2>1, <3>1, SMTT(30)
      <3>2. CASE x # 1
        <4>1. x - 1 \in 1 .. n + 1 /\ prev = s[x - 1]
          BY <1>2, <1>6, <3>2, SMTT(30)
        <4> QED BY <1>5, <4>1, Zenon
      <3> QED BY <3>1, <3>2, Zenon
    <2>3. s[k] = next <=> k = x + 1
      <3>1. CASE x = n + 1
        BY <1>7, <2>1, <3>1, SMTT(30)
      <3>2. CASE x # n + 1
        <4>1. x + 1 \in 1 .. n + 1 /\ next = s[x + 1]
          BY <1>2, <1>7, <3>2, SMTT(30)
        <4> QED BY <1>5, <4>1, Zenon
      <3> QED BY <3>1, <3>2, Zenon
    <2> QED BY <2>2, <2>3, Zenon
  <1> HIDE DEF st, st2, c, level
  <1>10. CutAt(st, st2, s, c, n, x, prev, next, side, price)
    BY <1>2, <1>3, <1>5, <1>6, <1>7, <1>8, <1>9, Zenon DEF CutAt
  <1>12. IsQueue(st2, c, side, price)
    <2>1. LinksHold(st2, c, n, side, price)
      BY <1>10, CutLinked, Zenon
    <2> QED BY <1>4, <2>1, Zenon DEF LinksHold, IsQueue, Linked
  <1>13. Total(Quantities(st2, c)) = Total(Quantities(st, s)) - st[s[x]].order.quantity
    <2>1. Quantities(st2, c) \in [1 .. n -> Int]
      BY <1>4, <1>12, QuantitiesType, Zenon
    <2>2. Quantities(st, s)[x] = st[s[x]].order.quantity
      BY <1>1, <1>2, Zenon DEF Quantities
    <2>3. ASSUME NEW k \in 1 .. n
          PROVE  Quantities(st2, c)[k] = IF k < x THEN Quantities(st, s)[k] ELSE Quantities(st, s)[k + 1]
      <3>1. k \in 1 .. n + 1 /\ k + 1 \in 1 .. n + 1 /\ s[k] \in Indices /\ s[k + 1] \in Indices
        BY <1>2, SMTT(30)
      <3>2. /\ Quantities(st2, c)[k] = st2[c[k]].order.quantity
            /\ Quantities(st, s)[k] = st[s[k]].order.quantity
            /\ Quantities(st, s)[k + 1] = st[s[k + 1]].order.quantity
        BY <1>1, <1>4, <3>1, Zenon DEF Quantities
      <3> QED BY <1>3, <1>8, <3>1, <3>2, SMTT(30)
    <2> QED BY <1>2, <2>1, <2>2, <2>3, TotalCut, Zenon
  <1>14. r.level = LevelOf(st2, c)
    <2>1. n = 0 <=> c = << >>
      <3>1. c \in Seq(Indices) /\ Len(c) = n
        BY <1>4, Zenon
      <3> QED BY <3>1, EmptySequence, Zenon
    <2>2. /\ First(c) = IF n = 0 THEN ARENA_NULL ELSE c[1]
          /\ Last(c) = IF n = 0 THEN ARENA_NULL ELSE c[n]
      BY <1>4, <2>1, Zenon DEF First, Last
    <2>3. /\ level.head = s[1] /\ level.tail = s[n + 1] /\ level.count = n + 1
          /\ level.qty = Total(Quantities(st, s)) % QtyModulus
      <3>1. s # << >>
        BY <1>1 DEF IsQueue, Linked
      <3> QED BY <1>1, <3>1, Zenon DEF level, LevelOf, First, Last
    <2>4. (prev = ARENA_NULL <=> x = 1) /\ (next = ARENA_NULL <=> x = n + 1)
      BY <1>2, <1>6, <1>7, IndexFacts, SMTT(30)
    <2>5. First(c) = IF prev = ARENA_NULL THEN next ELSE level.head
      <3>1. CASE n = 0
        BY <1>2, <1>7, <2>2, <2>4, <3>1, SMTT(30)
      <3>2. CASE n # 0 /\ x = 1
        BY <1>3, <1>7, <2>2, <2>4, <3>2, SMTT(30)
      <3>3. CASE n # 0 /\ x # 1
        BY <1>2, <1>3, <2>2, <2>3, <2>4, <3>3, SMTT(30)
      <3> QED BY <3>1, <3>2, <3>3, Zenon
    <2>6. Last(c) = IF next = ARENA_NULL THEN prev ELSE level.tail
      <3>1. CASE n = 0
        BY <1>2, <1>6, <2>2, <2>4, <3>1, SMTT(30)
      <3>2. CASE n # 0 /\ x = n + 1
        BY <1>3, <1>6, <2>2, <2>4, <3>2, SMTT(30)
      <3>3. CASE n # 0 /\ x # n + 1
        BY <1>2, <1>3, <2>2, <2>3, <2>4, <3>3, SMTT(30)
      <3> QED BY <3>1, <3>2, <3>3, Zenon
    <2>7. (level.qty - st[s[x]].order.quantity) % QtyModulus = Total(Quantities(st2, c)) % QtyModulus
      <3>1. st[s[x]].order.quantity \in Int
        <4>1. st[s[x]].order.quantity \in 0 .. MaxQuantity
          BY <1>2, <1>5, Zenon DEF Takers
        <4> QED BY <4>1, BookAssumption, SMTT(30)
      <3>2. PICK y \in Int : y = -st[s[x]].order.quantity
        BY <3>1
      <3>3. PICK t \in Int : t = Total(Quantities(st, s))
        BY <1>2, Zenon
      <3>4. ((t % QtyModulus) + y) % QtyModulus = (t + y) % QtyModulus
        BY WrappedSum, ArenaAssumption, Zenon
      <3>5. t % QtyModulus \in Int
        BY ONLY <3>3, ArenaAssumption, SMTT(30)
      <3>6. /\ level.qty - st[s[x]].order.quantity = (t % QtyModulus) + y
            /\ Total(Quantities(st2, c)) = t + y
        BY <1>13, <2>3, <3>1, <3>2, <3>3, <3>5, ZenonT(30)
      <3> QED BY <3>4, <3>6, Zenon
    <2>8. level.count - 1 = n
      BY <2>3
    <2> QED BY <1>4, <1>8, <2>5, <2>6, <2>7, <2>8, Zenon DEF LevelOf
  <1> QED BY <1>12, <1>14, Zenon DEF st2, c

\* Some of a node's quantity is taken away.
ReducedAt(st, st2, s, x, amount) ==
  /\ x \in 1 .. Len(s) /\ amount \in Int
  /\ st2[s[x]].order \in Takers
  /\ st2[s[x]].order.side = st[s[x]].order.side /\ st2[s[x]].order.price = st[s[x]].order.price
  /\ st2[s[x]].order.quantity = st[s[x]].order.quantity - amount
  /\ \A k \in 1 .. Len(s) :
       /\ k # x => st2[s[k]].order = st[s[k]].order
       /\ st2[s[k]].prev = st[s[k]].prev /\ st2[s[k]].next = st[s[k]].next

\* Taking some of an order leaves the queue, and a level with that much less.
LEMMA ReduceQueue ==
  ASSUME NEW st, NEW st2, NEW s, NEW side, NEW price, IsQueue(st, s, side, price),
         NEW x, NEW amount, ReducedAt(st, st2, s, x, amount)
  PROVE  /\ IsQueue(st2, s, side, price)
         /\ LevelOf(st2, s) = [LevelOf(st, s) EXCEPT !.qty = (@ - amount) % QtyModulus]
  <1>0. x \in 1 .. Len(s) /\ amount \in Int
    BY Zenon DEF ReducedAt
  <1>1. IsQueue(st2, s, side, price)
    <2>1. Linked(st2, s)
      BY Zenon DEF IsQueue, Linked, ReducedAt
    <2>2. ASSUME NEW k \in 1 .. Len(s)
          PROVE  /\ st2[s[k]].prev = IF k = 1 THEN ARENA_NULL ELSE s[k - 1]
                 /\ st2[s[k]].order \in Takers
                 /\ st2[s[k]].order.side = side /\ st2[s[k]].order.price = price
      <3>1. /\ st[s[k]].prev = IF k = 1 THEN ARENA_NULL ELSE s[k - 1]
            /\ st[s[k]].order \in Takers
            /\ st[s[k]].order.side = side /\ st[s[k]].order.price = price
        BY Zenon DEF IsQueue
      <3>2. st2[s[k]].prev = st[s[k]].prev /\ (k # x => st2[s[k]].order = st[s[k]].order)
        BY Zenon DEF ReducedAt
      <3>3. k = x => /\ st2[s[k]].order \in Takers
                     /\ st2[s[k]].order.side = st[s[k]].order.side
                     /\ st2[s[k]].order.price = st[s[k]].order.price
        BY Zenon DEF ReducedAt
      <3> QED BY <3>1, <3>2, <3>3, Zenon
    <2> QED BY <2>1, <2>2, Zenon DEF IsQueue
  <1>2. PICK n \in Nat : n = Len(s)
    BY QuantitiesType
  <1>3. PICK old \in [1 .. n -> Int] : old = Quantities(st, s)
    BY <1>2, QuantitiesType
  <1>4. PICK new \in [1 .. n -> Int] : new = Quantities(st2, s)
    BY <1>1, <1>2, QuantitiesType
  <1>5. x \in 1 .. n /\ new[x] = old[x] - amount /\ \A k \in 1 .. n : k # x => new[k] = old[k]
    BY <1>2, <1>3, <1>4, Zenon DEF Quantities, ReducedAt
  <1>6. Total(new) = (Total(old) - old[x]) + new[x]
    BY <1>5, TotalChange, ZenonT(30)
  <1>7. PICK t \in Int : t = Total(old)
    BY <1>3, QuantitiesType
  <1>8. PICK y \in Int : y = -amount
    BY <1>0
  <1>9. ((t % QtyModulus) + y) % QtyModulus = (t + y) % QtyModulus
    BY WrappedSum, ArenaAssumption, Zenon
  <1>10. t % QtyModulus \in Int
    BY ModFacts, ArenaAssumption
  <1>11. ((t % QtyModulus) - amount) % QtyModulus = Total(new) % QtyModulus
    <2>1. Total(new) = t + y
      BY <1>0, <1>5, <1>6, <1>7, <1>8
    <2>2. (t % QtyModulus) - amount = (t % QtyModulus) + y
      BY <1>0, <1>8, <1>10, Zenon
    <2> QED BY <1>9, <2>1, <2>2
  <1> QED BY <1>1, <1>3, <1>4, <1>7, <1>11, SMTT(30) DEF LevelOf

\* The free list without its first node, and with a node put before it.
SameTail(st, st2, s) == \A k \in 2 .. Len(s) : st2[s[k]].next = st[s[k]].next

\* What alloc leaves of the free list.
TailEffect(st, st2, s) ==
  /\ Linked(st2, Tail(s)) /\ Len(Tail(s)) = Len(s) - 1
  /\ \A k \in 1 .. Len(Tail(s)) : Tail(s)[k] = s[k + 1]
  /\ st[s[1]].next = First(Tail(s))

\* alloc takes the first free node: the others are still linked.
LEMMA LinkedTail ==
  ASSUME NEW st, NEW st2, NEW s, Linked(st, s), s # << >>,
         SameTail(st, st2, s)
  PROVE  TailEffect(st, st2, s)
  <1>1. PICK n \in Nat : n + 1 = Len(s)
    <2>1. Len(s) \in Nat /\ Len(s) # 0
      BY DEF Linked
    <2>2. Len(s) - 1 \in Nat /\ (Len(s) - 1) + 1 = Len(s)
      BY <2>1
    <2> QED BY <2>2, Zenon
  <1>2. PICK t : t = Tail(s)
    BY Zenon
  <1>3. /\ t \in Seq(Indices) /\ Len(t) = n /\ \A k \in 1 .. n : t[k] = s[k + 1]
    BY <1>1, <1>2 DEF Linked
  <1>4. n = 0 <=> t = << >>
    BY <1>3
  <1>5. ASSUME NEW j \in 1 .. n, NEW k \in 1 .. n, t[j] = t[k] PROVE j = k
    <2>1. j + 1 \in 1 .. n + 1 /\ k + 1 \in 1 .. n + 1 /\ s[j + 1] = s[k + 1]
      BY <1>3, <1>5
    <2>2. j + 1 = k + 1
      BY <1>1, <2>1, Zenon DEF Linked
    <2> QED BY <2>2
  <1>6. ASSUME NEW k \in 1 .. n PROVE st2[t[k]].next = IF k = n THEN ARENA_NULL ELSE t[k + 1]
    <2>1. k + 1 \in 2 .. n + 1 /\ k + 1 \in 1 .. n + 1
      OBVIOUS
    <2>2. st2[s[k + 1]].next = IF k + 1 = n + 1 THEN ARENA_NULL ELSE s[(k + 1) + 1]
      BY <1>1, <2>1, Zenon DEF Linked, SameTail
    <2>3. k # n => k + 1 \in 1 .. n
      OBVIOUS
    <2> QED BY <1>3, <2>2, <2>3
  <1>7. st[s[1]].next = IF n + 1 = 1 THEN ARENA_NULL ELSE s[2]
    BY <1>1 DEF Linked
  <1>8. First(t) = IF n = 0 THEN ARENA_NULL ELSE s[2]
    BY <1>3, <1>4 DEF First
  <1>9. st[s[1]].next = First(t)
    BY <1>7, <1>8
  <1>10. Linked(st2, t)
    BY <1>3, <1>5, <1>6, Zenon DEF Linked
  <1> QED BY <1>1, <1>2, <1>3, <1>9, <1>10, SMTT(30) DEF TailEffect

\* The list does not have the node and keeps its links.
Avoids(st, st2, s, i) == \A k \in 1 .. Len(s) : s[k] # i /\ st2[s[k]].next = st[s[k]].next

\* What dealloc leaves of the free list.
PushEffect(st2, s, i) ==
  /\ Linked(st2, <<i>> \o s) /\ Len(<<i>> \o s) = Len(s) + 1
  /\ (<<i>> \o s)[1] = i /\ \A k \in 1 .. Len(s) : (<<i>> \o s)[k + 1] = s[k]
  /\ First(<<i>> \o s) = i

\* dealloc puts a node before the free list.
LEMMA LinkedPush ==
  ASSUME NEW st, NEW st2, NEW s, Linked(st, s), NEW i \in Indices,
         Avoids(st, st2, s, i), st2[i].next = First(s)
  PROVE  PushEffect(st2, s, i)
  <1>1. PICK n \in Nat : n = Len(s)
    BY DEF Linked
  <1>2. PICK t : t = <<i>> \o s
    BY Zenon
  <1>3. /\ t \in Seq(Indices) /\ Len(t) = n + 1 /\ t[1] = i
        /\ \A k \in 1 .. n + 1 : k # 1 => t[k] = s[k - 1]
    BY <1>1, <1>2 DEF Linked
  <1>4. ASSUME NEW j \in 1 .. n + 1, NEW k \in 1 .. n + 1, t[j] = t[k] PROVE j = k
    <2>1. CASE j = 1 /\ k # 1
      <3>1. k - 1 \in 1 .. n /\ t[k] = s[k - 1]
        BY <1>3, <2>1
      <3> QED BY <1>1, <1>3, <1>4, <2>1, <3>1, Zenon DEF Avoids
    <2>2. CASE j # 1 /\ k = 1
      <3>1. j - 1 \in 1 .. n /\ t[j] = s[j - 1]
        BY <1>3, <2>2
      <3> QED BY <1>1, <1>3, <1>4, <2>2, <3>1, Zenon DEF Avoids
    <2>3. CASE j # 1 /\ k # 1
      <3>1. /\ j - 1 \in 1 .. n /\ t[j] = s[j - 1]
            /\ k - 1 \in 1 .. n /\ t[k] = s[k - 1]
        BY <1>3, <2>3, SMTT(30)
      <3>2. j - 1 = k - 1
        BY <1>1, <1>4, <3>1, Zenon DEF Linked
      <3> QED BY <3>2
    <2> QED BY <2>1, <2>2, <2>3
  <1>5. ASSUME NEW k \in 1 .. n + 1
        PROVE  st2[t[k]].next = IF k = n + 1 THEN ARENA_NULL ELSE t[k + 1]
    <2>1. CASE k = 1
      <3>1. First(s) = IF n = 0 THEN ARENA_NULL ELSE s[1]
        BY <1>1 DEF First, Linked
      <3>2. n # 0 => t[2] = s[1]
        BY <1>3
      <3> QED BY <1>3, <2>1, <3>1, <3>2
    <2>2. CASE k # 1
      <3>1. k - 1 \in 1 .. n /\ t[k] = s[k - 1]
        BY <1>3, <2>2
      <3>2. st2[s[k - 1]].next = IF k - 1 = n THEN ARENA_NULL ELSE s[(k - 1) + 1]
        BY <1>1, <3>1, Zenon DEF Linked, Avoids
      <3>3. k # n + 1 => t[k + 1] = s[k]
        BY <1>3
      <3> QED BY <3>1, <3>2, <3>3
    <2> QED BY <2>1, <2>2
  <1>6. ASSUME NEW k \in 1 .. n PROVE t[k + 1] = s[k]
    BY <1>3
  <1>7. t # << >>
    BY <1>3
  <1>8. Linked(st2, t)
    BY <1>3, <1>4, <1>5 DEF Linked
  <1> QED BY <1>1, <1>2, <1>3, <1>6, <1>7, <1>8, Zenon DEF First, PushEffect
=============================================================================
