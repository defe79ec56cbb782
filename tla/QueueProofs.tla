----------------------------- MODULE QueueProofs -----------------------------
(***************************************************************************)
(* Where the nodes of the arena are.  Every node is on the free list or in *)
(* the queue of one level, and an insertion, a removal and a reduction     *)
(* move or change one node and nothing else.  First what the proofs need   *)
(* of the orders that belong in one queue, and of a book as its queues.    *)
(***************************************************************************)
EXTENDS ArenaProofs

(* The orders of a sequence that belong in one queue *)

\* Two sequences, one after the other.
IsJoin(z, x, y) == z = x \o y

\* What such a sequence holds, and where.
LEMMA JoinIs ==
  ASSUME NEW T, NEW x \in Seq(T), NEW y \in Seq(T), NEW z, IsJoin(z, x, y)
  PROVE  /\ z \in Seq(T) /\ Len(z) = Len(x) + Len(y)
         /\ \A k \in 1 .. Len(x) : z[k] = x[k]
         /\ \A k \in 1 .. Len(y) : z[Len(x) + k] = y[k]
  <1> USE DEF IsJoin
  <1>1. Len(x) \in Nat /\ Len(y) \in Nat
    OBVIOUS
  <1>2. z \in Seq(T) /\ Len(z) = Len(x) + Len(y)
    OBVIOUS
  <1>3. \A k \in 1 .. Len(x) : z[k] = x[k]
    OBVIOUS
  <1>4. \A k \in 1 .. Len(y) : z[Len(x) + k] = y[k]
    <2> TAKE k \in 1 .. Len(y)
    <2>1. PICK j \in 1 .. Len(x) + Len(y) : j = Len(x) + k /\ j > Len(x) /\ j - Len(x) = k
      BY <1>1, SMTT(30)
    <2>2. z[j] = y[j - Len(x)]
      BY <1>1, <2>1
    <2> QED BY <2>1, <2>2
  <1> QED BY <1>2, <1>3, <1>4

\* An element added to two sequences, one after the other.
LEMMA JoinAppend ==
  ASSUME NEW T, NEW x \in Seq(T), NEW y \in Seq(T), NEW e \in T,
         NEW z, IsJoin(z, x, y)
  PROVE  IsJoin(Append(z, e), x, Append(y, e))
  <1>1. PICK n \in Nat, l \in Nat : n = Len(x) /\ l = Len(y)
    OBVIOUS
  <1>2. /\ z \in Seq(T) /\ Len(z) = n + l
        /\ \A k \in 1 .. n : z[k] = x[k]
        /\ \A k \in 1 .. l : z[n + k] = y[k]
    BY <1>1, JoinIs
  <1>w. PICK w : w = Append(y, e)
    BY Zenon
  <1>3. /\ w \in Seq(T) /\ Len(w) = l + 1 /\ w[l + 1] = e
        /\ \A k \in 1 .. l : w[k] = y[k]
    BY <1>1, <1>w, AppendIs
  <1>4. PICK u : u = Append(z, e)
    BY Zenon
  <1>5. /\ u \in Seq(T) /\ Len(u) = (n + l) + 1 /\ u[(n + l) + 1] = e
        /\ \A k \in 1 .. n + l : u[k] = z[k]
    BY <1>2, <1>4, AppendIs
  <1>6. PICK v : IsJoin(v, x, w)
    BY Zenon DEF IsJoin
  <1>7. /\ v \in Seq(T) /\ Len(v) = n + (l + 1)
        /\ \A k \in 1 .. n : v[k] = x[k]
        /\ \A k \in 1 .. l + 1 : v[n + k] = w[k]
    BY <1>1, <1>3, <1>6, JoinIs, SMTT(30)
  <1>8. ASSUME NEW k \in 1 .. (n + l) + 1 PROVE u[k] = v[k]
    <2>1. CASE k <= n
      <3>1. k \in 1 .. n /\ k \in 1 .. n + l
        BY <2>1
      <3>2. u[k] = z[k] /\ z[k] = x[k]
        BY <1>2, <1>5, <3>1
      <3>3. v[k] = x[k]
        BY <1>7, <3>1
      <3> QED BY <3>2, <3>3
    <2>2. CASE k > n /\ k <= n + l
      <3>1. PICK j \in 1 .. l : k = n + j
        <4>1. k - n \in 1 .. l /\ k = n + (k - n)
          BY <2>2
        <4> QED BY <4>1
      <3>2. j \in 1 .. l + 1 /\ k \in 1 .. n + l
        BY <2>2
      <3>3. u[k] = z[k]
        BY <1>5, <3>2
      <3>4. z[k] = y[j]
        BY <1>2, <3>1, Zenon
      <3>5. v[k] = w[j] /\ w[j] = y[j]
        BY <1>3, <1>7, <3>1, <3>2
      <3> QED BY <3>3, <3>4, <3>5
    <2>3. CASE k = (n + l) + 1
      <3>1. k = n + (l + 1) /\ l + 1 \in 1 .. l + 1
        BY <2>3
      <3> QED BY <1>3, <1>5, <1>7, <2>3, <3>1, Zenon
    <2> QED BY <2>1, <2>2, <2>3
  <1>9. u \in [1 .. (n + l) + 1 -> T] /\ v \in [1 .. (n + l) + 1 -> T]
    <2>1. n + (l + 1) = (n + l) + 1
      OBVIOUS
    <2> QED BY <1>5, <1>7, <2>1, SeqIsFunction, Zenon
  <1>10. u = v
    BY <1>8, <1>9
  <1> QED BY <1>4, <1>6, <1>10, <1>w DEF IsJoin

\* An order belongs in the queue of its side and price, at the end.
Belongs(o, side, price) == o.side = side /\ o.price = price

Chosen(seq, o, side, price) == IF Belongs(o, side, price) THEN Append(seq, o) ELSE seq

\* f[m] are those of the first m orders that belong.
Chooses(f, orders, T, side, price) ==
  /\ f \in [0 .. Len(orders) -> Seq(T)] /\ f[0] = << >>
  /\ \A m \in 1 .. Len(orders) : f[m] = Chosen(f[m - 1], orders[m], side, price)

\* Belonging goes through the orders one by one.
LEMMA BelongingIs ==
  ASSUME NEW T, NEW orders \in Seq(T), NEW side, NEW price
  PROVE  \E f : /\ Chooses(f, orders, T, side, price)
                /\ \A m \in 0 .. Len(orders) : Belonging(orders, m, side, price) = f[m]
  <1>1. PICK n \in Nat : n = Len(orders)
    OBVIOUS
  <1> DEFINE g == [k \in 1 .. n |-> [x \in Seq(T) |-> Chosen(x, orders[k], side, price)]]
  <1>2. g \in [1 .. n -> [Seq(T) -> Seq(T)]]
    <2>1. \A k \in 1 .. n, x \in Seq(T) : Chosen(x, orders[k], side, price) \in Seq(T)
      <3> TAKE k \in 1 .. n, x \in Seq(T)
      <3>1. orders[k] \in T
        BY <1>1
      <3>2. Append(x, orders[k]) \in Seq(T)
        BY <3>1
      <3> QED BY <3>2 DEF Chosen
    <2> QED BY <2>1
  <1>3. << >> \in Seq(T)
    OBVIOUS
  <1>4. PICK f : Solves(f, n, Seq(T), << >>, g)
    <2> HIDE DEF g
    <2> QED BY <1>2, <1>3, FiniteRecursion, Zenon
  <1>5. f \in [0 .. n -> Seq(T)] /\ f[0] = << >>
    BY <1>4 DEF Solves
  <1>6. \A k \in 1 .. n : f[k] = Chosen(f[k - 1], orders[k], side, price)
    <2>1. \A k \in 1 .. n : f[k] = g[k][f[k - 1]]
      BY <1>4 DEF Solves
    <2>2. \A k \in 1 .. n : f[k - 1] \in Seq(T)
      BY <1>5
    <2> QED BY <2>1, <2>2, Zenon
  <1> HIDE DEF g
  <1>7. Chooses(f, orders, T, side, price)
    BY <1>1, <1>5, <1>6 DEF Chooses
  <1>8. ASSUME NEW m \in 0 .. n PROVE Belonging(orders, m, side, price) = f[m]
    <2> DEFINE Eq(h) == h = [k \in 0 .. m |->
                               IF k = 0 THEN << >>
                               ELSE IF orders[k].side = side /\ orders[k].price = price
                                      THEN Append(h[k - 1], orders[k])
                                      ELSE h[k - 1]]
               kept == CHOOSE h : Eq(h)
    <2>1. Belonging(orders, m, side, price) = kept[m]
      BY DEF Belonging
    <2>2. \E h : Eq(h)
      <3> DEFINE h == [k \in 0 .. m |-> f[k]]
      <3>1. \A k \in 0 .. m : h[k] = IF k = 0 THEN << >>
                                     ELSE IF orders[k].side = side /\ orders[k].price = price
                                            THEN Append(h[k - 1], orders[k])
                                            ELSE h[k - 1]
        <4> TAKE k \in 0 .. m
        <4>1. CASE k = 0
          BY <1>5, <4>1
        <4>2. CASE k # 0
          <5>1. k \in 1 .. n /\ k - 1 \in 0 .. m
            BY <4>2
          <5>2. h[k] = f[k] /\ h[k - 1] = f[k - 1]
            BY <5>1
          <5> HIDE DEF h
          <5> QED BY <1>6, <4>2, <5>1, <5>2 DEF Chosen, Belongs
        <4> QED BY <4>1, <4>2
      <3>2. Eq(h)
        BY <3>1, Zenon
      <3> QED BY <3>2, Zenon
    <2>3. Eq(kept)
      BY <2>2, Zenon
    <2>4. \A k \in 0 .. m : kept[k] = IF k = 0 THEN << >>
                                      ELSE IF orders[k].side = side /\ orders[k].price = price
                                             THEN Append(kept[k - 1], orders[k])
                                             ELSE kept[k - 1]
      BY <2>3, Zenon
    <2> HIDE DEF kept, Eq
    <2> DEFINE S == {k \in Nat : k <= m => kept[k] = f[k]}
    <2>5. 0 \in S
      BY <1>5, <2>4
    <2>6. ASSUME NEW k \in Nat, k \in S PROVE k + 1 \in S
      <3> SUFFICES ASSUME k + 1 <= m PROVE kept[k + 1] = f[k + 1]
        OBVIOUS
      <3>1. PICK j \in 1 .. m : j = k + 1 /\ j # 0 /\ j - 1 = k /\ j \in 1 .. n
        OBVIOUS
      <3>2. kept[k] = f[k]
        BY <2>6
      <3>3. kept[j] = IF orders[j].side = side /\ orders[j].price = price
                        THEN Append(kept[k], orders[j]) ELSE kept[k]
        BY <2>4, <3>1
      <3>4. f[j] = Chosen(f[k], orders[j], side, price)
        BY <1>6, <3>1
      <3> QED BY <3>1, <3>2, <3>3, <3>4, Zenon DEF Chosen, Belongs
    <2>7. m \in S
      <3> HIDE DEF S
      <3> QED BY <2>5, <2>6, SetInduction
    <2> QED BY <2>1, <2>7
  <1> QED BY <1>1, <1>7, <1>8

\* Of no orders none belong, and what belongs is a sequence of orders.
LEMMA BelongingStep ==
  ASSUME NEW T, NEW orders \in Seq(T), NEW side, NEW price
  PROVE  /\ Belonging(orders, 0, side, price) = << >>
         /\ \A m \in 0 .. Len(orders) : Belonging(orders, m, side, price) \in Seq(T)
  <1>1. PICK f : /\ Chooses(f, orders, T, side, price)
                 /\ \A m \in 0 .. Len(orders) : Belonging(orders, m, side, price) = f[m]
    BY BelongingIs
  <1>2. PICK n \in Nat : n = Len(orders)
    OBVIOUS
  <1>3. f \in [0 .. n -> Seq(T)] /\ f[0] = << >>
    BY <1>1, <1>2 DEF Chooses
  <1> QED BY <1>1, <1>2, <1>3

\* The next order is appended if it belongs, and left out otherwise.
LEMMA BelongingNext ==
  ASSUME NEW T, NEW orders \in Seq(T), NEW side, NEW price,
         NEW k \in Nat, NEW j \in 1 .. Len(orders), j = k + 1
  PROVE  Belonging(orders, j, side, price) =
           Chosen(Belonging(orders, k, side, price), orders[j], side, price)
  <1>1. PICK f : /\ Chooses(f, orders, T, side, price)
                 /\ \A m \in 0 .. Len(orders) : Belonging(orders, m, side, price) = f[m]
    BY BelongingIs
  <1>2. PICK n \in Nat : n = Len(orders)
    OBVIOUS
  <1>3. f[j] = Chosen(f[j - 1], orders[j], side, price)
    BY <1>1, <1>2 DEF Chooses
  <1>4. j - 1 = k /\ j \in 0 .. n /\ k \in 0 .. n
    BY <1>2
  <1> QED BY <1>1, <1>2, <1>3, <1>4, Zenon

\* What belongs among the first orders does not depend on those that follow.
LEMMA BelongingPrefix ==
  ASSUME NEW T, NEW x \in Seq(T), NEW z \in Seq(T), Len(x) <= Len(z),
         \A k \in 1 .. Len(x) : z[k] = x[k], NEW side, NEW price
  PROVE  \A m \in 0 .. Len(x) : Belonging(z, m, side, price) = Belonging(x, m, side, price)
  <1>1. PICK n \in Nat : n = Len(x)
    OBVIOUS
  <1> DEFINE S == {m \in Nat : m <= n =>
                     Belonging(z, m, side, price) = Belonging(x, m, side, price)}
  <1>2. 0 \in S
    BY BelongingStep
  <1>3. ASSUME NEW m \in Nat, m \in S PROVE m + 1 \in S
    <2> SUFFICES ASSUME m + 1 <= n
                 PROVE  Belonging(z, m + 1, side, price) = Belonging(x, m + 1, side, price)
      OBVIOUS
    <2>1. PICK j \in 1 .. n : j = m + 1 /\ j - 1 = m /\ j \in 1 .. Len(x) /\ j \in 1 .. Len(z)
      BY <1>1
    <2>2. Belonging(z, m, side, price) = Belonging(x, m, side, price) /\ z[j] = x[j]
      BY <1>3, <2>1
    <2> HIDE DEF S
    <2>3. Belonging(z, j, side, price) = Chosen(Belonging(z, m, side, price), z[j], side, price)
      BY <2>1, BelongingNext
    <2>4. Belonging(x, j, side, price) = Chosen(Belonging(x, m, side, price), x[j], side, price)
      BY <2>1, BelongingNext
    <2> QED BY <2>1, <2>2, <2>3, <2>4, Zenon
  <1>4. Nat \subseteq S
    <2> HIDE DEF S
    <2> QED BY <1>2, <1>3, SetInduction, Zenon
  <1> QED BY <1>1, <1>4

\* All the orders of a sequence that belong in one queue.
Sorted(orders, side, price) == Belonging(orders, Len(orders), side, price)

\* What belongs of two sequences, one after the other.
LEMMA SortedJoin ==
  ASSUME NEW T, NEW x \in Seq(T), NEW y \in Seq(T), NEW z, IsJoin(z, x, y),
         NEW side, NEW price
  PROVE  IsJoin(Sorted(z, side, price), Sorted(x, side, price), Sorted(y, side, price))
  <1>1. PICK n \in Nat, l \in Nat : n = Len(x) /\ l = Len(y)
    OBVIOUS
  <1>2. /\ z \in Seq(T) /\ Len(z) = n + l
        /\ \A k \in 1 .. n : z[k] = x[k]
        /\ \A k \in 1 .. l : z[n + k] = y[k]
    BY <1>1, JoinIs
  <1> DEFINE S == {m \in Nat : m <= l =>
                     IsJoin(Belonging(z, n + m, side, price),
                            Sorted(x, side, price), Belonging(y, m, side, price))}
  <1>3. Sorted(x, side, price) \in Seq(T)
    <2>1. Len(x) \in 0 .. Len(x)
      BY <1>1
    <2> QED BY <2>1, BelongingStep, Zenon DEF Sorted
  <1>4. 0 \in S
    <2>1. Belonging(z, n, side, price) = Sorted(x, side, price)
      <3>1. Len(x) \in 0 .. Len(x) /\ Len(x) <= Len(z)
        BY <1>1, <1>2
      <3>2. \A k \in 0 .. Len(x) : Belonging(z, k, side, price) = Belonging(x, k, side, price)
        <4>1. \A k \in 1 .. Len(x) : z[k] = x[k]
          BY <1>1, <1>2
        <4> QED BY <1>2, <3>1, <4>1, BelongingPrefix
      <3> QED BY <1>1, <3>1, <3>2 DEF Sorted
    <2>2. Belonging(y, 0, side, price) = << >>
      BY BelongingStep
    <2>3. Sorted(x, side, price) \o << >> = Sorted(x, side, price)
      BY <1>3
    <2>4. n + 0 = n
      OBVIOUS
    <2> QED BY <2>1, <2>2, <2>3, <2>4, Zenon DEF IsJoin
  <1>n. \A k \in Nat, j \in 1 .. Len(z) : j = k + 1 =>
          Belonging(z, j, side, price) = Chosen(Belonging(z, k, side, price), z[j], side, price)
    <2>1. z \in Seq(T)
      BY <1>2
    <2> HIDE DEF S
    <2> QED BY <2>1, BelongingNext
  <1>5. ASSUME NEW m \in Nat, m \in S PROVE m + 1 \in S
    <2> SUFFICES ASSUME m + 1 <= l
                 PROVE  IsJoin(Belonging(z, n + (m + 1), side, price),
                               Sorted(x, side, price), Belonging(y, m + 1, side, price))
      OBVIOUS
    <2>1. PICK a, b, c, e : /\ a = Sorted(x, side, price) /\ b = Belonging(y, m, side, price)
                            /\ c = Belonging(z, n + m, side, price) /\ e = y[m + 1]
      OBVIOUS
    <2>2. IsJoin(c, a, b)
      BY <1>5, <2>1
    <2> HIDE DEF S
    <2>3. PICK j \in 1 .. Len(z) : j = n + (m + 1) /\ j = (n + m) + 1 /\ z[j] = e
      BY <1>2, <2>1
    <2>4. PICK i \in 1 .. Len(y) : i = m + 1
      BY <1>1
    <2>5. Belonging(z, j, side, price) = Chosen(c, e, side, price)
      <3>1. PICK k \in Nat : k = n + m /\ j = k + 1
        BY <2>3
      <3>2. Belonging(z, j, side, price) = Chosen(Belonging(z, k, side, price), z[j], side, price)
        BY <1>n, <3>1
      <3> QED BY <2>1, <2>3, <3>1, <3>2, Zenon
    <2>6. Belonging(y, i, side, price) = Chosen(b, e, side, price)
      <3>1. Belonging(y, i, side, price) = Chosen(Belonging(y, m, side, price), y[i], side, price)
        BY <2>4, BelongingNext
      <3> QED BY <2>1, <2>4, <3>1, Zenon
    <2>7. a \in Seq(T) /\ b \in Seq(T) /\ e \in T
      <3>1. m \in 0 .. Len(y)
        BY <1>1
      <3>2. b \in Seq(T)
        BY <2>1, <3>1, BelongingStep, Zenon
      <3>3. e \in T
        BY <1>1, <2>1, <2>4
      <3> QED BY <1>3, <2>1, <3>2, <3>3, Zenon
    <2>8. IsJoin(Append(c, e), a, Append(b, e))
      BY <2>2, <2>7, JoinAppend, Zenon
    <2>9. IsJoin(Chosen(c, e, side, price), a, Chosen(b, e, side, price))
      BY <2>2, <2>8 DEF Chosen
    <2> QED BY <2>1, <2>3, <2>4, <2>5, <2>6, <2>9, Zenon
  <1>6. l \in S
    <2> HIDE DEF S
    <2> QED BY <1>4, <1>5, SetInduction, Zenon
  <1> QED BY <1>1, <1>2, <1>6 DEF Sorted

\* A sequence whose orders all belong in the queue, and one of which none
\* does.
LEMMA SortedAll ==
  ASSUME NEW T, NEW x \in Seq(T), NEW side, NEW price,
         \A k \in 1 .. Len(x) : Belongs(x[k], side, price)
  PROVE  Sorted(x, side, price) = x
  <1>1. PICK n \in Nat : n = Len(x)
    OBVIOUS
  <1> DEFINE P(m) == LET b == Belonging(x, m, side, price)
                     IN Len(b) = m /\ \A k \in 1 .. m : b[k] = x[k]
             S == {m \in Nat : m <= n => P(m)}
  <1>2. 0 \in S
    BY BelongingStep
  <1>3. ASSUME NEW m \in Nat, m \in S PROVE m + 1 \in S
    <2> SUFFICES ASSUME m + 1 <= n PROVE P(m + 1)
      OBVIOUS
    <2>1. PICK b, c : b = Belonging(x, m, side, price) /\ c = Belonging(x, m + 1, side, price)
      OBVIOUS
    <2>2. Len(b) = m /\ \A k \in 1 .. m : b[k] = x[k]
      BY <1>3, <2>1
    <2>3. PICK j \in 1 .. Len(x) : j = m + 1
      BY <1>1
    <2>4. x[j] \in T /\ b \in Seq(T)
      <3>1. m \in 0 .. Len(x)
        BY <1>1
      <3> HIDE DEF S, P
      <3>2. x[j] \in T
        OBVIOUS
      <3>3. b \in Seq(T)
        BY <2>1, <3>1, BelongingStep, Zenon
      <3> QED BY <3>2, <3>3
    <2>5. c = Append(b, x[j])
      <3> HIDE DEF S, P
      <3>1. Belonging(x, j, side, price) = Chosen(Belonging(x, m, side, price), x[j], side, price)
        BY <2>3, BelongingNext
      <3> QED BY <2>1, <2>3, <3>1, Zenon DEF Chosen
    <2>6. Len(c) = m + 1 /\ c[m + 1] = x[j] /\ \A k \in 1 .. m : c[k] = b[k]
      BY <2>2, <2>4, <2>5, AppendIs
    <2> QED BY <2>1, <2>2, <2>3, <2>6
  <1>4. n \in S
    <2> HIDE DEF S
    <2> QED BY <1>2, <1>3, SetInduction, Zenon
  <1>5. PICK b : b = Sorted(x, side, price)
    OBVIOUS
  <1>6. Len(b) = n /\ \A k \in 1 .. n : b[k] = x[k]
    BY <1>1, <1>4, <1>5 DEF Sorted
  <1>7. b \in Seq(T)
    <2>1. Len(x) \in 0 .. Len(x)
      OBVIOUS
    <2> QED BY <1>5, <2>1, BelongingStep, Zenon DEF Sorted
  <1>8. b \in [1 .. n -> T] /\ x \in [1 .. n -> T]
    BY <1>1, <1>6, <1>7, SeqIsFunction
  <1>9. b = x
    BY <1>6, <1>8
  <1> QED BY <1>5, <1>9

\* Of orders that do not belong nothing is left.
LEMMA SortedNone ==
  ASSUME NEW T, NEW x \in Seq(T), NEW side, NEW price,
         \A k \in 1 .. Len(x) : ~Belongs(x[k], side, price)
  PROVE  Sorted(x, side, price) = << >>
  <1>1. PICK n \in Nat : n = Len(x)
    OBVIOUS
  <1> DEFINE S == {m \in Nat : m <= n => Belonging(x, m, side, price) = << >>}
  <1>2. 0 \in S
    BY BelongingStep
  <1>3. ASSUME NEW m \in Nat, m \in S PROVE m + 1 \in S
    <2> SUFFICES ASSUME m + 1 <= n PROVE Belonging(x, m + 1, side, price) = << >>
      OBVIOUS
    <2>1. Belonging(x, m, side, price) = << >>
      BY <1>3
    <2>2. PICK j \in 1 .. Len(x) : j = m + 1
      BY <1>1
    <2> HIDE DEF S
    <2>3. Belonging(x, j, side, price) = Chosen(Belonging(x, m, side, price), x[j], side, price)
      BY <2>2, BelongingNext
    <2> QED BY <2>1, <2>2, <2>3 DEF Chosen
  <1>4. n \in S
    <2> HIDE DEF S
    <2> QED BY <1>2, <1>3, SetInduction, Zenon
  <1> QED BY <1>1, <1>4 DEF Sorted

\* A concatenation of which only one part, or none, has orders of the queue.
OnlyPart(parts, n, j, w, side, price) ==
  \A k \in 1 .. n : Sorted(parts[k], side, price) = IF k = j THEN w ELSE << >>

\* What belongs of a concatenation is what belongs of that part.
LEMMA SortedParts ==
  ASSUME NEW T, NEW n \in Nat, NEW parts \in [1 .. n -> Seq(T)], NEW f, Joins(f, n, parts, T),
         NEW side, NEW price, NEW j \in 1 .. n + 1, NEW w \in Seq(T),
         OnlyPart(parts, n, j, w, side, price)
  PROVE  Sorted(f[n], side, price) = IF j <= n THEN w ELSE << >>
  <1>1. /\ f \in [0 .. n -> Seq(T)] /\ f[0] = << >>
        /\ \A k \in 1 .. n : IsJoin(f[k], f[k - 1], parts[k])
    BY Zenon DEF Joins, IsJoin
  <1> DEFINE S == {m \in Nat : m <= n => Sorted(f[m], side, price) = IF j <= m THEN w ELSE << >>}
  <1>2. 0 \in S
    <2>1. Len(<< >>) = 0 /\ << >> \in Seq(T)
      OBVIOUS
    <2>2. Sorted(<< >>, side, price) = << >>
      <3>1. Belonging(<< >>, 0, side, price) = << >>
        BY <2>1, BelongingStep, Zenon
      <3> QED BY <2>1, <3>1 DEF Sorted
    <2> QED BY <1>1, <2>2
  <1>3. ASSUME NEW m \in Nat, m \in S PROVE m + 1 \in S
    <2> SUFFICES ASSUME m + 1 <= n
                 PROVE  Sorted(f[m + 1], side, price) = IF j <= m + 1 THEN w ELSE << >>
      OBVIOUS
    <2>1. PICK k \in 1 .. n : k = m + 1 /\ k - 1 = m /\ m \in 0 .. n /\ k \in 0 .. n
      OBVIOUS
    <2>2. PICK x, y, z : x = f[m] /\ y = parts[k] /\ z = f[k]
      OBVIOUS
    <2>3. x \in Seq(T) /\ y \in Seq(T) /\ IsJoin(z, x, y)
      BY <1>1, <2>1, <2>2, Zenon
    <2>4. PICK u, v, r : /\ u = Sorted(x, side, price) /\ v = Sorted(y, side, price)
                         /\ r = Sorted(z, side, price)
      OBVIOUS
    <2>5. u = (IF j <= m THEN w ELSE << >>) /\ v = IF k = j THEN w ELSE << >>
      BY <1>3, <2>2, <2>4 DEF OnlyPart
    <2>6. IsJoin(r, u, v)
      <3> HIDE DEF S
      <3>1. IsJoin(Sorted(z, side, price), Sorted(x, side, price), Sorted(y, side, price))
        BY <2>3, SortedJoin
      <3> QED BY <2>4, <3>1
    <2>7. << >> \o w = w /\ w \o << >> = w /\ << >> \o << >> = << >>
      OBVIOUS
    <2>8. r = IF j <= k THEN w ELSE << >>
      <3> HIDE DEF S
      <3>1. CASE j <= m
        BY <2>1, <2>5, <2>6, <2>7, <3>1, SMTT(30) DEF IsJoin
      <3>2. CASE j = k
        BY <2>1, <2>5, <2>6, <2>7, <3>2 DEF IsJoin
      <3>3. CASE j > k
        <4>1. ~(j <= m) /\ k # j /\ ~(j <= k)
          BY <2>1, <3>3
        <4>2. u = << >> /\ v = << >>
          BY <2>5, <4>1
        <4> QED BY <2>6, <2>7, <4>1, <4>2, Zenon DEF IsJoin
      <3> QED BY <2>1, <3>1, <3>2, <3>3
    <2> QED BY <2>1, <2>2, <2>4, <2>8
  <1>4. n \in S
    <2> HIDE DEF S
    <2> QED BY <1>2, <1>3, SetInduction, Zenon
  <1> QED BY <1>4

-----------------------------------------------------------------------------
(* A book as a function of its queues *)

\* Queues with the orders of their side and price.
Proper(B) ==
  /\ B \in [Sides -> [Prices -> Seq(Orders)]]
  /\ \A s \in Sides, p \in Prices : \A k \in 1 .. Len(B[s][p]) : Belongs(B[s][p][k], s, p)

\* The prices with orders, the best prices and the list of all the orders.
Occupied(B, side) == {p \in Prices : B[side][p] # << >>}

\* best_bid and best_ask of those queues.
BestFrom(B) == [s \in Sides |-> BestOf(s, Occupied(B, s))]

\* The queues of a side one after the other, from the best price.
ListFrom(B, side) ==
  LET prices == FromKeys(side, Occupied(B, side))
  IN Concatenation([k \in DOMAIN prices |-> B[side][prices[k]]])

\* The asks, then the bids.
AllFrom(B) == ListFrom(B, "Ask") \o ListFrom(B, "Bid")

\* The queues of a side can be read off its list of orders.
LEMMA ListFromIs ==
  ASSUME NEW B, Proper(B), NEW s \in Sides
  PROVE  /\ ListFrom(B, s) \in Seq(Orders)
         /\ \A t \in Sides, p \in Prices :
              Sorted(ListFrom(B, s), t, p) = IF t = s THEN B[s][p] ELSE << >>
  <1>1. PICK K \in SUBSET Prices : K = Occupied(B, s)
    BY Zenon DEF Occupied
  <1>2. PICK F : F = FromKeys(s, K)
    OBVIOUS
  <1>3. PICK n \in Nat : Lists(F, n, K)
    BY <1>2, FromKeysIs
  <1>4. /\ F \in [1 .. n -> K]
        /\ \A j, k \in 1 .. n : F[j] = F[k] => j = k
        /\ \A p \in K : \E k \in 1 .. n : F[k] = p
    BY <1>3 DEF Lists
  <1>5. \A p \in Prices : B[s][p] \in Seq(Orders)
    BY DEF Proper
  <1>6. PICK parts : parts = [k \in 1 .. n |-> B[s][F[k]]]
    BY Zenon
  <1>7. parts \in [1 .. n -> Seq(Orders)]
    BY <1>4, <1>5, <1>6
  <1>8. PICK f : Joins(f, n, parts, Orders) /\ Concatenation(parts) = f[n]
    BY <1>7, ConcatenationIs, Zenon
  <1>9. ListFrom(B, s) = f[n]
    BY <1>1, <1>2, <1>4, <1>6, <1>8, SMTT(30) DEF ListFrom
  <1>10. f[n] \in Seq(Orders)
    <2>1. f \in [0 .. n -> Seq(Orders)] /\ n \in 0 .. n
      BY <1>8 DEF Joins
    <2> QED BY <2>1
  <1>11. ASSUME NEW t \in Sides, NEW p \in Prices, NEW k \in 1 .. n
         PROVE  Sorted(parts[k], t, p) = IF t = s /\ F[k] = p THEN B[s][p] ELSE << >>
    <2>1. PICK r \in Prices : r = F[k]
      BY <1>4, Zenon
    <2>2. PICK x \in Seq(Orders) : x = B[s][r] /\ x = parts[k]
      BY <1>5, <1>6, <2>1, Zenon
    <2>3. \A j \in 1 .. Len(x) : Belongs(x[j], s, r)
      BY <2>2, Zenon DEF Proper
    <2>4. CASE t = s /\ r = p
      BY <2>1, <2>2, <2>3, <2>4, SortedAll, ZenonT(30)
    <2>5. CASE ~(t = s /\ r = p)
      <3>1. \A j \in 1 .. Len(x) : ~Belongs(x[j], t, p)
        BY <2>3, <2>5 DEF Belongs
      <3>2. Sorted(x, t, p) = << >>
        BY <3>1, SortedNone
      <3> QED BY <2>1, <2>2, <2>5, <3>2
    <2> QED BY <2>4, <2>5, Zenon
  <1>12. ASSUME NEW t \in Sides, NEW p \in Prices
         PROVE  Sorted(f[n], t, p) = IF t = s THEN B[s][p] ELSE << >>
    <2>1. CASE t = s /\ p \in K
      <3>1. PICK j \in 1 .. n + 1 : j \in 1 .. n /\ F[j] = p /\ j <= n
        <4>1. PICK j \in 1 .. n : F[j] = p
          BY <1>4, <2>1
        <4>2. j \in 1 .. n + 1 /\ j <= n
          OBVIOUS
        <4> QED BY <4>1, <4>2
      <3>2. PICK w \in Seq(Orders) : w = B[s][p]
        BY <1>5
      <3>3. OnlyPart(parts, n, j, w, t, p)
        <4> SUFFICES ASSUME NEW k \in 1 .. n
                     PROVE  Sorted(parts[k], t, p) = IF k = j THEN w ELSE << >>
          BY DEF OnlyPart
        <4>1. F[k] = p <=> k = j
          BY <1>4, <3>1, Zenon
        <4>2. Sorted(parts[k], t, p) = IF t = s /\ F[k] = p THEN B[s][p] ELSE << >>
          BY <1>11
        <4> QED BY <2>1, <3>2, <4>1, <4>2, Zenon
      <3>4. Sorted(f[n], t, p) = IF j <= n THEN w ELSE << >>
        BY <1>7, <1>8, <3>3, SortedParts, Zenon
      <3> QED BY <2>1, <3>1, <3>2, <3>4, Zenon
    <2>2. CASE ~(t = s /\ p \in K)
      <3>1. PICK j \in 1 .. n + 1 : j = n + 1 /\ ~(j <= n)
        OBVIOUS
      <3>2. PICK w : w = << >> /\ w \in Seq(Orders)
        <4>1. PICK T : T = Orders
          OBVIOUS
        <4>2. << >> \in Seq(T)
          OBVIOUS
        <4> QED BY <4>1, <4>2, Zenon
      <3>3. OnlyPart(parts, n, j, w, t, p)
        <4> SUFFICES ASSUME NEW k \in 1 .. n
                     PROVE  Sorted(parts[k], t, p) = IF k = j THEN w ELSE << >>
          BY DEF OnlyPart
        <4>1. Sorted(parts[k], t, p) = IF t = s /\ F[k] = p THEN B[s][p] ELSE << >>
          BY <1>11
        <4>2. ~(t = s /\ F[k] = p)
          BY <1>4, <2>2
        <4> QED BY <3>2, <4>1, <4>2
      <3>4. Sorted(f[n], t, p) = IF j <= n THEN w ELSE << >>
        BY <1>7, <1>8, <3>2, <3>3, SortedParts, Zenon
      <3>5. t = s => B[s][p] = << >>
        BY <1>1, <2>2 DEF Occupied
      <3> QED BY <3>1, <3>2, <3>4, <3>5
    <2> QED BY <2>1, <2>2, Zenon
  <1> QED BY <1>9, <1>10, <1>12

\* The queues of a book can be read off the list of all its orders.
LEMMA AllFromIs ==
  ASSUME NEW B, Proper(B)
  PROVE  /\ AllFrom(B) \in Seq(Orders)
         /\ \A t \in Sides, p \in Prices : Sorted(AllFrom(B), t, p) = B[t][p]
  <1>1. PICK x, y : x = ListFrom(B, "Ask") /\ y = ListFrom(B, "Bid")
    OBVIOUS
  <1>2. "Ask" \in Sides /\ "Bid" \in Sides
    BY DEF Sides
  <1>3. /\ x \in Seq(Orders)
        /\ \A t \in Sides, p \in Prices : Sorted(x, t, p) = IF t = "Ask" THEN B["Ask"][p] ELSE << >>
    BY <1>1, <1>2, ListFromIs, Zenon
  <1>4. /\ y \in Seq(Orders)
        /\ \A t \in Sides, p \in Prices : Sorted(y, t, p) = IF t = "Bid" THEN B["Bid"][p] ELSE << >>
    BY <1>1, <1>2, ListFromIs, Zenon
  <1>5. PICK z : z = AllFrom(B) /\ IsJoin(z, x, y)
    BY <1>1, Zenon DEF AllFrom, IsJoin
  <1>6. z \in Seq(Orders)
    BY <1>3, <1>4, <1>5, JoinIs
  <1>7. ASSUME NEW t \in Sides, NEW p \in Prices PROVE Sorted(z, t, p) = B[t][p]
    <2>1. PICK u, v, r : u = Sorted(x, t, p) /\ v = Sorted(y, t, p) /\ r = Sorted(z, t, p)
      OBVIOUS
    <2>2. IsJoin(r, u, v)
      <3>1. IsJoin(Sorted(z, t, p), Sorted(x, t, p), Sorted(y, t, p))
        BY <1>3, <1>4, <1>5, SortedJoin, Zenon
      <3> QED BY <2>1, <3>1, Zenon
    <2>3. PICK w \in Seq(Orders) : w = B[t][p]
      BY DEF Proper
    <2>4. << >> \o w = w /\ w \o << >> = w
      OBVIOUS
    <2>5. t = "Ask" \/ t = "Bid"
      BY DEF Sides
    <2>6. CASE t = "Ask"
      <3>1. u = w /\ v = << >>
        BY <1>3, <1>4, <2>1, <2>3, <2>6, Zenon
      <3> QED BY <2>1, <2>2, <2>3, <2>4, <3>1, Zenon DEF IsJoin
    <2>7. CASE t = "Bid"
      <3>1. u = << >> /\ v = w
        BY <1>3, <1>4, <2>1, <2>3, <2>7, Zenon
      <3> QED BY <2>1, <2>2, <2>3, <2>4, <3>1, Zenon DEF IsJoin
    <2> QED BY <2>5, <2>6, <2>7, Zenon
  <1> QED BY <1>5, <1>6, <1>7

-----------------------------------------------------------------------------
(* The nodes of the arena *)

\* The nodes of free are the arena's free list.
FreeListIs(a, free) ==
  /\ Linked(a.storage, free) /\ a.free_head = First(free)
  /\ a.count = ArenaCapacity - Len(free)
  /\ \A k \in 1 .. Len(free) : a.storage[free[k]].order = NoOrder

\* q[s][p] are the nodes of the queue of side s and price p.
QueuesAre(st, q) ==
  /\ q \in [Sides -> [Prices -> Seq(Indices)]]
  /\ \A s \in Sides, p \in Prices : IsQueue(st, q[s][p], s, p)

\* No other node is left.
InList(i, s) == \E k \in 1 .. Len(s) : s[k] = i

\* Every node is on the free list or in the queue of its order.
EveryNode(st, free, q) ==
  \A i \in Indices :
    /\ st[i].order = NoOrder => InList(i, free)
    /\ st[i].order # NoOrder => InList(i, q[st[i].order.side][st[i].order.price])

\* Where every node is: on the free list, or in the queue of its order's side
\* and price.
Placed(a, free, q) ==
  /\ a \in Arenas /\ FreeListIs(a, free)
  /\ QueuesAre(a.storage, q) /\ EveryNode(a.storage, free, q)

\* What a queue's nodes hold.
Holds(st, w, s, p) ==
  \A k \in 1 .. Len(w) : /\ w[k] \in Indices /\ st[w[k]].order \in Takers
                         /\ st[w[k]].order # NoOrder
                         /\ st[w[k]].order.side = s /\ st[w[k]].order.price = p

\* The nodes of a queue are nodes of the arena, with orders.
LEMMA QueueNode ==
  ASSUME NEW st, NEW q, QueuesAre(st, q), NEW s \in Sides, NEW p \in Prices,
         NEW w, w = q[s][p]
  PROVE  w \in Seq(Indices) /\ Len(w) \in Nat /\ IsQueue(st, w, s, p) /\ Holds(st, w, s, p)
  <1>1. w \in Seq(Indices) /\ IsQueue(st, w, s, p)
    BY DEF QueuesAre
  <1>2. Len(w) \in Nat /\ \A k \in 1 .. Len(w) : w[k] \in Indices
    BY <1>1
  <1> QED BY <1>1, <1>2, MarkerAssumption, ZenonT(30) DEF IsQueue, Holds

\* One of the queues is replaced.
Requeued(q, side, price, w) == [q EXCEPT ![side][price] = w]

\* What that leaves: one new queue, and the others.
RequeuedEffect(q, q2, side, price, w) ==
  /\ q2 \in [Sides -> [Prices -> Seq(Indices)]] /\ q2[side][price] = w
  /\ \A t \in Sides, p \in Prices : ~(t = side /\ p = price) => q2[t][p] = q[t][p]

\* Replacing one queue leaves the others.
LEMMA RequeuedIs ==
  ASSUME NEW st, NEW q, QueuesAre(st, q), NEW side \in Sides, NEW price \in Prices,
         NEW w \in Seq(Indices), NEW q2, q2 = Requeued(q, side, price, w)
  PROVE  RequeuedEffect(q, q2, side, price, w)
  <1>1. PICK T : T = Seq(Indices)
    OBVIOUS
  <1>2. q \in [Sides -> [Prices -> T]] /\ w \in T
    BY <1>1 DEF QueuesAre
  <1>3. /\ q2 \in [Sides -> [Prices -> T]] /\ q2[side][price] = w
        /\ \A t \in Sides, p \in Prices : ~(t = side /\ p = price) => q2[t][p] = q[t][p]
    BY <1>2 DEF Requeued
  <1> QED BY <1>1, <1>3 DEF RequeuedEffect

\* From a to a2 only the queue of one side and price changes.
QueueMoved(a, a2, q, q2, side, price, level) ==
  /\ level = LevelOf(a2.storage, q2[side][price])
  /\ \A s \in Sides, p \in Prices :
       ~(s = side /\ p = price) =>
         q2[s][p] = q[s][p] /\ LevelOf(a2.storage, q[s][p]) = LevelOf(a.storage, q[s][p])

\* alloc and push_back move the first free node to the back of a queue.
PlaceEffect(a, r, free, q, q2, o, h) ==
  /\ h \in Indices /\ a.storage[h].order = NoOrder
  /\ Placed(r.arena, Tail(free), q2) /\ r.arena.count = a.count + 1
  /\ QueueMoved(a, r.arena, q, q2, o.side, o.price, r.level)
  /\ q2[o.side][o.price] = Append(q[o.side][o.price], h)
  /\ \A j \in Indices : r.arena.storage[j].order = IF j = h THEN o ELSE a.storage[j].order

\* alloc and push_back, as insert_order calls them.
Placing(a, r, q, q2, o, h) ==
  /\ a.free_head # ARENA_NULL /\ h = a.free_head
  /\ r = PushBack(Alloc(a, o), LevelOf(a.storage, q[o.side][o.price]), h)
  /\ q2 = Requeued(q, o.side, o.price, Append(q[o.side][o.price], h))

\* insert_order's alloc and push_back move one node, the first free one, to
\* the end of the order's queue.
LEMMA Place ==
  ASSUME NEW a, NEW free, NEW q, Placed(a, free, q), NEW o \in Takers,
         NEW h, NEW r, NEW q2, Placing(a, r, q, q2, o, h)
  PROVE  PlaceEffect(a, r, free, q, q2, o, h)
  <1>h. a.free_head # ARENA_NULL /\ h = a.free_head
    BY Zenon DEF Placing
  <1>r. r = PushBack(Alloc(a, o), LevelOf(a.storage, q[o.side][o.price]), h)
    BY DEF Placing
  <1>q. q2 = Requeued(q, o.side, o.price, Append(q[o.side][o.price], h))
    BY DEF Placing
  <1>1. PICK side \in Sides, price \in Prices : side = o.side /\ price = o.price
    BY DEF Takers
  <1>a. a \in Arenas /\ FreeListIs(a, free) /\ QueuesAre(a.storage, q) /\ EveryNode(a.storage, free, q)
    BY DEF Placed
  <1>b. PICK st \in [Indices -> Slots] : st = a.storage
    BY <1>a, Zenon DEF Arenas
  <1>c. /\ Linked(st, free) /\ a.free_head = First(free) /\ a.count = ArenaCapacity - Len(free)
        /\ \A k \in 1 .. Len(free) : st[free[k]].order = NoOrder
    BY <1>a, <1>b, Zenon DEF FreeListIs
  <1>d. free \in Seq(Indices) /\ Len(free) \in Nat
    BY <1>c, SMTT(30) DEF Linked
  <1>2. PICK s : /\ s = q[side][price] /\ IsQueue(st, s, side, price)
                 /\ s \in Seq(Indices)
    BY <1>a, <1>b, QueueNode, Zenon
  <1>f. Holds(st, s, side, price)
    BY <1>2, <1>a, <1>b, QueueNode, Zenon
  <1>3. /\ free # << >> /\ First(free) = h /\ h = free[1]
        /\ h \in Indices /\ st[h].order = NoOrder
    <2>1. free # << >> /\ h = free[1]
      BY <1>h, <1>c, Zenon DEF First
    <2>2. 1 \in 1 .. Len(free) /\ free[1] \in Indices
      BY <1>d, <2>1
    <2> QED BY <1>h, <1>c, <2>1, <2>2, Zenon
  <1>4. NoOrder \notin Takers
    BY MarkerAssumption
  <1>5. ASSUME NEW t \in Sides, NEW p \in Prices, NEW w, w = q[t][p], NEW k \in 1 .. Len(w)
        PROVE  /\ w[k] # h /\ w[k] \in Indices /\ st[w[k]].order \in Takers
               /\ st[w[k]].order.side = t /\ st[w[k]].order.price = p
    <2>1. /\ w[k] \in Indices /\ st[w[k]].order # NoOrder /\ st[w[k]].order \in Takers
          /\ st[w[k]].order.side = t /\ st[w[k]].order.price = p
      <3>1. Holds(st, w, t, p)
        BY <1>a, <1>b, <1>5, QueueNode, Zenon
      <3> QED BY <3>1, Zenon DEF Holds
    <2> QED BY <1>3, <2>1, Zenon
  <1>6. PICK a1 : a1 = Alloc(a, o)
    BY Zenon
  <1>7. /\ a1.free_head = st[h].next /\ a1.count = a.count + 1
        /\ a1.storage = [st EXCEPT ![h] = [order |-> o, prev |-> ARENA_NULL, next |-> ARENA_NULL]]
    BY <1>h, <1>6, <1>b, Zenon DEF Alloc
  <1>8. /\ \A j \in Indices : j # h => a1.storage[j] = st[j]
        /\ a1.storage[h].order = o /\ a1.storage[h].prev = ARENA_NULL
    BY <1>3, <1>7, SMTT(30)
  <1>9. a1 \in Arenas
    <2>1. a1.storage \in [Indices -> Slots]
      <3>1. [order |-> o, prev |-> ARENA_NULL, next |-> ARENA_NULL] \in Slots
        BY Zenon DEF Slots, Links
      <3> QED BY <1>3, <1>7, <3>1, Zenon
    <2>2. a1.free_head \in Links /\ a1.count \in Int
      <3>1. st[h] \in Slots /\ a.count \in Int
        BY <1>a, <1>3, Zenon DEF Arenas
      <3> QED BY <1>7, <3>1 DEF Slots
    <2> QED BY <1>6, <2>1, <2>2, Zenon DEF Alloc, Arenas
  <1>10. IsQueue(a1.storage, s, side, price) /\ LevelOf(a1.storage, s) = LevelOf(st, s)
    <2>1. SameNodes(st, a1.storage, s)
      BY <1>2, <1>5, <1>8, SMTT(30) DEF SameNodes
    <2> QED BY <1>2, <2>1, QueueFrame, ZenonT(30)
  <1>11. PICK level : level = LevelOf(a1.storage, s) /\ level = LevelOf(st, s)
    BY <1>10, Zenon
  <1>12. /\ level.tail \in Links /\ level.tail # h
         /\ level.tail # ARENA_NULL => \E k \in 1 .. Len(s) : level.tail = s[k]
    <2>1. level.tail = Last(s)
      BY <1>11 DEF LevelOf
    <2>2. CASE s = << >>
      BY <1>3, <2>1, <2>2, IndexFacts, Zenon DEF Last, Links
    <2>3. CASE s # << >>
      <3>1. Len(s) \in 1 .. Len(s) /\ Last(s) = s[Len(s)]
        BY <1>2, <2>3, SMTT(30) DEF Last
      <3>2. s[Len(s)] # h /\ s[Len(s)] \in Indices
        BY <1>2, <1>5, <3>1, SMTT(30)
      <3> QED BY <2>1, <3>1, <3>2, Zenon DEF Links
    <2> QED BY <2>2, <2>3, Zenon
  <1>13. PushBackEffect(r, a1, level, h)
    <2>1. r = PushBack(a1, level, h)
      BY <1>r, <1>1, <1>2, <1>6, <1>11, <1>b, ZenonT(30)
    <2> QED BY <1>3, <1>9, <1>12, <2>1, PushBackIs, Zenon
  <1>14. PICK a2 : a2 = r.arena
    OBVIOUS
  <1>15. /\ IsQueue(a2.storage, Append(s, h), side, price)
         /\ r.level = LevelOf(a2.storage, Append(s, h))
    <2>1. \A k \in 1 .. Len(s) : s[k] # h
      BY <1>2, <1>5
    <2>2. a1.storage[h].order \in Takers /\ a1.storage[h].order.side = side
          /\ a1.storage[h].order.price = price
      BY <1>1, <1>8, Zenon
    <2>3. PushBackEffect(r, a1, LevelOf(a1.storage, s), h)
      BY <1>11, <1>13, Zenon
    <2>4. IsQueue(a1.storage, s, side, price) /\ h \in Indices
      BY <1>3, <1>10, Zenon
    <2>5. /\ IsQueue(r.arena.storage, Append(s, h), side, price)
          /\ r.level = LevelOf(r.arena.storage, Append(s, h))
      BY <1>9, <2>1, <2>2, <2>3, <2>4, PushBackQueue, ZenonT(60)
    <2> QED BY <1>14, <2>5, Zenon
  <1>16. /\ a2 \in Arenas /\ a2.free_head = st[h].next /\ a2.count = a.count + 1
         /\ \A j \in Indices : a2.storage[j].order = a1.storage[j].order
         /\ \A j \in Indices : j # h /\ j # level.tail =>
              a2.storage[j].prev = st[j].prev /\ a2.storage[j].next = st[j].next
    <2>1. /\ a2 \in Arenas /\ a2.free_head = a1.free_head /\ a2.count = a1.count
          /\ \A j \in Indices :
               /\ a2.storage[j].order = a1.storage[j].order
               /\ a2.storage[j].prev = IF j = h THEN level.tail ELSE a1.storage[j].prev
               /\ a2.storage[j].next = IF j = level.tail THEN h
                                       ELSE IF j = h THEN ARENA_NULL ELSE a1.storage[j].next
      BY <1>13, <1>14, Zenon DEF PushBackEffect
    <2>2. ASSUME NEW j \in Indices, j # h, j # level.tail
          PROVE  a2.storage[j].prev = st[j].prev /\ a2.storage[j].next = st[j].next
      BY <1>8, <2>1, <2>2, SMTT(30)
    <2> QED BY <1>7, <2>1, <2>2, Zenon
  <1>17. \A j \in Indices : a2.storage[j].order = IF j = h THEN o ELSE st[j].order
    BY <1>8, <1>16, Zenon
  <1>e. RequeuedEffect(q, q2, side, price, Append(s, h))
    <2>1. Append(s, h) \in Seq(Indices)
      BY <1>2, <1>3, AppendIs, Zenon
    <2> QED BY <1>q, <1>1, <1>2, <1>a, <2>1, RequeuedIs, ZenonT(30)
  <1>18. ASSUME NEW t \in Sides, NEW p \in Prices, ~(t = side /\ p = price)
         PROVE  /\ q2[t][p] = q[t][p]
                /\ IsQueue(a2.storage, q[t][p], t, p)
                /\ LevelOf(a2.storage, q[t][p]) = LevelOf(st, q[t][p])
    <2>1. q2[t][p] = q[t][p]
      BY <1>18, <1>e, Zenon DEF RequeuedEffect
    <2>2. PICK w : w = q[t][p] /\ IsQueue(st, w, t, p)
      BY <1>a, <1>b, QueueNode, Zenon
    <2>3. ASSUME NEW k \in 1 .. Len(w)
          PROVE  w[k] \in Indices /\ w[k] # h /\ w[k] # level.tail
      <3>1. /\ w[k] \in Indices /\ w[k] # h
            /\ st[w[k]].order.side = t /\ st[w[k]].order.price = p
        BY <1>5, <2>2, SMTT(30)
      <3>2. ASSUME w[k] = level.tail PROVE FALSE
        <4>1. PICK m \in 1 .. Len(s) : w[k] = s[m]
          BY <1>12, <3>1, <3>2, IndexFacts, Zenon
        <4>2. st[s[m]].order.side = side /\ st[s[m]].order.price = price
          BY <1>f, Zenon DEF Holds
        <4> QED BY <1>18, <3>1, <4>1, <4>2, Zenon
      <3> QED BY <3>1, <3>2, ZenonT(30)
    <2>4. SameNodes(st, a2.storage, w)
      BY <1>16, <1>17, <2>3, Zenon DEF SameNodes
    <2>5. IsQueue(a2.storage, w, t, p) /\ LevelOf(a2.storage, w) = LevelOf(st, w)
      BY <2>2, <2>4, QueueFrame, Zenon
    <2> QED BY <2>1, <2>2, <2>5, Zenon
  <1>19. q2[side][price] = Append(s, h) /\ q2 \in [Sides -> [Prices -> Seq(Indices)]]
    BY <1>e, Zenon DEF RequeuedEffect
  <1>20. /\ Linked(a2.storage, Tail(free)) /\ Len(Tail(free)) = Len(free) - 1
         /\ \A k \in 1 .. Len(Tail(free)) : Tail(free)[k] = free[k + 1]
         /\ a2.free_head = First(Tail(free))
    <2>1. ASSUME NEW k \in 2 .. Len(free) PROVE a2.storage[free[k]].next = st[free[k]].next
      <3>1. k \in 1 .. Len(free) /\ 1 \in 1 .. Len(free) /\ k # 1 /\ free[k] \in Indices
        BY <1>d
      <3>2. free[k] # h /\ st[free[k]].order = NoOrder
        BY <1>3, <1>c, <3>1, Zenon DEF Linked
      <3>3. free[k] # level.tail
        <4>1. \A m \in 1 .. Len(s) : st[s[m]].order \in Takers
          BY <1>2, <1>5, SMTT(30)
        <4> QED BY <1>4, <1>12, <3>1, <3>2, <4>1, IndexFacts, ZenonT(30)
      <3> QED BY <1>16, <3>1, <3>2, <3>3, Zenon
    <2>2. SameTail(st, a2.storage, free)
      BY <2>1, Zenon DEF SameTail
    <2>3. TailEffect(st, a2.storage, free)
      BY <1>3, <1>c, <2>2, LinkedTail, Zenon
    <2> QED BY <1>3, <1>16, <2>3, Zenon DEF TailEffect
  <1>21. a2.count = ArenaCapacity - Len(Tail(free))
    <2>1. /\ a2.count = a.count + 1 /\ a.count = ArenaCapacity - Len(free)
          /\ Len(Tail(free)) = Len(free) - 1
      BY <1>16, <1>20, <1>c, Zenon
    <2>2. PICK n \in Int, c \in Int : n = Len(free) /\ c = ArenaCapacity
      BY <1>d, ArenaAssumption
    <2>3. a2.count = (c - n) + 1 /\ Len(Tail(free)) = n - 1
      BY <2>1, <2>2, Zenon
    <2>4. (c - n) + 1 = c - (n - 1)
      BY SMTT(30)
    <2> QED BY <2>2, <2>3, <2>4, ZenonT(30)
  <1>22. ASSUME NEW k \in 1 .. Len(Tail(free)) PROVE a2.storage[Tail(free)[k]].order = NoOrder
    <2>1. k + 1 \in 1 .. Len(free) /\ 1 \in 1 .. Len(free) /\ k + 1 # 1
      BY <1>20, <1>d
    <2>2. free[k + 1] # h /\ free[k + 1] \in Indices /\ st[free[k + 1]].order = NoOrder
      <3>1. free[k + 1] # free[1]
        BY <1>c, <2>1, Zenon DEF Linked
      <3> QED BY <1>3, <1>c, <1>d, <2>1, <3>1, SMTT(30)
    <2> QED BY <1>17, <1>20, <2>2, Zenon
  <1>23. ASSUME NEW t \in Sides, NEW p \in Prices PROVE IsQueue(a2.storage, q2[t][p], t, p)
    <2>1. CASE t = side /\ p = price
      BY <1>15, <1>19, <2>1, Zenon
    <2>2. CASE ~(t = side /\ p = price)
      BY <1>18, <2>2, Zenon
    <2> QED BY <2>1, <2>2, Zenon
  <1>24. ASSUME NEW i \in Indices, a2.storage[i].order = NoOrder
         PROVE  InList(i, Tail(free))
    <2>1. i # h /\ st[i].order = NoOrder
      BY <1>4, <1>17, <1>24, Zenon
    <2>2. PICK k \in 1 .. Len(free) : free[k] = i
      BY <1>a, <1>b, <2>1, Zenon DEF EveryNode, InList
    <2>3. Len(free) \in Nat /\ Len(Tail(free)) = Len(free) - 1
      BY <1>20, <1>d, Zenon
    <2>4. k # 1
      BY <1>3, <2>1, <2>2, Zenon
    <2>5. k - 1 \in 1 .. Len(Tail(free)) /\ (k - 1) + 1 = k
      BY <2>3, <2>4, SMTT(30)
    <2> QED BY <1>20, <2>2, <2>5, Zenon DEF InList
  <1>25. ASSUME NEW i \in Indices, NEW w, w = a2.storage[i].order, w # NoOrder
         PROVE  InList(i, q2[w.side][w.price])
    <2>0. Len(s) \in Nat /\ Len(Append(s, h)) = Len(s) + 1 /\ Append(s, h)[Len(s) + 1] = h
          /\ \A k \in 1 .. Len(s) : Append(s, h)[k] = s[k]
      BY <1>2, <1>3, AppendIs
    <2>1. CASE i = h
      <3>1. w = o
        BY <1>17, <1>25, <2>1, Zenon
      <3>2. InList(h, Append(s, h))
        BY <2>0, SMTT(30) DEF InList
      <3> QED BY <1>1, <1>19, <2>1, <3>1, <3>2, Zenon
    <2>2. CASE i # h
      <3>1. w = st[i].order
        BY <1>17, <1>25, <2>2, Zenon
      <3>2. InList(i, q[w.side][w.price])
        BY <1>25, <1>a, <1>b, <3>1, Zenon DEF EveryNode
      <3>3. w \in Takers /\ w.side \in Sides /\ w.price \in Prices
        <4>1. w \in Takers
          BY <1>25, <3>1 DEF Slots
        <4> QED BY <4>1, Zenon DEF Takers
      <3>4. CASE w.side = side /\ w.price = price
        <4>1. InList(i, s)
          BY <1>2, <3>2, <3>4, Zenon
        <4>2. InList(i, Append(s, h))
          BY <2>0, <4>1, SMTT(30) DEF InList
        <4> QED BY <1>19, <3>4, <4>2, ZenonT(30)
      <3>5. CASE ~(w.side = side /\ w.price = price)
        BY <1>18, <3>2, <3>3, <3>5, Zenon
      <3> QED BY <3>4, <3>5, Zenon
    <2> QED BY <2>1, <2>2, Zenon
  <1>26. Placed(a2, Tail(free), q2)
    <2>1. FreeListIs(a2, Tail(free))
      BY <1>20, <1>21, <1>22, Zenon DEF FreeListIs
    <2>2. QueuesAre(a2.storage, q2)
      BY <1>19, <1>23, Zenon DEF QueuesAre
    <2>3. EveryNode(a2.storage, Tail(free), q2)
      BY <1>24, <1>25, Zenon DEF EveryNode
    <2> QED BY <1>16, <2>1, <2>2, <2>3, Zenon DEF Placed
  <1>27. QueueMoved(a, a2, q, q2, side, price, r.level)
    BY <1>15, <1>18, <1>19, <1>b, Zenon DEF QueueMoved
  <1> QED BY <1>1, <1>2, <1>3, <1>14, <1>16, <1>17, <1>19, <1>26, <1>27, <1>b, ZenonT(30) DEF PlaceEffect

\* A queue with one node cut out holds the others.
CutEffect(s, x) ==
  /\ Cut(s, x) \in Seq(Indices) /\ Len(Cut(s, x)) = Len(s) - 1
  /\ \A k \in 1 .. Len(Cut(s, x)) : \E m \in 1 .. Len(s) : m # x /\ Cut(s, x)[k] = s[m]
  /\ \A m \in 1 .. Len(s) : m # x => InList(s[m], Cut(s, x))

\* Cutting out one node keeps the others, each once.
LEMMA CutIs ==
  ASSUME NEW s \in Seq(Indices), NEW x \in 1 .. Len(s)
  PROVE  CutEffect(s, x)
  <1>1. PICK n \in Nat : n + 1 = Len(s)
    <2>1. Len(s) \in Nat /\ Len(s) # 0
      OBVIOUS
    <2>2. Len(s) - 1 \in Nat /\ (Len(s) - 1) + 1 = Len(s)
      BY <2>1
    <2> QED BY <2>2, Zenon
  <1>2. PICK c : c = Cut(s, x)
    OBVIOUS
  <1>3. c = [k \in 1 .. n |-> IF k < x THEN s[k] ELSE s[k + 1]]
    BY <1>1, <1>2 DEF Cut
  <1>4. x \in 1 .. n + 1 /\ \A k \in 1 .. n : s[k] \in Indices /\ s[k + 1] \in Indices
    BY <1>1
  <1>5. c \in [1 .. n -> Indices]
    BY <1>3, <1>4, Zenon
  <1>6. c \in Seq(Indices) /\ Len(c) = n
    BY <1>5, FunctionIsSeq, Zenon
  <1>7. ASSUME NEW k \in 1 .. n PROVE \E m \in 1 .. n + 1 : m # x /\ c[k] = s[m]
    <2>1. CASE k < x
      <3>1. k \in 1 .. n + 1 /\ k # x /\ c[k] = s[k]
        BY <1>3, <1>4, <2>1
      <3> QED BY <3>1, Zenon
    <2>2. CASE ~(k < x)
      <3>1. k + 1 \in 1 .. n + 1 /\ k + 1 # x /\ c[k] = s[k + 1]
        BY <1>3, <1>4, <2>2
      <3> QED BY <3>1, Zenon
    <2> QED BY <2>1, <2>2, Zenon
  <1>8. ASSUME NEW m \in 1 .. n + 1, m # x PROVE \E k \in 1 .. n : c[k] = s[m]
    <2>1. CASE m < x
      <3>1. m \in 1 .. n /\ c[m] = s[m]
        BY <1>3, <1>4, <2>1
      <3> QED BY <3>1, Zenon
    <2>2. CASE ~(m < x)
      <3>1. m - 1 \in 1 .. n /\ ~(m - 1 < x) /\ (m - 1) + 1 = m
        BY <1>4, <1>8, <2>2
      <3>2. c[m - 1] = s[m]
        BY <1>3, <3>1
      <3> QED BY <3>1, <3>2, Zenon
    <2> QED BY <2>1, <2>2, Zenon
  <1>9. Len(c) = Len(s) - 1
    BY <1>1, <1>6
  <1>10. \A k \in 1 .. Len(c) : \E m \in 1 .. Len(s) : m # x /\ c[k] = s[m]
    BY <1>1, <1>6, <1>7, Zenon
  <1>11. \A m \in 1 .. Len(s) : m # x => InList(s[m], c)
    BY <1>1, <1>6, <1>8, ZenonT(30) DEF InList
  <1> QED BY <1>2, <1>6, <1>9, <1>10, <1>11, Zenon DEF CutEffect

\* remove (or pop_front) and dealloc move a node of a queue to the free list.
UnplaceEffect(a, r, d, free, q, q2, side, price, s, x) ==
  /\ s[x] \in Indices
  /\ Placed(d, <<s[x]>> \o free, q2)
  /\ QueueMoved(a, d, q, q2, side, price, r.level)
  /\ q2[side][price] = Cut(s, x)
  /\ \A j \in Indices : d.storage[j].order = IF j = s[x] THEN NoOrder ELSE a.storage[j].order

\* remove and dealloc, as cancel_order and reduce_front_quantity call them.
Unplacing(a, r, d, q, q2, side, price, s, x, i) ==
  /\ s = q[side][price] /\ i = s[x]
  /\ r = Remove(a, LevelOf(a.storage, s), i)
  /\ d = Dealloc(r.arena, i)
  /\ q2 = Requeued(q, side, price, Cut(s, x))

\* remove and dealloc move one node from its queue to the free list.
LEMMA Unplace ==
  ASSUME NEW a, NEW free, NEW q, Placed(a, free, q), NEW side \in Sides, NEW price \in Prices,
         NEW s, NEW x \in 1 .. Len(s), NEW i, NEW r, NEW d, NEW q2,
         Unplacing(a, r, d, q, q2, side, price, s, x, i)
  PROVE  UnplaceEffect(a, r, d, free, q, q2, side, price, s, x)
  <1>s. s = q[side][price]
    BY Zenon DEF Unplacing
  <1>i. i = s[x]
    BY Zenon DEF Unplacing
  <1>r. r = Remove(a, LevelOf(a.storage, s), i)
    BY Zenon DEF Unplacing
  <1>u. d = Dealloc(r.arena, i)
    BY Zenon DEF Unplacing
  <1>q. q2 = Requeued(q, side, price, Cut(s, x))
    BY DEF Unplacing
  <1>a. a \in Arenas /\ FreeListIs(a, free) /\ QueuesAre(a.storage, q) /\ EveryNode(a.storage, free, q)
    BY DEF Placed
  <1>b. PICK st \in [Indices -> Slots] : st = a.storage
    BY <1>a, Zenon DEF Arenas
  <1>c. /\ Linked(st, free) /\ a.free_head = First(free) /\ a.count = ArenaCapacity - Len(free)
        /\ \A k \in 1 .. Len(free) : st[free[k]].order = NoOrder
    BY <1>a, <1>b, Zenon DEF FreeListIs
  <1>d. free \in Seq(Indices) /\ Len(free) \in Nat
    BY <1>c, SMTT(30) DEF Linked
  <1>1. IsQueue(st, s, side, price) /\ s \in Seq(Indices) /\ Len(s) \in Nat /\ Holds(st, s, side, price)
    BY <1>s, <1>a, <1>b, QueueNode, Zenon
  <1>2. i \in Indices /\ st[i].order # NoOrder /\ st[i].order.side = side /\ st[i].order.price = price
    BY <1>i, <1>1, Zenon DEF Holds
  <1>3. PICK prev \in Links : /\ prev = st[i].prev
                              /\ prev # ARENA_NULL => InList(prev, s)
    <2>1. st[i].prev \in Links
      BY <1>2, Zenon DEF Slots
    <2>2. st[i].prev = IF x = 1 THEN ARENA_NULL ELSE s[x - 1]
      BY <1>i, <1>1, Zenon DEF IsQueue
    <2>3. x # 1 => x - 1 \in 1 .. Len(s)
      BY <1>1, SMTT(30)
    <2> QED BY <2>1, <2>2, <2>3, Zenon DEF InList
  <1>4. PICK next \in Links : /\ next = st[i].next
                              /\ next # ARENA_NULL => InList(next, s)
    <2>1. st[i].next \in Links
      BY <1>2 DEF Slots
    <2>2. st[i].next = IF x = Len(s) THEN ARENA_NULL ELSE s[x + 1]
      BY <1>i, <1>1, ZenonT(30) DEF IsQueue, Linked
    <2>3. x # Len(s) => x + 1 \in 1 .. Len(s)
      BY <1>1, SMTT(30)
    <2> QED BY <2>1, <2>2, <2>3, Zenon DEF InList
  <1>5. RemoveEffect(r, a, LevelOf(st, s), i, prev, next)
    BY <1>r, <1>2, <1>3, <1>4, <1>a, <1>b, RemoveIs, Zenon
  <1>6. PICK a2 : a2 = r.arena
    BY Zenon
  <1>7. /\ IsQueue(a2.storage, Cut(s, x), side, price)
        /\ r.level = LevelOf(a2.storage, Cut(s, x))
    <2>1. RemoveEffect(r, a, LevelOf(a.storage, s), s[x], a.storage[s[x]].prev, a.storage[s[x]].next)
      BY <1>i, <1>3, <1>4, <1>5, <1>b, Zenon
    <2>2. IsQueue(a.storage, s, side, price)
      BY <1>1, <1>b, Zenon
    <2>3. /\ IsQueue(r.arena.storage, Cut(s, x), side, price)
          /\ r.level = LevelOf(r.arena.storage, Cut(s, x))
      <3>1. RemovedAt(r, a, s, x, side, price)
        BY <1>a, <2>1, <2>2, Zenon DEF RemovedAt
      <3> QED BY <3>1, RemoveQueue, Zenon
    <2> QED BY <1>6, <2>3, Zenon
  <1>8. /\ a2 \in Arenas /\ a2.free_head = a.free_head /\ a2.count = a.count
        /\ \A j \in Indices :
             /\ a2.storage[j].order = st[j].order
             /\ j # next => a2.storage[j].prev = st[j].prev
             /\ j # prev => a2.storage[j].next = st[j].next
    BY <1>5, <1>6, <1>b, Zenon DEF RemoveEffect
  <1>9. /\ d.free_head = i /\ d.count = a2.count - 1
        /\ d.storage = [a2.storage EXCEPT ![i] =
                          [order |-> NoOrder, prev |-> ARENA_NULL, next |-> a2.free_head]]
    BY <1>u, <1>6, Zenon DEF Dealloc
  <1>10. /\ \A j \in Indices : j # i => d.storage[j] = a2.storage[j]
         /\ d.storage[i].order = NoOrder /\ d.storage[i].next = a.free_head
         /\ d.storage \in [Indices -> Slots]
    <2>1. a2.storage \in [Indices -> Slots] /\ a2.free_head \in Links
      BY <1>8, Zenon DEF Arenas
    <2>2. [order |-> NoOrder, prev |-> ARENA_NULL, next |-> a2.free_head] \in Slots
      BY <2>1, Zenon DEF Slots, Links
    <2>3. PICK v \in Slots : /\ v = [order |-> NoOrder, prev |-> ARENA_NULL, next |-> a2.free_head]
                             /\ v.order = NoOrder /\ v.next = a2.free_head
      BY <2>2, Zenon
    <2>4. d.storage = [a2.storage EXCEPT ![i] = v]
      BY <1>9, <2>3, Zenon
    <2>5. /\ d.storage[i] = v /\ d.storage \in [Indices -> Slots]
          /\ \A j \in Indices : j # i => d.storage[j] = a2.storage[j]
      BY <1>2, <2>1, <2>4, Zenon
    <2> QED BY <1>8, <2>3, <2>5, Zenon
  <1>11. d \in Arenas
    <2>1. i \in Links /\ a2.count - 1 \in Int
      BY <1>2, <1>8, SMTT(30) DEF Links, Arenas
    <2> QED BY <1>u, <1>6, <1>9, <1>10, <2>1, ZenonT(30) DEF Dealloc, Arenas
  <1>12. \A j \in Indices : d.storage[j].order = IF j = i THEN NoOrder ELSE st[j].order
    BY <1>8, <1>10, Zenon
  <1>13. CutEffect(s, x)
    BY <1>1, CutIs, Zenon
  <1>14. ASSUME NEW k \in 1 .. Len(Cut(s, x)) PROVE Cut(s, x)[k] \in Indices /\ Cut(s, x)[k] # i
    <2>1. PICK m \in 1 .. Len(s) : m # x /\ Cut(s, x)[k] = s[m]
      BY <1>13, Zenon DEF CutEffect
    <2>2. s[m] # s[x]
      BY <1>1, <2>1, Zenon DEF IsQueue, Linked
    <2>3. s[m] \in Indices
      BY <1>1, SMTT(30)
    <2> QED BY <1>i, <2>1, <2>2, <2>3, Zenon
  <1>15. IsQueue(d.storage, Cut(s, x), side, price) /\ LevelOf(d.storage, Cut(s, x)) = r.level
    <2>1. SameNodes(a2.storage, d.storage, Cut(s, x))
      BY <1>10, <1>14, Zenon DEF SameNodes
    <2>2. PICK c, e, g : c = Cut(s, x) /\ e = a2.storage /\ g = d.storage
      BY Zenon
    <2>3. IsQueue(e, c, side, price) /\ SameNodes(e, g, c) /\ r.level = LevelOf(e, c)
      BY <1>7, <2>1, <2>2, Zenon
    <2>4. IsQueue(g, c, side, price) /\ LevelOf(g, c) = LevelOf(e, c)
      BY <2>3, QueueFrame, Zenon
    <2> QED BY <2>2, <2>3, <2>4, Zenon
  <1>16. RequeuedEffect(q, q2, side, price, Cut(s, x))
    <2>1. Cut(s, x) \in Seq(Indices)
      BY <1>13, Zenon DEF CutEffect
    <2> QED BY <1>q, <1>a, <2>1, RequeuedIs, Zenon
  <1>17. ASSUME NEW j, InList(j, s)
         PROVE  j \in Indices /\ st[j].order # NoOrder /\ st[j].order.side = side /\ st[j].order.price = price
    BY <1>1, <1>17, Zenon DEF InList, Holds
  <1>18. ASSUME NEW t \in Sides, NEW p \in Prices, ~(t = side /\ p = price)
         PROVE  /\ q2[t][p] = q[t][p]
                /\ IsQueue(d.storage, q[t][p], t, p)
                /\ LevelOf(d.storage, q[t][p]) = LevelOf(st, q[t][p])
    <2>1. q2[t][p] = q[t][p]
      BY <1>16, <1>18, Zenon DEF RequeuedEffect
    <2>2. PICK w : w = q[t][p] /\ IsQueue(st, w, t, p) /\ Holds(st, w, t, p)
      BY <1>a, <1>b, QueueNode, Zenon
    <2>3. ASSUME NEW k \in 1 .. Len(w)
          PROVE  w[k] \in Indices /\ w[k] # i /\ w[k] # prev /\ w[k] # next
      <3>1. w[k] \in Indices /\ st[w[k]].order.side = t /\ st[w[k]].order.price = p
        BY <2>2, Zenon DEF Holds
      <3>2. w[k] # ARENA_NULL
        BY <3>1, IndexFacts, Zenon
      <3> QED BY <1>2, <1>3, <1>4, <1>17, <1>18, <3>1, <3>2, ZenonT(30)
    <2>4. PICK g : g = d.storage
      BY Zenon
    <2>5. ASSUME NEW k \in 1 .. Len(w)
          PROVE  /\ g[w[k]].order = st[w[k]].order
                 /\ g[w[k]].prev = st[w[k]].prev /\ g[w[k]].next = st[w[k]].next
      <3>1. PICK j \in Indices : j = w[k] /\ j # i /\ j # prev /\ j # next
        BY <2>3, Zenon
      <3>2. g[j] = a2.storage[j]
        BY <1>10, <2>4, <3>1, Zenon
      <3> QED BY <1>8, <3>1, <3>2, Zenon
    <2>6. SameNodes(st, g, w)
      BY <2>5, Zenon DEF SameNodes
    <2>7. IsQueue(g, w, t, p) /\ LevelOf(g, w) = LevelOf(st, w)
      BY <2>2, <2>6, QueueFrame, Zenon
    <2> QED BY <2>1, <2>2, <2>4, <2>7, Zenon
  <1>19. PushEffect(d.storage, free, i)
    <2>1. ASSUME NEW k \in 1 .. Len(free) PROVE free[k] # i /\ d.storage[free[k]].next = st[free[k]].next
      <3>1. free[k] \in Indices /\ st[free[k]].order = NoOrder /\ free[k] # ARENA_NULL
        BY <1>c, <1>d, IndexFacts, SMTT(30)
      <3>2. free[k] # i /\ free[k] # prev
        BY <1>2, <1>3, <1>17, <3>1, Zenon
      <3> QED BY <1>8, <1>10, <3>1, <3>2, Zenon
    <2>2. Avoids(st, d.storage, free, i)
      BY <2>1, Zenon DEF Avoids
    <2>3. d.storage[i].next = First(free)
      BY <1>10, <1>c, Zenon
    <2> QED BY <1>2, <1>c, <2>2, <2>3, LinkedPush, Zenon
  <1>20. PICK f : f = <<i>> \o free
    BY Zenon
  <1>21. /\ Linked(d.storage, f) /\ Len(f) = Len(free) + 1 /\ First(f) = i /\ f[1] = i
         /\ \A k \in 1 .. Len(free) : f[k + 1] = free[k]
    BY <1>19, <1>20, Zenon DEF PushEffect
  <1>22. d.count = ArenaCapacity - Len(f)
    <2>1. PICK n \in Int, c \in Int : n = Len(free) /\ c = ArenaCapacity
      BY <1>d, ArenaAssumption, SMTT(30)
    <2>2. d.count = (c - n) - 1 /\ Len(f) = n + 1
      BY <1>8, <1>9, <1>21, <1>c, <2>1, Zenon
    <2>3. (c - n) - 1 = c - (n + 1)
      BY SMTT(30)
    <2> QED BY <2>1, <2>2, <2>3, Zenon
  <1>23. ASSUME NEW k \in 1 .. Len(f) PROVE d.storage[f[k]].order = NoOrder
    <2>1. CASE k = 1
      BY <1>2, <1>12, <1>21, <2>1, Zenon
    <2>2. CASE k # 1
      <3>1. k - 1 \in 1 .. Len(free) /\ (k - 1) + 1 = k
        BY <1>21, <1>d, <2>2, SMTT(30)
      <3>2. f[k] = free[k - 1] /\ free[k - 1] \in Indices /\ st[free[k - 1]].order = NoOrder
        BY <1>21, <1>c, <1>d, <3>1, SMTT(30)
      <3> QED BY <1>12, <3>2, Zenon
    <2> QED BY <2>1, <2>2, Zenon
  <1>24. FreeListIs(d, f)
    BY <1>9, <1>21, <1>22, <1>23, ZenonT(30) DEF FreeListIs
  <1>25. QueuesAre(d.storage, q2)
    <2>1. ASSUME NEW t \in Sides, NEW p \in Prices PROVE IsQueue(d.storage, q2[t][p], t, p)
      <3>1. CASE t = side /\ p = price
        BY <1>15, <1>16, <3>1, Zenon DEF RequeuedEffect
      <3>2. CASE ~(t = side /\ p = price)
        BY <1>18, <3>2, Zenon
      <3> QED BY <3>1, <3>2, Zenon
    <2>2. q2 \in [Sides -> [Prices -> Seq(Indices)]]
      BY <1>16 DEF RequeuedEffect
    <2> QED BY <2>1, <2>2, Zenon DEF QueuesAre
  <1>26. ASSUME NEW j \in Indices, d.storage[j].order = NoOrder PROVE InList(j, f)
    <2>1. CASE j = i
      <3>1. 1 \in 1 .. Len(f)
        BY <1>21, <1>d
      <3> QED BY <1>21, <2>1, <3>1, ZenonT(30) DEF InList
    <2>2. CASE j # i
      <3>1. InList(j, free)
        BY <1>12, <1>26, <1>a, <1>b, <2>2, Zenon DEF EveryNode
      <3>2. PICK k \in 1 .. Len(free) : free[k] = j
        BY <3>1, Zenon DEF InList
      <3>3. k + 1 \in 1 .. Len(f) /\ f[k + 1] = j
        <4>1. k + 1 \in 1 .. Len(free) + 1
          BY <1>d, SMTT(30)
        <4> QED BY <1>21, <3>2, <4>1, Zenon
      <3> QED BY <3>3, Zenon DEF InList
    <2> QED BY <2>1, <2>2, Zenon
  <1>27. ASSUME NEW j \in Indices, NEW w, w = d.storage[j].order, w # NoOrder
         PROVE  InList(j, q2[w.side][w.price])
    <2>1. j # i /\ w = st[j].order
      BY <1>12, <1>27, Zenon
    <2>2. InList(j, q[w.side][w.price])
      BY <1>27, <1>a, <1>b, <2>1, Zenon DEF EveryNode
    <2>3. w.side \in Sides /\ w.price \in Prices
      <3>1. w \in Takers
        BY <1>27, <2>1, Zenon DEF Slots
      <3> QED BY <3>1, Zenon DEF Takers
    <2>4. CASE w.side = side /\ w.price = price
      <3>1. PICK m \in 1 .. Len(s) : s[m] = j
        BY <1>s, <2>2, <2>4, Zenon DEF InList
      <3>2. InList(j, Cut(s, x))
        BY <1>i, <1>13, <2>1, <3>1, Zenon DEF CutEffect
      <3> QED BY <1>16, <2>4, <3>2, Zenon DEF RequeuedEffect
    <2>5. CASE ~(w.side = side /\ w.price = price)
      BY <1>18, <2>2, <2>3, <2>5, Zenon
    <2> QED BY <2>4, <2>5, Zenon
  <1>28. EveryNode(d.storage, f, q2)
    BY <1>26, <1>27, Zenon DEF EveryNode
  <1>29. QueueMoved(a, d, q, q2, side, price, r.level)
    BY <1>15, <1>16, <1>18, <1>b, Zenon DEF QueueMoved, RequeuedEffect
  <1>30. q2[side][price] = Cut(s, x)
    BY <1>16, Zenon DEF RequeuedEffect
  <1>31. Placed(d, f, q2)
    BY <1>11, <1>24, <1>25, <1>28, Zenon DEF Placed
  <1> QED BY <1>i, <1>q, <1>2, <1>12, <1>20, <1>29, <1>30, <1>31, <1>b, ZenonT(30) DEF UnplaceEffect

\* reduce_front_quantity first takes the filled quantity off the front order.
QuantityTaken(a, a2, i, amount) ==
  /\ a2 \in Arenas /\ a2.free_head = a.free_head /\ a2.count = a.count
  /\ a2.storage[i].order \in Takers
  /\ a2.storage[i].order = [a.storage[i].order EXCEPT !.quantity = @ - amount]
  /\ a2.storage[i].order.id = a.storage[i].order.id
  /\ a2.storage[i].order.side = a.storage[i].order.side
  /\ a2.storage[i].order.price = a.storage[i].order.price
  /\ a2.storage[i].order.quantity = a.storage[i].order.quantity - amount
  /\ \A j \in Indices :
       /\ j # i => a2.storage[j].order = a.storage[j].order
       /\ a2.storage[j].prev = a.storage[j].prev /\ a2.storage[j].next = a.storage[j].next

\* reduce_front_quantity's write changes the quantity of one order.
LEMMA QuantityTakenIs ==
  ASSUME NEW a \in Arenas, NEW i \in Indices, a.storage[i].order \in Takers,
         NEW amount \in Nat, amount <= a.storage[i].order.quantity,
         NEW a2, a2 = [a EXCEPT !.storage[i].order.quantity = @ - amount]
  PROVE  QuantityTaken(a, a2, i, amount)
  <1>1. PICK st \in [Indices -> Slots] : st = a.storage
    BY DEF Arenas
  <1>2. PICK o \in Takers : o = st[i].order
    BY <1>1
  <1>3. PICK w : w = [o EXCEPT !.quantity = @ - amount]
    BY Zenon
  <1>4. /\ w \in Takers /\ w.id = o.id /\ w.side = o.side /\ w.price = o.price
        /\ w.quantity = o.quantity - amount
    <2>1. o.quantity \in 0 .. MaxQuantity /\ amount <= o.quantity /\ MaxQuantity \in Nat
      BY <1>1, <1>2, BookAssumption, Zenon DEF Takers
    <2>2. o.quantity - amount \in 0 .. MaxQuantity
      BY <2>1
    <2> QED BY <1>3, <2>2, Zenon DEF Takers
  <1>5. PICK v \in Slots : /\ v = [st[i] EXCEPT !.order = w]
                           /\ v.order = w /\ v.prev = st[i].prev /\ v.next = st[i].next
    <2>1. PICK u \in Slots : u = st[i]
      OBVIOUS
    <2>2. PICK v : v = [u EXCEPT !.order = w]
      BY Zenon
    <2>3. v \in Slots /\ v.order = w /\ v.prev = u.prev /\ v.next = u.next
      BY <1>4, <2>2, Zenon DEF Slots
    <2> QED BY <2>1, <2>2, <2>3, Zenon
  <1>6. a2.storage = [st EXCEPT ![i] = v] /\ a2 = [a EXCEPT !.storage = [st EXCEPT ![i] = v]]
    BY <1>1, <1>2, <1>3, <1>5, Zenon DEF Arenas
  <1>7. /\ a2.storage \in [Indices -> Slots] /\ a2.storage[i] = v
        /\ \A j \in Indices : j # i => a2.storage[j] = st[j]
    BY <1>6, Zenon
  <1>8. a2 \in Arenas /\ a2.free_head = a.free_head /\ a2.count = a.count
    BY <1>6, <1>7, Zenon DEF Arenas
  <1>9. ASSUME NEW j \in Indices
        PROVE  /\ j # i => a2.storage[j].order = a.storage[j].order
               /\ a2.storage[j].prev = a.storage[j].prev /\ a2.storage[j].next = a.storage[j].next
    BY <1>1, <1>5, <1>7, Zenon
  <1>10. a2.storage[i].order = [a.storage[i].order EXCEPT !.quantity = @ - amount]
    BY <1>1, <1>2, <1>3, <1>5, <1>7, Zenon
  <1>11. /\ a2.storage[i].order \in Takers
         /\ a2.storage[i].order.id = a.storage[i].order.id
         /\ a2.storage[i].order.side = a.storage[i].order.side
         /\ a2.storage[i].order.price = a.storage[i].order.price
         /\ a2.storage[i].order.quantity = a.storage[i].order.quantity - amount
    BY <1>1, <1>2, <1>4, <1>5, <1>7, Zenon
  <1>12. PICK u : u = [a.storage[i].order EXCEPT !.quantity = @ - amount] /\ a2.storage[i].order = u
    BY <1>10, Zenon
  <1> QED BY <1>8, <1>9, <1>11, <1>12, Zenon DEF QuantityTaken

\* Node i is the x-th of queue s.
StandsAt(q, side, price, s, x, i) == s = q[side][price] /\ i = s[x]

\* Taking a quantity off an order moves no node.
LEMMA Reduce ==
  ASSUME NEW a, NEW free, NEW q, Placed(a, free, q), NEW side \in Sides, NEW price \in Prices,
         NEW s, NEW x \in 1 .. Len(s), NEW i, StandsAt(q, side, price, s, x, i),
         NEW amount \in Nat, NEW a2, QuantityTaken(a, a2, i, amount)
  PROVE  /\ Placed(a2, free, q)
         /\ QueueMoved(a, a2, q, q, side, price,
                       [LevelOf(a.storage, s) EXCEPT !.qty = (@ - amount) % QtyModulus])
  <1>s. s = q[side][price]
    BY Zenon DEF StandsAt
  <1>i. i = s[x]
    BY Zenon DEF StandsAt
  <1>a. a \in Arenas /\ FreeListIs(a, free) /\ QueuesAre(a.storage, q) /\ EveryNode(a.storage, free, q)
    BY DEF Placed
  <1>b. PICK st, st2 : st = a.storage /\ st2 = a2.storage
    BY Zenon
  <1>1. IsQueue(st, s, side, price) /\ s \in Seq(Indices) /\ Len(s) \in Nat /\ Holds(st, s, side, price)
    BY <1>s, <1>a, <1>b, QueueNode, Zenon
  <1>2. i \in Indices /\ st[i].order # NoOrder /\ st[i].order.side = side /\ st[i].order.price = price
    BY <1>i, <1>1, Zenon DEF Holds
  <1>3. /\ a2 \in Arenas /\ a2.free_head = a.free_head /\ a2.count = a.count
        /\ st2[i].order \in Takers /\ st2[i].order # NoOrder
        /\ st2[i].order.side = side /\ st2[i].order.price = price
        /\ st2[i].order.quantity = st[i].order.quantity - amount
    BY <1>2, <1>b, MarkerAssumption, Zenon DEF QuantityTaken
  <1>4. \A j \in Indices : /\ j # i => st2[j].order = st[j].order
                           /\ st2[j].prev = st[j].prev /\ st2[j].next = st[j].next
    BY <1>b, Zenon DEF QuantityTaken
  <1>5. ReducedAt(st, st2, s, x, amount)
    <2>1. ASSUME NEW k \in 1 .. Len(s)
          PROVE  /\ k # x => st2[s[k]].order = st[s[k]].order
                 /\ st2[s[k]].prev = st[s[k]].prev /\ st2[s[k]].next = st[s[k]].next
      <3>1. s[k] \in Indices
        BY <1>1
      <3>2. k # x => s[k] # i
        BY <1>i, <1>1, ZenonT(30) DEF IsQueue, Linked
      <3> QED BY <1>4, <3>1, <3>2, Zenon
    <2>2. /\ st2[s[x]].order \in Takers
          /\ st2[s[x]].order.side = st[s[x]].order.side /\ st2[s[x]].order.price = st[s[x]].order.price
          /\ st2[s[x]].order.quantity = st[s[x]].order.quantity - amount
      BY <1>i, <1>2, <1>3, Zenon
    <2>3. amount \in Int
      OBVIOUS
    <2> QED BY <2>1, <2>2, <2>3, Zenon DEF ReducedAt
  <1>6. /\ IsQueue(st2, s, side, price)
        /\ LevelOf(st2, s) = [LevelOf(st, s) EXCEPT !.qty = (@ - amount) % QtyModulus]
    BY <1>i, <1>1, <1>5, ReduceQueue, SMTT(30)
  <1>7. ASSUME NEW t \in Sides, NEW p \in Prices, ~(t = side /\ p = price)
        PROVE  /\ IsQueue(st2, q[t][p], t, p)
               /\ LevelOf(st2, q[t][p]) = LevelOf(st, q[t][p])
    <2>1. PICK w : w = q[t][p] /\ IsQueue(st, w, t, p) /\ Holds(st, w, t, p)
      BY <1>a, <1>b, QueueNode, Zenon
    <2>2. ASSUME NEW k \in 1 .. Len(w)
          PROVE  /\ st2[w[k]].order = st[w[k]].order
                 /\ st2[w[k]].prev = st[w[k]].prev /\ st2[w[k]].next = st[w[k]].next
      <3>1. PICK j \in Indices : j = w[k] /\ st[j].order.side = t /\ st[j].order.price = p
        BY <2>1, Zenon DEF Holds
      <3>2. j # i
        BY <1>2, <1>7, <3>1, Zenon
      <3> QED BY <1>4, <3>1, <3>2, Zenon
    <2>3. SameNodes(st, st2, w)
      BY <2>2, Zenon DEF SameNodes
    <2>4. IsQueue(st2, w, t, p) /\ LevelOf(st2, w) = LevelOf(st, w)
      BY <2>1, <2>3, QueueFrame, Zenon
    <2> QED BY <2>1, <2>4, Zenon
  <1>8. FreeListIs(a2, free)
    <2>1. ASSUME NEW k \in 1 .. Len(free)
          PROVE  st2[free[k]].next = st[free[k]].next /\ st2[free[k]].order = NoOrder
      <3>1. free \in Seq(Indices) /\ st[free[k]].order = NoOrder
        BY <1>a, <1>b, ZenonT(30) DEF FreeListIs, Linked
      <3>2. PICK j \in Indices : j = free[k] /\ st[j].order = NoOrder
        BY <3>1, SMTT(30)
      <3> QED BY <1>2, <1>4, <3>2, Zenon
    <2>2. Linked(st2, free)
      BY <1>a, <1>b, <2>1, Zenon DEF FreeListIs, Linked
    <2> QED BY <1>3, <1>a, <1>b, <2>1, <2>2, Zenon DEF FreeListIs
  <1>9. QueuesAre(st2, q)
    <2>1. ASSUME NEW t \in Sides, NEW p \in Prices PROVE IsQueue(st2, q[t][p], t, p)
      BY <1>s, <1>6, <1>7, Zenon
    <2>2. q \in [Sides -> [Prices -> Seq(Indices)]]
      BY <1>a, Zenon DEF QueuesAre
    <2> QED BY <2>1, <2>2, Zenon DEF QueuesAre
  <1>10. EveryNode(st2, free, q)
    <2> SUFFICES ASSUME NEW j \in Indices
                 PROVE  /\ st2[j].order = NoOrder => InList(j, free)
                        /\ st2[j].order # NoOrder => InList(j, q[st2[j].order.side][st2[j].order.price])
      BY Zenon DEF EveryNode
    <2>1. CASE j = i
      <3>1. InList(j, q[side][price])
        BY <1>i, <1>s, <2>1, Zenon DEF InList
      <3> QED BY <1>3, <2>1, <3>1, Zenon
    <2>2. CASE j # i
      BY <1>4, <1>a, <1>b, <2>2, ZenonT(30) DEF EveryNode
    <2> QED BY <2>1, <2>2, Zenon
  <1>11. Placed(a2, free, q)
    BY <1>3, <1>8, <1>9, <1>10, <1>b, Zenon DEF Placed
  <1>12. QueueMoved(a, a2, q, q, side, price,
                    [LevelOf(a.storage, s) EXCEPT !.qty = (@ - amount) % QtyModulus])
    BY <1>s, <1>6, <1>7, <1>b, Zenon DEF QueueMoved
  <1> QED BY <1>11, <1>12, Zenon
=============================================================================
