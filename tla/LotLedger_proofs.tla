--------------------------- MODULE LotLedger_proofs ---------------------------
(***************************************************************************)
(* Proofs about LotLedger, for any symbols, quantities, prices and number  *)
(* of lots, processes and crashes: the order in which a policy consumes    *)
(* lots, what select_lots takes of them, and what the ledger keeps.        *)
(***************************************************************************)
EXTENDS LotLedger, SumLemmas, TLAPS

-----------------------------------------------------------------------------
(* Scale is defined by recursion on the digits: it exists, and is positive. *)

\* Induction over the natural numbers, with a set, so that it can be cited.
LEMMA NaturalInduction ==
  ASSUME NEW F, \A n \in Nat : (\A m \in 0..(n-1) : m \in F) => n \in F
  PROVE  Nat \subseteq F
<1> SUFFICES ASSUME Nat \ F # {} PROVE FALSE
  OBVIOUS
<1>1. PICK n \in Nat \ F : \A m \in Nat \ F : <<m, n>> \notin OpToRel(<, Nat)
  BY NatLessThanWellFounded, WFMin
<1>2. ASSUME NEW m \in 0..(n-1), m \notin F PROVE FALSE
  <2>1. m \in Nat /\ m < n
    OBVIOUS
  <2>2. <<m, n>> \in OpToRel(<, Nat)
    BY <2>1 DEF OpToRel
  <2>3. QED
    BY <1>1, <1>2, <2>1, <2>2
<1>3. QED
  BY <1>2

ScaleBody(g, n)   == IF n < 10 THEN 10 ELSE 10 * g[n \div 10]
ScalesUpTo(g, n)  == g = [k \in 0..n |-> ScaleBody(g, k)]
Scales(n)         == CHOOSE g : ScalesUpTo(g, n)

\* The recursion of Scale goes to shorter numbers.
LEMMA ShorterNumber ==
  ASSUME NEW n \in Nat, n >= 10
  PROVE  n \div 10 \in 0..(n-1)
OBVIOUS

\* Scale, the weight of a number's first digit: the recursion defines one function,
LEMMA ScalesAgree ==
  ASSUME NEW g, NEW h, NEW m \in Nat, NEW n \in Nat, ScalesUpTo(g, m), ScalesUpTo(h, n)
  PROVE  \A k \in Nat : k <= m /\ k <= n => g[k] = h[k]
<1> DEFINE F == {k \in Nat : k <= m /\ k <= n => g[k] = h[k]}
<1>1. ASSUME NEW k \in Nat, \A j \in 0..(k-1) : j \in F PROVE k \in F
  <2> SUFFICES ASSUME k <= m, k <= n PROVE g[k] = h[k]
    OBVIOUS
  <2>1. k \in 0..m /\ k \in 0..n
    OBVIOUS
  <2>2. g[k] = ScaleBody(g, k) /\ h[k] = ScaleBody(h, k)
    BY <2>1 DEF ScalesUpTo
  <2>3. CASE k < 10
    BY <2>2, <2>3 DEF ScaleBody
  <2>4. CASE k >= 10
    <3>1. k \div 10 \in 0..(k-1)
      BY <2>4, ShorterNumber
    <3>2. g[k \div 10] = h[k \div 10]
      BY <1>1, <3>1
    <3>3. QED
      BY <2>2, <3>2 DEF ScaleBody
  <2>5. QED
    BY <2>3, <2>4
<1> HIDE DEF F
<1>2. Nat \subseteq F
  BY <1>1, NaturalInduction
<1>3. QED
  BY <1>2 DEF F

\* and it defines some function,
LEMMA ScalesExist == \A n \in Nat : ScalesUpTo(Scales(n), n)
<1> DEFINE F == {n \in Nat : ScalesUpTo(Scales(n), n)}
<1>1. ASSUME NEW n \in Nat, \A m \in 0..(n-1) : m \in F PROVE n \in F
  <2> DEFINE Value(k) == IF k < n THEN Scales(k)[k]
                         ELSE IF n < 10 THEN 10 ELSE 10 * Scales(n \div 10)[n \div 10]
             g == [k \in 0..n |-> Value(k)]
  <2>1. ASSUME NEW k \in 0..n PROVE g[k] = ScaleBody(g, k)
    <3>1. k < n => Scales(k)[k] = ScaleBody(Scales(k), k)
      <4>1. k < n => k \in 0..(n-1) /\ k \in 0..k
        OBVIOUS
      <4>2. QED
        BY <1>1, <4>1 DEF ScalesUpTo
    <3>2. CASE k < 10
      <4>1. g[k] = 10
        BY <3>1, <3>2 DEF ScaleBody
      <4>2. QED
        BY <3>2, <4>1 DEF ScaleBody
    <3>3. CASE k >= 10
      <4> DEFINE j == k \div 10
      <4>1. j \in 0..(k-1)
        BY <3>3, ShorterNumber
      <4> HIDE DEF j
      <4>2. j \in 0..n /\ j < n /\ j \in 0..(n-1) /\ j \in Nat /\ j <= k
        BY <4>1
      <4>3. g[j] = Scales(j)[j]
        BY <4>2
      <4>4. k < n => Scales(k)[j] = Scales(j)[j]
        <5>1. k < n => k \in 0..(n-1)
          OBVIOUS
        <5>2. k < n => ScalesUpTo(Scales(k), k)
          BY <1>1, <5>1
        <5>3. ScalesUpTo(Scales(j), j)
          BY <1>1, <4>2
        <5>4. QED
          BY <4>2, <5>2, <5>3, ScalesAgree
      <4>5. g[k] = 10 * Scales(j)[j]
        BY <3>1, <3>3, <4>4 DEF ScaleBody, j
      <4> HIDE DEF g
      <4>6. QED
        BY <3>3, <4>3, <4>5 DEF ScaleBody, j
    <3>4. QED
      BY <3>2, <3>3
  <2> HIDE DEF Value
  <2>2. g = [k \in 0..n |-> g[k]]
    OBVIOUS
  <2> HIDE DEF g
  <2>3. ScalesUpTo(g, n)
    BY <2>1, <2>2 DEF ScalesUpTo
  <2>4. QED
    BY <2>3 DEF Scales
<1> HIDE DEF F
<1>2. Nat \subseteq F
  BY <1>1, NaturalInduction
<1>3. QED
  BY <1>2 DEF F

\* so Scale satisfies its definition,
LEMMA ScaleUnfolds == \A n \in Nat : Scale[n] = ScaleBody(Scale, n)
<1> DEFINE f == [n \in Nat |-> Scales(n)[n]]
<1>1. ASSUME NEW n \in Nat PROVE f[n] = ScaleBody(f, n)
  <2>1. Scales(n)[n] = ScaleBody(Scales(n), n)
    <3>1. n \in 0..n
      OBVIOUS
    <3>2. QED
      BY <3>1, ScalesExist DEF ScalesUpTo
  <2>2. CASE n < 10
    BY <2>1, <2>2 DEF ScaleBody
  <2>3. CASE n >= 10
    <3> DEFINE j == n \div 10
    <3>1. j \in 0..(n-1)
      BY <2>3, ShorterNumber
    <3> HIDE DEF j
    <3>2. j \in Nat /\ j <= n
      BY <3>1
    <3>3. Scales(n)[j] = Scales(j)[j]
      BY <3>2, ScalesExist, ScalesAgree
    <3>4. QED
      BY <2>1, <2>3, <3>2, <3>3 DEF ScaleBody, j
  <2>4. QED
    BY <2>2, <2>3
<1> HIDE DEF f
<1>2. f = [n \in Nat |-> IF n < 10 THEN 10 ELSE 10 * f[n \div 10]]
  <2>1. f = [n \in Nat |-> f[n]]
    BY DEF f
  <2>2. QED
    BY <1>1, <2>1 DEF ScaleBody
<1>3. Scale = [n \in Nat |-> IF n < 10 THEN 10 ELSE 10 * Scale[n \div 10]]
  BY <1>2 DEF Scale
<1>4. QED
  BY <1>3 DEF ScaleBody

\* and is a positive number.
LEMMA ScaleIsPositive == \A n \in Nat : Scale[n] \in Nat \ {0}
<1> DEFINE F == {n \in Nat : Scale[n] \in Nat \ {0}}
<1>1. ASSUME NEW n \in Nat, \A m \in 0..(n-1) : m \in F PROVE n \in F
  <2>1. CASE n < 10
    BY <2>1, ScaleUnfolds DEF ScaleBody
  <2>2. CASE n >= 10
    <3>1. Scale[n \div 10] \in Nat \ {0}
      BY <1>1, <2>2, ShorterNumber
    <3>2. Scale[n] = 10 * Scale[n \div 10]
      BY <2>2, ScaleUnfolds DEF ScaleBody
    <3>3. QED
      BY <3>1, <3>2
  <2>3. QED
    BY <2>1, <2>2
<1> HIDE DEF F
<1>2. Nat \subseteq F
  BY <1>1, NaturalInduction
<1>3. QED
  BY <1>2 DEF F

-----------------------------------------------------------------------------
(* Every policy consumes lots in a strict total order. *)

\* Fractions compare across a third one.
LEMMA FractionsCompare ==
  ASSUME NEW a \in Nat, NEW b \in Nat, NEW c \in Nat,
         NEW p \in Nat \ {0}, NEW q \in Nat \ {0}, NEW r \in Nat \ {0},
         a * q <= b * p, b * r <= c * q
  PROVE  /\ a * r <= c * p
         /\ a * q < b * p \/ b * r < c * q => a * r < c * p
<1> DEFINE x == a * q
           y == b * p
           z == b * r
           w == c * q
<1>1. x \in Nat /\ y \in Nat /\ z \in Nat /\ w \in Nat
  OBVIOUS
<1>2. (a * r) * q = x * r /\ (c * p) * q = w * p /\ y * r = z * p
  OBVIOUS
<1>3. a * r \in Nat /\ c * p \in Nat
  OBVIOUS
<1> HIDE DEF x, y, z, w
<1>4. x <= y /\ z <= w
  BY DEF x, y, z, w
<1>5. x * r <= y * r /\ z * p <= w * p
  BY <1>1, <1>4
<1>6. (x < y => x * r < y * r) /\ (z < w => z * p < w * p)
  BY <1>1
<1> DEFINE left  == a * r
           right == c * p
<1>7. left * q <= right * q /\ (x < y \/ z < w => left * q < right * q)
  BY <1>1, <1>2, <1>5, <1>6
<1> HIDE DEF left, right
<1>8. left \in Nat /\ right \in Nat
  BY <1>3 DEF left, right
<1>9. left <= right
  BY <1>7, <1>8
<1>10. x < y \/ z < w => left # right
  BY <1>7, <1>8
<1>11. QED
  BY <1>8, <1>9, <1>10 DEF left, right, x, y, z, w

\* The text order of ids is an order.
LEMMA IdOrder ==
  ASSUME NEW a \in Nat, NEW b \in Nat, NEW c \in Nat
  PROVE  /\ ~IdBefore(a, a)
         /\ IdBefore(a, b) /\ IdBefore(b, c) => IdBefore(a, c)
         /\ a # b => IdBefore(a, b) \/ IdBefore(b, a)
<1>1. Scale[a] \in Nat \ {0} /\ Scale[b] \in Nat \ {0} /\ Scale[c] \in Nat \ {0}
  BY ScaleIsPositive
<1>2. /\ a * Scale[b] \in Nat /\ b * Scale[a] \in Nat /\ b * Scale[c] \in Nat
      /\ c * Scale[b] \in Nat /\ a * Scale[c] \in Nat /\ c * Scale[a] \in Nat
      /\ a * Scale[a] \in Nat
  BY <1>1
<1>3. a * Scale[b] <= b * Scale[a] /\ b * Scale[c] <= c * Scale[b] =>
        /\ a * Scale[c] <= c * Scale[a]
        /\ a * Scale[b] < b * Scale[a] \/ b * Scale[c] < c * Scale[b] =>
             a * Scale[c] < c * Scale[a]
  BY <1>1, FractionsCompare
<1>4. ~IdBefore(a, a)
  BY <1>2 DEF IdBefore
<1>5. IdBefore(a, b) /\ IdBefore(b, c) => IdBefore(a, c)
  BY <1>2, <1>3 DEF IdBefore
<1>6. a # b => IdBefore(a, b) \/ IdBefore(b, a)
  BY <1>2 DEF IdBefore
<1>7. QED
  BY <1>4, <1>5, <1>6

\* Every policy puts lots with distinct ids in one order.
LEMMA LotOrder ==
  ASSUME NEW policy \in Policies, NEW k \in Lots, NEW l \in Lots, NEW m \in Lots
  PROVE  /\ ~ConsumedBefore(policy, k, k)
         /\ ConsumedBefore(policy, k, l) /\ ConsumedBefore(policy, l, m) =>
              ConsumedBefore(policy, k, m)
         /\ k.id # l.id => ConsumedBefore(policy, k, l) \/ ConsumedBefore(policy, l, k)
<1>1. /\ k.id \in Nat /\ l.id \in Nat /\ m.id \in Nat
      /\ k.day \in Nat /\ l.day \in Nat /\ m.day \in Nat
      /\ k.cost \in Nat /\ l.cost \in Nat /\ m.cost \in Nat
  BY DEF Lots
<1>2. /\ ~IdBefore(k.id, k.id)
      /\ IdBefore(k.id, l.id) /\ IdBefore(l.id, m.id) => IdBefore(k.id, m.id)
      /\ IdBefore(m.id, l.id) /\ IdBefore(l.id, k.id) => IdBefore(m.id, k.id)
      /\ k.id # l.id => IdBefore(k.id, l.id) \/ IdBefore(l.id, k.id)
  BY <1>1, IdOrder
<1>3. /\ ~OldestFirst(k, k)
      /\ OldestFirst(k, l) /\ OldestFirst(l, m) => OldestFirst(k, m)
      /\ OldestFirst(m, l) /\ OldestFirst(l, k) => OldestFirst(m, k)
      /\ k.id # l.id => OldestFirst(k, l) \/ OldestFirst(l, k)
  BY <1>1, <1>2 DEF OldestFirst
<1>4. CASE policy = "hifo"
  BY <1>1, <1>3, <1>4 DEF ConsumedBefore
<1>5. CASE policy = "fifo"
  BY <1>3, <1>5 DEF ConsumedBefore
<1>6. CASE policy = "lifo"
  BY <1>3, <1>6 DEF ConsumedBefore
<1>7. QED
  BY <1>4, <1>5, <1>6 DEF Policies

-----------------------------------------------------------------------------
(* What a selection takes.  The lots ahead of a lot are the shares that go    *)
(* before its own.                                                            *)

\* Lots that can be told apart, as a ledger has them of a symbol or of all.
GoodLots(ls) ==
  /\ ls \subseteq Lots /\ IsFiniteSet(ls)
  /\ \A k, l \in ls : k.id = l.id => k = l

Ahead(ls, policy, l) == {k \in ls : ConsumedBefore(policy, k, l)}
Sizes(ls)            == [l \in ls |-> l.qty]
Taking(ls, q, policy) == [l \in ls |-> Taken(ls, q, policy, l)]

\* Part of the lots has a quantity, the sum of their sizes.
LEMMA QuantityOfPart ==
  ASSUME NEW ls, GoodLots(ls), NEW T \in SUBSET ls
  PROVE  /\ Quantity(T) = SumFunctionOnSet(Sizes(ls), T)
         /\ Quantity(T) \in Nat /\ IsFiniteSet(T)
         /\ \A l \in ls : Sizes(ls)[l] = l.qty /\ l.qty \in Nat \ {0} /\ l.qty \in Int
<1> DEFINE f == [l \in T |-> l.qty]
<1>1. \A l \in ls : l.qty \in Nat \ {0} /\ l.qty \in Int /\ Sizes(ls)[l] = l.qty
  BY DEF GoodLots, Lots, Sizes
<1>2. IsFiniteSet(T)
  BY FS_Subset DEF GoodLots
<1>3. \A l \in T : f[l] \in Int /\ f[l] = Sizes(ls)[l] /\ Sizes(ls)[l] \in Nat
  BY <1>1
<1>4. Quantity(T) = SumFunctionOnSet(f, T)
  BY DEF Quantity, SumFunction
<1> HIDE DEF f
<1>5. SumFunctionOnSet(f, T) = SumFunctionOnSet(Sizes(ls), T)
  BY <1>2, <1>3, SumSame
<1>6. SumFunctionOnSet(Sizes(ls), T) \in Nat
  BY <1>2, <1>3, SumNat
<1>7. QED
  BY <1>1, <1>2, <1>4, <1>5, <1>6

\* The two cases of select_lots' min(lot.quantity, remaining).
LEMMA TakenValue ==
  ASSUME NEW ls, GoodLots(ls), NEW q \in Nat, NEW policy, NEW l \in ls
  PROVE  LET before == Quantity(Ahead(ls, policy, l))
         IN  /\ before \in Nat
             /\ q <= before => Taken(ls, q, policy, l) = 0
             /\ before <= q /\ q <= before + l.qty => Taken(ls, q, policy, l) = q - before
             /\ before + l.qty <= q => Taken(ls, q, policy, l) = l.qty
             /\ Taken(ls, q, policy, l) \in 0..l.qty
<1> DEFINE before == Quantity(Ahead(ls, policy, l))
<1>1. Ahead(ls, policy, l) \in SUBSET ls
  BY DEF Ahead
<1>2. before \in Nat /\ l.qty \in Nat \ {0}
  BY <1>1, QuantityOfPart
<1>3. Taken(ls, q, policy, l) = IF q <= before THEN 0 ELSE Min({l.qty, q - before})
  BY DEF Taken, Ahead
<1> HIDE DEF before
<1> DEFINE rest == q - before
<1>4. \A a, b \in Int : a <= b => Min({a, b}) = a /\ Min({b, a}) = a
  <2> SUFFICES ASSUME NEW a \in Int, NEW b \in Int, a <= b PROVE Min({a, b}) = a /\ Min({b, a}) = a
    OBVIOUS
  <2>1. \E x \in {a, b} : \A y \in {a, b} : x <= y
    OBVIOUS
  <2>2. Min({a, b}) \in {a, b} /\ \A y \in {a, b} : Min({a, b}) <= y
    BY <2>1 DEF Min
  <2>3. Min({a, b}) = a /\ {b, a} = {a, b}
    BY <2>2
  <2>4. QED
    BY <2>3
<1>5. rest \in Int /\ l.qty \in Int
  BY <1>2
<1>6. (rest <= l.qty => Min({l.qty, rest}) = rest) /\ (l.qty <= rest => Min({l.qty, rest}) = l.qty)
  BY <1>4, <1>5
<1>7. QED
  BY <1>2, <1>3, <1>5, <1>6 DEF before

\* Some lot is consumed last.
LEMMA LastLot ==
  ASSUME NEW ls, GoodLots(ls), NEW policy \in Policies, NEW T \in SUBSET ls, T # {}
  PROVE  \E m \in T : \A k \in T \ {m} : ConsumedBefore(policy, k, m)
<1> DEFINE Last(U, m) == \A k \in U \ {m} : ConsumedBefore(policy, k, m)
           F == {U \in SUBSET T : U = {} \/ \E m \in U : Last(U, m)}
<1>1. IsFiniteSet(T) /\ {} \in F
  BY FS_Subset DEF GoodLots
<1>2. ASSUME NEW U \in SUBSET T, NEW x \in T, U \in F, x \notin U PROVE U \cup {x} \in F
  <2>1. CASE U = {}
    BY <2>1
  <2>2. CASE U # {}
    <3>1. PICK m \in U : Last(U, m)
      BY <1>2, <2>2
    <3>2. /\ x \in Lots /\ \A k \in U : k \in Lots
          /\ m.id # x.id
      BY <1>2, <3>1 DEF GoodLots
    <3>3. CASE ConsumedBefore(policy, x, m)
      <4>1. Last(U \cup {x}, m)
        BY <3>1, <3>3
      <4>2. QED
        BY <3>1, <4>1
    <3>4. CASE ConsumedBefore(policy, m, x)
      <4>1. ASSUME NEW k \in U PROVE ConsumedBefore(policy, k, x)
        <5>1. k = m \/ ConsumedBefore(policy, k, m)
          BY <3>1
        <5>2. QED
          BY <3>1, <3>2, <3>4, <5>1, LotOrder
      <4>2. Last(U \cup {x}, x)
        BY <4>1
      <4>3. QED
        BY <4>2
    <3>5. QED
      BY <3>1, <3>2, <3>3, <3>4, LotOrder
  <2>3. QED
    BY <2>1, <2>2
<1> HIDE DEF F
<1>3. T \in F
  BY <1>1, <1>2, ElementInduction
<1>4. QED
  BY <1>3 DEF F

\* The lots up to some point of the order.
Segment(T, ls, policy) == \A l \in T, k \in ls : ConsumedBefore(policy, k, l) => k \in T

\* A selection fills what was asked from the front of the order: of any segment
\* it takes all there is, or all that was asked.
LEMMA SegmentTaken ==
  ASSUME NEW ls, GoodLots(ls), NEW q \in Nat, NEW policy \in Policies,
         NEW T \in SUBSET ls, Segment(T, ls, policy)
  PROVE  SumFunctionOnSet(Taking(ls, q, policy), T) = IF q <= Quantity(T) THEN q ELSE Quantity(T)
<1> DEFINE t == Taking(ls, q, policy)
           Filled(U) == SumFunctionOnSet(t, U) = IF q <= Quantity(U) THEN q ELSE Quantity(U)
           F == {U \in SUBSET T : Segment(U, ls, policy) => Filled(U)}
<1>1. ASSUME NEW U \in SUBSET T, \A R \in SUBSET U : R # U => R \in F PROVE U \in F
  <2> SUFFICES ASSUME Segment(U, ls, policy) PROVE Filled(U)
    OBVIOUS
  <2>1. CASE U = {}
    <3>1. SumFunctionOnSet(t, U) = 0 /\ Quantity(U) = 0
      BY <2>1, SumEmpty, QuantityOfPart
    <3>2. QED
      BY <3>1
  <2>2. CASE U # {}
    <3>1. PICK m \in U : \A k \in U \ {m} : ConsumedBefore(policy, k, m)
      BY <2>2, LastLot
    <3> DEFINE R == U \ {m}
    <3>2. \A k \in ls : k \in Lots
      BY DEF GoodLots
    <3>3. R = Ahead(ls, policy, m)
      BY <3>1, <3>2, LotOrder DEF Segment, Ahead
    <3>4. Segment(R, ls, policy)
      <4> SUFFICES ASSUME NEW l \in R, NEW k \in ls, ConsumedBefore(policy, k, l) PROVE k \in R
        BY DEF Segment
      <4>1. k \in U /\ k # m
        BY <3>1, <3>2, LotOrder DEF Segment
      <4>2. QED
        BY <4>1
    <3>5. Filled(R)
      BY <1>1, <3>4
    <3>6. IsFiniteSet(U) /\ m \in ls /\ R \in SUBSET ls
      BY <3>1, QuantityOfPart
    <3>7. \A l \in U : t[l] = Taken(ls, q, policy, l) /\ t[l] \in Int
      BY TakenValue, QuantityOfPart DEF Taking
    <3> HIDE DEF t
    <3>8. /\ SumFunctionOnSet(t, U) = t[m] + SumFunctionOnSet(t, R)
      BY <3>6, <3>7, SumElement
    <3>9. /\ Quantity(U) = m.qty + Quantity(R)
          /\ Quantity(R) \in Nat /\ m.qty \in Nat \ {0}
      <4>1. /\ Quantity(U) = SumFunctionOnSet(Sizes(ls), U)
            /\ Quantity(R) = SumFunctionOnSet(Sizes(ls), R) /\ Quantity(R) \in Nat
            /\ \A l \in ls : Sizes(ls)[l] = l.qty /\ l.qty \in Nat \ {0} /\ l.qty \in Int
        BY <3>6, QuantityOfPart
      <4>2. SumFunctionOnSet(Sizes(ls), U) = Sizes(ls)[m] + SumFunctionOnSet(Sizes(ls), R)
        BY <3>6, <4>1, SumElement
      <4>3. QED
        BY <3>6, <4>1, <4>2
    <3> DEFINE b == Quantity(R)
               s == SumFunctionOnSet(t, R)
               w == m.qty
    <3>10. /\ q <= b => t[m] = 0
           /\ b <= q /\ q <= b + w => t[m] = q - b
           /\ b + w <= q => t[m] = w
      <4>1. t[m] = Taken(ls, q, policy, m) /\ Quantity(Ahead(ls, policy, m)) = b
        BY <3>1, <3>3, <3>7
      <4> HIDE DEF b, R
      <4>2. QED
        BY <3>6, <4>1, TakenValue
    <3>11. s = IF q <= b THEN q ELSE b
      BY <3>5
    <3> HIDE DEF b, s, w
    <3>12. b \in Nat /\ w \in Nat
      BY <3>9 DEF b, w
    <3>13. t[m] + s = IF q <= w + b THEN q ELSE w + b
      BY <3>10, <3>11, <3>12
    <3>14. QED
      BY <3>8, <3>9, <3>13 DEF b, s, w
  <2>3. QED
    BY <2>1, <2>2
<1> HIDE DEF F
<1>2. T \in F
  BY <1>1, SubsetInduction, QuantityOfPart
<1>3. QED
  BY <1>2 DEF F

\* The lots ahead of a lot are a segment, and so are all of them.
LEMMA AheadIsSegment ==
  ASSUME NEW ls, GoodLots(ls), NEW policy \in Policies
  PROVE  /\ Segment(ls, ls, policy)
         /\ \A l \in ls : Segment(Ahead(ls, policy, l), ls, policy)
                          /\ Ahead(ls, policy, l) \in SUBSET ls
<1>1. \A l \in ls : l \in Lots
  BY DEF GoodLots
<1>2. QED
  BY <1>1, LotOrder DEF Segment, Ahead

\* A lot is only touched when every lot ahead of it is used up.
LEMMA UsedUpInOrder ==
  ASSUME NEW ls, GoodLots(ls), NEW q \in Nat, NEW policy \in Policies, NEW k \in ls, NEW l \in ls,
         ConsumedBefore(policy, k, l), Taken(ls, q, policy, l) > 0
  PROVE  Taken(ls, q, policy, k) = k.qty
<1> DEFINE A == Ahead(ls, policy, k)
           B == Ahead(ls, policy, l)
           size == Sizes(ls)
<1>1. A \cup {k} \in SUBSET B /\ k \notin A /\ B \in SUBSET ls /\ A \in SUBSET ls
  <2>1. \A j \in ls : j \in Lots
    BY DEF GoodLots
  <2>2. QED
    BY <2>1, LotOrder DEF Ahead
<1> HIDE DEF A, B
<1>2. /\ Quantity(A) \in Nat /\ Quantity(B) \in Nat /\ IsFiniteSet(B) /\ IsFiniteSet(A)
      /\ Quantity(A) = SumFunctionOnSet(size, A) /\ Quantity(B) = SumFunctionOnSet(size, B)
      /\ \A j \in ls : size[j] = j.qty /\ j.qty \in Nat \ {0} /\ j.qty \in Int
  BY <1>1, QuantityOfPart
<1> HIDE DEF size
<1>3. SumFunctionOnSet(size, A \cup {k}) = k.qty + Quantity(A)
  <2>1. \A j \in A \cup {k} : size[j] \in Int
    BY <1>1, <1>2
  <2>2. QED
    BY <1>1, <1>2, <2>1, SumAdds
<1>4. SumFunctionOnSet(size, B) = SumFunctionOnSet(size, A \cup {k})
                                    + SumFunctionOnSet(size, B \ (A \cup {k}))
  BY <1>1, <1>2, SumParts
<1>5. SumFunctionOnSet(size, B \ (A \cup {k})) \in Nat
  <2>1. IsFiniteSet(B \ (A \cup {k})) /\ \A j \in B \ (A \cup {k}) : size[j] \in Nat
    BY <1>1, <1>2, FS_Subset
  <2>2. QED
    BY <2>1, SumNat
<1>6. Quantity(A) + k.qty <= Quantity(B)
  BY <1>2, <1>3, <1>4, <1>5
<1>7. Quantity(B) < q
  BY <1>2, TakenValue DEF B
<1>8. Quantity(A) + k.qty <= q
  BY <1>2, <1>6, <1>7
<1>9. QED
  BY <1>8, TakenValue DEF A

-----------------------------------------------------------------------------
(* What a selection leaves. *)

\* _consume finds in the sales what select_lots took of the lot.
LEMMA SaleIsFound ==
  ASSUME NEW ls, GoodLots(ls), NEW q \in Nat, NEW policy, NEW l \in ls
  PROVE  SoldOf(l, SelectLots(ls, q, policy)) = Taken(ls, q, policy, l)
<1> DEFINE t(k) == Taken(ls, q, policy, k)
           sale(k) == [lot_id |-> k.id, quantity |-> t(k), cost_per_share |-> k.cost]
           sales == SelectLots(ls, q, policy)
<1>1. sales = {sale(k) : k \in {k \in ls : t(k) > 0}}
  BY DEF SelectLots
<1>2. \A k \in ls : t(k) \in Nat
  BY TakenValue, QuantityOfPart
<1> HIDE DEF t, sales
<1>3. ASSUME NEW s \in sales, s.lot_id = l.id PROVE s.quantity = t(l) /\ t(l) > 0
  <2>1. PICK k \in ls : t(k) > 0 /\ s = sale(k)
    BY <1>1
  <2>2. k = l
    BY <1>3, <2>1 DEF GoodLots
  <2>3. QED
    BY <2>1, <2>2
<1>4. CASE t(l) > 0
  <2>1. sale(l) \in sales /\ sale(l).lot_id = l.id
    BY <1>1, <1>4
  <2>2. \E s \in sales : s.lot_id = l.id
    BY <2>1
  <2>3. SoldOf(l, sales) = t(l)
    BY <1>3, <2>2 DEF SoldOf
  <2>4. QED
    BY <2>3 DEF sales, t
<1>5. CASE t(l) = 0
  <2>1. ~\E s \in sales : s.lot_id = l.id
    BY <1>3, <1>5
  <2>2. SoldOf(l, sales) = t(l)
    BY <1>5, <2>1 DEF SoldOf
  <2>3. QED
    BY <2>2 DEF sales, t
<1>6. QED
  BY <1>2, <1>4, <1>5

Rest(ls, q, policy)    == Consume(ls, SelectLots(ls, q, policy))
Left(ls, q, policy, l) == [l EXCEPT !.qty = l.qty - Taken(ls, q, policy, l)]
Kept(ls, q, policy)    == {l \in ls : Taken(ls, q, policy, l) < l.qty}

\* A lot that is not used up keeps everything but the shares taken of it.
LEMMA LeftOfLot ==
  ASSUME NEW ls, GoodLots(ls), NEW q \in Nat, NEW policy, NEW l \in ls
  PROVE  /\ Taken(ls, q, policy, l) \in 0..l.qty /\ l.qty \in Nat \ {0}
         /\ Left(ls, q, policy, l).id = l.id /\ Left(ls, q, policy, l).sym = l.sym
         /\ Left(ls, q, policy, l).cost = l.cost /\ Left(ls, q, policy, l).day = l.day
         /\ Left(ls, q, policy, l).qty = l.qty - Taken(ls, q, policy, l)
         /\ l \in Kept(ls, q, policy) => Left(ls, q, policy, l) \in Lots
<1> DEFINE t == Taken(ls, q, policy, l)
<1>1. l \in Lots
  BY DEF GoodLots
<1>2. t \in 0..l.qty
  BY TakenValue
<1>3. l \in Kept(ls, q, policy) <=> t < l.qty
  BY DEF Kept
<1>4. Left(ls, q, policy, l) = [l EXCEPT !.qty = l.qty - t]
  BY DEF Left
<1> HIDE DEF t
<1>5. /\ l.qty \in Nat \ {0}
      /\ t < l.qty => l.qty - t \in Nat \ {0}
  BY <1>1, <1>2 DEF Lots
<1>6. QED
  BY <1>1, <1>2, <1>3, <1>4, <1>5 DEF Lots, t

\* What is left of the lots after a sale are lots.
LEMMA RestOfLots ==
  ASSUME NEW ls, GoodLots(ls), NEW q \in Nat, NEW policy
  PROVE  /\ Rest(ls, q, policy) = {Left(ls, q, policy, l) : l \in Kept(ls, q, policy)}
         /\ GoodLots(Rest(ls, q, policy))
         /\ \A l \in Rest(ls, q, policy) : \E k \in Kept(ls, q, policy) : l = Left(ls, q, policy, k)
<1> DEFINE sales == SelectLots(ls, q, policy)
           rest  == Rest(ls, q, policy)
           kept  == Kept(ls, q, policy)
           left(l) == Left(ls, q, policy, l)
<1>1. \A l \in ls : SoldOf(l, sales) = Taken(ls, q, policy, l)
  BY SaleIsFound
<1>2. {k \in ls : SoldOf(k, sales) < k.qty} = kept
  BY <1>1 DEF Kept
<1>3. \A l \in kept : [l EXCEPT !.qty = @ - SoldOf(l, sales)] = left(l)
  BY <1>1 DEF Kept, Left
<1>4. rest = {[l EXCEPT !.qty = @ - SoldOf(l, sales)] : l \in kept}
  BY <1>2 DEF Rest, Consume
<1> HIDE DEF rest, sales
<1>5. rest = {left(l) : l \in kept}
  <2> HIDE DEF kept, left
  <2>1. QED
    BY <1>3, <1>4
<1>6. kept \in SUBSET ls /\ IsFiniteSet(kept)
  BY FS_Subset DEF GoodLots, Kept
<1>7. \A l \in kept : left(l) \in Lots /\ left(l).id = l.id
  BY <1>6, LeftOfLot
<1> HIDE DEF kept, left
<1>8. IsFiniteSet(rest)
  <2> DEFINE h == [l \in kept |-> left(l)]
  <2>1. {h[l] : l \in kept} = {left(l) : l \in kept}
    OBVIOUS
  <2> HIDE DEF h
  <2>2. IsFiniteSet({h[l] : l \in kept})
    BY <1>6, ImageIsFinite
  <2>3. QED
    BY <1>5, <2>1, <2>2
<1>9. GoodLots(rest)
  <2>1. \A k, l \in rest : k.id = l.id => k = l
    BY <1>5, <1>6, <1>7 DEF GoodLots
  <2>2. QED
    BY <1>5, <1>7, <1>8, <2>1 DEF GoodLots
<1>10. QED
  BY <1>5, <1>9 DEF rest, kept, left

\* The shares that go before those of a lot, once p are gone.
LEMMA AheadInRest ==
  ASSUME NEW ls, GoodLots(ls), NEW p \in Nat, NEW policy \in Policies,
         NEW l \in Kept(ls, p, policy)
  PROVE  LET before == Quantity(Ahead(ls, policy, l))
         IN  Quantity(Ahead(Rest(ls, p, policy), policy, Left(ls, p, policy, l))) =
               IF p <= before THEN before - p ELSE 0
<1> DEFINE R == Rest(ls, p, policy)
           A == Ahead(ls, policy, l)
           kept == Kept(ls, p, policy)
           t == Taking(ls, p, policy)
           h == [k \in kept |-> Left(ls, p, policy, k)]
           g == [k \in ls |-> k.qty - t[k]]
           K == A \cap kept
           B == Ahead(R, policy, h[l])
<1>1. kept \in SUBSET ls /\ A \in SUBSET ls /\ K \in SUBSET ls /\ K \in SUBSET A
  BY DEF Kept, Ahead
<1>2. R = {h[k] : k \in kept} /\ GoodLots(R)
  BY RestOfLots
<1>3. \A k \in kept : /\ h[k].id = k.id /\ h[k].cost = k.cost /\ h[k].day = k.day
                      /\ h[k].qty = k.qty - t[k]
  BY <1>1, LeftOfLot DEF Taking
<1>4. \A k \in ls : k.qty \in Nat /\ t[k] \in 0..k.qty /\ (k \in kept <=> t[k] < k.qty)
  BY LeftOfLot DEF Taking, Kept
<1>5. h[l] = Left(ls, p, policy, l) /\ l \in kept
  OBVIOUS
<1> HIDE DEF h, kept, R, t
<1>6. \A k \in kept : ConsumedBefore(policy, h[k], h[l]) <=> ConsumedBefore(policy, k, l)
  BY <1>3, <1>5 DEF ConsumedBefore, OldestFirst
<1>7. B = {h[k] : k \in K}
  BY <1>1, <1>2, <1>6 DEF Ahead
<1> DEFINE size == Sizes(R)
<1>8. B \in SUBSET R
  BY DEF Ahead
<1>9. Quantity(B) = SumFunctionOnSet(size, B) /\ \A m \in R : size[m] = m.qty
  BY <1>2, <1>8, QuantityOfPart
<1>10. \A k \in ls : g[k] \in Int /\ g[k] = k.qty - t[k]
  BY <1>4
<1>11. \A k \in K : g[k] = size[h[k]]
  BY <1>1, <1>2, <1>3, <1>9, <1>10
<1>12. \A j, k \in K : h[j] = h[k] => j = k
  <2> SUFFICES ASSUME NEW j \in K, NEW k \in K, h[j] = h[k] PROVE j = k
    OBVIOUS
  <2>1. j.id = k.id
    BY <1>3
  <2>2. QED
    BY <1>1, <2>1 DEF GoodLots
<1>13. IsFiniteSet(A) /\ IsFiniteSet(K)
  BY <1>1, QuantityOfPart
<1> HIDE DEF B, size, g, K
<1>14. SumFunctionOnSet(size, B) = SumFunctionOnSet(g, K)
  <2>1. \A k \in K : g[k] \in Int
    BY <1>1, <1>10
  <2>2. QED
    BY <1>7, <1>11, <1>12, <1>13, <2>1, SumImage
<1>15. SumFunctionOnSet(g, A) = SumFunctionOnSet(g, K)
  <2>1. \A k \in A : g[k] \in Int
    BY <1>1, <1>10
  <2>2. \A k \in A \ K : g[k] = 0
    BY <1>1, <1>4, <1>10 DEF K
  <2>3. QED
    BY <1>1, <1>13, <2>1, <2>2, SumSupport
<1> DEFINE all == Sizes(ls)
<1>16. /\ Quantity(A) = SumFunctionOnSet(all, A) /\ Quantity(A) \in Nat
       /\ \A k \in ls : all[k] = k.qty /\ all[k] \in Int
  BY <1>1, QuantityOfPart
<1>17. SumFunctionOnSet(t, A) = IF p <= Quantity(A) THEN p ELSE Quantity(A)
  <2>1. Segment(A, ls, policy)
    BY <1>1, <1>5, AheadIsSegment
  <2> HIDE DEF A
  <2>2. QED
    BY <1>1, <2>1, SegmentTaken DEF t
<1> HIDE DEF all, A
<1>18. SumFunctionOnSet(g, A) = (-1) * SumFunctionOnSet(t, A) + SumFunctionOnSet(all, A)
  <2>1. \A k \in A : t[k] \in Int /\ all[k] \in Int /\ g[k] = (-1) * t[k] + all[k]
    BY <1>1, <1>4, <1>10, <1>16
  <2> DEFINE k == -1
  <2>2. k \in Int /\ \A x \in A : t[x] \in Int /\ all[x] \in Int /\ g[x] = k * t[x] + all[x]
    BY <2>1
  <2> HIDE DEF k
  <2>3. SumFunctionOnSet(g, A) = k * SumFunctionOnSet(t, A) + SumFunctionOnSet(all, A)
    <3>1. Linear(g, k, t, all, A)
      BY <2>2 DEF Linear
    <3>2. QED
      BY <1>13, <2>2, <3>1, SumLinear
  <2>4. QED
    BY <2>3 DEF k
<1> DEFINE before == Quantity(A)
           taken  == SumFunctionOnSet(t, A)
<1>19. Quantity(B) = (-1) * taken + before
  BY <1>9, <1>14, <1>15, <1>16, <1>18
<1>20. before \in Nat /\ taken = IF p <= before THEN p ELSE before
  BY <1>16, <1>17
<1> HIDE DEF before, taken
<1>21. Quantity(B) = IF p <= before THEN before - p ELSE 0
  BY <1>19, <1>20
<1>22. QED
  BY <1>5, <1>21 DEF B, before, A, R

\* Of a lot that p shares have not used up, q more take what p + q would.
LEMMA TakenTogether ==
  ASSUME NEW ls, GoodLots(ls), NEW p \in Nat, NEW q \in Nat, NEW policy \in Policies,
         NEW l \in Kept(ls, p, policy)
  PROVE  Taken(ls, p + q, policy, l) =
           Taken(ls, p, policy, l)
             + Taken(Rest(ls, p, policy), q, policy, Left(ls, p, policy, l))
<1> DEFINE R == Rest(ls, p, policy)
           m == Left(ls, p, policy, l)
           b == Quantity(Ahead(ls, policy, l))
           c == Quantity(Ahead(R, policy, m))
           t == Taken(ls, p, policy, l)
           u == Taken(R, q, policy, m)
           v == Taken(ls, p + q, policy, l)
           w == l.qty
<1>1. l \in ls /\ t < w
  BY DEF Kept
<1>2. m \in R /\ GoodLots(R)
  BY RestOfLots
<1>3. m.qty = w - t /\ w \in Nat
  BY <1>1, LeftOfLot
<1>4. c = IF p <= b THEN b - p ELSE 0
  BY AheadInRest
<1>5. /\ b \in Nat
      /\ p <= b => t = 0
      /\ b <= p /\ p <= b + w => t = p - b
      /\ b + w <= p => t = w
  BY <1>1, TakenValue
<1>6. /\ p + q <= b => v = 0
      /\ b <= p + q /\ p + q <= b + w => v = p + q - b
      /\ b + w <= p + q => v = w
  <2>1. p + q \in Nat
    OBVIOUS
  <2> DEFINE n == p + q
  <2> HIDE DEF n
  <2>2. n \in Nat
    BY <2>1 DEF n
  <2> DEFINE x == Taken(ls, n, policy, l)
  <2>3. /\ n <= b => x = 0
        /\ b <= n /\ n <= b + w => x = n - b
        /\ b + w <= n => x = w
    BY <1>1, <2>2, TakenValue
  <2>4. x = v
    BY DEF n
  <2> HIDE DEF b, w, v, x
  <2>5. QED
    BY <1>5, <2>2, <2>3, <2>4 DEF n
<1>7. /\ c \in Nat
      /\ q <= c => u = 0
      /\ c <= q /\ q <= c + m.qty => u = q - c
      /\ c + m.qty <= q => u = m.qty
  <2> HIDE DEF m, R
  <2>1. QED
    BY <1>2, TakenValue
<1> HIDE DEF R, b, c, t, u, v, w, m
<1>8. v = t + u
  BY <1>1, <1>3, <1>4, <1>5, <1>6, <1>7
<1>9. QED
  BY <1>8 DEF R, m, t, u, v

\* Two sales leave what one sale of as many shares leaves.
LEMMA SalesCompose ==
  ASSUME NEW ls, GoodLots(ls), NEW p \in Nat, NEW q \in Nat, NEW policy \in Policies
  PROVE  Rest(Rest(ls, p, policy), q, policy) = Rest(ls, p + q, policy)
<1> DEFINE R == Rest(ls, p, policy)
           n == p + q
           first(l)  == Left(ls, p, policy, l)
           second(m) == Left(R, q, policy, m)
           both(l)   == Left(ls, n, policy, l)
           kept == Kept(ls, p, policy)
<1>1. n \in Nat /\ kept \in SUBSET ls
  BY DEF Kept
<1>2. R = {first(l) : l \in kept} /\ GoodLots(R)
  BY RestOfLots
<1> HIDE DEF n
<1>3. ASSUME NEW l \in kept
      PROVE  /\ first(l) \in Kept(R, q, policy) <=> l \in Kept(ls, n, policy)
             /\ second(first(l)) = both(l)
  <2> DEFINE t == Taken(ls, p, policy, l)
             u == Taken(R, q, policy, first(l))
             v == Taken(ls, n, policy, l)
  <2>1. v = t + u
    BY TakenTogether DEF n
  <2>2. first(l) \in R /\ l \in ls
    BY <1>1, <1>2
  <2>3. first(l).qty = l.qty - t /\ l.qty \in Nat /\ t \in 0..l.qty
    BY <2>2, LeftOfLot
  <2>4. u \in Int
    <3> DEFINE m == first(l)
    <3> HIDE DEF m
    <3>1. m \in R
      BY <2>2 DEF m
    <3> HIDE DEF R
    <3>2. Taken(R, q, policy, m) \in 0..m.qty /\ m.qty \in Nat \ {0}
      BY <1>2, <3>1, LeftOfLot
    <3>3. QED
      BY <3>2 DEF m
  <2>5. first(l) \in Kept(R, q, policy) <=> u < first(l).qty
    BY <2>2 DEF Kept
  <2>6. l \in Kept(ls, n, policy) <=> v < l.qty
    BY <2>2 DEF Kept
  <2>7. second(first(l)) = [first(l) EXCEPT !.qty = first(l).qty - u]
    BY DEF Left
  <2>8. both(l) = [l EXCEPT !.qty = l.qty - v] /\ first(l) = [l EXCEPT !.qty = l.qty - t]
    BY DEF Left
  <2>9. l \in Lots
    BY <2>2 DEF GoodLots
  <2> DEFINE m == first(l)
             o == both(l)
             s == second(m)
  <2>10. /\ m = [l EXCEPT !.qty = l.qty - t]
         /\ o = [l EXCEPT !.qty = l.qty - v]
         /\ s = [m EXCEPT !.qty = m.qty - u]
         /\ m.qty = l.qty - t
    BY <2>3, <2>7, <2>8
  <2> HIDE DEF first, second, both, t, u, v, R, m, o, s
  <2>11. m \in Kept(R, q, policy) <=> l \in Kept(ls, n, policy)
    BY <2>1, <2>3, <2>4, <2>5, <2>6 DEF m
  <2>12. l.qty - v = m.qty - u
    BY <2>1, <2>3, <2>4, <2>10
  <2>13. s = o
    BY <2>9, <2>10, <2>12 DEF Lots
  <2>14. QED
    BY <2>11, <2>13 DEF m, o, s
<1>4. \A l \in ls : l \in Kept(ls, n, policy) => l \in kept
  <2> SUFFICES ASSUME NEW l \in ls, l \notin kept PROVE l \notin Kept(ls, n, policy)
    OBVIOUS
  <2> DEFINE b == Quantity(Ahead(ls, policy, l))
             t == Taken(ls, p, policy, l)
             v == Taken(ls, n, policy, l)
             w == l.qty
  <2>1. ~(t < w) /\ (l \in Kept(ls, n, policy) <=> v < w)
    BY DEF Kept
  <2>2. b \in Nat /\ w \in Nat \ {0}
    BY TakenValue, LeftOfLot
  <2>3. /\ p <= b => t = 0
        /\ b <= p /\ p <= b + w => t = p - b
        /\ b + w <= p => t = w
    BY TakenValue
  <2>4. b + w <= n => v = w
    BY <1>1, TakenValue
  <2> HIDE DEF b, t, v, w
  <2>5. b + w <= p
    BY <2>1, <2>2, <2>3
  <2>6. b + w <= n
    BY <2>2, <2>5 DEF n
  <2>7. QED
    BY <2>1, <2>2, <2>4, <2>6
<1>5. Rest(ls, n, policy) = {both(l) : l \in Kept(ls, n, policy)}
  BY <1>1, RestOfLots
<1>6. Rest(R, q, policy) = {second(m) : m \in Kept(R, q, policy)}
  <2> HIDE DEF R
  <2>1. Rest(R, q, policy) = {Left(R, q, policy, m) : m \in Kept(R, q, policy)}
    <3>1. GoodLots(R)
      BY <1>2
    <3>2. QED
      BY <3>1, RestOfLots
  <2>2. QED
    BY <2>1
<1>7. \A m \in Kept(R, q, policy) : m \in R
  BY DEF Kept
<1>8. \A l \in Kept(ls, n, policy) : l \in ls
  BY DEF Kept
<1> HIDE DEF R, first, second, both, kept
<1>9. \A m \in Kept(R, q, policy) : \E l \in Kept(ls, n, policy) : second(m) = both(l)
  BY <1>2, <1>3, <1>7
<1>10. \A l \in Kept(ls, n, policy) : \E m \in Kept(R, q, policy) : second(m) = both(l)
  BY <1>3, <1>4, <1>8
<1>11. Rest(R, q, policy) = Rest(ls, n, policy)
  BY <1>5, <1>6, <1>9, <1>10
<1>12. QED
  BY <1>11 DEF R, n

-----------------------------------------------------------------------------
(* The ledger.  Its invariant adds to TypeOK and LotsIdentified that lots are *)
(* finitely many, and that there are none without a process.                  *)

GoodLedger(c, ls) == c \in Nat /\ ls \subseteq Lots /\ IsFiniteSet(ls) /\ Identified(c, ls)

LedgerInv ==
  /\ phase \in {"closed", "open", "saving"} /\ today \in Nat /\ loads \in Nat
  /\ saved \subseteq Lots
  /\ GoodLedger(seq, lots)
  /\ phase = "closed" => lots = {}
  /\ file # Torn => /\ file \in [seq : Nat, lots : SUBSET Lots]
                    /\ GoodLedger(file.seq, file.lots)

\* Part of the lots of a ledger are lots.
LEMMA PartOfLedger ==
  ASSUME NEW c, NEW ls, GoodLedger(c, ls), NEW T \in SUBSET ls
  PROVE  GoodLots(T)
BY FS_Subset DEF GoodLedger, GoodLots, Identified

\* What a sale or a correction does to the lots.
LEMMA DropStep ==
  ASSUME LedgerInv, NEW s \in Symbols, NEW q \in Nat, NEW policy, Drop(s, q, policy)
  PROVE  /\ GoodLedger(seq, lots') /\ seq' = seq
         /\ GoodLots(LotsFor(s)) /\ Quantity(LotsFor(s)) \in Nat /\ q <= Quantity(LotsFor(s))
         /\ \A k \in lots, l \in lots' : k.id = l.id =>
              /\ l.sym = k.sym /\ l.cost = k.cost /\ l.day = k.day
              /\ l.qty <= k.qty
         /\ \A l \in lots' : \E k \in lots : k.id = l.id
         /\ Sold(s) = Taking(LotsFor(s), q, policy)
<1> DEFINE L == LotsFor(s)
           R == Rest(L, q, policy)
           t(k) == Taken(L, q, policy, k)
           left(k) == Left(L, q, policy, k)
           kept == Kept(L, q, policy)
<1>1. L \in SUBSET lots /\ GoodLedger(seq, lots) /\ q <= Quantity(L)
  BY DEF LotsFor, LedgerInv, Drop, Shares
<1>2. GoodLots(L)
  BY <1>1, PartOfLedger
<1>3. lots' = (lots \ L) \cup R /\ seq' = seq
  BY DEF Drop, Rest
<1>4. Quantity(L) \in Nat
  BY <1>2, QuantityOfPart
<1> HIDE DEF L
<1>5. R = {left(k) : k \in kept} /\ GoodLots(R)
  BY <1>2, RestOfLots
<1>6. kept \in SUBSET L /\ \A k \in L : (k \in kept <=> t(k) < k.qty)
  BY DEF Kept
<1>7. ASSUME NEW k \in L
      PROVE  /\ t(k) \in 0..k.qty /\ k.qty \in Nat \ {0} /\ left(k).id = k.id
             /\ left(k).sym = k.sym /\ left(k).cost = k.cost /\ left(k).day = k.day
             /\ left(k).qty = k.qty - t(k)
  BY <1>2, LeftOfLot
<1> HIDE DEF R, t, left, kept
<1>8. \A l \in lots' : \/ l \in lots \ L
                       \/ l \in R /\ \E k \in kept : l = left(k)
  BY <1>3, <1>5
<1>9. /\ \A k \in lots : k.id \in Nat /\ k.id <= seq /\ k \in Lots
      /\ \A k, l \in lots : k.id = l.id => k = l
  BY <1>1 DEF GoodLedger, Identified, Lots
<1>10. ASSUME NEW k \in lots, NEW l \in lots', k.id = l.id
       PROVE  \/ l = k /\ k \notin L
              \/ k \in kept /\ k \in L /\ l = left(k)
  <2>1. CASE l \in lots \ L
    BY <1>9, <1>10, <2>1
  <2>2. CASE l \in R
    <3>1. PICK j \in kept : l = left(j)
      BY <1>5, <2>2
    <3>2. j = k
      BY <1>1, <1>6, <1>7, <1>9, <1>10, <3>1
    <3>3. QED
      BY <1>6, <3>1, <3>2
  <2>3. QED
    BY <1>3, <2>1, <2>2
<1>11. \A l \in lots' : \E k \in lots : k.id = l.id
  BY <1>1, <1>6, <1>7, <1>8
<1>12. GoodLedger(seq, lots')
  <2>1. IsFiniteSet(lots')
    BY <1>1, <1>3, <1>5, FS_Subset, FS_Union DEF GoodLedger, GoodLots
  <2>2. lots' \subseteq Lots
    BY <1>1, <1>3, <1>5 DEF GoodLedger, GoodLots
  <2>3. \A l \in lots' : l.id <= seq
    BY <1>9, <1>11
  <2>4. \A k, l \in lots' : k.id = l.id => k = l
    BY <1>10, <1>11
  <2>5. QED
    BY <1>1, <2>1, <2>2, <2>3, <2>4 DEF GoodLedger, Identified
<1>13. \A k \in lots, l \in lots' : k.id = l.id =>
         l.sym = k.sym /\ l.cost = k.cost /\ l.day = k.day /\ l.qty <= k.qty
  <2> SUFFICES ASSUME NEW k \in lots, NEW l \in lots', k.id = l.id
               PROVE  l.sym = k.sym /\ l.cost = k.cost /\ l.day = k.day /\ l.qty <= k.qty
    OBVIOUS
  <2>1. CASE l = k
    <3>1. k.qty \in Nat
      BY <1>9 DEF Lots
    <3>2. QED
      BY <2>1, <3>1
  <2>2. CASE k \in L /\ l = left(k)
    BY <1>7, <2>2
  <2>3. QED
    BY <1>10, <2>1, <2>2
<1>14. ASSUME NEW k \in L PROVE Sold(s)[k] = t(k)
  <2>1. Sold(s)[k] = IF \E l \in lots' : l.id = k.id
                       THEN k.qty - (CHOOSE l \in lots' : l.id = k.id).qty ELSE k.qty
    BY DEF Sold, L
  <2>2. CASE k \in kept
    <3>1. left(k) \in lots' /\ left(k).id = k.id
      BY <1>3, <1>5, <1>7, <2>2
    <3>2. \A l \in lots' : l.id = k.id => l = left(k)
      BY <1>1, <1>10
    <3>3. (CHOOSE l \in lots' : l.id = k.id) = left(k)
      BY <3>1, <3>2
    <3>4. Sold(s)[k] = k.qty - left(k).qty
      BY <2>1, <3>1, <3>3
    <3>5. QED
      BY <1>7, <3>4
  <2>3. CASE k \notin kept
    <3>1. ~\E l \in lots' : l.id = k.id
      BY <1>1, <1>10, <2>3
    <3>2. Sold(s)[k] = k.qty
      BY <2>1, <3>1
    <3>3. QED
      BY <1>6, <1>7, <2>3, <3>2
  <2>4. QED
    BY <2>2, <2>3
<1>15. Sold(s) = Taking(L, q, policy)
  <2>1. Sold(s) = [k \in L |-> Sold(s)[k]]
    BY DEF Sold, L
  <2>2. QED
    BY <1>14, <2>1 DEF Taking, t
<1>16. QED
  BY <1>1, <1>2, <1>3, <1>4, <1>11, <1>12, <1>13, <1>15 DEF L

\* A purchase adds a lot with a new id.
LEMMA BuyStep ==
  ASSUME LedgerInv, NEW s \in Symbols, NEW q \in Quantities, NEW price \in Costs,
         RecordBuy(s, q, price)
  PROVE  /\ GoodLedger(seq', lots')
         /\ seq' = seq + 1 /\ \A l \in lots' : l \in lots \/ l.id = seq'
<1> DEFINE new == [id |-> seq + 1, sym |-> s, qty |-> q, cost |-> price, day |-> today]
<1>1. lots' = lots \cup {new} /\ seq' = seq + 1
  BY DEF RecordBuy
<1>2. /\ seq \in Nat /\ lots \subseteq Lots /\ IsFiniteSet(lots) /\ today \in Nat
      /\ \A l \in lots : l.id <= seq
      /\ \A k, l \in lots : k.id = l.id => k = l
  BY DEF LedgerInv, GoodLedger, Identified
<1>3. new \in Lots /\ new.id = seq + 1
  BY <1>2, QuantitiesAssumption, CostsAssumption DEF Lots
<1> HIDE DEF new
<1>4. \A l \in lots : l.id \in Nat
  BY <1>2 DEF Lots
<1>5. IsFiniteSet(lots')
  BY <1>1, <1>2, FS_AddElement
<1>6. \A l \in lots' : l.id <= seq'
  BY <1>1, <1>2, <1>3, <1>4
<1>7. \A l \in lots' : l \in lots \/ l.id = seq'
  BY <1>1, <1>3
<1>8. \A k, l \in lots' : k.id = l.id => k = l
  BY <1>1, <1>2, <1>3, <1>4
<1>9. QED
  BY <1>1, <1>2, <1>3, <1>5, <1>6, <1>7, <1>8 DEF GoodLedger, Identified

\* Every operation keeps the invariant,
LEMMA LedgerStep == LedgerInv /\ [Next]_vars => LedgerInv'
<1> SUFFICES ASSUME LedgerInv, [Next]_vars PROVE LedgerInv'
  OBVIOUS
<1>1. CASE Load
  BY <1>1 DEF Load, LedgerInv
<1>2. ASSUME NEW s \in Symbols, NEW q \in Quantities, NEW price \in Costs, RecordBuy(s, q, price)
      PROVE  LedgerInv'
  <2>1. GoodLedger(seq', lots')
    BY <1>2, BuyStep
  <2>2. QED
    BY <1>2, <2>1 DEF RecordBuy, LedgerInv
<1>3. ASSUME NEW s \in Symbols, NEW q \in Quantities, NEW policy, Drop(s, q, policy)
      PROVE  LedgerInv'
  <2>1. GoodLedger(seq', lots')
    BY <1>3, QuantitiesAssumption, DropStep
  <2>2. QED
    BY <1>3, <2>1 DEF Drop, LedgerInv
<1>4. CASE Close
  <2>1. GoodLedger(seq', lots')
    BY <1>4, FS_EmptySet DEF Close, GoodLedger, Identified
  <2>2. QED
    BY <1>4, <2>1 DEF Close, LedgerInv
<1>5. CASE Truncate
  BY <1>5 DEF Truncate, LedgerInv
<1>6. CASE Write
  <2>1. GoodLedger(file'.seq, file'.lots) /\ file' \in [seq : Nat, lots : SUBSET Lots]
    BY <1>6 DEF Write, LedgerInv, GoodLedger
  <2>2. QED
    BY <1>6, <2>1 DEF Write, LedgerInv
<1>7. CASE NextDay \/ UNCHANGED vars
  BY <1>7 DEF NextDay, vars, LedgerInv
<1>8. QED
  BY <1>1, <1>2, <1>3, <1>4, <1>5, <1>6, <1>7 DEF Next, RecordSell, RemoveShares

\* and it holds of every ledger.
LEMMA LedgerInvHolds == Spec => []LedgerInv
<1>1. Init => LedgerInv
  BY CountersAssumption, FS_EmptySet DEF Init, LedgerInv, GoodLedger, Identified
<1>2. QED
  BY <1>1, LedgerStep, PTL DEF Spec

\* TypeOK: the counters stay numbers, and every lot in memory and in the file
\* has a symbol, a cost, a date and at least one share.
THEOREM LotTypeCorrect == Spec => []TypeOK
<1>1. LedgerInv => TypeOK
  BY DEF LedgerInv, GoodLedger, TypeOK
<1>2. QED
  BY <1>1, LedgerInvHolds, PTL

\* LotsIdentified: no lot id is used twice, in memory or in the file, over any
\* sequence of buys, sales, corrections, saves, crashes and reloads.
THEOREM LotsIdentifiedHolds == Spec => []LotsIdentified
<1>1. LedgerInv => LotsIdentified
  BY DEF LedgerInv, GoodLedger, LotsIdentified
<1>2. QED
  BY <1>1, LedgerInvHolds, PTL

\* SplitSalesCompose: a sale recorded in two fills leaves the lots that it
\* leaves when it is filled at once, under each policy.
THEOREM SplitSalesComposeHolds == Spec => []SplitSalesCompose
<1>1. ASSUME LedgerInv, NEW s \in Symbols, NEW policy \in Policies,
             NEW p \in Quantities, NEW q \in Quantities
      PROVE  Rest(Rest(LotsFor(s), p, policy), q, policy) = Rest(LotsFor(s), p + q, policy)
  <2>1. GoodLots(LotsFor(s))
    BY <1>1, PartOfLedger DEF LedgerInv, LotsFor
  <2>2. p \in Nat /\ q \in Nat
    BY QuantitiesAssumption
  <2>3. QED
    BY <2>1, <2>2, SalesCompose
<1>2. LedgerInv => SplitSalesCompose
  BY <1>1 DEF SplitSalesCompose, Rest
<1>3. QED
  BY <1>2, LedgerInvHolds, PTL

-----------------------------------------------------------------------------
(* What became of the lots that were saved.                                   *)

\* k and l are one lot, l as it is after any number of sales from k.
Remains(k, l) == l.sym = k.sym /\ l.cost = k.cost /\ l.day = k.day /\ l.qty <= k.qty

\* A ledger of counter c and lots ls knows every saved lot: the counter is past
\* it, and it is still the lot it was if it is there at all.
Knows(c, ls) ==
  \A k \in saved : k.id <= c /\ \A l \in ls : k.id = l.id => Remains(k, l)

SavedInv ==
  /\ phase # "closed" => Knows(seq, lots)
  /\ file # Torn => Knows(file.seq, file.lots)

\* Every operation keeps it: a sale shrinks lots that are there, a purchase
\* takes an id past every saved one, and only what is there is saved.
LEMMA SavedStep == LedgerInv /\ SavedInv /\ [Next]_vars => SavedInv'
<1> SUFFICES ASSUME LedgerInv, SavedInv, [Next]_vars PROVE SavedInv'
  OBVIOUS
<1>1. CASE Load
  <2>1. Knows(file.seq, file.lots) /\ seq' = file.seq /\ lots' = file.lots
    BY <1>1 DEF Load, SavedInv
  <2>2. saved' = saved /\ file' = file
    BY <1>1 DEF Load
  <2>3. QED
    BY <2>1, <2>2 DEF SavedInv, Knows
<1>2. ASSUME NEW s \in Symbols, NEW q \in Quantities, NEW price \in Costs, RecordBuy(s, q, price)
      PROVE  SavedInv'
  <2>1. /\ Knows(seq, lots) /\ (file # Torn => Knows(file.seq, file.lots))
        /\ saved' = saved /\ file' = file
    BY <1>2 DEF RecordBuy, SavedInv
  <2>2. seq' = seq + 1 /\ \A l \in lots' : l \in lots \/ l.id = seq'
    BY <1>2, BuyStep
  <2>3. seq \in Nat /\ \A k \in saved : k.id \in Nat
    BY DEF LedgerInv, GoodLedger, Lots
  <2>4. \A k \in saved : k.id <= seq /\ k.id <= seq' /\ k.id # seq'
    BY <2>1, <2>2, <2>3 DEF Knows
  <2>5. QED
    BY <2>1, <2>2, <2>4 DEF SavedInv, Knows
<1>3. ASSUME NEW s \in Symbols, NEW q \in Quantities, NEW policy, Drop(s, q, policy)
      PROVE  SavedInv'
  <2>1. /\ Knows(seq, lots) /\ (file # Torn => Knows(file.seq, file.lots))
        /\ saved' = saved /\ file' = file
    BY <1>3 DEF Drop, SavedInv
  <2>2. /\ seq' = seq /\ lots' \subseteq Lots
        /\ \A l \in lots' : \E k \in lots : k.id = l.id
        /\ \A k \in lots, l \in lots' : k.id = l.id => Remains(k, l)
    BY <1>3, QuantitiesAssumption, DropStep DEF Remains, GoodLedger
  <2>3. ASSUME NEW k \in saved, NEW l \in lots', k.id = l.id PROVE Remains(k, l)
    <3>1. PICK j \in lots : j.id = l.id
      BY <2>2
    <3>2. Remains(k, j) /\ Remains(j, l)
      BY <2>1, <2>2, <2>3, <3>1 DEF Knows
    <3>3. k.qty \in Nat /\ j.qty \in Nat /\ l.qty \in Nat
      BY <2>2 DEF LedgerInv, GoodLedger, Lots
    <3>4. QED
      BY <3>2, <3>3 DEF Remains
  <2>4. QED
    BY <2>1, <2>2, <2>3 DEF SavedInv, Knows
<1>4. CASE Close
  BY <1>4 DEF Close, SavedInv, Knows
<1>5. CASE Truncate
  BY <1>5 DEF Truncate, SavedInv, Knows
<1>6. CASE Write
  <2>1. /\ Knows(seq, lots) /\ saved' \subseteq saved \cup lots
        /\ lots' = lots /\ seq' = seq /\ file'.seq = seq /\ file'.lots = lots
    BY <1>6 DEF Write, SavedInv
  <2>2. ASSUME NEW k \in lots PROVE k.id <= seq /\ \A l \in lots : k.id = l.id => Remains(k, l)
    <3>1. k.id <= seq /\ \A l \in lots : k.id = l.id => l = k
      BY DEF LedgerInv, GoodLedger, Identified
    <3>2. k.qty \in Nat
      BY DEF LedgerInv, GoodLedger, Lots
    <3>3. Remains(k, k)
      BY <3>2 DEF Remains
    <3>4. QED
      BY <3>1, <3>3
  <2>3. \A k \in saved' : k.id <= seq /\ \A l \in lots : k.id = l.id => Remains(k, l)
    BY <2>1, <2>2 DEF Knows
  <2>4. QED
    BY <2>1, <2>3 DEF SavedInv, Knows
<1>7. CASE NextDay \/ UNCHANGED vars
  BY <1>7 DEF NextDay, vars, SavedInv, Knows
<1>8. QED
  BY <1>1, <1>2, <1>3, <1>4, <1>5, <1>6, <1>7 DEF Next, RecordSell, RemoveShares

\* BasisIsPermanent: a lot that was saved keeps its symbol, cost and date, its
\* shares only become fewer, and its id is never given to another lot, whatever
\* is bought, sold, corrected and saved, over any number of crashes and reloads.
THEOREM BasisIsPermanentHolds == Spec => []BasisIsPermanent
<1>1. Init => SavedInv
  BY DEF Init, SavedInv, Knows
<1>2. LedgerInv /\ SavedInv => BasisIsPermanent
  BY DEF LedgerInv, SavedInv, Knows, Remains, BasisIsPermanent
<1>3. QED
  BY <1>1, <1>2, LedgerInvHolds, SavedStep, PTL DEF Spec

-----------------------------------------------------------------------------
(* What a sale and a correction take. *)

\* They take what was asked, of every lot at most what it has.
LEMMA TakingIsAWay ==
  ASSUME NEW ls, GoodLots(ls), NEW q \in Nat, NEW policy \in Policies, q <= Quantity(ls)
  PROVE  Taking(ls, q, policy) \in WaysToTake(ls, q)
<1> DEFINE t == Taking(ls, q, policy)
<1>1. ASSUME NEW l \in ls PROVE t[l] \in 0..q /\ t[l] <= l.qty
  <2> DEFINE b == Quantity(Ahead(ls, policy, l))
             v == Taken(ls, q, policy, l)
             w == l.qty
  <2>1. t[l] = v
    BY DEF Taking
  <2>2. /\ b \in Nat
        /\ q <= b => v = 0
        /\ b <= q /\ q <= b + w => v = q - b
        /\ b + w <= q => v = w
        /\ v \in 0..w
    BY TakenValue
  <2>3. w \in Nat
    BY LeftOfLot
  <2> HIDE DEF b, v, w, t
  <2>4. v \in 0..q /\ v <= w
    BY <2>2, <2>3
  <2>5. QED
    BY <2>1, <2>4 DEF w
<1>2. t \in [ls -> 0..q] /\ DOMAIN t = ls
  <2>1. t = [l \in ls |-> t[l]]
    BY DEF Taking
  <2> HIDE DEF t
  <2>2. QED
    BY <1>1, <2>1
<1>3. SumFunctionOnSet(t, ls) = q
  <2>1. Segment(ls, ls, policy)
    BY AheadIsSegment
  <2>2. QED
    BY <2>1, SegmentTaken
<1> HIDE DEF t
<1>4. SumFunction(t) = q
  BY <1>2, <1>3 DEF SumFunction
<1>5. QED
  BY <1>1, <1>2, <1>4 DEF WaysToTake, t

\* CorrectionFollowsDates: a correction retires the shares it was asked to, and
\* the oldest (newest) first under "fifo" ("lifo").
THEOREM CorrectionFollowsDatesHolds == Spec => CorrectionFollowsDates
<1> DEFINE A == \A s \in Symbols, q \in Quantities :
       /\ \A policy \in Policies :
            RemoveShares(s, q, policy) => Sold(s) \in WaysToTake(LotsFor(s), q)
       /\ RemoveShares(s, q, "fifo") => \A k, l \in LotsFor(s) :
            k.day < l.day /\ Sold(s)[l] > 0 => Sold(s)[k] = k.qty
       /\ RemoveShares(s, q, "lifo") => \A k, l \in LotsFor(s) :
            k.day > l.day /\ Sold(s)[l] > 0 => Sold(s)[k] = k.qty
<1>1. ASSUME LedgerInv, NEW s \in Symbols, NEW q \in Quantities, NEW policy \in Policies,
             RemoveShares(s, q, policy)
      PROVE  /\ Sold(s) \in WaysToTake(LotsFor(s), q)
             /\ \A k, l \in LotsFor(s) : ConsumedBefore(policy, k, l) /\ Sold(s)[l] > 0 =>
                  Sold(s)[k] = k.qty
  <2>1. q \in Nat /\ Drop(s, q, policy)
    BY <1>1, QuantitiesAssumption DEF RemoveShares
  <2> DEFINE L == LotsFor(s)
  <2>2. /\ GoodLots(L) /\ q <= Quantity(L)
        /\ Sold(s) = Taking(L, q, policy)
    BY <1>1, <2>1, DropStep
  <2> HIDE DEF L
  <2>3. Sold(s) \in WaysToTake(L, q)
    BY <2>1, <2>2, TakingIsAWay
  <2>4. \A k \in L : Sold(s)[k] = Taken(L, q, policy, k)
    BY <2>2 DEF Taking
  <2>5. \A k, l \in L : ConsumedBefore(policy, k, l) /\ Sold(s)[l] > 0 => Sold(s)[k] = k.qty
    BY <2>1, <2>2, <2>4, UsedUpInOrder
  <2>6. QED
    BY <2>3, <2>5 DEF L
<1>2. LedgerInv => A
  <2> SUFFICES ASSUME LedgerInv, NEW s \in Symbols, NEW q \in Quantities
               PROVE  /\ \A policy \in Policies :
                           RemoveShares(s, q, policy) => Sold(s) \in WaysToTake(LotsFor(s), q)
                      /\ RemoveShares(s, q, "fifo") => \A k, l \in LotsFor(s) :
                           k.day < l.day /\ Sold(s)[l] > 0 => Sold(s)[k] = k.qty
                      /\ RemoveShares(s, q, "lifo") => \A k, l \in LotsFor(s) :
                           k.day > l.day /\ Sold(s)[l] > 0 => Sold(s)[k] = k.qty
    OBVIOUS
  <2>1. "fifo" \in Policies /\ "lifo" \in Policies
    BY DEF Policies
  <2>2. \A k, l \in LotsFor(s) : k.day < l.day => ConsumedBefore("fifo", k, l)
    BY DEF ConsumedBefore, OldestFirst
  <2>3. \A k, l \in LotsFor(s) : k.day > l.day => ConsumedBefore("lifo", k, l)
    <3>1. \A k \in LotsFor(s) : k.day \in Nat
      BY DEF LotsFor, LedgerInv, GoodLedger, Lots
    <3>2. QED
      BY <3>1 DEF ConsumedBefore, OldestFirst
  <2>4. QED
    BY <1>1, <2>1, <2>2, <2>3
<1>3. QED
  BY <1>2, LedgerInvHolds, PTL DEF CorrectionFollowsDates

\* The highest cost first: what is taken realises no more than any other way.
LEMMA HighestCostFirst ==
  ASSUME NEW ls, GoodLots(ls), NEW q \in Nat \ {0}, q <= Quantity(ls), NEW price \in Int,
         NEW w \in WaysToTake(ls, q)
  PROVE  GainOf(Taking(ls, q, "hifo"), price) <= GainOf(w, price)
<1> DEFINE t == Taking(ls, q, "hifo")
           touched == {l \in ls : t[l] > 0}
           gain(c) == [l \in ls |-> (price - l.cost) * c[l]]
<1>1. "hifo" \in Policies /\ q \in Nat /\ IsFiniteSet(ls) /\ ls \subseteq Lots
  BY DEF Policies, GoodLots
<1>2. t \in WaysToTake(ls, q)
  BY <1>1, TakingIsAWay
<1>3. ASSUME NEW c \in WaysToTake(ls, q)
      PROVE  /\ c \in [ls -> 0..q] /\ DOMAIN c = ls
             /\ \A l \in ls : c[l] <= l.qty
             /\ SumFunctionOnSet(c, ls) = q
  BY DEF WaysToTake, SumFunction
<1>4. \A l \in ls : l.cost \in Nat /\ l.qty \in Nat /\ l \in Lots
  BY <1>1 DEF Lots
<1>5. \A k, l \in ls : ConsumedBefore("hifo", k, l) /\ t[l] > 0 => t[k] = k.qty
  <2>1. \A l \in ls : t[l] = Taken(ls, q, "hifo", l)
    BY DEF Taking
  <2> HIDE DEF t
  <2>2. QED
    BY <1>1, <2>1, UsedUpInOrder
<1>6. \A l \in ls : t[l] > 0 <=> l \in touched
  OBVIOUS
<1> HIDE DEF t, touched, gain
<1>7. \A l \in ls : t[l] \in Nat /\ w[l] \in Nat /\ w[l] <= l.qty
  BY <1>2, <1>3
<1>8. /\ GainOf(t, price) = SumFunctionOnSet(gain(t), ls)
       /\ GainOf(w, price) = SumFunctionOnSet(gain(w), ls)
  <2>1. DOMAIN t = ls /\ DOMAIN w = ls
    BY <1>2, <1>3
  <2>2. QED
    BY <2>1 DEF GainOf, SumFunction, gain
<1>9. touched # {} /\ touched \in SUBSET ls
  <2>1. SUFFICES ASSUME touched = {} PROVE FALSE
    BY DEF touched
  <2>2. \A l \in ls : t[l] = 0
    BY <1>7, <1>6, <2>1
  <2>3. SumFunctionOnSet(t, ls) = 0
    BY <1>1, <2>2, SumZero
  <2>4. QED
    BY <1>2, <1>3, <2>3
<1>10. PICK m \in touched : \A k \in touched \ {m} : ConsumedBefore("hifo", k, m)
  BY <1>1, <1>9, LastLot
<1>11. m \in ls /\ t[m] > 0
  BY <1>6, <1>9, <1>10
<1>12. \A k, l \in ls : ConsumedBefore("hifo", k, l) => k.cost >= l.cost
  BY <1>4 DEF ConsumedBefore
<1>13. ASSUME NEW l \in ls PROVE (l.cost - m.cost) * (t[l] - w[l]) \in Nat
  <2>1. CASE l = m
    BY <1>4, <1>7, <2>1
  <2>2. CASE l \in touched \ {m}
    <3>1. l.cost - m.cost \in Nat
      BY <1>4, <1>10, <1>11, <1>12, <2>2
    <3>2. t[l] - w[l] \in Nat
      BY <1>4, <1>5, <1>7, <1>6, <1>10, <1>11, <2>2
    <3>3. QED
      BY <3>1, <3>2
  <2>3. CASE l \notin touched
    <3>1. t[l] = 0
      BY <1>7, <1>6, <2>3
    <3>2. l # m /\ l.id # m.id
      BY <1>11, <2>3, <1>10 DEF GoodLots
    <3>3. ~ConsumedBefore("hifo", l, m)
      <4>1. l.qty \in Nat \ {0}
        BY <1>4 DEF Lots
      <4>2. QED
        BY <1>5, <1>11, <3>1, <4>1
    <3>4. ConsumedBefore("hifo", m, l)
      BY <1>1, <1>4, <1>11, <3>2, <3>3, LotOrder
    <3>5. m.cost - l.cost \in Nat /\ w[l] \in Nat
      BY <1>4, <1>7, <1>11, <1>12, <3>4
    <3> DEFINE a == m.cost - l.cost
               b == l.cost - m.cost
               c == w[l]
    <3>6. b = -a
      BY <1>4, <1>11
    <3>7. t[l] - w[l] = -c
      BY <3>1, <3>5
    <3>8. a \in Nat /\ c \in Nat
      BY <3>5
    <3> HIDE DEF a, b, c
    <3>9. b * (-c) = a * c /\ a * c \in Nat
      BY <3>6, <3>8
    <3>10. QED
      BY <3>7, <3>9 DEF b
  <2>4. QED
    BY <2>1, <2>2, <2>3
<1> DEFINE K == price - m.cost
           d == [l \in ls |-> t[l] - w[l]]
           h == [l \in ls |-> K * d[l] + gain(w)[l]]
<1>14. K \in Int
  BY <1>4, <1>11
<1>15. \A l \in ls : /\ gain(w)[l] = (price - l.cost) * w[l] /\ gain(w)[l] \in Int
                     /\ gain(t)[l] = (price - l.cost) * t[l] /\ gain(t)[l] \in Int
                     /\ d[l] = t[l] - w[l] /\ d[l] \in Int
  BY <1>4, <1>7 DEF gain
<1>16. \A l \in ls : h[l] = K * d[l] + gain(w)[l]
  OBVIOUS
<1> HIDE DEF d, h
<1>17. ASSUME NEW l \in ls PROVE h[l] \in Int /\ gain(t)[l] <= h[l]
  <2> DEFINE x == t[l]
             y == w[l]
             c == l.cost
             e == m.cost
  <2>1. x \in Int /\ y \in Int /\ c \in Int /\ e \in Int /\ price \in Int
    BY <1>4, <1>7, <1>11
  <2>2. (c - e) * (x - y) \in Nat
    BY <1>13
  <2>3. h[l] = (price - e) * (x - y) + (price - c) * y /\ gain(t)[l] = (price - c) * x
    BY <1>15, <1>16
  <2> HIDE DEF x, y, c, e
  <2>4. (price - e) * (x - y) + (price - c) * y = (price - c) * x + (c - e) * (x - y)
    BY <2>1
  <2>5. (price - c) * x \in Int
    BY <2>1
  <2> DEFINE u == (price - c) * x
             v == (c - e) * (x - y)
  <2>6. h[l] = u + v /\ gain(t)[l] = u /\ u \in Int /\ v \in Nat
    BY <2>2, <2>3, <2>4, <2>5
  <2> HIDE DEF u, v
  <2>7. QED
    BY <2>6
<1>18. SumFunctionOnSet(gain(t), ls) <= SumFunctionOnSet(h, ls)
  <2>1. \A l \in ls : gain(t)[l] \in Int /\ h[l] \in Int /\ gain(t)[l] <= h[l]
    BY <1>15, <1>17
  <2> DEFINE f == gain(t)
  <2> HIDE DEF f
  <2>2. SumFunctionOnSet(f, ls) <= SumFunctionOnSet(h, ls)
    BY <1>1, <2>1, SumLeq DEF f
  <2>3. QED
    BY <2>2 DEF f
<1>19. SumFunctionOnSet(d, ls) = 0
  <2> DEFINE n == -1
  <2>1. n \in Int /\ \A l \in ls : w[l] \in Int /\ t[l] \in Int /\ d[l] = n * w[l] + t[l]
    BY <1>7, <1>15
  <2> HIDE DEF n
  <2>2. SumFunctionOnSet(d, ls) = n * SumFunctionOnSet(w, ls) + SumFunctionOnSet(t, ls)
    <3>1. IsFiniteSet(ls) /\ n \in Int /\ Linear(d, n, w, t, ls)
      BY <1>1, <2>1 DEF Linear
    <3>2. QED
      BY <3>1, SumLinear
  <2>3. SumFunctionOnSet(w, ls) = q /\ SumFunctionOnSet(t, ls) = q
    BY <1>2, <1>3
  <2>4. QED
    BY <2>2, <2>3 DEF n
<1>20. SumFunctionOnSet(h, ls) = K * SumFunctionOnSet(d, ls) + SumFunctionOnSet(gain(w), ls)
  <2> HIDE DEF K
  <2> DEFINE f == gain(w)
  <2>1. \A l \in ls : d[l] \in Int /\ f[l] \in Int /\ h[l] = K * d[l] + f[l]
    BY <1>15, <1>16
  <2> HIDE DEF f
  <2>2. SumFunctionOnSet(h, ls) = K * SumFunctionOnSet(d, ls) + SumFunctionOnSet(f, ls)
    <3>1. IsFiniteSet(ls) /\ K \in Int /\ Linear(h, K, d, f, ls)
      BY <1>1, <1>14, <2>1 DEF Linear
    <3>2. QED
      BY <3>1, SumLinear
  <2>3. QED
    BY <2>2 DEF f
<1>21. SumFunctionOnSet(gain(w), ls) \in Int
  <2> DEFINE f == gain(w)
  <2>1. \A l \in ls : f[l] \in Int
    BY <1>15
  <2> HIDE DEF f
  <2>2. SumFunctionOnSet(f, ls) \in Int
    BY <1>1, <2>1, SumInt
  <2>3. QED
    BY <2>2 DEF f
<1> DEFINE total == SumFunctionOnSet(gain(w), ls)
<1> HIDE DEF K, total
<1>22. K * 0 + total = total
  BY <1>14, <1>21 DEF total
<1>23. SumFunctionOnSet(gain(t), ls) <= SumFunctionOnSet(gain(w), ls)
  BY <1>18, <1>19, <1>20, <1>22 DEF total
<1>24. QED
  BY <1>23, <1>8 DEF t

\* estimate_realized_gain adds up, over the sales, what is taken of the lots.
LEMMA GainIsForeseen ==
  ASSUME NEW ls, GoodLots(ls), NEW q \in Nat, NEW policy, NEW price \in Int
  PROVE  RealizedGain(SelectLots(ls, q, policy), price) = GainOf(Taking(ls, q, policy), price)
<1> DEFINE t == Taking(ls, q, policy)
           touched == {l \in ls : t[l] > 0}
           sale(l) == [lot_id |-> l.id, quantity |-> t[l], cost_per_share |-> l.cost]
           h == [l \in touched |-> sale(l)]
           sales == SelectLots(ls, q, policy)
           gain == [l \in ls |-> (price - l.cost) * t[l]]
           each == [s \in sales |-> (price - s.cost_per_share) * s.quantity]
<1>1. \A l \in ls : t[l] = Taken(ls, q, policy, l)
  BY DEF Taking
<1>2. \A l \in ls : t[l] \in Nat /\ l.cost \in Nat
  <2>1. \A l \in ls : Taken(ls, q, policy, l) \in Nat
    BY TakenValue, LeftOfLot
  <2>2. QED
    BY <1>1, <2>1 DEF GoodLots, Lots
<1>3. DOMAIN t = ls
  BY DEF Taking
<1> HIDE DEF t
<1>4. sales = {sale(l) : l \in touched}
  <2>1. {k \in ls : Taken(ls, q, policy, k) > 0} = touched
    BY <1>1
  <2>2. \A l \in touched :
          [lot_id |-> l.id, quantity |-> Taken(ls, q, policy, l), cost_per_share |-> l.cost] = sale(l)
    BY <1>1
  <2>3. sales = {[lot_id |-> l.id, quantity |-> Taken(ls, q, policy, l), cost_per_share |-> l.cost] :
                   l \in touched}
    BY <2>1 DEF SelectLots
  <2> HIDE DEF touched, sale, sales
  <2>4. QED
    BY <2>2, <2>3
<1>5. \A l \in touched : h[l] = sale(l)
  OBVIOUS
<1>6. touched \in SUBSET ls /\ \A l \in ls \ touched : t[l] = 0
  BY <1>2
<1>7. \A l \in ls : gain[l] = (price - l.cost) * t[l] /\ gain[l] \in Int
  BY <1>2
<1> HIDE DEF touched, sales
<1>8. \A l \in touched : sale(l) \in sales
  BY <1>4
<1>9. \A l \in touched : each[sale(l)] = (price - l.cost) * t[l]
  BY <1>8
<1>10. \A l \in touched : sale(l).lot_id = l.id
  OBVIOUS
<1> HIDE DEF sale, h, gain, each
<1>11. sales = {h[l] : l \in touched}
  BY <1>4, <1>5
<1>12. \A k, l \in touched : h[k] = h[l] => k = l
  <2> SUFFICES ASSUME NEW k \in touched, NEW l \in touched, h[k] = h[l] PROVE k = l
    OBVIOUS
  <2>1. k.id = l.id
    BY <1>5, <1>10
  <2>2. QED
    BY <1>6, <2>1 DEF GoodLots
<1>13. \A l \in touched : gain[l] \in Int /\ gain[l] = each[h[l]]
  BY <1>5, <1>6, <1>7, <1>9
<1>14. IsFiniteSet(ls) /\ IsFiniteSet(touched)
  BY <1>6, FS_Subset DEF GoodLots
<1>15. SumFunctionOnSet(each, sales) = SumFunctionOnSet(gain, touched)
  BY <1>11, <1>12, <1>13, <1>14, SumImage
<1>16. \A l \in ls \ touched : gain[l] = 0
  <2> SUFFICES ASSUME NEW l \in ls \ touched PROVE gain[l] = 0
    OBVIOUS
  <2>1. gain[l] = (price - l.cost) * 0
    BY <1>6, <1>7
  <2>2. price - l.cost \in Int
    BY <1>2
  <2>3. QED
    BY <2>1, <2>2
<1>17. SumFunctionOnSet(gain, ls) = SumFunctionOnSet(gain, touched)
  BY <1>6, <1>7, <1>14, <1>16, SumSupport
<1>18. RealizedGain(sales, price) = SumFunctionOnSet(each, sales)
  BY DEF RealizedGain, SumFunction, each
<1>19. GainOf(t, price) = SumFunctionOnSet(gain, ls)
  BY <1>3 DEF GainOf, SumFunction, gain
<1>20. QED
  BY <1>15, <1>17, <1>18, <1>19 DEF t, sales

\* SaleMinimisesGain: what a sale takes realises the smallest gain of all ways
\* to take as much, and the gain that was foreseen for it.
THEOREM SaleMinimisesGainHolds == Spec => SaleMinimisesGain
<1> DEFINE A == \A s \in Symbols, q \in Quantities : RecordSell(s, q) =>
       /\ Sold(s) \in WaysToTake(LotsFor(s), q)
       /\ \A price \in Costs :
            /\ \A w \in WaysToTake(LotsFor(s), q) : GainOf(Sold(s), price) <= GainOf(w, price)
            /\ GainOf(Sold(s), price) =
                 RealizedGain(SelectLots(LotsFor(s), q, "hifo"), price)
<1>1. ASSUME LedgerInv, NEW s \in Symbols, NEW q \in Quantities, RecordSell(s, q)
      PROVE  /\ Sold(s) \in WaysToTake(LotsFor(s), q)
             /\ \A price \in Costs :
                  /\ \A w \in WaysToTake(LotsFor(s), q) : GainOf(Sold(s), price) <= GainOf(w, price)
                  /\ GainOf(Sold(s), price) =
                       RealizedGain(SelectLots(LotsFor(s), q, "hifo"), price)
  <2>1. q \in Nat \ {0} /\ q \in Nat /\ Drop(s, q, "hifo") /\ "hifo" \in Policies
    BY <1>1, QuantitiesAssumption DEF RecordSell, Policies
  <2> DEFINE L == LotsFor(s)
  <2>2. /\ GoodLots(L) /\ q <= Quantity(L)
        /\ Sold(s) = Taking(L, q, "hifo")
    BY <1>1, <2>1, DropStep
  <2> HIDE DEF L
  <2>3. Sold(s) \in WaysToTake(L, q)
    BY <2>1, <2>2, TakingIsAWay
  <2>4. ASSUME NEW price \in Costs, NEW w \in WaysToTake(L, q)
        PROVE  GainOf(Sold(s), price) <= GainOf(w, price)
    <3>1. price \in Int
      BY CostsAssumption
    <3>2. GainOf(Taking(L, q, "hifo"), price) <= GainOf(w, price)
      BY <2>1, <2>2, <2>4, <3>1, HighestCostFirst
    <3>3. QED
      BY <2>2, <3>2
  <2>5. ASSUME NEW price \in Costs
        PROVE  GainOf(Sold(s), price) = RealizedGain(SelectLots(L, q, "hifo"), price)
    <3>1. price \in Int
      BY CostsAssumption
    <3>2. QED
      BY <2>1, <2>2, <3>1, GainIsForeseen
  <2>6. QED
    BY <2>3, <2>4, <2>5 DEF L
<1>2. LedgerInv => A
  BY <1>1
<1>3. QED
  BY <1>2, LedgerInvHolds, PTL DEF SaleMinimisesGain

-----------------------------------------------------------------------------
(* The refinement: lots keep the share counts ShareLedger promises. *)

\* Share counts are natural numbers.
LEMMA CountsAreNumbers ==
  ASSUME NEW c, NEW ls, GoodLedger(c, ls)
  PROVE  Counted(ls) \in [Symbols -> Nat] /\ Counted(ls) # Torn
<1>1. ASSUME NEW s \in Symbols PROVE Quantity({l \in ls : l.sym = s}) \in Nat
  <2> DEFINE T == {l \in ls : l.sym = s}
  <2>1. T \in SUBSET ls
    OBVIOUS
  <2> HIDE DEF T
  <2>2. GoodLots(T)
    BY <2>1, PartOfLedger
  <2>3. QED
    BY <2>2, QuantityOfPart DEF T
<1>2. Counted(ls) \in [Symbols -> Nat]
  BY <1>1 DEF Counted
<1>3. QED
  BY <1>2, SentinelAssumption

\* No lots, no shares.
LEMMA NoLotsCountZero == Counted({}) = [s \in Symbols |-> 0]
<1>1. Quantity({}) = 0
  <2> DEFINE f == [l \in {} |-> l.qty]
  <2>1. Quantity({}) = SumFunctionOnSet(f, {})
    BY DEF Quantity, SumFunction
  <2>2. QED
    BY <2>1, SumEmpty
<1>2. \A s \in Symbols : {l \in {} : l.sym = s} = {}
  OBVIOUS
<1>3. QED
  BY <1>1, <1>2 DEF Counted

\* CountsShares: LotLedger implements ShareLedger, the ledger that the trading
\* commands rely on.
THEOREM CountsSharesHolds == Spec => CountsShares
<1> DEFINE shares == IF file = Torn THEN Torn ELSE Counted(file.lots)
<1>1. Init => Ledger!Init
  <2> SUFFICES ASSUME Init PROVE Ledger!Init
    OBVIOUS
  <2>1. /\ phase = "closed" /\ lots = {} /\ file = [seq |-> FirstSeq, lots |-> {}]
    BY DEF Init
  <2>2. file.lots = {} /\ file # Torn
    BY <2>1, CountersAssumption, SentinelAssumption
  <2>3. QED
    BY <2>1, <2>2, NoLotsCountZero DEF Ledger!Init, Ledger!NoShares
<1>2. LedgerInv /\ LedgerInv' /\ [Next]_vars => [Ledger!Next]_(Ledger!vars)
  <2> SUFFICES ASSUME LedgerInv, LedgerInv', [Next]_vars PROVE [Ledger!Next]_(Ledger!vars)
    OBVIOUS
  <2>1. /\ Counted(lots') \in [Symbols -> Nat]
        /\ file # Torn => Counted(file.lots) # Torn
        /\ phase = "closed" => lots = {}
    BY CountsAreNumbers DEF LedgerInv
  <2>2. lots' = lots /\ file' = file => Counted(lots') = Counted(lots) /\ shares' = shares
    OBVIOUS
  <2>3. CASE Load
    <3>1. Ledger!Load
      BY <2>1, <2>3 DEF Load, Ledger!Load
    <3>2. QED
      BY <3>1 DEF Ledger!Next
  <2>4. ASSUME NEW s \in Symbols, NEW q \in Quantities, NEW price \in Costs, RecordBuy(s, q, price)
        PROVE  Ledger!Next
    <3>1. Ledger!Change
      BY <2>1, <2>4 DEF RecordBuy, Ledger!Change
    <3>2. QED
      BY <3>1 DEF Ledger!Next
  <2>5. ASSUME NEW s \in Symbols, NEW q \in Quantities, NEW policy, Drop(s, q, policy)
        PROVE  Ledger!Next
    <3>1. Ledger!Change
      BY <2>1, <2>5 DEF Drop, Ledger!Change
    <3>2. QED
      BY <3>1 DEF Ledger!Next
  <2>6. CASE Close
    <3>1. Ledger!Close
      BY <2>6, NoLotsCountZero DEF Close, Ledger!Close, Ledger!NoShares
    <3>2. QED
      BY <3>1 DEF Ledger!Next
  <2>7. CASE Truncate
    <3>1. Ledger!Truncate
      BY <2>7 DEF Truncate, Ledger!Truncate
    <3>2. QED
      BY <3>1 DEF Ledger!Next
  <2>8. CASE Write
    <3>1. file' # Torn /\ file'.lots = lots
      BY <2>8, SentinelAssumption DEF Write, LedgerInv, GoodLedger
    <3>2. Ledger!Write
      BY <2>8, <3>1 DEF Write, Ledger!Write
    <3>3. QED
      BY <3>2 DEF Ledger!Next
  <2>9. CASE NextDay \/ UNCHANGED vars
    BY <2>9 DEF NextDay, vars, Ledger!vars
  <2>10. QED
    BY <2>3, <2>4, <2>5, <2>6, <2>7, <2>8, <2>9 DEF Next, RecordSell, RemoveShares
<1>3. QED
  BY <1>1, <1>2, LedgerInvHolds, PTL DEF Spec, CountsShares, Ledger!Spec
=============================================================================
