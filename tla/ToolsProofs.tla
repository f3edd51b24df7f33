------------------------------ MODULE ToolsProofs ------------------------------
(***************************************************************************)
(* Facts about the pure helpers of the codec: the columns that an iterator *)
(* names are different, and a shuffled deck holds every card.              *)
(***************************************************************************)
EXTENDS Helpers, FiniteSetTheorems, SequenceTheorems, WellFoundedInduction, TLAPS

-----------------------------------------------------------------------------
(* Least elements and recursion *)

LEMMA LeastOf ==
    ASSUME NEW S \in SUBSET Nat, S # {}
    PROVE  \E m \in S : \A x \in S : m <= x
  <1>1. IsWellFoundedOn(OpToRel(<, Nat), Nat)
    BY NatLessThanWellFounded
  <1>2. PICK m \in S : \A y \in S : ~(<<y, m>> \in OpToRel(<, Nat))
    BY <1>1, WFMin
  <1>3. \A y \in S : ~(y < m)
    BY <1>2 DEF OpToRel
  <1> QED  BY <1>3

LEMMA GreatestOf ==
    ASSUME NEW n \in Nat, NEW S \in SUBSET (0..n), S # {}
    PROVE  \E m \in S : \A x \in S : x <= m
  <1> DEFINE T == {n - x : x \in S}
  <1>1. T \in SUBSET Nat /\ T # {}
    <2>1. \A x \in S : x \in 0..n /\ n - x \in Nat
      OBVIOUS
    <2>2. \A t \in T : t \in Nat
      BY <2>1
    <2>3. PICK x \in S : TRUE
      OBVIOUS
    <2>4. n - x \in T
      BY <2>3
    <2> HIDE DEF T
    <2> QED  BY <2>2, <2>4
  <1>2. PICK t \in T : \A u \in T : t <= u
    BY <1>1, LeastOf
  <1>3. PICK m \in S : t = n - m
    BY <1>2
  <1>4. \A x \in S : n - m <= n - x
    BY <1>2, <1>3
  <1> QED  BY <1>4

\* f is defined by recursion over 0..n: G[i] leads from its value at i - 1 to its value at i.
Recursive(f, S, base, n, G) ==
  f \in [0..n -> S] /\ f[0] = base /\ \A i \in 1..n : f[i] = G[i][f[i-1]]

\* A function defined by recursion over 0..n exists, given its steps as functions.
LEMMA RecursionExists ==
    ASSUME NEW S, NEW base \in S, NEW n \in Nat, NEW G \in [1..n -> [S -> S]]
    PROVE  \E f : Recursive(f, S, base, n, G)
  <1> USE DEF Recursive
  <1> DEFINE Upto(m, f) == /\ f \in [0..m -> S] /\ f[0] = base
                           /\ \A i \in 1..m : f[i] = G[i][f[i-1]]
             Bad == {m \in 0..n : ~\E f : Upto(m, f)}
  <1>1. SUFFICES ASSUME Bad # {} PROVE FALSE
    <2>1. n \notin Bad => \E f : Upto(n, f)
      OBVIOUS
    <2> QED  BY <2>1
  <1>2. PICK m \in Bad : \A x \in Bad : m <= x
    <2>1. Bad \in SUBSET Nat
      OBVIOUS
    <2> HIDE DEF Bad
    <2> QED  BY <1>1, <2>1, LeastOf
  <1>3. m # 0
    <2>1. Upto(0, [i \in 0..0 |-> base])
      OBVIOUS
    <2> QED  BY <2>1
  <1>4. m \in 1..n /\ m - 1 \in 0..n
    BY <1>3
  <1>5. PICK f : Upto(m - 1, f)
    <2>1. m - 1 \notin Bad
      <3>1. m - 1 \in Bad => m <= m - 1
        <4> HIDE DEF Bad
        <4> QED  BY <1>2
      <3> QED  BY <1>4, <3>1
    <2> QED  BY <1>4, <2>1
  <1> DEFINE g == [i \in 0..m |-> IF i < m THEN f[i] ELSE G[m][f[m-1]]]
  <1>6. f[m-1] \in S /\ G[m][f[m-1]] \in S
    BY <1>4, <1>5
  <1>7. Upto(m, g)
    <2>1. g \in [0..m -> S] /\ g[0] = base
      BY <1>4, <1>5, <1>6
    <2>2. ASSUME NEW i \in 1..m PROVE g[i] = G[i][g[i-1]]
      <3>1. CASE i = m
        BY <1>4, <3>1
      <3>2. CASE i < m
        <4>1. i \in 1..(m - 1) /\ i \in 0..m /\ i - 1 \in 0..m /\ i - 1 < m
          BY <1>4, <3>2
        <4>2. g[i] = f[i] /\ g[i-1] = f[i-1]
          BY <3>2, <4>1
        <4> QED  BY <1>5, <4>1, <4>2
      <3> QED  BY <3>1, <3>2
    <2> QED  BY <2>1, <2>2
  <1> QED  BY <1>7

\* What holds of the first value, and passes from each value to the next, holds of all.
LEMMA StepByStep ==
    ASSUME NEW S, NEW n \in Nat, NEW f, f[0] \in S, \A i \in 1..n : f[i-1] \in S => f[i] \in S
    PROVE  \A i \in 0..n : f[i] \in S
  <1> DEFINE Bad == {i \in 0..n : f[i] \notin S}
  <1> SUFFICES ASSUME Bad # {} PROVE FALSE
    OBVIOUS
  <1>1. PICK i \in Bad : \A j \in Bad : i <= j
    <2>1. Bad \in SUBSET Nat
      OBVIOUS
    <2> HIDE DEF Bad
    <2> QED  BY <2>1, LeastOf
  <1>2. i \in 1..n /\ i - 1 \in 0..n /\ i - 1 < i
    OBVIOUS
  <1>3. i - 1 \notin Bad
    <2>1. i - 1 \in Bad => i <= i - 1
      BY <1>1
    <2> QED  BY <1>2, <2>1
  <1> QED  BY <1>2, <1>3

-----------------------------------------------------------------------------
(* The walk modulo a prime *)

\* y + a modulo p, for y and a below p.
Plus(y, a, p) == IF y + a < p THEN y + a ELSE y + a - p

LEMMA PlusIsMod ==
    ASSUME NEW p \in Nat, NEW y \in 0..(p - 1), NEW a \in 0..(p - 1)
    PROVE  (y + a) % p = Plus(y, a, p) /\ Plus(y, a, p) \in 0..(p - 1)
  BY DEF Plus

LEMMA SquaresGrow ==
    ASSUME NEW x \in Nat, NEW y \in Nat, NEW z \in Nat, x <= y
    PROVE  x * z <= y * z
  OBVIOUS

\* A number that passed the trial divisions is no product.
LEMMA PrimeHasNoFactor ==
    ASSUME NEW p \in SmallPrimes, NEW q \in Nat, NEW h \in Nat, 1 < h, h < p
    PROVE  p # q * h
  <1> SUFFICES ASSUME p = q * h PROVE FALSE
    OBVIOUS
  <1> DEFINE D == LastDivisor + 1
  <1>d. LastDivisor \in Nat /\ D \in Nat
    BY DEF LastDivisor
  <1>1. /\ p \in Nat /\ p < D * D
        /\ \A d \in Nat : 1 < d /\ d < D /\ d * d <= p => p % d # 0
    BY <1>d DEF SmallPrimes
  <1> HIDE DEF D
  <1>2. 1 < q
    <2>1. q # 0
      BY <1>1
    <2>2. q # 1
      BY <1>1
    <2> QED  BY <2>1, <2>2
  <1>3. ASSUME NEW d \in Nat, 1 < d, d * d <= p, p % d = 0 PROVE FALSE
    <2>1. d < D
      <3> SUFFICES ASSUME D <= d PROVE FALSE
        BY <1>d, <1>3
      <3>1. D * D <= d * D /\ D * d <= d * d
        BY <1>d, SquaresGrow
      <3>2. D * D \in Nat /\ d * D = D * d /\ d * d \in Nat /\ d * D \in Nat
        BY <1>d
      <3> QED  BY <1>1, <1>3, <3>1, <3>2
    <2> QED  BY <1>1, <1>3, <2>1
  <1>4. CASE h <= q
    <2>1. h * h <= q * h
      BY <1>4, SquaresGrow
    <2>2. p % h = 0
      OBVIOUS
    <2> QED  BY <1>3, <2>1, <2>2
  <1>5. CASE q <= h
    <2>1. q * q <= h * q /\ h * q = q * h
      BY <1>5, SquaresGrow
    <2>2. p % q = 0
      BY <1>2
    <2> QED  BY <1>2, <1>3, <2>1, <2>2
  <1> QED  BY <1>4, <1>5

\* Adding a again and again, from wherever, visits every residue modulo a prime.
LEMMA ClosedIsAll ==
    ASSUME NEW p \in SmallPrimes, NEW a \in 1..(p - 1), NEW D \in SUBSET (0..(p - 1)), D # {},
           \A y \in D : Plus(y, a, p) \in D
    PROVE  D = 0..(p - 1)
  <1>p. p \in Nat /\ 2 <= p /\ p - 1 \in Nat
    <2> HIDE DEF LastDivisor
    <2>1. LastDivisor \in Nat
      BY DEF LastDivisor
    <2> QED  BY <2>1 DEF SmallPrimes
  <1> DEFINE Z == 0..(p - 1)
             H == {h \in Z : \A d \in D : Plus(d, h, p) \in D}
  <1>a. a \in H /\ a > 0
    BY <1>p
  <1>1. \A h, k \in H : Plus(h, k, p) \in H
    <2> SUFFICES ASSUME NEW h \in H, NEW k \in H PROVE Plus(h, k, p) \in H
      OBVIOUS
    <2>1. Plus(h, k, p) \in Z
      BY <1>p DEF Plus
    <2>2. ASSUME NEW d \in D PROVE Plus(d, Plus(h, k, p), p) \in D
      <3>1. Plus(Plus(d, h, p), k, p) \in D
        OBVIOUS
      <3>2. d \in Z /\ h \in Z /\ k \in Z
        OBVIOUS
      <3> HIDE DEF H
      <3>3. Plus(d, Plus(h, k, p), p) = Plus(Plus(d, h, p), k, p)
        BY <1>p, <3>2 DEF Plus
      <3> QED  BY <3>1, <3>3
    <2> QED  BY <2>1, <2>2
  <1>2. H \in SUBSET Z /\ Z \in SUBSET Nat
    OBVIOUS
  <1> HIDE DEF H
  <1>3. PICK h \in H : h > 0 /\ \A x \in H : x > 0 => h <= x
    <2> DEFINE P == {x \in H : x > 0}
    <2>1. P \in SUBSET Nat /\ P # {}
      BY <1>a, <1>2
    <2>2. PICK m \in P : \A x \in P : m <= x
      <3> HIDE DEF P
      <3> QED  BY <2>1, LeastOf
    <2> QED  BY <2>2
  <1>4. h \in Nat /\ h < p
    BY <1>p, <1>2, <1>3
  <1>5. p - h \in H
    <2>1. PICK m \in H : \A x \in H : x <= m
      <3>1. H # {} /\ H \in SUBSET (0..(p - 1))
        BY <1>a, <1>2
      <3> HIDE DEF Z
      <3> QED  BY <1>p, <3>1, GreatestOf
    <2>2. m \in Nat /\ m < p /\ h <= m
      BY <1>p, <1>2, <1>3, <2>1
    <2>3. Plus(m, h, p) \in H
      BY <1>1
    <2>4. ~(m + h < p)
      BY <1>3, <1>4, <2>1, <2>2, <2>3 DEF Plus
    <2>5. m + h - p \in H
      BY <2>3, <2>4 DEF Plus
    <2>6. m + h - p = 0
      BY <1>p, <1>3, <1>4, <2>2, <2>4, <2>5
    <2>7. m = p - h
      BY <1>p, <1>4, <2>2, <2>6
    <2> QED  BY <2>7
  <1>6. \A x \in H : \E q \in Nat : x = q * h
    <2> DEFINE Bad == {x \in H : ~\E q \in Nat : x = q * h}
    <2> SUFFICES ASSUME Bad # {} PROVE FALSE
      OBVIOUS
    <2>1. Bad \in SUBSET Nat
      BY <1>2
    <2>2. PICK x \in Bad : \A y \in Bad : x <= y
      <3> HIDE DEF Bad
      <3> QED  BY <2>1, LeastOf
    <2>3. x \in H /\ x \in Nat /\ x < p
      BY <1>p, <1>2
    <2>4. x # 0
      <3>1. 0 = 0 * h /\ 0 \in Nat
        BY <1>4
      <3> QED  BY <3>1
    <2>5. h <= x
      BY <1>3, <2>3, <2>4
    <2>6. Plus(x, p - h, p) = x - h
      BY <1>p, <1>4, <2>3, <2>5 DEF Plus
    <2>7. x - h \in H /\ x - h < x /\ x - h \in Nat
      <3>1. Plus(x, p - h, p) \in H
        BY <1>1, <1>5, <2>3
      <3> QED  BY <1>3, <1>4, <2>3, <2>5, <2>6, <3>1
    <2>8. x - h \notin Bad
      <3>1. x - h \in Bad => x <= x - h
        BY <2>2
      <3> QED  BY <2>3, <2>7, <3>1
    <2>9. PICK q \in Nat : x - h = q * h
      BY <2>7, <2>8
    <2>10. x = (q + 1) * h
      BY <1>4, <2>3, <2>9
    <2> QED  BY <2>10
  <1>7. h = 1
    <2>1. PICK q \in Nat : p - h = q * h
      BY <1>5, <1>6
    <2>2. p = (q + 1) * h
      BY <1>p, <1>4, <2>1
    <2>3. ~(1 < h)
      <3>1. q + 1 \in Nat
        OBVIOUS
      <3> QED  BY <1>4, <2>2, <3>1, PrimeHasNoFactor
    <2> QED  BY <1>3, <1>4, <2>3
  <1>8. \A y \in D : Plus(y, 1, p) \in D
    <2>1. 1 \in H
      BY <1>3, <1>7
    <2> QED  BY <2>1 DEF H
  <1>9. 0 \in D
    <2>1. PICK m \in D : \A x \in D : x <= m
      <3> HIDE DEF Z
      <3> QED  BY <1>p, GreatestOf
    <2>2. m \in Nat /\ m < p
      BY <1>p
    <2>3. Plus(m, 1, p) \in D
      BY <1>8
    <2>4. ~(m + 1 < p)
      BY <1>p, <2>1, <2>2, <2>3 DEF Plus
    <2> QED  BY <1>p, <2>2, <2>3, <2>4 DEF Plus
  <1>10. Z \subseteq D
    <2> DEFINE Out == Z \ D
    <2> SUFFICES ASSUME Out # {} PROVE FALSE
      OBVIOUS
    <2>1. Out \in SUBSET Nat
      BY <1>2
    <2>2. PICK x \in Out : \A y \in Out : x <= y
      <3> HIDE DEF Out
      <3> QED  BY <2>1, LeastOf
    <2>3. x \in Nat /\ x < p /\ x # 0 /\ x \notin D
      BY <1>p, <1>9
    <2>4. x - 1 \in Z /\ x - 1 < x
      BY <1>p, <2>3
    <2>5. x - 1 \notin Out
      <3>1. x - 1 \in Out => x <= x - 1
        BY <2>2
      <3> QED  BY <2>3, <2>4, <3>1
    <2>6. x - 1 \in D
      BY <2>4, <2>5
    <2>7. Plus(x - 1, 1, p) = x
      BY <1>p, <2>3 DEF Plus
    <2> QED  BY <1>8, <2>3, <2>6, <2>7
  <1> QED  BY <1>10

-----------------------------------------------------------------------------
(* The columns of a row *)

\* A remainder is the one number of its range that differs by a multiple.
LEMMA RemainderIs ==
    \A y, q, r \in Int, a \in Nat : a > 0 /\ y = q * a + r /\ 0 <= r /\ r < a => y % a = r
  OBVIOUS

LEMMA RemainderAfterOne ==
    ASSUME NEW y \in Int, NEW a \in Nat, a > 0
    PROVE  (y + a) % a = y % a
  <1>1. /\ y = a * (y \div a) + (y % a) /\ y \div a \in Int
        /\ y % a \in Int /\ 0 <= y % a /\ y % a < a
    OBVIOUS
  <1>2. PICK q \in Int, r \in Int : y = a * q + r /\ r = y % a /\ 0 <= r /\ r < a
    BY <1>1
  <1>3. y + a = (q + 1) * a + r
    BY <1>2
  <1>4. y + a \in Int /\ q + 1 \in Int
    OBVIOUS
  <1> QED  BY <1>2, <1>3, <1>4, RemainderIs

LEMMA RemainderAfterTwo ==
    ASSUME NEW y \in Int, NEW a \in Nat, NEW b \in Int, 0 <= b, b < a, b = y + 2 * a
    PROVE  y % a = b
  <1>1. y = (-2) * a + b
    OBVIOUS
  <1> QED  BY <1>1, RemainderIs

\* Where the walk comes back below n when it has reached y.
Landing(y, n, p, a) ==
  IF y < n THEN y ELSE IF a >= p - y THEN a - (p - y) ELSE (-(p - y)) % a

RowWalk(n, p, a) ==
  p \in SmallPrimes /\ p \in Nat /\ n \in Nat /\ n <= p /\ a \in Nat /\ 0 < a /\ a < n

\* One step of the iterator is one step of the walk and the way back.
LEMMA StepLands ==
    ASSUME NEW n, NEW p, NEW a, RowWalk(n, p, a), NEW x \in 0..(p - 1)
    PROVE  IterateNextColumn(x, n, p, a) = Landing(Plus(x, a, p), n, p, a)
  <1>1. (x + a) % p = Plus(x, a, p)
    <2>1. p \in Nat /\ a \in 0..(p - 1)
      BY DEF RowWalk
    <2> QED  BY <2>1, PlusIsMod
  <1> DEFINE y == Plus(x, a, p)
  <1>2. IterateNextColumn(x, n, p, a)
          = IF y < n THEN y ELSE IF a >= p - y THEN a - (p - y) ELSE (-(p - y)) % a
    BY <1>1, Zenon DEF IterateNextColumn
  <1> QED  BY <1>2, Zenon DEF Landing

\* The way back ends below n, and a further step of the walk above n does not change it.
LEMMA LandingFacts ==
    ASSUME NEW n, NEW p, NEW a, RowWalk(n, p, a), NEW y \in 0..(p - 1)
    PROVE  /\ Landing(y, n, p, a) \in 0..(n - 1)
           /\ y >= n => Landing(Plus(y, a, p), n, p, a) = Landing(y, n, p, a)
  <1>1. /\ p \in Nat /\ n \in Nat /\ n <= p /\ a \in Nat /\ 0 < a /\ a < n
        /\ y \in Nat /\ y < p
    BY DEF RowWalk
  <1> DEFINE d == p - y
  <1>2. d \in Nat /\ 0 < d
    BY <1>1
  <1> HIDE DEF d
  <1>3. (-d) % a \in 0..(a - 1)
    BY <1>1, <1>2
  <1>4. Landing(y, n, p, a) \in 0..(n - 1)
    <2>1. CASE y < n
      BY <1>1, <2>1 DEF Landing
    <2>2. CASE ~(y < n) /\ a >= d
      <3>1. Landing(y, n, p, a) = a - d
        BY <2>2 DEF Landing, d
      <3> QED  BY <1>1, <1>2, <2>2, <3>1
    <2>3. CASE ~(y < n) /\ ~(a >= d)
      <3>1. Landing(y, n, p, a) = (-d) % a
        BY <2>3 DEF Landing, d
      <3> QED  BY <1>1, <1>3, <3>1
    <2> QED  BY <2>1, <2>2, <2>3
  <1>5. ASSUME y >= n PROVE Landing(Plus(y, a, p), n, p, a) = Landing(y, n, p, a)
    <2>1. CASE a >= d
      <3>1. Plus(y, a, p) = a - d /\ a - d < n
        BY <1>1, <1>2, <2>1 DEF Plus, d
      <3>2. Landing(y, n, p, a) = a - d
        BY <1>1, <1>5, <2>1 DEF Landing, d
      <3> QED  BY <3>1, <3>2 DEF Landing
    <2>2. CASE ~(a >= d)
      <3>1. Plus(y, a, p) = y + a /\ ~(y + a < n) /\ p - (y + a) = d - a
        BY <1>1, <1>2, <1>5, <2>2 DEF Plus, d
      <3>2. Landing(y, n, p, a) = (-d) % a
        BY <1>1, <1>5, <2>2 DEF Landing, d
      <3>3. CASE a >= d - a
        <4>1. Landing(y + a, n, p, a) = a - (d - a)
          BY <3>1, <3>3 DEF Landing
        <4>2. (-d) % a = a - (d - a)
          <5> DEFINE b == a - (d - a)
                     z == -d
          <5>1. b = z + 2 * a /\ 0 <= b /\ b < a /\ b \in Int /\ z \in Int
            BY <1>1, <1>2, <2>2, <3>3
          <5> HIDE DEF b, z
          <5>2. z % a = b
            BY <1>1, <5>1, RemainderAfterTwo
          <5> QED  BY <5>2 DEF b, z
        <4> QED  BY <3>1, <3>2, <4>1, <4>2
      <3>4. CASE ~(a >= d - a)
        <4>1. Landing(y + a, n, p, a) = (-(d - a)) % a
          BY <3>1, <3>4 DEF Landing
        <4>2. -(d - a) = -d + a
          BY <1>1, <1>2
        <4>3. (-d + a) % a = (-d) % a
          <5> DEFINE z == -d
          <5>1. z \in Int
            BY <1>2
          <5> HIDE DEF z
          <5>2. (z + a) % a = z % a
            BY <1>1, <5>1, RemainderAfterOne
          <5> QED  BY <5>2 DEF z
        <4> QED  BY <3>1, <3>2, <4>1, <4>2, <4>3
      <3> QED  BY <3>3, <3>4
    <2> QED  BY <2>1, <2>2
  <1> QED  BY <1>4, <1>5

\* Columns that the iterator does not leave are all the columns.
LEMMA OrbitIsAll ==
    ASSUME NEW n, NEW p, NEW a, RowWalk(n, p, a), NEW C \in SUBSET (0..(n - 1)), C # {},
           \A x \in C : IterateNextColumn(x, n, p, a) \in C
    PROVE  C = 0..(n - 1)
  <1>1. p \in SmallPrimes /\ p \in Nat /\ n \in Nat /\ n <= p /\ a \in Nat /\ 0 < a /\ a < n
    BY DEF RowWalk
  <1> DEFINE D == {y \in 0..(p - 1) : Landing(y, n, p, a) \in C}
  <1>2. \A x \in 0..(n - 1) : x \in 0..(p - 1) /\ Landing(x, n, p, a) = x
    BY <1>1 DEF Landing
  <1>3. D # {}
    <2>1. PICK x \in C : TRUE
      OBVIOUS
    <2>2. x \in D
      BY <1>2, <2>1
    <2> QED  BY <2>2
  <1>4. ASSUME NEW y \in D PROVE Plus(y, a, p) \in D
    <2>1. y \in 0..(p - 1) /\ Landing(y, n, p, a) \in C
      OBVIOUS
    <2>2. Plus(y, a, p) \in 0..(p - 1)
      BY <1>1, <2>1, PlusIsMod
    <2>3. CASE y < n
      <3>1. y \in C
        BY <2>1, <2>3 DEF Landing
      <3>2. IterateNextColumn(y, n, p, a) = Landing(Plus(y, a, p), n, p, a)
        BY <2>1, StepLands
      <3> QED  BY <2>2, <3>1, <3>2
    <2>4. CASE y >= n
      BY <2>1, <2>2, <2>4, LandingFacts
    <2> QED  BY <1>1, <2>1, <2>3, <2>4
  <1>5. D = 0..(p - 1)
    <2>1. D \in SUBSET (0..(p - 1)) /\ a \in 1..(p - 1)
      BY <1>1
    <2> HIDE DEF D
    <2> QED  BY <1>1, <1>3, <1>4, <2>1, ClosedIsAll
  <1>6. \A x \in 0..(n - 1) : x \in C
    BY <1>2, <1>5
  <1> QED  BY <1>6
\* One step of the iterator stays below n.
LEMMA StepStays ==
    ASSUME NEW n, NEW p, NEW a, RowWalk(n, p, a), NEW x \in 0..(n - 1)
    PROVE  IterateNextColumn(x, n, p, a) \in 0..(n - 1)
  <1>1. p \in Nat /\ n \in Nat /\ n <= p /\ a \in Nat /\ 0 < a /\ a < n
    BY DEF RowWalk
  <1>2. x \in 0..(p - 1) /\ a \in 0..(p - 1)
    BY <1>1
  <1>3. Plus(x, a, p) \in 0..(p - 1)
    BY <1>1, <1>2, PlusIsMod
  <1> QED  BY <1>2, <1>3, StepLands, LandingFacts

Stepwise(columns, first, count, n, p, a) ==
  /\ columns \in [1..count -> 0..(n - 1)]
  /\ columns[1] = first
  /\ \A i \in 2..count : columns[i] = IterateNextColumn(columns[i-1], n, p, a)

\* Each column is a step of the iterator from the one before it.
LEMMA ColumnsStep ==
    ASSUME NEW n, NEW p, NEW a, RowWalk(n, p, a), NEW first \in 0..(n - 1),
           NEW count \in Nat, 0 < count
    PROVE  Stepwise(IteratedColumns(first, count, n, p, a), first, count, n, p, a)
  <1> DEFINE S == 0..(n - 1)
             Step == [x \in S |-> IterateNextColumn(x, n, p, a)]
             G == [i \in 1..(count - 1) |-> Step]
             IsCol(c) == c = [i \in 1..count |->
                                IF i = 1 THEN first ELSE IterateNextColumn(c[i-1], n, p, a)]
             col == CHOOSE c : IsCol(c)
             columns == IteratedColumns(first, count, n, p, a)
  <1>1. Step \in [S -> S]
    BY StepStays
  <1>2. \E c \in [1..count -> S] : IsCol(c)
    <2>1. G \in [1..(count - 1) -> [S -> S]] /\ count - 1 \in Nat
      BY <1>1
    <2>2. PICK f : Recursive(f, S, first, count - 1, G)
      <3>1. first \in S
        OBVIOUS
      <3> HIDE DEF S, G
      <3> QED  BY <2>1, <3>1, RecursionExists
    <2>f. /\ f \in [0..(count - 1) -> S] /\ f[0] = first
          /\ \A i \in 1..(count - 1) : f[i] = G[i][f[i-1]]
      BY <2>2 DEF Recursive
    <2> DEFINE c == [i \in 1..count |-> f[i-1]]
    <2>3. c \in [1..count -> S]
      BY <2>f
    <2>4. \A i \in 1..(count - 1) : f[i-1] \in S /\ G[i][f[i-1]] = IterateNextColumn(f[i-1], n, p, a)
      BY <2>f
    <2>5. ASSUME NEW i \in 1..count
          PROVE  c[i] = IF i = 1 THEN first ELSE IterateNextColumn(c[i-1], n, p, a)
      <3> HIDE DEF G
      <3>1. CASE i = 1
        BY <2>f, <3>1
      <3>2. CASE i # 1
        <4>1. i - 1 \in 1..(count - 1) /\ i - 1 \in 1..count
          BY <3>2
        <4>2. c[i] = f[i-1] /\ c[i-1] = f[(i-1)-1]
          BY <4>1
        <4>3. f[i-1] = G[i-1][f[(i-1)-1]]
          BY <2>f, <4>1
        <4>4. G[i-1][f[(i-1)-1]] = IterateNextColumn(f[(i-1)-1], n, p, a)
          BY <2>4, <4>1, Zenon
        <4> QED  BY <3>2, <4>2, <4>3, <4>4, Zenon
      <3> QED  BY <3>1, <3>2
    <2>6. IsCol(c)
      BY <2>5
    <2> QED  BY <2>3, <2>6
  <1>3. IsCol(col)
    <2> HIDE DEF IsCol
    <2> QED  BY <1>2
  <1>4. columns = [i \in 1..count |-> col[i]]
    BY DEF IteratedColumns
  <1> HIDE DEF col, columns
  <1>5. columns = col
    BY <1>3, <1>4
  <1>6. \A i \in 1..count : columns[i] = IF i = 1 THEN first
                                         ELSE IterateNextColumn(columns[i-1], n, p, a)
    BY <1>3, <1>5
  <1>7. \E f \in [1..count -> S] : IsCol(f)
    BY <1>2
  <1>8. \A i \in 1..count : columns[i] \in S
    <2> DEFINE Bad == {i \in 1..count : columns[i] \notin S}
    <2> SUFFICES ASSUME Bad # {} PROVE FALSE
      OBVIOUS
    <2>1. Bad \in SUBSET Nat
      OBVIOUS
    <2>2. PICK i \in Bad : \A j \in Bad : i <= j
      <3> HIDE DEF Bad
      <3> QED  BY <2>1, LeastOf
    <2>3. i # 1
      BY <1>6
    <2>4. i - 1 \in 1..count /\ i - 1 < i
      BY <2>3
    <2>5. i - 1 \notin Bad
      <3>1. i - 1 \in Bad => i <= i - 1
        BY <2>2
      <3> QED  BY <2>4, <3>1
    <2>6. columns[i-1] \in S
      BY <2>4, <2>5
    <2>7. columns[i] \in S
      BY <1>6, <2>3, <2>6, StepStays
    <2> QED  BY <2>7
  <1>9. columns \in [1..count -> S]
    BY <1>4, <1>8
  <1>10. columns[1] = first
    BY <1>6
  <1>11. \A i \in 2..count : columns[i] = IterateNextColumn(columns[i-1], n, p, a)
    <2>1. \A i \in 2..count : i \in 1..count /\ i # 1
      OBVIOUS
    <2> QED  BY <1>6, <2>1, Zenon
  <1>12. Stepwise(columns, first, count, n, p, a)
    BY <1>9, <1>10, <1>11 DEF Stepwise
  <1> QED  BY <1>12 DEF columns

\* However many columns are asked of a row, up to all of them, they are different.
LEMMA ColumnsDistinct ==
    ASSUME NEW n, NEW p, NEW a, RowWalk(n, p, a), NEW first \in 0..(n - 1),
           NEW count \in 1..n
    PROVE  LET columns == IteratedColumns(first, count, n, p, a)
           IN columns \in [1..count -> 0..(n - 1)] /\ Distinct(columns)
  <1> DEFINE columns == IteratedColumns(first, count, n, p, a)
  <1>n. n \in Nat
    BY DEF RowWalk
  <1>1. /\ columns \in [1..count -> 0..(n - 1)]
        /\ \A i \in 2..count : columns[i] = IterateNextColumn(columns[i-1], n, p, a)
    <2>1. count \in Nat /\ 0 < count
      BY <1>n
    <2>2. Stepwise(columns, first, count, n, p, a)
      BY <2>1, ColumnsStep
    <2> HIDE DEF columns
    <2> QED  BY <2>2 DEF Stepwise
  <1> HIDE DEF columns
  <1>2. ASSUME NEW i \in 1..count, NEW j \in 1..count, i < j, columns[i] = columns[j]
        PROVE  FALSE
    <2> DEFINE C == {columns[k] : k \in i..(j - 1)}
               f == [k \in i..(j - 1) |-> columns[k]]
    <2>1. \A k \in i..(j - 1) : k \in 1..count /\ k + 1 \in 2..count /\ (k + 1) - 1 = k
      BY <1>n
    <2>2. C \in SUBSET (0..(n - 1)) /\ C # {}
      <3>1. columns[i] \in C /\ i \in i..(j - 1)
        BY <1>2
      <3> QED  BY <1>1, <2>1, <3>1
    <2>3. ASSUME NEW x \in C PROVE IterateNextColumn(x, n, p, a) \in C
      <3>1. PICK k \in i..(j - 1) : x = columns[k]
        OBVIOUS
      <3>2. IterateNextColumn(x, n, p, a) = columns[k + 1]
        BY <1>1, <2>1, <3>1
      <3>3. CASE k = j - 1
        <4>1. columns[k + 1] = columns[i] /\ i \in i..(j - 1)
          BY <1>2, <3>3
        <4> QED  BY <3>2, <4>1
      <3>4. CASE k < j - 1
        <4>1. k + 1 \in i..(j - 1)
          BY <3>4
        <4> QED  BY <3>2, <4>1
      <3> QED  BY <3>3, <3>4
    <2>4. C = 0..(n - 1)
      <3> HIDE DEF C
      <3> QED  BY <2>2, <2>3, OrbitIsAll
    <2>5. f \in Surjection(i..(j - 1), 0..(n - 1))
      <3>1. \A k \in i..(j - 1) : f[k] \in 0..(n - 1)
        BY <1>1, <2>1
      <3>2. \A t \in 0..(n - 1) : \E k \in i..(j - 1) : f[k] = t
        BY <2>4
      <3> QED  BY <3>1, <3>2 DEF Surjection
    <2>6. IsFiniteSet(i..(j - 1)) /\ Cardinality(i..(j - 1)) = (j - 1) - i + 1
      BY <1>2, FS_Interval
    <2>7. Cardinality(0..(n - 1)) = n
      BY <1>n, FS_Interval
    <2>8. Cardinality(0..(n - 1)) <= Cardinality(i..(j - 1))
      <3> HIDE DEF f
      <3> QED  BY <2>5, <2>6, FS_Surjection
    <2> QED  BY <1>n, <2>6, <2>7, <2>8
  <1>3. Distinct(columns)
    <2> SUFFICES ASSUME NEW i \in 1..count, NEW j \in 1..count, i # j, columns[i] = columns[j]
                 PROVE  FALSE
      BY <1>1 DEF Distinct
    <2>1. CASE i < j
      BY <1>2, <2>1
    <2>2. CASE j < i
      BY <1>2, <2>2
    <2> QED  BY <2>1, <2>2
  <1> QED  BY <1>1, <1>3 DEF columns
-----------------------------------------------------------------------------
(* The generator's draws are numbers *)

\* The finite functions that the helpers turn into tuples are tuples already.
LEMMA TupleOf ==
    ASSUME NEW n \in Nat, NEW f \in [1..n -> Nat]
    PROVE  f \o <<>> = f /\ f \in Seq(Nat) /\ Len(f) = n
  <1>1. f \in Seq(Nat)
    BY SeqDef
  <1>2. f \o <<>> = f
    BY <1>1, ConcatEmptySeq
  <1> QED  BY <1>1, <1>2

LEMMA SumIsNumber ==
    ASSUME NEW n \in Nat, NEW term \in [1..n -> Nat]
    PROVE  SumOf(term, n) \in Nat
  <1> DEFINE G == [i \in 1..n |-> [v \in Nat |-> v + term[i]]]
             IsSum(h) == h = [i \in 0..n |-> IF i = 0 THEN 0 ELSE h[i-1] + term[i]]
             sum == CHOOSE h : IsSum(h)
  <1>1. G \in [1..n -> [Nat -> Nat]]
    OBVIOUS
  <1>2. \A i \in 1..n, v \in Nat : G[i][v] = v + term[i]
    OBVIOUS
  <1>3. PICK f : Recursive(f, Nat, 0, n, G)
    <2> HIDE DEF G
    <2> QED  BY <1>1, RecursionExists
  <1> HIDE DEF G
  <1>4. f \in [0..n -> Nat] /\ f[0] = 0 /\ \A i \in 1..n : f[i] = f[i-1] + term[i]
    <2>1. f \in [0..n -> Nat] /\ f[0] = 0 /\ \A i \in 1..n : f[i] = G[i][f[i-1]]
      BY <1>3 DEF Recursive
    <2>2. \A i \in 1..n : f[i-1] \in Nat
      BY <2>1
    <2> QED  BY <1>2, <2>1, <2>2
  <1>5. IsSum(f)
    BY <1>4
  <1>6. IsSum(sum)
    <2> HIDE DEF IsSum
    <2> QED  BY <1>5
  <1>7. SumOf(term, n) = sum[n]
    BY DEF SumOf
  <1> HIDE DEF sum
  <1>8. sum[0] = 0 /\ \A i \in 1..n : sum[i] = sum[i-1] + term[i]
    BY <1>6
  <1>9. \A i \in 0..n : sum[i] \in Nat
    <2>1. \A i \in 1..n : sum[i-1] \in Nat => sum[i] \in Nat
      BY <1>8
    <2>2. sum[0] \in Nat
      BY <1>8
    <2> QED  BY <2>1, <2>2, StepByStep
  <1> QED  BY <1>7, <1>9

LEMMA BinarySteps ==
    ASSUME NEW n \in Nat, NEW bit \in [1..n -> Nat]
    PROVE  \E val : /\ val[0] = 0 /\ \A i \in 1..n : val[i] = 2 * val[i-1] + bit[i]
                    /\ \A i \in 0..n : val[i] \in Nat
                    /\ Binary(bit, n) = val[n]
  <1> DEFINE G == [i \in 1..n |-> [v \in Nat |-> 2 * v + bit[i]]]
             IsVal(h) == h = [i \in 0..n |-> IF i = 0 THEN 0 ELSE 2 * h[i-1] + bit[i]]
             val == CHOOSE h : IsVal(h)
  <1>1. G \in [1..n -> [Nat -> Nat]]
    OBVIOUS
  <1>2. \A i \in 1..n, v \in Nat : G[i][v] = 2 * v + bit[i]
    OBVIOUS
  <1>3. PICK f : Recursive(f, Nat, 0, n, G)
    <2> HIDE DEF G
    <2> QED  BY <1>1, RecursionExists
  <1> HIDE DEF G
  <1>4. f \in [0..n -> Nat] /\ f[0] = 0 /\ \A i \in 1..n : f[i] = 2 * f[i-1] + bit[i]
    <2>1. f \in [0..n -> Nat] /\ f[0] = 0 /\ \A i \in 1..n : f[i] = G[i][f[i-1]]
      BY <1>3 DEF Recursive
    <2>2. \A i \in 1..n : f[i-1] \in Nat
      BY <2>1
    <2> QED  BY <1>2, <2>1, <2>2
  <1>5. IsVal(f)
    BY <1>4
  <1>6. IsVal(val)
    <2> HIDE DEF IsVal
    <2> QED  BY <1>5
  <1>7. Binary(bit, n) = val[n]
    BY DEF Binary
  <1> HIDE DEF val
  <1>8. val[0] = 0 /\ \A i \in 1..n : val[i] = 2 * val[i-1] + bit[i]
    BY <1>6
  <1>9. \A i \in 0..n : val[i] \in Nat
    <2>1. \A i \in 1..n : val[i-1] \in Nat => val[i] \in Nat
      BY <1>8
    <2>2. val[0] \in Nat
      BY <1>8
    <2> QED  BY <2>1, <2>2, StepByStep
  <1> QED  BY <1>7, <1>8, <1>9

LEMMA BinaryIsNumber ==
    ASSUME NEW n \in Nat, NEW bit \in [1..n -> Nat]
    PROVE  Binary(bit, n) \in Nat
  BY BinarySteps

LEMMA ByteIsByte ==
    ASSUME NEW bit \in [1..8 -> {0, 1}]
    PROVE  Binary(bit, 8) \in 0..255
  <1>1. \A i \in 1..8 : bit[i] \in {0, 1}
    OBVIOUS
  <1>2. PICK val : /\ val[0] = 0 /\ \A i \in 1..8 : val[i] = 2 * val[i-1] + bit[i]
                   /\ \A i \in 0..8 : val[i] \in Nat
                   /\ Binary(bit, 8) = val[8]
    <2>1. bit \in [1..8 -> Nat]
      BY <1>1
    <2> QED  BY <2>1, BinarySteps
  <1>3. \A i \in 0..7 : val[i+1] = 2 * val[i] + bit[i+1] /\ bit[i+1] \in {0, 1}
    <2> TAKE i \in 0..7
    <2>1. i + 1 \in 1..8 /\ (i + 1) - 1 = i
      OBVIOUS
    <2> QED  BY <1>1, <1>2, <2>1
  <1>4. val[0] \in 0..0
    BY <1>2
  <1>5. val[1] \in 0..1
    BY <1>3, <1>4
  <1>6. val[2] \in 0..3
    BY <1>3, <1>5
  <1>7. val[3] \in 0..7
    BY <1>3, <1>6
  <1>8. val[4] \in 0..15
    BY <1>3, <1>7
  <1>9. val[5] \in 0..31
    BY <1>3, <1>8
  <1>10. val[6] \in 0..63
    BY <1>3, <1>9
  <1>11. val[7] \in 0..127
    BY <1>3, <1>10
  <1>12. val[8] \in 0..255
    BY <1>3, <1>11
  <1> QED  BY <1>2, <1>12

\* A 64-bit word as the tuple of its bytes.
Words == [1..8 -> Nat]

LEMMA ProductIsWord ==
    ASSUME NEW a \in Words, NEW b \in Words, NEW c \in Words
    PROVE  MulAdd64(a, b, c) \in Words
  <1> DEFINE Term(i) == SumOf([j \in 1..i |-> a[j] * b[i+1-j]], i)
             G == [i \in 1..8 |-> [v \in Nat |-> v \div 256 + c[i] + Term(i)]]
             IsCol(h) == h = [i \in 0..8 |-> IF i = 0 THEN 0
                                             ELSE h[i-1] \div 256 + c[i] + Term(i)]
             col == CHOOSE h : IsCol(h)
             bytes == [i \in 1..8 |-> col[i] % 256]
  <1>0. MulAdd64(a, b, c) = bytes \o <<>>
    BY DEF MulAdd64
  <1>1. \A i \in 1..8 : Term(i) \in Nat
    <2> TAKE i \in 1..8
    <2>1. \A j \in 1..i : a[j] * b[i+1-j] \in Nat
      <3> TAKE j \in 1..i
      <3>1. a[j] \in Nat /\ b[i+1-j] \in Nat
        BY DEF Words
      <3> QED  BY <3>1
    <2>2. [j \in 1..i |-> a[j] * b[i+1-j]] \in [1..i -> Nat]
      BY <2>1
    <2> QED  BY <2>2, SumIsNumber
  <1>c. \A i \in 1..8 : c[i] \in Nat
    BY DEF Words
  <1>d. \A v \in Nat : v \div 256 \in Nat /\ v % 256 \in Nat
    OBVIOUS
  <1> HIDE DEF Term
  <1>2. \A i \in 1..8, v \in Nat : v \div 256 + c[i] + Term(i) \in Nat
    BY <1>1, <1>c, <1>d
  <1>3. G \in [1..8 -> [Nat -> Nat]]
    BY <1>2
  <1>4. \A i \in 1..8, v \in Nat : G[i][v] = v \div 256 + c[i] + Term(i)
    OBVIOUS
  <1>5. PICK f : Recursive(f, Nat, 0, 8, G)
    <2> HIDE DEF G
    <2> QED  BY <1>3, RecursionExists
  <1> HIDE DEF G
  <1>6. f \in [0..8 -> Nat] /\ f[0] = 0 /\ \A i \in 1..8 : f[i] = f[i-1] \div 256 + c[i] + Term(i)
    <2>1. f \in [0..8 -> Nat] /\ f[0] = 0 /\ \A i \in 1..8 : f[i] = G[i][f[i-1]]
      BY <1>5 DEF Recursive
    <2>2. \A i \in 1..8 : f[i-1] \in Nat
      BY <2>1
    <2> QED  BY <1>4, <2>1, <2>2
  <1>7. IsCol(f)
    <2>1. \A i \in 0..8 : f[i] = IF i = 0 THEN 0 ELSE f[i-1] \div 256 + c[i] + Term(i)
      <3>1. \A i \in 0..8 : i = 0 \/ i \in 1..8
        OBVIOUS
      <3> QED  BY <1>6, <3>1, Zenon
    <2> QED  BY <1>6, <2>1
  <1>8. IsCol(col)
    <2> HIDE DEF IsCol
    <2> QED  BY <1>7
  <1> HIDE DEF col
  <1>9. col[0] = 0 /\ \A i \in 1..8 : col[i] = col[i-1] \div 256 + c[i] + Term(i)
    BY <1>8
  <1>10. \A i \in 0..8 : col[i] \in Nat
    <2>1. \A i \in 1..8 : col[i-1] \in Nat => col[i] \in Nat
      BY <1>2, <1>9
    <2>2. col[0] \in Nat
      BY <1>9
    <2> QED  BY <2>1, <2>2, StepByStep
  <1>11. bytes \in [1..8 -> Nat]
    BY <1>10, <1>d
  <1>12. bytes \o <<>> = bytes
    <2> HIDE DEF bytes
    <2> QED  BY <1>11, TupleOf
  <1> QED  BY <1>0, <1>11, <1>12 DEF Words
LEMMA BitIsBit ==
    ASSUME NEW word \in Words, NEW i \in 0..63
    PROVE  BitOf(word, i) \in {0, 1}
  <1>1. i \div 8 + 1 \in 1..8 /\ i % 8 \in 0..7
    OBVIOUS
  <1>2. word[i \div 8 + 1] \in Nat
    BY <1>1 DEF Words
  <1>3. PowersOf2[(i % 8) + 1] \in Nat /\ PowersOf2[(i % 8) + 1] > 0
    <2>1. \A k \in 1..8 : PowersOf2[k] \in Nat /\ PowersOf2[k] > 0
      BY DEF PowersOf2
    <2>2. (i % 8) + 1 \in 1..8
      BY <1>1
    <2> QED  BY <2>1, <2>2
  <1>4. \A w \in Nat, q \in Nat : q > 0 => (w \div q) % 2 \in {0, 1}
    <2> TAKE w \in Nat, q \in Nat
    <2> HAVE q > 0
    <2>1. w \div q \in Int
      OBVIOUS
    <2> QED  BY <2>1
  <1> QED  BY <1>2, <1>3, <1>4 DEF BitOf

LEMMA OutputIsBytes ==
    ASSUME NEW g, g.state \in Words
    PROVE  PcgOutput(g) \in [1..4 -> 0..255]
  <1> DEFINE rotBit == [i \in 1..5 |-> BitOf(g.state, 64 - i)]
             rot == Binary(rotBit, 5)
             xorshifted(i) == (BitOf(g.state, i + 27)
                               + IF i + 45 < 64 THEN BitOf(g.state, i + 45) ELSE 0) % 2
             bits(k) == [i \in 1..8 |-> xorshifted((8 * k - i + rot) % 32)]
             bytes == [k \in 1..4 |-> Binary(bits(k), 8)]
  <1>0. PcgOutput(g) = bytes \o <<>>
    BY DEF PcgOutput
  <1>1. rot \in Nat
    <2>1. \A i \in 1..5 : 64 - i \in 0..63
      OBVIOUS
    <2>2. \A i \in 1..5 : BitOf(g.state, 64 - i) \in {0, 1}
      BY <2>1, BitIsBit
    <2>3. rotBit \in [1..5 -> Nat]
      BY <2>2
    <2> HIDE DEF rotBit
    <2> QED  BY <2>3, BinaryIsNumber
  <1> HIDE DEF rot
  <1>2. \A i \in 0..31 : xorshifted(i) \in {0, 1}
    <2> TAKE i \in 0..31
    <2>1. BitOf(g.state, i + 27) \in {0, 1}
      <3>1. i + 27 \in 0..63
        OBVIOUS
      <3> QED  BY <3>1, BitIsBit
    <2>2. i + 45 < 64 => BitOf(g.state, i + 45) \in {0, 1}
      <3>1. i + 45 < 64 => i + 45 \in 0..63
        OBVIOUS
      <3> QED  BY <3>1, BitIsBit
    <2> QED  BY <2>1, <2>2
  <1> HIDE DEF xorshifted
  <1>3. ASSUME NEW k \in 1..4 PROVE Binary(bits(k), 8) \in 0..255
    <2>1. \A i \in 1..8 : (8 * k - i + rot) % 32 \in 0..31
      <3> TAKE i \in 1..8
      <3>1. 8 * k - i + rot \in Nat
        BY <1>1
      <3> QED  BY <3>1
    <2>2. bits(k) \in [1..8 -> {0, 1}]
      BY <1>2, <2>1
    <2> HIDE DEF bits
    <2> QED  BY <2>2, ByteIsByte
  <1> HIDE DEF bits
  <1>4. bytes \in [1..4 -> 0..255] /\ bytes \in [1..4 -> Nat]
    BY <1>3
  <1>5. bytes \o <<>> = bytes
    <2> HIDE DEF bytes
    <2> QED  BY <1>4, TupleOf
  <1> QED  BY <1>0, <1>4, <1>5

Generators == [state : Words, inc : Words]

LEMMA StepIsGenerator ==
    ASSUME NEW g \in Generators
    PROVE  PcgStep(g) \in Generators
  <1>1. g.state \in Words /\ g.inc \in Words
    BY DEF Generators
  <1>2. kPcgMultiplier \in Words
    BY DEF kPcgMultiplier, Words
  <1>3. MulAdd64(g.state, kPcgMultiplier, g.inc) \in Words
    BY <1>1, <1>2, ProductIsWord
  <1>4. PcgStep(g) = [g EXCEPT !.state = MulAdd64(g.state, kPcgMultiplier, g.inc)]
    BY DEF PcgStep
  <1> QED  BY <1>3, <1>4 DEF Generators

LEMMA NumberIsWord ==
    ASSUME NEW n \in Nat
    PROVE  Word64(n) \in Words
  <1>1. \A m \in Nat : m \div 256 \in Nat /\ m % 256 \in Nat
    OBVIOUS
  <1>2. PICK a \in Nat : a = n \div 256
    BY <1>1
  <1>3. PICK b \in Nat : b = a \div 256
    BY <1>1
  <1>4. PICK c \in Nat : c = b \div 256
    BY <1>1
  <1>5. Word64(n) = <<n % 256, a % 256, b % 256, c, 0, 0, 0, 0>>
    BY <1>2, <1>3, <1>4 DEF Word64
  <1>6. n % 256 \in Nat /\ a % 256 \in Nat /\ b % 256 \in Nat
    BY <1>1
  <1> QED  BY <1>5, <1>6 DEF Words

LEMMA SeedIsGenerator ==
    ASSUME NEW y \in Nat, NEW x \in Nat
    PROVE  PcgSeed(y, x) \in Generators
  <1> DEFINE start == [state |-> Word64(0), inc |-> Word64(2 * y + 1)]
             g0 == PcgStep(start)
             mixed == MulAdd64(g0.state, Word64(1), Word64(x))
  <1>1. start \in Generators
    <2>1. Word64(0) \in Words /\ Word64(2 * y + 1) \in Words
      BY NumberIsWord
    <2> QED  BY <2>1 DEF Generators
  <1>2. g0 \in Generators
    BY <1>1, StepIsGenerator
  <1>3. PcgSeed(y, x) = PcgStep([g0 EXCEPT !.state = mixed])
    BY DEF PcgSeed
  <1>4. mixed \in Words
    <2>1. g0.state \in Words
      BY <1>2 DEF Generators
    <2>2. Word64(1) \in Words /\ Word64(x) \in Words
      BY NumberIsWord
    <2> HIDE DEF g0
    <2> QED  BY <2>1, <2>2, ProductIsWord
  <1> HIDE DEF g0, mixed
  <1>5. [g0 EXCEPT !.state = mixed] \in Generators
    BY <1>2, <1>4 DEF Generators
  <1> QED  BY <1>3, <1>5, StepIsGenerator

-----------------------------------------------------------------------------
(* The deck *)

\* The decks of m different cards, 0 to m - 1.
Decks(m) == {d \in [1..m -> 0..(m - 1)] :
               \A card \in 0..(m - 1) : \E k \in 1..m : d[k] = card}

\* The new card takes the place of a random one, which goes on top.
LEMMA DealKeepsDeck ==
    ASSUME NEW m \in Nat, m > 0, NEW deck \in Decks(m), NEW r \in Nat
    PROVE  DealCard(deck, r) \in Decks(m + 1)
  <1> DEFINE jj == r % m
             added == Append(deck, deck[jj + 1])
             dealt == [added EXCEPT ![jj + 1] = m]
  <1>1. deck \in [1..m -> 0..(m - 1)] /\ deck \in Seq(0..(m - 1)) /\ Len(deck) = m
    <2>1. deck \in [1..m -> 0..(m - 1)]
      BY DEF Decks
    <2> QED  BY <2>1, SeqDef
  <1>2. DealCard(deck, r) = dealt
    BY <1>1 DEF DealCard
  <1>3. jj + 1 \in 1..m /\ deck[jj + 1] \in 0..(m - 1)
    BY <1>1
  <1> HIDE DEF jj
  <1>4. /\ added \in [1..(m + 1) -> 0..(m - 1)]
        /\ added[m + 1] = deck[jj + 1]
        /\ \A k \in 1..m : added[k] = deck[k]
    <2> DEFINE cards == 0..(m - 1)
    <2> HIDE DEF cards
    <2>1. deck \in Seq(cards) /\ deck[jj + 1] \in cards
      BY <1>1, <1>3 DEF cards
    <2>2. /\ added \in Seq(cards)
          /\ Len(added) = Len(deck) + 1
          /\ \A k \in 1..Len(deck) : added[k] = deck[k]
          /\ added[Len(deck) + 1] = deck[jj + 1]
      BY <2>1, AppendProperties
    <2> HIDE DEF added
    <2>3. added \in [1..Len(added) -> cards]
      BY <2>2, LenProperties
    <2> QED  BY <1>1, <2>2, <2>3 DEF cards
  <1> HIDE DEF added
  <1>5. /\ dealt \in [1..(m + 1) -> 0..m]
        /\ dealt[jj + 1] = m
        /\ dealt[m + 1] = deck[jj + 1]
        /\ \A k \in 1..m : k # jj + 1 => dealt[k] = deck[k]
    BY <1>3, <1>4
  <1> HIDE DEF dealt
  <1>6. ASSUME NEW card \in 0..m PROVE \E k \in 1..(m + 1) : dealt[k] = card
    <2>1. CASE card = m
      BY <1>3, <1>5, <2>1
    <2>2. CASE card < m
      <3>1. PICK k \in 1..m : deck[k] = card
        BY <2>2 DEF Decks
      <3>2. k = jj + 1 => dealt[m + 1] = card /\ m + 1 \in 1..(m + 1)
        BY <1>5, <3>1
      <3>3. k # jj + 1 => dealt[k] = card /\ k \in 1..(m + 1)
        BY <1>5, <3>1
      <3> QED  BY <3>2, <3>3
    <2> QED  BY <2>1, <2>2
  <1>7. (m + 1) - 1 = m
    OBVIOUS
  <1> QED  BY <1>2, <1>5, <1>6, <1>7 DEF Decks

LEMMA DealsKeepDeck ==
    ASSUME NEW m \in Nat, m > 0, NEW deck \in Decks(m),
           NEW picks \in Seq(Nat), Len(picks) \in 0..4
    PROVE  DealCards(deck, picks) \in Decks(m + Len(picks))
  <1> DEFINE one   == DealCard(deck, picks[1])
             two   == DealCard(one, picks[2])
             three == DealCard(two, picks[3])
             four  == DealCard(three, picks[4])
  <1>1. \A k \in 1..Len(picks) : picks[k] \in Nat
    BY ElementOfSeq
  <1>2. Len(picks) >= 1 => one \in Decks(m + 1)
    BY <1>1, DealKeepsDeck
  <1>n. \A k \in Nat : m + k \in Nat /\ m + k > 0 /\ (m + k) + 1 = m + (k + 1)
    OBVIOUS
  <1> HIDE DEF one
  <1>3. Len(picks) >= 2 => two \in Decks(m + 2)
    <2> SUFFICES ASSUME Len(picks) >= 2 PROVE two \in Decks(m + 2)
      OBVIOUS
    <2>1. picks[2] \in Nat /\ one \in Decks(m + 1)
      BY <1>1, <1>2
    <2>2. two \in Decks((m + 1) + 1)
      BY <2>1, <1>n, DealKeepsDeck
    <2> QED  BY <1>n, <2>2
  <1> HIDE DEF two
  <1>4. Len(picks) >= 3 => three \in Decks(m + 3)
    <2> SUFFICES ASSUME Len(picks) >= 3 PROVE three \in Decks(m + 3)
      OBVIOUS
    <2>1. picks[3] \in Nat /\ two \in Decks(m + 2)
      BY <1>1, <1>3
    <2>2. three \in Decks((m + 2) + 1)
      BY <2>1, <1>n, DealKeepsDeck
    <2> QED  BY <1>n, <2>2
  <1> HIDE DEF three
  <1>5. Len(picks) >= 4 => four \in Decks(m + 4)
    <2> SUFFICES ASSUME Len(picks) >= 4 PROVE four \in Decks(m + 4)
      OBVIOUS
    <2>1. picks[4] \in Nat /\ three \in Decks(m + 3)
      BY <1>1, <1>4
    <2>2. four \in Decks((m + 3) + 1)
      BY <2>1, <1>n, DealKeepsDeck
    <2> QED  BY <1>n, <2>2
  <1> HIDE DEF four
  <1>6. DealCards(deck, picks) = CASE Len(picks) = 0 -> deck
                                   [] Len(picks) = 1 -> one
                                   [] Len(picks) = 2 -> two
                                   [] Len(picks) = 3 -> three
                                   [] Len(picks) = 4 -> four
    BY Zenon DEF DealCards, one, two, three, four
  <1>7. m + 0 = m
    OBVIOUS
  <1>8. CASE Len(picks) = 0
    BY <1>6, <1>7, <1>8
  <1>9. CASE Len(picks) = 1
    BY <1>2, <1>6, <1>9
  <1>10. CASE Len(picks) = 2
    BY <1>3, <1>6, <1>10
  <1>11. CASE Len(picks) = 3
    BY <1>4, <1>6, <1>11
  <1>12. CASE Len(picks) = 4
    BY <1>5, <1>6, <1>12
  <1> QED  BY <1>8, <1>9, <1>10, <1>11, <1>12

\* The last draw deals as many cards as are left, whichever bytes it takes them from.
LEMMA LastPicksAreLeft ==
    ASSUME NEW per \in {2, 4}, NEW picks \in [1..per -> Nat], NEW left \in 0..(per - 1)
    PROVE  LastPicks(picks, left) \in Seq(Nat) /\ Len(LastPicks(picks, left)) = left
  <1>1. Len(picks) = per
    BY TupleOf
  <1>2. CASE per = 4
    <2>1. LastPicks(picks, left) = SubSeq(picks, 4 - left, 3)
      BY <1>1, <1>2 DEF LastPicks
    <2>2. 4 - left \in Int /\ \A i \in (4 - left)..3 : i \in 1..4 /\ picks[i] \in Nat
      BY <1>2
    <2>3. /\ SubSeq(picks, 4 - left, 3) \in Seq(Nat)
          /\ Len(SubSeq(picks, 4 - left, 3)) = IF 4 - left <= 3 THEN 3 - (4 - left) + 1 ELSE 0
      BY <2>2, SubSeqProperties
    <2>4. (IF 4 - left <= 3 THEN 3 - (4 - left) + 1 ELSE 0) = left
      BY <1>2
    <2> QED  BY <2>1, <2>3, <2>4
  <1>3. CASE per = 2
    <2>1. LastPicks(picks, left) = SubSeq(picks, 1, left)
      BY <1>1, <1>3 DEF LastPicks
    <2>2. left \in Int /\ \A i \in 1..left : picks[i] \in Nat
      BY <1>3
    <2>3. /\ SubSeq(picks, 1, left) \in Seq(Nat)
          /\ Len(SubSeq(picks, 1, left)) = IF 1 <= left THEN left - 1 + 1 ELSE 0
      BY <2>2, SubSeqProperties
    <2>4. (IF 1 <= left THEN left - 1 + 1 ELSE 0) = left
      OBVIOUS
    <2> QED  BY <2>1, <2>3, <2>4
  <1> QED  BY <1>2, <1>3

\* One turn: so many numbers picked, from one draw of the generator.
LEMMA PicksAreNumbers ==
    ASSUME NEW g \in Generators, NEW small \in BOOLEAN
    PROVE  Picks(PcgOutput(g), small) \in [1..(IF small THEN 4 ELSE 2) -> Nat]
  <1>1. PcgOutput(g) \in [1..4 -> Nat]
    <2>1. PcgOutput(g) \in [1..4 -> 0..255]
      BY OutputIsBytes DEF Generators
    <2> QED  BY <2>1
  <1> DEFINE rv == PcgOutput(g)
  <1> HIDE DEF rv
  <1>2. CASE small
    BY <1>1, <1>2 DEF Picks, rv
  <1>3. CASE ~small
    <2>1. rv[1] \in Nat /\ rv[2] \in Nat /\ rv[3] \in Nat /\ rv[4] \in Nat
      BY <1>1 DEF rv
    <2>2. rv[1] + 256 * rv[2] \in Nat /\ rv[3] + 256 * rv[4] \in Nat
      BY <2>1
    <2>3. Picks(rv, small) = <<rv[1] + 256 * rv[2], rv[3] + 256 * rv[4]>>
      BY <1>3 DEF Picks, Low16, High16
    <2>4. Picks(rv, small) \in [1..2 -> Nat]
      BY <2>2, <2>3
    <2> QED  BY <1>3, <2>4 DEF rv
  <1> QED  BY <1>2, <1>3

\* A shuffled deck of count cards holds each of them.
LEMMA ShuffleDealsAll ==
    ASSUME NEW prng \in Generators, NEW count \in Nat, count > 0
    PROVE  ShuffleDeck16(prng, count).deck \in Decks(count)
  <1> DEFINE small == count <= 256
             per   == IF small THEN 4 ELSE 2
             left  == (count - 1) % per
             turns == (count - 1) \div per + 1
             picks(s) == Picks(PcgOutput(s.prng), small)
             Turn(s, turn) == [prng |-> PcgStep(s.prng),
                               deck |-> DealCards(s.deck, IF turn = turns
                                                          THEN LastPicks(picks(s), left)
                                                          ELSE picks(s))]
             base == [prng |-> prng, deck |-> <<0>>]
             IsDealt(h) == h = [turn \in 0..turns |-> IF turn = 0 THEN base
                                                      ELSE Turn(h[turn - 1], turn)]
             dealt == CHOOSE h : IsDealt(h)
             AllDecks == UNION {Decks(m) : m \in Nat \ {0}}
             S == [prng : Generators, deck : AllDecks]
             G == [turn \in 1..turns |-> [s \in S |-> Turn(s, turn)]]
             Cards(turn) == IF turn = turns THEN count ELSE per * turn + 1
  <1>0. ShuffleDeck16(prng, count) = dealt[turns]
    BY DEF ShuffleDeck16
  <1>1. per \in {2, 4} /\ small \in BOOLEAN /\ per = IF small THEN 4 ELSE 2
    OBVIOUS
  <1> HIDE DEF small, per
  <1>2. /\ left \in 0..(per - 1) /\ turns \in Nat /\ turns > 0
        /\ count = per * (turns - 1) + 1 + left
    <2>1. CASE per = 4
      BY <2>1
    <2>2. CASE per = 2
      BY <2>2
    <2> QED  BY <1>1, <2>1, <2>2
  <1> HIDE DEF left, turns
  <1>3. ASSUME NEW s, s.prng \in Generators
        PROVE  /\ picks(s) \in [1..per -> Nat] /\ picks(s) \in Seq(Nat) /\ Len(picks(s)) = per
               /\ LastPicks(picks(s), left) \in Seq(Nat) /\ Len(LastPicks(picks(s), left)) = left
    <2>1. picks(s) \in [1..per -> Nat]
      BY <1>1, <1>3, PicksAreNumbers
    <2> HIDE DEF picks
    <2>2. picks(s) \in Seq(Nat) /\ Len(picks(s)) = per
      BY <1>1, <2>1, TupleOf
    <2>3. LastPicks(picks(s), left) \in Seq(Nat) /\ Len(LastPicks(picks(s), left)) = left
      BY <1>1, <1>2, <2>1, LastPicksAreLeft
    <2> QED  BY <2>1, <2>2, <2>3
  <1>4. ASSUME NEW s, s.prng \in Generators, NEW turn \in 1..turns,
               NEW m \in Nat, m > 0, s.deck \in Decks(m)
        PROVE  /\ Turn(s, turn).prng \in Generators
               /\ Turn(s, turn).deck \in Decks(m + IF turn = turns THEN left ELSE per)
    <2>1. Turn(s, turn).prng \in Generators
      BY <1>4, StepIsGenerator
    <2>2. CASE turn = turns
      <3>1. Turn(s, turn).deck = DealCards(s.deck, LastPicks(picks(s), left))
        BY <2>2
      <3>2. LastPicks(picks(s), left) \in Seq(Nat) /\ Len(LastPicks(picks(s), left)) = left
        BY <1>3, <1>4
      <3>3. left \in 0..4
        BY <1>1, <1>2
      <3> HIDE DEF picks, Turn
      <3>4. DealCards(s.deck, LastPicks(picks(s), left)) \in Decks(m + left)
        BY <1>4, <3>2, <3>3, DealsKeepDeck
      <3> QED  BY <2>1, <2>2, <3>1, <3>4
    <2>3. CASE turn # turns
      <3>1. Turn(s, turn).deck = DealCards(s.deck, picks(s))
        BY <2>3
      <3>2. picks(s) \in Seq(Nat) /\ Len(picks(s)) = per
        BY <1>3, <1>4
      <3>3. per \in 0..4
        BY <1>1
      <3> HIDE DEF picks, Turn
      <3>4. DealCards(s.deck, picks(s)) \in Decks(m + per)
        BY <1>4, <3>2, <3>3, DealsKeepDeck
      <3> QED  BY <2>1, <2>3, <3>1, <3>4
    <2> QED  BY <2>2, <2>3
  <1>5. \A s \in S, turn \in 1..turns : Turn(s, turn) \in S
    <2> TAKE s \in S, turn \in 1..turns
    <2>1. s.prng \in Generators /\ s.deck \in AllDecks
      OBVIOUS
    <2>2. PICK m \in Nat : m > 0 /\ s.deck \in Decks(m)
      BY <2>1
    <2>3. PICK k \in Nat : k > 0 /\ Turn(s, turn).deck \in Decks(k)
      <3>1. m + left \in Nat /\ m + per \in Nat /\ m + left > 0 /\ m + per > 0
        BY <1>1, <1>2, <2>2
      <3> HIDE DEF Turn
      <3> QED  BY <1>4, <2>1, <2>2, <3>1
    <2>4. Turn(s, turn).prng \in Generators
      <3> HIDE DEF Turn
      <3> QED  BY <1>4, <2>1, <2>2
    <2>5. Turn(s, turn) = [prng |-> Turn(s, turn).prng, deck |-> Turn(s, turn).deck]
      OBVIOUS
    <2> HIDE DEF Turn
    <2>6. Turn(s, turn).deck \in AllDecks
      BY <2>3
    <2> HIDE DEF AllDecks
    <2> QED  BY <2>4, <2>5, <2>6
  <1>6. base \in S /\ <<0>> \in Decks(1)
    <2>1. <<0>> \in Decks(1)
      BY DEF Decks
    <2> QED  BY <2>1
  <1> HIDE DEF base, Turn, S
  <1>7. G \in [1..turns -> [S -> S]]
    BY <1>5
  <1>8. \A turn \in 1..turns, s \in S : G[turn][s] = Turn(s, turn)
    OBVIOUS
  <1>9. PICK f : Recursive(f, S, base, turns, G)
    <2> HIDE DEF G
    <2> QED  BY <1>2, <1>6, <1>7, RecursionExists
  <1> HIDE DEF G
  <1>10. /\ f \in [0..turns -> S] /\ f[0] = base
         /\ \A turn \in 1..turns : f[turn] = Turn(f[turn - 1], turn)
    <2>1. f \in [0..turns -> S] /\ f[0] = base /\ \A i \in 1..turns : f[i] = G[i][f[i-1]]
      BY <1>9 DEF Recursive
    <2>2. \A i \in 1..turns : f[i-1] \in S
      BY <1>2, <2>1
    <2> QED  BY <1>8, <2>1, <2>2
  <1>11. IsDealt(f)
    BY <1>2, <1>10
  <1>12. IsDealt(dealt)
    <2> HIDE DEF IsDealt
    <2> QED  BY <1>11
  <1> HIDE DEF dealt
  <1>13. dealt[0] = base /\ \A turn \in 1..turns : dealt[turn] = Turn(dealt[turn - 1], turn)
    BY <1>2, <1>12
  <1> DEFINE Good(turn) == dealt[turn].prng \in Generators /\ dealt[turn].deck \in Decks(Cards(turn))
             good == [turn \in 0..turns |-> IF Good(turn) THEN 1 ELSE 0]
  <1>14. Good(0)
    <2>1. Cards(0) = 1
      BY <1>1, <1>2
    <2>2. dealt[0].prng \in Generators /\ dealt[0].deck = <<0>>
      BY <1>13 DEF base
    <2> QED  BY <1>6, <2>1, <2>2
  <1>15. ASSUME NEW turn \in 1..turns, Good(turn - 1) PROVE Good(turn)
    <2> DEFINE m == Cards(turn - 1)
    <2>1. /\ m \in Nat /\ m > 0 /\ m = per * (turn - 1) + 1
          /\ Cards(turn) = m + IF turn = turns THEN left ELSE per
      <3>1. turn - 1 # turns
        BY <1>2
      <3>2. CASE per = 4
        BY <1>2, <3>1, <3>2
      <3>3. CASE per = 2
        BY <1>2, <3>1, <3>3
      <3> QED  BY <1>1, <3>2, <3>3
    <2> HIDE DEF m
    <2>2. dealt[turn - 1].prng \in Generators /\ dealt[turn - 1].deck \in Decks(m)
      BY <1>15 DEF m
    <2> HIDE DEF Cards
    <2>3. /\ Turn(dealt[turn - 1], turn).prng \in Generators
          /\ Turn(dealt[turn - 1], turn).deck \in Decks(Cards(turn))
      BY <1>4, <2>1, <2>2
    <2> QED  BY <1>13, <2>3
  <1> HIDE DEF Good
  <1>16. \A turn \in 0..turns : good[turn] = 1
    <2> DEFINE one == {1}
    <2>1. good[0] \in one
      BY <1>2, <1>14
    <2>2. \A turn \in 1..turns : good[turn - 1] \in one => good[turn] \in one
      <3>1. \A turn \in 1..turns : turn \in 0..turns /\ turn - 1 \in 0..turns
        BY <1>2
      <3> QED  BY <1>15, <3>1
    <2>3. \A turn \in 0..turns : good[turn] \in one
      <3> HIDE DEF good, one
      <3> QED  BY <1>2, <2>1, <2>2, StepByStep
    <2> QED  BY <2>3
  <1>17. Good(turns)
    <2>1. turns \in 0..turns
      BY <1>2
    <2> QED  BY <1>16, <2>1
  <1>18. Cards(turns) = count
    OBVIOUS
  <1> QED  BY <1>0, <1>17, <1>18 DEF Good

-----------------------------------------------------------------------------
(* The parameters of a row *)

\* The greatest 16-bit number.
Top == 65535

LEMMA HalvesAreSmall ==
    ASSUME NEW g \in Generators
    PROVE  LET rv == PcgOutput(g)
           IN Low16(rv) \in Nat /\ High16(rv) \in Nat /\ Low16(rv) <= Top /\ High16(rv) <= Top
  <1> DEFINE rv == PcgOutput(g)
  <1>1. rv \in [1..4 -> 0..255]
    BY OutputIsBytes DEF Generators
  <1> HIDE DEF rv
  <1>2. \A a, b \in 0..255 : a + 256 * b \in Nat /\ a + 256 * b <= Top
    BY DEF Top
  <1>3. rv[1] \in 0..255 /\ rv[2] \in 0..255 /\ rv[3] \in 0..255 /\ rv[4] \in 0..255
    BY <1>1
  <1>4. Low16(rv) \in Nat /\ Low16(rv) <= Top
    BY <1>2, <1>3, Zenon DEF Low16
  <1>5. High16(rv) \in Nat /\ High16(rv) <= Top
    BY <1>2, <1>3, Zenon DEF High16
  <1> QED  BY <1>4, <1>5 DEF rv

\* The last entry of the weight table is not below any value, so that some weight is found.
LEMMA WeightIsPositive ==
    ASSUME NEW high \in Nat, NEW low \in Nat, high <= Top, low <= Top, NEW n \in Nat
    PROVE  GeneratePeelRowWeight(<<high, low>>, n) \in 1..64
  <1> DEFINE Above(v) == {w \in 2..64 : LessEq32(v, kPeelCountDistribution[w])}
  <1>t. Top \in Nat
    BY DEF Top
  <1>1. ASSUME NEW h \in Nat, NEW l \in Nat, h <= Top, l <= Top
        PROVE  MinOf(Above(<<h, l>>)) \in 1..64
    <2>1. kPeelCountDistribution[64] = <<Top, Top>>
      BY DEF kPeelCountDistribution, Top
    <2>2. LessEq32(<<h, l>>, <<Top, Top>>)
      BY <1>t, <1>1 DEF LessEq32
    <2>3. 64 \in Above(<<h, l>>)
      BY <2>1, <2>2
    <2>4. Above(<<h, l>>) \in SUBSET (2..64)
      OBVIOUS
    <2> HIDE DEF Above
    <2>5. \E m \in Above(<<h, l>>) : \A x \in Above(<<h, l>>) : m <= x
      BY <2>3, <2>4, LeastOf
    <2>6. MinOf(Above(<<h, l>>)) \in Above(<<h, l>>)
      BY <2>5 DEF MinOf
    <2> QED  BY <2>4, <2>6
  <1>2. ASSUME LessEq32(P1, <<high, low>>)
        PROVE  \E h, l \in Nat : /\ Minus32(<<high, low>>, P1) = <<h, l>>
                                 /\ h <= Top /\ l <= Top
    <2>1. P1 = <<511, Top>>
      BY DEF P1, Top
    <2>2. 511 < high \/ (511 = high /\ Top <= low)
      BY <1>2, <2>1 DEF LessEq32
    <2>3. CASE low >= Top
      <3>1. Minus32(<<high, low>>, P1) = <<high - 511, low - Top>>
        BY <2>1, <2>3 DEF Minus32
      <3>2. high - 511 \in Nat /\ low - Top \in Nat /\ high - 511 <= Top /\ low - Top <= Top
        BY <1>t, <2>2, <2>3
      <3> QED  BY <3>1, <3>2
    <2>4. CASE low < Top
      <3>1. Minus32(<<high, low>>, P1) = <<high - 511 - 1, low + 1>>
        <4>1. low - Top + 65536 = low + 1
          BY DEF Top
        <4>2. ~(low >= Top)
          BY <1>t, <2>4
        <4>3. Minus32(<<high, low>>, P1) = <<high - 511 - 1, low - Top + 65536>>
          BY <2>1, <4>2 DEF Minus32
        <4> QED  BY <4>1, <4>3
      <3>2. /\ high - 511 - 1 \in Nat /\ low + 1 \in Nat
            /\ high - 511 - 1 <= Top /\ low + 1 <= Top
        BY <1>t, <2>2, <2>4
      <3> QED  BY <3>1, <3>2
    <2> QED  BY <1>t, <2>3, <2>4
  <1> DEFINE v == <<high, low>>
             weight == GeneratePeelRowWeight(v, n)
  <1>3. weight = IF n > kMaxNForWeight1 THEN MinOf(Above(v))
                 ELSE IF LessEq32(P1, v) THEN MinOf(Above(Minus32(v, P1))) ELSE 1
    BY DEF GeneratePeelRowWeight
  <1> HIDE DEF Above
  <1>4. MinOf(Above(v)) \in 1..64
    BY <1>1
  <1>5. LessEq32(P1, v) => MinOf(Above(Minus32(v, P1))) \in 1..64
    BY <1>1, <1>2
  <1> HIDE DEF weight, v
  <1>6. weight \in 1..64
    BY <1>3, <1>4, <1>5
  <1> QED  BY <1>6 DEF weight, v
=============================================================================
