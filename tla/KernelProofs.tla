----------------------------- MODULE KernelProofs -----------------------------
(***************************************************************************)
(* The bulk operations cover a buffer of any length, on every processor.   *)
(*                                                                         *)
(* The proof follows a buffer as the code walks through it: CutGood says   *)
(* that the pieces taken so far cover what lies before the next byte.      *)
(* Every loop keeps it and leaves less than one more turn would take; the  *)
(* tails take the rest, provided that little enough is left.               *)
(***************************************************************************)
EXTENDS Kernels, TLAPS

Ways   == {"xor", "swap", "shuffle", "table"}
Pieces == [from : Nat, size : Nat \ {0}, how : Ways]

CutGood(s, m) ==
  /\ s.pieces \in Seq(Pieces) /\ s.at \in Nat /\ s.bytes \in Nat
  /\ s.at + s.bytes = m
  /\ Covers(s.pieces, 0, s.at)

\* Quotient and remainder.
LEMMA DivMod ==
    ASSUME NEW y \in Int, NEW a \in Nat, a > 0
    PROVE  /\ y = a * (y \div a) + (y % a)
           /\ y % a \in Int /\ 0 <= y % a /\ y % a < a
           /\ y \div a \in Int
  OBVIOUS

\* Two products by the same positive factor compare as their other factors do.
LEMMA ProductOrder ==
    ASSUME NEW x \in Int, NEW y \in Int, NEW a \in Nat
    PROVE  x <= y => x * a <= y * a
  OBVIOUS

\* A list of pieces that covers one stretch and a list that covers the next one.
LEMMA CoversBoth ==
    ASSUME NEW P \in Seq(Pieces), NEW Q \in Seq(Pieces), NEW a \in Nat, NEW m \in Nat, a <= m,
           Covers(P, 0, a), Covers(Q, a, m)
    PROVE  P \o Q \in Seq(Pieces) /\ Covers(P \o Q, 0, m)
  <1> DEFINE R == P \o Q
  <1>1. /\ R \in Seq(Pieces) /\ Len(R) = Len(P) + Len(Q)
        /\ Len(P) \in Nat /\ Len(Q) \in Nat
        /\ \A i \in 1..Len(R) : R[i] = IF i <= Len(P) THEN P[i] ELSE Q[i - Len(P)]
    OBVIOUS
  <1>2. \A i \in 1..Len(P) : P[i] \in Pieces /\ BytesOf(P[i]) \subseteq 0..(a - 1)
    BY DEF Covers
  <1>3. \A i \in 1..Len(Q) : Q[i] \in Pieces /\ BytesOf(Q[i]) \subseteq a..(m - 1)
    BY DEF Covers
  <1>p. /\ \A b \in 0..(a - 1) : \E i \in 1..Len(P) : b \in BytesOf(P[i])
        /\ \A i, j \in 1..Len(P) : i < j => Apart(P[i], P[j])
    BY DEF Covers
  <1>q. /\ \A b \in a..(m - 1) : \E i \in 1..Len(Q) : b \in BytesOf(Q[i])
        /\ \A i, j \in 1..Len(Q) : i < j => Apart(Q[i], Q[j])
    BY DEF Covers
  <1>4. \A i \in 1..Len(P) : P[i].from + P[i].size <= a
    <2> TAKE i \in 1..Len(P)
    <2>1. P[i].from \in Nat /\ P[i].size \in Nat \ {0}
      BY <1>2 DEF Pieces
    <2>2. P[i].from + P[i].size - 1 \in BytesOf(P[i])
      BY <2>1 DEF BytesOf
    <2>3. P[i].from + P[i].size - 1 \in 0..(a - 1)
      BY <1>2, <2>2
    <2> QED  BY <2>1, <2>3
  <1>5. \A i \in 1..Len(Q) : Q[i].from >= a
    <2> TAKE i \in 1..Len(Q)
    <2>1. Q[i].from \in Nat /\ Q[i].size \in Nat \ {0}
      BY <1>3 DEF Pieces
    <2>2. Q[i].from \in BytesOf(Q[i])
      BY <2>1 DEF BytesOf
    <2> QED  BY <1>3, <2>1, <2>2
  <1>6. UNION {BytesOf(R[i]) : i \in 1..Len(R)} = 0..(m - 1)
    <2> HIDE DEF R
    <2>1. ASSUME NEW b \in 0..(m - 1) PROVE \E i \in 1..Len(R) : b \in BytesOf(R[i])
      <3>1. CASE b < a
        <4>1. PICK i \in 1..Len(P) : b \in BytesOf(P[i])
          BY <1>p, <3>1
        <4>2. i \in 1..Len(R) /\ R[i] = P[i]
          BY <1>1, <4>1
        <4> QED  BY <4>1, <4>2
      <3>2. CASE b >= a
        <4>1. PICK i \in 1..Len(Q) : b \in BytesOf(Q[i])
          BY <1>q, <3>2
        <4>2. i + Len(P) \in 1..Len(R) /\ R[i + Len(P)] = Q[i]
          BY <1>1
        <4> QED  BY <4>1, <4>2
      <3> QED  BY <3>1, <3>2
    <2>2. ASSUME NEW i \in 1..Len(R), NEW b \in BytesOf(R[i]) PROVE b \in 0..(m - 1)
      <3>1. CASE i <= Len(P)
        <4>1. i \in 1..Len(P) /\ R[i] = P[i]
          BY <1>1, <3>1
        <4>2. b \in 0..(a - 1)
          BY <1>2, <2>2, <4>1
        <4> QED  BY <4>2
      <3>2. CASE i > Len(P)
        <4>1. i - Len(P) \in 1..Len(Q) /\ R[i] = Q[i - Len(P)]
          BY <1>1, <3>2
        <4>2. b \in a..(m - 1)
          BY <1>3, <2>2, <4>1
        <4> QED  BY <4>2
      <3> QED  BY <3>1, <3>2
    <2> QED  BY <2>1, <2>2
  <1>7. ASSUME NEW i \in 1..Len(R), NEW j \in 1..Len(R), i < j PROVE Apart(R[i], R[j])
    <2> HIDE DEF R
    <2>1. CASE j <= Len(P)
      <3>1. i \in 1..Len(P) /\ j \in 1..Len(P) /\ R[i] = P[i] /\ R[j] = P[j]
        BY <1>1, <1>7, <2>1
      <3> QED  BY <1>7, <1>p, <3>1
    <2>2. CASE i > Len(P)
      <3>1. /\ i - Len(P) \in 1..Len(Q) /\ j - Len(P) \in 1..Len(Q) /\ i - Len(P) < j - Len(P)
            /\ R[i] = Q[i - Len(P)] /\ R[j] = Q[j - Len(P)]
        BY <1>1, <1>7, <2>2
      <3> QED  BY <1>q, <3>1
    <2>3. CASE i <= Len(P) /\ j > Len(P)
      <3>1. /\ i \in 1..Len(P) /\ j - Len(P) \in 1..Len(Q)
            /\ R[i] = P[i] /\ R[j] = Q[j - Len(P)]
        BY <1>1, <2>3
      <3>2. R[i].from + R[i].size <= a /\ R[j].from >= a
        BY <1>4, <1>5, <3>1
      <3>3. R[i].from \in Nat /\ R[i].size \in Nat /\ R[j].from \in Nat
        <4>1. R[i] \in Pieces /\ R[j] \in Pieces
          BY <1>2, <1>3, <3>1
        <4> QED  BY <4>1 DEF Pieces
      <3> QED  BY <3>2, <3>3 DEF Apart
    <2> QED  BY <2>1, <2>2, <2>3
  <1> QED  BY <1>1, <1>6, <1>7 DEF Covers

\* What a caller hands over.
LEMMA WholeGood == \A m \in Nat : CutGood(Whole(m), m) /\ Whole(m).bytes = m
  <1> TAKE m \in Nat
  <1>1. Whole(m).pieces = <<>> /\ Whole(m).at = 0 /\ Whole(m).bytes = m
    BY DEF Whole
  <1>2. Covers(<<>>, 0, 0)
    BY DEF Covers
  <1> QED  BY <1>1, <1>2 DEF CutGood

\* One piece.
LEMMA CutKeepsGood ==
    ASSUME NEW m \in Nat, NEW s, CutGood(s, m), NEW size \in Nat \ {0}, NEW how \in Ways,
           size <= s.bytes
    PROVE  CutGood(Cut(s, size, how), m) /\ Cut(s, size, how).bytes = s.bytes - size
  <1> DEFINE q == Piece(s.at, size, how)
             t == Cut(s, size, how)
  <1>1. /\ s.pieces \in Seq(Pieces) /\ s.at \in Nat /\ s.bytes \in Nat /\ s.at + s.bytes = m
        /\ Covers(s.pieces, 0, s.at)
    BY DEF CutGood
  <1>2. t.pieces = s.pieces \o <<q>> /\ t.at = s.at + size /\ t.bytes = s.bytes - size
    BY <1>1 DEF Cut
  <1>3. q \in Pieces /\ q.from = s.at /\ q.size = size
    BY <1>1, Zenon DEF Piece, Pieces
  <1>4. Covers(<<q>>, s.at, s.at + size)
    <2>1. Len(<<q>>) = 1 /\ <<q>>[1] = q
      OBVIOUS
    <2>2. BytesOf(q) = s.at..(s.at + size - 1)
      BY <1>3 DEF BytesOf
    <2> HIDE DEF q
    <2> QED  BY <1>1, <2>1, <2>2 DEF Covers
  <1>5. <<q>> \in Seq(Pieces)
    BY <1>3
  <1> HIDE DEF q, t
  <1>e. s.at + size \in Nat /\ s.at <= s.at + size
    BY <1>1
  <1>6. s.pieces \o <<q>> \in Seq(Pieces) /\ Covers(s.pieces \o <<q>>, 0, s.at + size)
    BY <1>1, <1>4, <1>5, <1>e, CoversBoth
  <1>7. CutGood(t, m)
    BY <1>1, <1>2, <1>6 DEF CutGood
  <1> QED  BY <1>2, <1>7 DEF t

\* A row of n pieces of one size.
LEMMA RowOfPieces ==
    ASSUME NEW at \in Nat, NEW n \in Nat, NEW size \in Nat \ {0}, NEW how \in Ways
    PROVE  LET Q == [i \in 1..n |-> Piece(at + (i - 1) * size, size, how)]
           IN Q \in Seq(Pieces) /\ Covers(Q, at, at + n * size)
  <1> DEFINE Q == [i \in 1..n |-> Piece(at + (i - 1) * size, size, how)]
  <1>1. ASSUME NEW i \in 1..n
        PROVE  /\ (i - 1) * size \in Nat /\ i * size = (i - 1) * size + size
               /\ i * size <= n * size /\ i * size \in Nat
    BY ProductOrder
  <1>2. ASSUME NEW i \in 1..n
        PROVE  /\ Q[i] \in Pieces /\ Q[i].from = at + (i - 1) * size /\ Q[i].size = size
               /\ BytesOf(Q[i]) = (at + (i - 1) * size)..(at + i * size - 1)
    <2>1. Q[i] = Piece(at + (i - 1) * size, size, how)
      OBVIOUS
    <2>2. Q[i].from = at + (i - 1) * size /\ Q[i].size = size
      BY <2>1 DEF Piece
    <2>3. at + (i - 1) * size \in Nat
      BY <1>1
    <2>4. Q[i] \in Pieces
      BY <2>1, <2>3, Zenon DEF Piece, Pieces
    <2>5. BytesOf(Q[i]) = (at + (i - 1) * size)..(at + i * size - 1)
      BY <1>1, <2>2, <2>3 DEF BytesOf
    <2> QED  BY <2>2, <2>4, <2>5
  <1>d. Q \in [1..n -> Pieces]
    BY <1>2
  <1>4. n * size \in Nat
    OBVIOUS
  <1> HIDE DEF Q
  <1>3. Q \in Seq(Pieces) /\ Len(Q) = n
    BY <1>d
  <1>5. ASSUME NEW b \in at..(at + n * size - 1)
        PROVE  \E i \in 1..n : b \in BytesOf(Q[i])
    <2> DEFINE k == (b - at) \div size
    <2>1. b - at = size * k + ((b - at) % size) /\ k \in Int
          /\ (b - at) % size \in Int /\ 0 <= (b - at) % size /\ (b - at) % size < size
      BY DivMod
    <2> HIDE DEF k
    <2>2. 0 <= k
      <3>1. k <= -1 => k * size <= (-1) * size
        BY <2>1, ProductOrder
      <3> QED  BY <2>1, <3>1
    <2>3. k < n
      <3>1. n <= k => n * size <= k * size
        BY <2>1, ProductOrder
      <3> QED  BY <1>4, <2>1, <3>1
    <2>4. PICK i \in 1..n : i - 1 = k
      BY <2>1, <2>2, <2>3
    <2>5. BytesOf(Q[i]) = (at + (i - 1) * size)..(at + i * size - 1)
      BY <1>2
    <2>6. (i - 1) * size = size * k
      BY <2>1, <2>4
    <2>7. b >= at + (i - 1) * size /\ b < at + (i - 1) * size + size
      BY <2>1, <2>6
    <2>8. b \in BytesOf(Q[i])
      BY <1>1, <2>5, <2>7
    <2> QED  BY <2>8
  <1>6. ASSUME NEW i \in 1..n, NEW b \in BytesOf(Q[i]) PROVE b \in at..(at + n * size - 1)
    <2>1. b \in (at + (i - 1) * size)..(at + i * size - 1)
      BY <1>2, <1>6
    <2>2. /\ (i - 1) * size \in Nat /\ i * size \in Nat /\ i * size <= n * size
      BY <1>1
    <2> QED  BY <1>4, <2>1, <2>2
  <1>7. ASSUME NEW i \in 1..n, NEW j \in 1..n, i < j PROVE Apart(Q[i], Q[j])
    <2>1. i * size <= (j - 1) * size
      BY <1>7, ProductOrder
    <2>2. Q[i].from + Q[i].size = at + i * size
      <3>1. Q[i].from = at + (i - 1) * size /\ Q[i].size = size
        BY <1>2
      <3>2. /\ (i - 1) * size \in Nat /\ i * size = (i - 1) * size + size
        BY <1>1
      <3> QED  BY <3>1, <3>2
    <2>3. Q[j].from = at + (j - 1) * size
      BY <1>2
    <2>4. i * size \in Int /\ (j - 1) * size \in Int
      OBVIOUS
    <2> QED  BY <2>1, <2>2, <2>3, <2>4 DEF Apart
  <1>8. UNION {BytesOf(Q[i]) : i \in 1..n} = at..(at + n * size - 1)
    BY <1>5, <1>6
  <1>9. Covers(Q, at, at + n * size)
    BY <1>3, <1>7, <1>8 DEF Covers
  <1> QED  BY <1>3, <1>9 DEF Q

\* A loop keeps the pieces good and stops with less than one turn's bytes left.
LEMMA LoopKeepsGood ==
    ASSUME NEW m \in Nat, NEW s, CutGood(s, m), NEW size \in Nat \ {0}, NEW how \in Ways
    PROVE  CutGood(Loop(s, size, how), m) /\ Loop(s, size, how).bytes < size
  <1> DEFINE n == s.bytes \div size
             Q == [i \in 1..n |-> Piece(s.at + (i - 1) * size, size, how)]
             t == Loop(s, size, how)
  <1>1. /\ s.pieces \in Seq(Pieces) /\ s.at \in Nat /\ s.bytes \in Nat /\ s.at + s.bytes = m
        /\ Covers(s.pieces, 0, s.at)
    BY DEF CutGood
  <1>2. /\ t.pieces = s.pieces \o Q /\ t.at = s.at + n * size
        /\ t.bytes = s.bytes - n * size
    <2> HIDE DEF n
    <2>1. t = [pieces |-> s.pieces \o Q, at |-> s.at + n * size, bytes |-> s.bytes - n * size]
      BY DEF n, Loop, Repeat
    <2> HIDE DEF t, Q
    <2> QED  BY <2>1
  <1>3. n \in Int /\ \E r \in Int : s.bytes = n * size + r /\ 0 <= r /\ r < size
    <2>1. s.bytes \in Int /\ size \in Nat /\ size > 0
      BY <1>1
    <2>2. s.bytes = size * n + (s.bytes % size)
      BY <2>1, DivMod
    <2>3. s.bytes % size \in Int /\ 0 <= s.bytes % size /\ s.bytes % size < size /\ n \in Int
      BY <2>1, DivMod
    <2> HIDE DEF n
    <2>4. size * n = n * size
      BY <2>3
    <2> QED  BY <2>2, <2>3, <2>4
  <1>4. n \in Nat /\ n * size \in Nat
    <2> HIDE DEF n
    <2>1. n * size \in Int
      BY <1>3
    <2>2. ~(n <= -1)
      <3> SUFFICES ASSUME n <= -1 PROVE FALSE
        OBVIOUS
      <3>1. n * size <= -size
        <4>1. n * size <= (-1) * size
          BY <1>3, ProductOrder
        <4> QED  BY <4>1
      <3> QED  BY <1>1, <1>3, <2>1, <3>1
    <2>3. n \in Nat
      BY <1>3, <2>2
    <2> QED  BY <2>3
  <1>5. Q \in Seq(Pieces) /\ Covers(Q, s.at, s.at + n * size)
    <2> HIDE DEF n
    <2> QED  BY <1>1, <1>4, RowOfPieces
  <1> HIDE DEF n, Q, t
  <1>7. t.bytes \in Nat /\ t.bytes < size /\ t.at \in Nat /\ t.at + t.bytes = m
    <2>1. PICK k \in Nat : k = n * size
      BY <1>4
    <2>2. PICK r \in Int : s.bytes = k + r /\ 0 <= r /\ r < size
      BY <1>3, <2>1
    <2>3. t.at = s.at + k /\ t.bytes = s.bytes - k
      BY <1>2, <2>1
    <2> QED  BY <1>1, <2>2, <2>3
  <1>8. s.at + n * size \in Nat /\ s.at <= s.at + n * size
    BY <1>1, <1>4
  <1>9. t.pieces \in Seq(Pieces) /\ Covers(t.pieces, 0, t.at)
    BY <1>1, <1>2, <1>5, <1>8, CoversBoth
  <1> QED  BY <1>7, <1>9 DEF CutGood, t

\* if (bytes & size), with less than twice that many bytes left.
LEMMA CutIfSetKeepsGood ==
    ASSUME NEW m \in Nat, NEW s, CutGood(s, m), NEW size \in {4, 8}, NEW how \in Ways,
           s.bytes < 2 * size
    PROVE  CutGood(CutIfSet(s, size, how), m) /\ CutIfSet(s, size, how).bytes < size
  <1>1. s.bytes \in Nat
    BY DEF CutGood
  <1>2. CASE (s.bytes \div size) % 2 = 1
    <2>1. size <= s.bytes
      BY <1>1, <1>2
    <2>2. CutIfSet(s, size, how) = Cut(s, size, how)
      BY <1>2 DEF CutIfSet
    <2>3. CutGood(Cut(s, size, how), m) /\ Cut(s, size, how).bytes = s.bytes - size
      BY <2>1, CutKeepsGood
    <2> QED  BY <1>1, <2>2, <2>3
  <1>3. CASE (s.bytes \div size) % 2 # 1
    <2>1. s.bytes < size
      BY <1>1, <1>3
    <2> QED  BY <1>3, <2>1 DEF CutIfSet
  <1> QED  BY <1>2, <1>3

\* The last bytes, of which there are at most three, are taken one by one.
LEMMA LastBytesCover ==
    ASSUME NEW m \in Nat, NEW s, CutGood(s, m), NEW how \in Ways, s.bytes < 4
    PROVE  Covers(LastBytes(s, how), 0, m)
  <1> DEFINE left == s.bytes % 4
             Q == [i \in 1..left |-> Piece(s.at + left - i, 1, how)]
  <1>1. /\ s.pieces \in Seq(Pieces) /\ s.at \in Nat /\ s.bytes \in Nat /\ s.at + s.bytes = m
        /\ Covers(s.pieces, 0, s.at)
    BY DEF CutGood
  <1>2. left = s.bytes
    BY <1>1
  <1>3. LastBytes(s, how) = s.pieces \o Q
    BY DEF LastBytes
  <1> HIDE DEF left
  <1>4. ASSUME NEW i \in 1..left
        PROVE  /\ Q[i] \in Pieces /\ Q[i].from = s.at + left - i /\ Q[i].size = 1
               /\ BytesOf(Q[i]) = {s.at + left - i}
    <2>1. Q[i] = Piece(s.at + left - i, 1, how)
      OBVIOUS
    <2>2. Q[i].from = s.at + left - i /\ Q[i].size = 1
      BY <2>1 DEF Piece
    <2>3. s.at + left - i \in Nat
      BY <1>1, <1>2
    <2>4. Q[i] \in Pieces
      <3>1. 1 \in Nat \ {0}
        OBVIOUS
      <3> QED  BY <2>1, <2>3, <3>1, Zenon DEF Piece, Pieces
    <2>5. BytesOf(Q[i]) = {s.at + left - i}
      BY <2>2, <2>3 DEF BytesOf
    <2> QED  BY <2>2, <2>4, <2>5
  <1>5. Q \in [1..left -> Pieces]
    BY <1>4
  <1> HIDE DEF Q
  <1>6. Q \in Seq(Pieces) /\ Len(Q) = left
    BY <1>1, <1>2, <1>5
  <1>7. ASSUME NEW i \in 1..left, NEW j \in 1..left, i < j PROVE Apart(Q[i], Q[j])
    <2>1. /\ Q[i].from = s.at + left - i /\ Q[i].size = 1
          /\ Q[j].from = s.at + left - j /\ Q[j].size = 1
      BY <1>4
    <2> QED  BY <1>1, <1>2, <1>7, <2>1 DEF Apart
  <1>8. UNION {BytesOf(Q[i]) : i \in 1..left} = s.at..(m - 1)
    <2>1. ASSUME NEW b \in s.at..(m - 1) PROVE \E i \in 1..left : b \in BytesOf(Q[i])
      <3>1. PICK i \in 1..left : i = s.at + left - b
        BY <1>1, <1>2
      <3>2. b = s.at + left - i
        BY <1>1, <1>2, <3>1
      <3>3. b \in BytesOf(Q[i])
        BY <1>4, <3>2
      <3> QED  BY <3>3
    <2>2. ASSUME NEW i \in 1..left, NEW b \in BytesOf(Q[i]) PROVE b \in s.at..(m - 1)
      <3>1. b = s.at + left - i
        BY <1>4, <2>2
      <3> QED  BY <1>1, <1>2, <3>1
    <2> QED  BY <2>1, <2>2
  <1>9. Covers(Q, s.at, m)
    BY <1>6, <1>7, <1>8 DEF Covers
  <1>10. s.at <= m
    BY <1>1
  <1> QED  BY <1>1, <1>3, <1>6, <1>9, <1>10, CoversBoth

\* The tail that takes fewer than eight bytes, and the one that takes fewer than sixteen.
LEMMA TailsCover ==
    ASSUME NEW m \in Nat, NEW s, CutGood(s, m), NEW how \in Ways
    PROVE  /\ s.bytes < 8 => Covers(Tail4(s, how), 0, m)
           /\ s.bytes < 16 => Covers(Tail8(s, how), 0, m)
  <1>1. ASSUME NEW r, CutGood(r, m), r.bytes < 8 PROVE Covers(Tail4(r, how), 0, m)
    <2>1. CutGood(CutIfSet(r, 4, how), m) /\ CutIfSet(r, 4, how).bytes < 4
      BY <1>1, CutIfSetKeepsGood
    <2> QED  BY <2>1, LastBytesCover DEF Tail4
  <1>2. ASSUME s.bytes < 16 PROVE Covers(Tail8(s, how), 0, m)
    <2>1. CutGood(CutIfSet(s, 8, how), m) /\ CutIfSet(s, 8, how).bytes < 8
      BY <1>2, CutIfSetKeepsGood
    <2> QED  BY <1>1, <2>1 DEF Tail8
  <1> QED  BY <1>1, <1>2

\* What each operation does before its tail.
LEMMA LoopsKeepGood ==
    ASSUME NEW m \in Nat, NEW how \in Ways
    PROVE  \A s, size : CutGood(s, m) /\ size \in {8, 16, 32, 64, 128} =>
             CutGood(Loop(s, size, how), m) /\ Loop(s, size, how).bytes < size
  <1> SUFFICES ASSUME NEW s, NEW size, CutGood(s, m), size \in {8, 16, 32, 64, 128}
               PROVE  CutGood(Loop(s, size, how), m) /\ Loop(s, size, how).bytes < size
    OBVIOUS
  <1>1. size \in Nat \ {0}
    OBVIOUS
  <1> QED  BY <1>1, LoopKeepsGood

\* The two steps the operations of the vector units have in common.
LEMMA Sixteens ==
    ASSUME NEW m \in Nat, NEW s, CutGood(s, m), NEW how \in Ways
    PROVE  Covers(Tail8(Loop(s, 16, how), how), 0, m)
  <1>1. CutGood(Loop(s, 16, how), m) /\ Loop(s, 16, how).bytes < 16
    BY LoopsKeepGood
  <1> QED  BY <1>1, TailsCover

LEMMA Eights ==
    ASSUME NEW m \in Nat, NEW s, CutGood(s, m), NEW how \in Ways
    PROVE  /\ Covers(Tail8(Loop(s, 8, how), how), 0, m)
           /\ Covers(Tail4(Loop(s, 8, how), how), 0, m)
  <1>1. CutGood(Loop(s, 8, how), m) /\ Loop(s, 8, how).bytes < 8
    BY LoopsKeepGood
  <1>2. Loop(s, 8, how).bytes < 16
    BY <1>1 DEF CutGood
  <1> QED  BY <1>1, <1>2, TailsCover

\* Every bulk operation touches every byte of its buffer once and none past its end.
LEMMA KernelsCover ==
    ASSUME NEW cpu \in Variants, NEW m \in Nat, NEW pieces \in BulkOperations(cpu, m)
    PROVE  Covers(pieces, 0, m)
  <1> USE DEF Variants, Desktop
  <1>h. "xor" \in Ways /\ "swap" \in Ways /\ "shuffle" \in Ways /\ "table" \in Ways
    BY DEF Ways
  <1>w. CutGood(Whole(m), m)
    BY WholeGood
  <1>l. \A s, size, how : CutGood(s, m) /\ size \in {8, 16, 32, 64, 128} /\ how \in Ways =>
          CutGood(Loop(s, size, how), m)
    BY LoopsKeepGood
  <1>1. Covers(gf256_add_mem_pieces(cpu, m), 0, m)
    <2>1. CASE cpu = "AVX2"
      BY <1>h, <1>l, <1>w, <2>1, Sixteens DEF gf256_add_mem_pieces
    <2>2. CASE cpu \in {"SSSE3", "SSE2"}
      BY <1>h, <1>l, <1>w, <2>2, Sixteens DEF gf256_add_mem_pieces
    <2>3. CASE cpu = "NEON"
      BY <1>h, <1>l, <1>w, <2>3, Sixteens DEF gf256_add_mem_pieces
    <2>4. CASE cpu = "plain"
      BY <1>h, <1>w, <2>4, Eights DEF gf256_add_mem_pieces
    <2> QED  BY <2>1, <2>2, <2>3, <2>4
  <1>2. Covers(gf256_add2_mem_pieces(cpu, m), 0, m)
    <2>1. CASE cpu = "AVX2"
      BY <1>h, <1>l, <1>w, <2>1, Sixteens DEF gf256_add2_mem_pieces
    <2>2. CASE cpu \in {"SSSE3", "SSE2"}
      BY <1>h, <1>w, <2>2, Sixteens DEF gf256_add2_mem_pieces
    <2>3. CASE cpu = "NEON"
      BY <1>h, <1>w, <2>3, Sixteens DEF gf256_add2_mem_pieces
    <2>4. CASE cpu = "plain"
      BY <1>h, <1>w, <2>4, Eights DEF gf256_add2_mem_pieces
    <2> QED  BY <2>1, <2>2, <2>3, <2>4
  <1>3. Covers(gf256_addset_mem_pieces(cpu, m), 0, m)
    <2>1. CASE cpu = "AVX2"
      BY <1>h, <1>l, <1>w, <2>1, Sixteens DEF gf256_addset_mem_pieces
    <2>2. CASE cpu \in {"SSSE3", "SSE2"}
      BY <1>h, <1>l, <1>w, <2>2, Sixteens DEF gf256_addset_mem_pieces
    <2>3. CASE cpu = "NEON"
      BY <1>h, <1>l, <1>w, <2>3, Sixteens DEF gf256_addset_mem_pieces
    <2>4. CASE cpu = "plain"
      BY <1>h, <1>w, <2>4, Eights DEF gf256_addset_mem_pieces
    <2> QED  BY <2>1, <2>2, <2>3, <2>4
  <1>4. \A s : CutGood(s, m) => Covers(Tail4(Loop(s, 8, "table"), "table"), 0, m)
    BY <1>h, Eights
  <1>5. Covers(gf256_mul_mem_pieces(cpu, m), 0, m)
    <2>1. CASE cpu = "AVX2"
      BY <1>h, <1>l, <1>w, <1>4, <2>1 DEF gf256_mul_mem_pieces
    <2>2. CASE cpu \in {"SSSE3", "NEON"}
      BY <1>h, <1>l, <1>w, <1>4, <2>2 DEF gf256_mul_mem_pieces
    <2>3. CASE cpu \in {"SSE2", "plain"}
      BY <1>w, <1>4, <2>3 DEF gf256_mul_mem_pieces
    <2> QED  BY <2>1, <2>2, <2>3
  <1>6. Covers(gf256_muladd_mem_pieces(cpu, m), 0, m)
    <2>1. CASE cpu = "AVX2"
      <3> DEFINE avx == Loop(Whole(m), 64, "shuffle")
                 cut == IF avx.bytes >= 32 THEN Cut(avx, 32, "shuffle") ELSE avx
      <3>1. CutGood(avx, m)
        BY <1>h, <1>l, <1>w
      <3> HIDE DEF avx
      <3>2. CutGood(cut, m)
        <4>1. avx.bytes \in Nat /\ 32 \in Nat \ {0}
          BY <3>1 DEF CutGood
        <4>2. CASE avx.bytes >= 32
          BY <1>h, <3>1, <4>1, <4>2, CutKeepsGood
        <4>3. CASE ~(avx.bytes >= 32)
          BY <3>1, <4>3
        <4> QED  BY <4>2, <4>3
      <3>3. gf256_muladd_mem_pieces(cpu, m)
              = Tail4(Loop(Loop(Loop(cut, 32, "shuffle"), 16, "shuffle"), 8, "table"), "table")
        BY <2>1 DEF gf256_muladd_mem_pieces, avx
      <3> HIDE DEF cut
      <3> QED  BY <1>h, <1>l, <1>4, <3>2, <3>3
    <2>2. CASE cpu = "SSSE3"
      BY <1>h, <1>l, <1>w, <1>4, <2>2 DEF gf256_muladd_mem_pieces
    <2>3. CASE cpu = "NEON"
      BY <1>h, <1>l, <1>w, <1>4, <2>3 DEF gf256_muladd_mem_pieces
    <2>4. CASE cpu \in {"SSE2", "plain"}
      BY <1>w, <1>4, <2>4 DEF gf256_muladd_mem_pieces
    <2> QED  BY <2>1, <2>2, <2>3, <2>4
  <1>7. Covers(gf256_memswap_pieces(cpu, m), 0, m)
    <2>1. CASE cpu \in Desktop
      BY <1>h, <1>w, <2>1, Sixteens DEF gf256_memswap_pieces
    <2>2. CASE cpu \notin Desktop
      BY <1>h, <1>w, <2>2, Eights DEF gf256_memswap_pieces
    <2> QED  BY <2>1, <2>2
  <1> QED  BY <1>1, <1>2, <1>3, <1>5, <1>6, <1>7 DEF BulkOperations, SelfTested
=============================================================================
