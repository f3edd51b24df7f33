----------------------------- MODULE PeelingProofs -----------------------------
(***************************************************************************)
(* Peeling leaves a triangular order and a square remainder for any number *)
(* of columns, rows of any shape and any limit on the lists of references. *)
(* The lemmas are about the record p before an operation and the record    *)
(* that the operator returns.                                              *)
(***************************************************************************)
EXTENDS Peeling, FiniteSetTheorems, WellFoundedInduction, TLAPS

(***************************************************************************)
(* Sequences and choices.                                                  *)
(***************************************************************************)
LEMMA Appended ==
  ASSUME NEW T, NEW s \in Seq(T), NEW x \in T
  PROVE  /\ Append(s, x) \in Seq(T) /\ Len(s) \in Nat /\ Len(Append(s, x)) = Len(s) + 1
         /\ \A i \in 1..Len(s) : Append(s, x)[i] = s[i]
         /\ Append(s, x)[Len(s) + 1] = x
         /\ Elements(Append(s, x)) = Elements(s) \cup {x}
         /\ Distinct(s) /\ x \notin Elements(s) => Distinct(Append(s, x))
  <1>1. /\ Append(s, x) \in Seq(T) /\ Len(s) \in Nat /\ Len(Append(s, x)) = Len(s) + 1
        /\ \A i \in 1..Len(s) : Append(s, x)[i] = s[i]
        /\ Append(s, x)[Len(s) + 1] = x
    OBVIOUS
  <1>2. \A i \in 1..(Len(s) + 1) : i \in 1..Len(s) \/ i = Len(s) + 1
    BY <1>1
  <1>3. Elements(Append(s, x)) = Elements(s) \cup {x}
    BY <1>1, <1>2 DEF Elements
  <1>4. Distinct(s) /\ x \notin Elements(s) => Distinct(Append(s, x))
    BY <1>1, <1>2 DEF Elements, Distinct
  <1> QED  BY <1>1, <1>3, <1>4

LEMMA Pushed ==
  ASSUME NEW T, NEW s \in Seq(T), NEW x \in T
  PROVE  /\ <<x>> \o s \in Seq(T) /\ Len(s) \in Nat /\ Len(<<x>> \o s) = Len(s) + 1
         /\ (<<x>> \o s)[1] = x
         /\ \A i \in 1..Len(s) : (<<x>> \o s)[i + 1] = s[i]
         /\ \A i \in 2..(Len(s) + 1) : i - 1 \in 1..Len(s) /\ (<<x>> \o s)[i] = s[i - 1]
         /\ Elements(<<x>> \o s) = Elements(s) \cup {x}
         /\ Distinct(s) /\ x \notin Elements(s) => Distinct(<<x>> \o s)
  <1>1. <<x>> \in Seq(T) /\ Len(<<x>>) = 1 /\ <<x>>[1] = x /\ Len(s) \in Nat
    OBVIOUS
  <1>2. /\ <<x>> \o s \in Seq(T) /\ Len(<<x>> \o s) = Len(s) + 1
        /\ (<<x>> \o s)[1] = x
        /\ \A i \in 2..(Len(s) + 1) : i - 1 \in 1..Len(s) /\ (<<x>> \o s)[i] = s[i - 1]
    BY <1>1
  <1>3. \A i \in 1..Len(s) : i + 1 \in 2..(Len(s) + 1) /\ (i + 1) - 1 = i
    BY <1>1
  <1>4. \A i \in 1..Len(s) : (<<x>> \o s)[i + 1] = s[i]
    BY <1>2, <1>3
  <1>5. \A i \in 1..(Len(s) + 1) : i = 1 \/ i \in 2..(Len(s) + 1)
    BY <1>1
  <1>6. Elements(<<x>> \o s) = Elements(s) \cup {x}
    <2>1. Elements(s) \subseteq Elements(<<x>> \o s)
      <3> SUFFICES ASSUME NEW i \in 1..Len(s) PROVE s[i] \in Elements(<<x>> \o s)
        BY DEF Elements
      <3>1. i + 1 \in 1..Len(<<x>> \o s) /\ (<<x>> \o s)[i + 1] = s[i]
        BY <1>1, <1>2, <1>4
      <3> QED  BY <3>1, Zenon DEF Elements
    <2>2. x \in Elements(<<x>> \o s)
      BY <1>1, <1>2 DEF Elements
    <2>3. Elements(<<x>> \o s) \subseteq Elements(s) \cup {x}
      BY <1>2, <1>5 DEF Elements
    <2> QED  BY <2>1, <2>2, <2>3
  <1>7. Distinct(s) /\ x \notin Elements(s) => Distinct(<<x>> \o s)
    <2> SUFFICES ASSUME Distinct(s), x \notin Elements(s),
                        NEW i \in 1..(Len(s) + 1), NEW j \in 1..(Len(s) + 1),
                        (<<x>> \o s)[i] = (<<x>> \o s)[j]
                 PROVE  i = j
      BY <1>2 DEF Distinct
    <2>1. CASE i = 1 \/ j = 1
      <3>1. \A k \in 2..(Len(s) + 1) : (<<x>> \o s)[k] # x
        BY <1>2 DEF Elements
      <3> QED  BY <1>2, <1>5, <2>1, <3>1
    <2>2. CASE i # 1 /\ j # 1
      <3>1. /\ i - 1 \in 1..Len(s) /\ (<<x>> \o s)[i] = s[i - 1]
            /\ j - 1 \in 1..Len(s) /\ (<<x>> \o s)[j] = s[j - 1]
        BY <1>2, <1>5, <2>2
      <3>2. i - 1 = j - 1
        BY <3>1 DEF Distinct
      <3> QED  BY <3>2
    <2> QED  BY <2>1, <2>2
  <1> QED  BY <1>1, <1>2, <1>4, <1>6, <1>7

LEMMA Headed ==
  ASSUME NEW T, NEW s \in Seq(T), s # <<>>
  PROVE  /\ Head(s) \in T /\ Tail(s) \in Seq(T) /\ Len(s) \in Nat \ {0} /\ Head(s) = s[1]
         /\ Len(Tail(s)) = Len(s) - 1
         /\ \A i \in 1..Len(Tail(s)) : i + 1 \in 1..Len(s) /\ Tail(s)[i] = s[i + 1]
         /\ Head(s) \in Elements(s)
         /\ Elements(Tail(s)) \subseteq Elements(s)
         /\ Elements(s) = Elements(Tail(s)) \cup {Head(s)}
         /\ Distinct(s) => Distinct(Tail(s)) /\ Elements(Tail(s)) = Elements(s) \ {Head(s)}
  <1>1. /\ Head(s) \in T /\ Tail(s) \in Seq(T) /\ Len(s) \in Nat \ {0} /\ Head(s) = s[1]
        /\ Len(Tail(s)) = Len(s) - 1
    OBVIOUS
  <1>2. \A i \in 1..Len(Tail(s)) : i + 1 \in 1..Len(s) /\ i + 1 # 1 /\ Tail(s)[i] = s[i + 1]
    BY <1>1
  <1>3. \A i \in 1..Len(s) : i = 1 \/ (i - 1 \in 1..Len(Tail(s)) /\ (i - 1) + 1 = i)
    BY <1>1
  <1>4. 1 \in 1..Len(s)
    BY <1>1
  <1>5. Head(s) \in Elements(s) /\ Elements(Tail(s)) \subseteq Elements(s)
    BY <1>1, <1>2, <1>4 DEF Elements
  <1>6. Elements(s) \subseteq Elements(Tail(s)) \cup {Head(s)}
    BY <1>1, <1>2, <1>3 DEF Elements
  <1>7. ASSUME Distinct(s)
        PROVE  Distinct(Tail(s)) /\ Elements(Tail(s)) = Elements(s) \ {Head(s)}
    <2>1. \A i, j \in 1..Len(Tail(s)) : i + 1 = j + 1 => i = j
      OBVIOUS
    <2>2. Distinct(Tail(s))
      BY <1>2, <1>7, <2>1 DEF Distinct
    <2>3. Head(s) \notin Elements(Tail(s))
      BY <1>1, <1>2, <1>4, <1>7 DEF Distinct, Elements
    <2> QED  BY <1>5, <1>6, <2>2, <2>3
  <1> QED  BY <1>1, <1>2, <1>5, <1>6, <1>7

\* A finite set has a best element by any total, transitive comparison.
LEMMA BestExists ==
  ASSUME NEW S, IsFiniteSet(S), S # {}, NEW R,
         \A x \in S : <<x, x>> \in R,
         \A x, y \in S : <<x, y>> \in R \/ <<y, x>> \in R,
         \A x, y, z \in S : <<x, y>> \in R /\ <<y, z>> \in R => <<x, z>> \in R
  PROVE  \E x \in S : \A y \in S : <<x, y>> \in R
  <1> DEFINE Over(x) == {y \in S : <<x, y>> \notin R}
             Overs == {Over(x) : x \in S}
  <1>1. IsWellFoundedOn(StrictSubsetOrdering(S), FiniteSubsetsOf(S))
    BY FS_StrictSubsetOrderingWellFounded
  <1>2. FiniteSubsetsOf(S) = SUBSET S
    BY FS_FiniteSubsetsOfFinite
  <1>3. Overs \subseteq SUBSET S /\ Overs # {}
    <2>1. PICK x \in S : TRUE
      OBVIOUS
    <2>2. Over(x) \in Overs
      BY <2>1
    <2>3. \A U \in Overs : U \subseteq S
      OBVIOUS
    <2> QED  BY <2>2, <2>3
  <1> HIDE DEF Overs
  <1>4. \E U \in Overs : \A V \in Overs : ~(<<V, U>> \in StrictSubsetOrdering(S))
    BY <1>1, <1>2, <1>3, WFMin
  <1>5. PICK x \in S : \A V \in Overs : ~(<<V, Over(x)>> \in StrictSubsetOrdering(S))
    BY <1>4 DEF Overs
  <1>6. ASSUME NEW y \in S, <<x, y>> \notin R PROVE FALSE
    <2>1. Over(y) \subseteq Over(x) /\ y \in Over(x) /\ y \notin Over(y)
      <3>1. <<y, x>> \in R
        BY <1>6
      <3>2. \A z \in S : <<x, z>> \in R => <<y, z>> \in R
        BY <3>1
      <3> QED  BY <1>6, <3>2
    <2>2. Over(y) \in Overs /\ Over(y) \in SUBSET S /\ Over(x) \in SUBSET S
      BY DEF Overs
    <2> HIDE DEF Over
    <2>3. <<Over(y), Over(x)>> \in StrictSubsetOrdering(S)
      BY <2>1, <2>2 DEF StrictSubsetOrdering
    <2> QED  BY <1>5, <2>2, <2>3
  <1> QED  BY <1>6

LEMMA Replaced ==
  ASSUME NEW T, NEW s \in Seq(T), NEW k \in 1..Len(s), NEW x \in T
  PROVE  /\ [s EXCEPT ![k] = x] \in Seq(T) /\ Len([s EXCEPT ![k] = x]) = Len(s)
         /\ [s EXCEPT ![k] = x][k] = x
         /\ \A i \in 1..Len(s) : i # k => [s EXCEPT ![k] = x][i] = s[i]
  OBVIOUS

(***************************************************************************)
(* What the operators change.                                              *)
(***************************************************************************)
\* Everything but the data of rows and columns' counters stays.
SameLists(p, q) ==
  /\ q.rows = p.rows /\ q.mark = p.mark /\ q.refs = p.refs /\ q.solver = p.solver
  /\ q.list = p.list /\ q.deferRows = p.deferRows /\ q.deferCols = p.deferCols

\* Only r's own count and remembered columns change, and w2.
RowUpdate(p, q, r) ==
  /\ SameLists(p, q) /\ q.walk = p.walk
  /\ Len(q.unmarked) = Len(p.unmarked) /\ Len(q.marks) = Len(p.marks)
  /\ \A i \in 1..Len(p.unmarked) : i # At(r) => q.unmarked[i] = p.unmarked[i]
  /\ \A i \in 1..Len(p.marks) : i # At(r) => q.marks[i] = p.marks[i]

\* The innermost walk goes on by one row, whose count becomes n.
CountDown(p, q, n) ==
  /\ SameLists(p, q) /\ q.marks = p.marks
  /\ q.walk = [p.walk EXCEPT ![1] = [p.walk[1] EXCEPT !.rest = Tail(p.walk[1].rest)]]
  /\ q.unmarked = [p.unmarked EXCEPT ![At(Head(p.walk[1].rest))] = n]

\* The innermost call returns.
Return(p, q) ==
  /\ q.rows = p.rows /\ q.mark = p.mark /\ q.refs = p.refs
  /\ q.unmarked = p.unmarked /\ q.marks = p.marks
  /\ q.list = p.list /\ q.deferRows = p.deferRows /\ q.deferCols = p.deferCols
  /\ q.walk = Tail(p.walk)
  /\ q.solver = [p.solver EXCEPT ![p.walk[1].col] = IF p.walk[1].by = NoRow THEN @ ELSE p.walk[1].by]

\* Row r is linked into the peeled list and solves column c.
Solve(p, q, r, c) ==
  /\ q.rows = p.rows /\ q.refs = p.refs /\ q.solver = p.solver /\ q.unmarked = p.unmarked
  /\ q.deferRows = p.deferRows /\ q.deferCols = p.deferCols
  /\ q.mark = [p.mark EXCEPT ![c] = "PEEL"]
  /\ q.list = Append(p.list, r)
  /\ q.walk = <<Frame(p, c, r)>> \o p.walk
  /\ \E m \in Word : q.marks = [p.marks EXCEPT ![At(r)] = <<c, m>>]

\* Row r is linked into the deferred list.
Defer(p, q, r) ==
  /\ q.rows = p.rows /\ q.mark = p.mark /\ q.refs = p.refs /\ q.solver = p.solver
  /\ q.unmarked = p.unmarked /\ q.marks = p.marks /\ q.walk = p.walk
  /\ q.list = p.list /\ q.deferCols = p.deferCols
  /\ q.deferRows = <<r>> \o p.deferRows

\* Column c waits for Gaussian elimination.
DeferColumn(p, q, c) ==
  /\ q.rows = p.rows /\ q.refs = p.refs /\ q.solver = p.solver
  /\ q.unmarked = p.unmarked /\ q.marks = p.marks
  /\ q.list = p.list /\ q.deferRows = p.deferRows
  /\ q.mark = [p.mark EXCEPT ![c] = "DEFER"]
  /\ q.deferCols = <<c>> \o p.deferCols
  /\ q.walk = <<Frame(p, c, NoRow)>> \o p.walk

\* A row with these columns takes the next slot.
Enter(p, q, cols) ==
  /\ q.mark = p.mark /\ q.solver = p.solver /\ q.walk = p.walk
  /\ q.list = p.list /\ q.deferRows = p.deferRows /\ q.deferCols = p.deferCols
  /\ q.rows = Append(p.rows, cols)
  /\ \E n \in Word : q.unmarked = Append(p.unmarked, n)
  /\ \E m \in Word \X Word : q.marks = Append(p.marks, m)
  /\ q.refs = [c \in Columns |-> IF c \in Elements(cols) THEN Append(p.refs[c], Len(p.rows))
                                 ELSE p.refs[c]]

\* The fields of a record, named.
LEMMA Fields ==
  ASSUME NEW p \in PeelState
  PROVE  /\ p.rows \in Seq(Seq(Columns)) /\ p.unmarked \in Seq(Word)
         /\ p.marks \in Seq(Word \X Word)
         /\ p.mark \in [Columns -> MarkTypes]
         /\ p.w2 \in [Columns -> Nat] /\ p.solver \in [Columns -> Rows \cup {NoRow}]
         /\ p.refs \in [Columns -> Seq(Rows)] /\ p.list \in Seq(Rows)
         /\ p.deferRows \in Seq(Rows) /\ p.deferCols \in Seq(Columns)
         /\ p.walk \in Seq(Frames)
  BY DEF PeelState

\* Sixteen-bit arithmetic.
LEMMA Wraps ==
  ASSUME NEW x \in Int, -65536 <= x, x < 65536
  PROVE  x % 65536 = IF x < 0 THEN x + 65536 ELSE x
  <1>1. CASE x < 0
    BY <1>1, SMTT(30)
  <1>2. CASE x >= 0
    <2>1. x \in Nat
      BY <1>2
    <2> QED  BY <2>1, SMTT(30)
  <1> QED  BY <1>1, <1>2

Decremented(x) == (x - 1) % 65536

LEMMA CountsDown ==
  ASSUME NEW x \in Word
  PROVE  /\ x \in Nat /\ Decremented(x) \in Word
         /\ Decremented(x) = IF x = 0 THEN 65535 ELSE x - 1
  <1>1. x \in Nat /\ x < 65536 /\ x - 1 \in Int /\ -65536 <= x - 1 /\ x - 1 < 65536
    BY DEF Word
  <1>2. (x - 1) % 65536 = IF x - 1 < 0 THEN (x - 1) + 65536 ELSE x - 1
    BY <1>1, Wraps
  <1> QED  BY <1>1, <1>2 DEF Word, Decremented

LEMMA HighByte ==
  ASSUME NEW x \in Word
  PROVE  x - (x % 256) \in Word
  <1>1. x \in Nat /\ x < 65536
    BY DEF Word
  <1>2. x % 256 \in 0..255 /\ x % 256 <= x
    BY <1>1, SMTT(30)
  <1> QED  BY <1>1, <1>2 DEF Word

LEMMA ColumnsAndRows ==
  /\ Columns \subseteq Word /\ Rows \subseteq Word /\ Columns = Rows
  /\ \A c \in Columns : c \in Nat /\ c < BlockCount
  /\ NoRow \notin Rows /\ IsFiniteSet(Columns) /\ Cardinality(Columns) = BlockCount
  <1>1. BlockCount - 1 \in Int
    BY BlockCountAssumption
  <1>2. /\ IsFiniteSet(0..(BlockCount - 1))
        /\ Cardinality(0..(BlockCount - 1)) = IF 0 > BlockCount - 1 THEN 0 ELSE (BlockCount - 1) - 0 + 1
    BY <1>1, FS_Interval
  <1>3. IsFiniteSet(Columns) /\ Cardinality(Columns) = BlockCount
    BY <1>2, BlockCountAssumption DEF Columns
  <1>4. Columns \subseteq Word /\ Rows \subseteq Word /\ Columns = Rows
    BY BlockCountAssumption DEF Columns, Rows, Word
  <1>5. \A c \in Columns : c \in Nat /\ c < BlockCount
    BY BlockCountAssumption DEF Columns
  <1>6. NoRow \notin Rows
    BY BlockCountAssumption DEF Rows, NoRow
  <1> QED  BY <1>3, <1>4, <1>5, <1>6

\* Pushing a call.
LEMMA FrameType ==
  ASSUME NEW p \in PeelState, NEW c \in Columns, NEW by \in Rows \cup {NoRow}
  PROVE  Frame(p, c, by) \in Frames /\ <<Frame(p, c, by)>> \o p.walk \in Seq(Frames)
  <1>1. p.refs[c] \in Seq(Rows) /\ p.walk \in Seq(Frames)
    BY Fields
  <1>2. Frame(p, c, by) \in Frames
    BY <1>1 DEF Frame, Frames
  <1> QED  BY <1>1, <1>2, Pushed

LEMMA SolveFields ==
  ASSUME NEW p \in PeelState, NEW r \in Rows, At(r) \in 1..Len(p.marks), NEW c \in Columns
  PROVE  /\ SolveWithPeel(p, r, c) \in PeelState
         /\ Solve(p, SolveWithPeel(p, r, c), r, c)
  <1> DEFINE q == SolveWithPeel(p, r, c)
             m == p.marks[At(r)][2] - (p.marks[At(r)][2] % 256)
  <1>1. m \in Word /\ c \in Word
    <2>1. p.marks \in Seq(Word \X Word)
      BY Fields
    <2>2. p.marks[At(r)][2] \in Word
      BY <2>1
    <2> QED  BY <2>2, HighByte, ColumnsAndRows
  <1>2. /\ q.rows = p.rows /\ q.refs = p.refs /\ q.solver = p.solver /\ q.unmarked = p.unmarked
        /\ q.deferRows = p.deferRows /\ q.deferCols = p.deferCols
        /\ q.mark = [p.mark EXCEPT ![c] = "PEEL"]
        /\ q.list = Append(p.list, r)
        /\ q.walk = <<Frame(p, c, r)>> \o p.walk
        /\ q.marks = [p.marks EXCEPT ![At(r)] = <<c, m>>]
    BY DEF SolveWithPeel, PeelState
  <1>3. Solve(p, q, r, c)
    BY <1>1, <1>2, Zenon DEF Solve
  <1>4. [p.mark EXCEPT ![c] = "PEEL"] \in [Columns -> MarkTypes]
    BY Fields DEF MarkTypes
  <1>5. [p.marks EXCEPT ![At(r)] = <<c, m>>] \in Seq(Word \X Word)
    <2>1. <<c, m>> \in Word \X Word /\ p.marks \in Seq(Word \X Word)
      BY <1>1, Fields
    <2> QED  BY <2>1, Replaced
  <1>6. Append(p.list, r) \in Seq(Rows)
    <2>1. p.list \in Seq(Rows)
      BY Fields
    <2> QED  BY <2>1
  <1>7. <<Frame(p, c, r)>> \o p.walk \in Seq(Frames)
    BY FrameType
  <1>8. q \in PeelState
    <2> DEFINE mark  == [p.mark EXCEPT ![c] = "PEEL"]
               marks == [p.marks EXCEPT ![At(r)] = <<c, m>>]
               list  == Append(p.list, r)
               walk  == <<Frame(p, c, r)>> \o p.walk
    <2>1. /\ mark \in [Columns -> MarkTypes] /\ marks \in Seq(Word \X Word)
          /\ list \in Seq(Rows) /\ walk \in Seq(Frames)
      BY <1>4, <1>5, <1>6, <1>7
    <2>2. q = [p EXCEPT !.mark = mark, !.marks = marks, !.list = list, !.walk = walk]
      BY DEF SolveWithPeel, PeelState
    <2> HIDE DEF q, mark, marks, list, walk
    <2> QED  BY <2>1, <2>2, Zenon DEF PeelState
  <1> QED  BY <1>3, <1>8

LEMMA DeferFields ==
  ASSUME NEW p \in PeelState, NEW r \in Rows
  PROVE  DeferRow(p, r) \in PeelState /\ Defer(p, DeferRow(p, r), r)
  <1>1. <<r>> \o p.deferRows \in Seq(Rows)
    <2>1. p.deferRows \in Seq(Rows)
      BY Fields
    <2> QED  BY <2>1, Pushed
  <1>2. DeferRow(p, r) \in PeelState
    BY <1>1, Zenon DEF DeferRow, PeelState
  <1>3. Defer(p, DeferRow(p, r), r)
    BY DEF DeferRow, Defer, PeelState
  <1> QED  BY <1>2, <1>3

LEMMA DeferColumnFields ==
  ASSUME NEW p \in PeelState, BestColumn(p) \in Columns
  PROVE  GreedyDefer(p) \in PeelState /\ DeferColumn(p, GreedyDefer(p), BestColumn(p))
  <1> DEFINE c == BestColumn(p)
  <1> HIDE DEF c
  <1>1. GreedyDefer(p) = [p EXCEPT !.mark[c] = "DEFER", !.deferCols = <<c>> \o @,
                                   !.walk = <<Frame(p, c, NoRow)>> \o @]
    BY DEF GreedyDefer, c
  <1>2. c \in Columns
    BY DEF c
  <1>3. <<c>> \o p.deferCols \in Seq(Columns)
    <2>1. p.deferCols \in Seq(Columns)
      BY Fields
    <2> QED  BY <1>2, <2>1, Pushed
  <1>4. [p.mark EXCEPT ![c] = "DEFER"] \in [Columns -> MarkTypes]
    BY Fields DEF MarkTypes
  <1>5. <<Frame(p, c, NoRow)>> \o p.walk \in Seq(Frames)
    BY <1>2, FrameType
  <1>6. GreedyDefer(p) \in PeelState
    BY <1>1, <1>3, <1>4, <1>5, Zenon DEF PeelState
  <1>7. DeferColumn(p, GreedyDefer(p), c)
    BY <1>1 DEF DeferColumn, PeelState
  <1> QED  BY <1>6, <1>7 DEF c

LEMMA ReturnFields ==
  ASSUME NEW p \in PeelState, p.walk # <<>>, p.walk[1].rest = <<>>
  PROVE  AvalancheStep(p) \in PeelState /\ Return(p, AvalancheStep(p))
  <1> DEFINE f == p.walk[1]
             v == IF f.by = NoRow THEN p.solver[f.col] ELSE f.by
  <1>1. Head(p.walk) = f /\ Tail(p.walk) \in Seq(Frames) /\ f \in Frames
    <2>1. p.walk \in Seq(Frames)
      BY Fields
    <2> QED  BY <2>1, Headed
  <1>2. f.col \in Columns /\ f.by \in Rows \cup {NoRow}
    BY <1>1 DEF Frames
  <1>3. v \in Rows \cup {NoRow} /\ p.solver \in [Columns -> Rows \cup {NoRow}]
    BY <1>2, Fields
  <1>4. [p.solver EXCEPT ![f.col] = v] \in [Columns -> Rows \cup {NoRow}]
    BY <1>2, <1>3
  <1> HIDE DEF f
  <1>5. AvalancheStep(p) = [p EXCEPT !.walk = Tail(@), !.solver[f.col] = v]
    BY <1>1 DEF AvalancheStep, f
  <1>6. AvalancheStep(p) \in PeelState
    BY <1>1, <1>4, <1>5, Zenon DEF PeelState
  <1>7. Return(p, AvalancheStep(p))
    BY <1>5 DEF Return, PeelState, f
  <1> QED  BY <1>6, <1>7

\* The rows that are stored, and their columns.
LEMMA RowIndex ==
  ASSUME NEW p \in PeelState, RefsMatch(p), NEW r \in StoredRows(p)
  PROVE  /\ r \in Rows /\ r \in Nat /\ At(r) \in 1..Len(p.rows)
         /\ At(r) \in 1..Len(p.unmarked) /\ At(r) \in 1..Len(p.marks)
         /\ p.rows[At(r)] \in Seq(Columns) /\ ColumnsIn(p, r) \subseteq Columns
         /\ p.unmarked[At(r)] \in Word /\ p.marks[At(r)] \in Word \X Word
         /\ \A s \in StoredRows(p) : At(s) = At(r) => s = r
  <1>1. /\ p.rows \in Seq(Seq(Columns)) /\ p.unmarked \in Seq(Word) /\ p.marks \in Seq(Word \X Word)
        /\ Len(p.rows) \in Nat /\ Len(p.rows) <= BlockCount
        /\ Len(p.unmarked) = Len(p.rows) /\ Len(p.marks) = Len(p.rows)
    BY Fields DEF RefsMatch
  <1>2. r \in Nat /\ r < Len(p.rows) /\ At(r) = r + 1 /\ At(r) \in 1..Len(p.rows)
    BY <1>1 DEF StoredRows, At
  <1>3. r \in Rows
    BY <1>1, <1>2, BlockCountAssumption DEF Rows
  <1>4. p.rows[At(r)] \in Seq(Columns)
    BY <1>1, <1>2
  <1>5. ColumnsIn(p, r) \subseteq Columns
    BY <1>4 DEF ColumnsIn, Elements
  <1>6. p.unmarked[At(r)] \in Word /\ p.marks[At(r)] \in Word \X Word
    BY <1>1, <1>2
  <1>7. \A s \in StoredRows(p) : At(s) = At(r) => s = r
    BY <1>1 DEF StoredRows, At
  <1> QED  BY <1>1, <1>2, <1>3, <1>4, <1>5, <1>6, <1>7

LEMMA UncountedFinite ==
  ASSUME NEW p \in PeelState, RefsMatch(p), NEW r \in StoredRows(p)
  PROVE  /\ Uncounted(p, r) \subseteq Columns /\ IsFiniteSet(Uncounted(p, r))
         /\ Cardinality(Uncounted(p, r)) \in Nat
         /\ Cardinality(Uncounted(p, r)) <= 64000
  <1>1. Uncounted(p, r) \subseteq Columns
    BY RowIndex DEF Uncounted
  <1>2. /\ IsFiniteSet(Uncounted(p, r)) /\ Cardinality(Uncounted(p, r)) \in Nat
        /\ Cardinality(Uncounted(p, r)) <= BlockCount
    BY <1>1, ColumnsAndRows, FS_Subset, FS_CardinalityType
  <1> QED  BY <1>1, <1>2, BlockCountAssumption

(***************************************************************************)
(* The invariant of a record, the counts of the rows in but left open.     *)
(***************************************************************************)
PeelGood(p, but) ==
  /\ p \in PeelState
  /\ RefsMatch(p) /\ WalkMatches(p) /\ CountsMatch(p, but)
  /\ ListsMatch(p) /\ SolverMatches(p) /\ Triangular(p)

\* What a record's lists, references and peeled order say depends on these fields only.
LEMMA SameLinks ==
  ASSUME NEW p, NEW q, q.list = p.list, q.deferRows = p.deferRows
  PROVE  Linked(q) = Linked(p)
  BY DEF Linked

LEMMA SameReferences ==
  ASSUME NEW p, NEW q, RefsMatch(p), q.rows = p.rows, q.refs = p.refs,
         Len(q.unmarked) = Len(p.unmarked), Len(q.marks) = Len(p.marks)
  PROVE  RefsMatch(q)
  BY DEF RefsMatch, StoredRows, ColumnsIn

LEMMA SameOrder ==
  ASSUME NEW p, NEW q, Triangular(p), q.rows = p.rows, q.mark = p.mark, q.list = p.list,
         \A i \in 1..Len(p.list) : Solves(q, p.list[i]) = Solves(p, p.list[i]),
         p.list \in Seq(Rows)
  PROVE  Triangular(q)
  <1>1. \A k \in 1..Len(p.list) : SolvedBefore(q, k) = SolvedBefore(p, k)
    <2> TAKE k \in 1..Len(p.list)
    <2>1. \A i \in 1..(k - 1) : i \in 1..Len(p.list)
      OBVIOUS
    <2> QED  BY <2>1 DEF SolvedBefore
  <1>2. \A r : ColumnsIn(q, r) = ColumnsIn(p, r)
    BY DEF ColumnsIn
  <1>3. SUFFICES ASSUME NEW k \in 1..Len(p.list)
                 PROVE  /\ Solves(q, q.list[k]) \in ColumnsIn(q, q.list[k]) \ SolvedBefore(q, k)
                        /\ \A c \in ColumnsIn(q, q.list[k]) \ {Solves(q, q.list[k])} :
                              c \in SolvedBefore(q, k) \/ q.mark[c] = "DEFER"
    BY DEF Triangular
  <1>4. /\ Solves(p, p.list[k]) \in ColumnsIn(p, p.list[k]) \ SolvedBefore(p, k)
        /\ \A c \in ColumnsIn(p, p.list[k]) \ {Solves(p, p.list[k])} :
              c \in SolvedBefore(p, k) \/ p.mark[c] = "DEFER"
    BY DEF Triangular
  <1> QED  BY <1>1, <1>2, <1>4

LEMMA SameMarkedLists ==
  ASSUME NEW p, NEW q, ListsMatch(p), q.rows = p.rows, q.mark = p.mark, q.list = p.list,
         q.deferRows = p.deferRows, q.deferCols = p.deferCols,
         \A r \in Elements(p.list) : Solves(q, r) = Solves(p, r)
  PROVE  ListsMatch(q)
  <1>1. Linked(q) = Linked(p) /\ StoredRows(q) = StoredRows(p)
    BY SameLinks DEF StoredRows
  <1>2. Marked(q, "PEEL") = Marked(p, "PEEL") /\ Marked(q, "DEFER") = Marked(p, "DEFER")
    BY DEF Marked
  <1>3. {Solves(q, r) : r \in Elements(q.list)} = {Solves(p, r) : r \in Elements(p.list)}
    OBVIOUS
  <1> QED  BY <1>1, <1>2, <1>3 DEF ListsMatch

\* What WalkMatches says of the call k.
WalkMatchesAt(p, k) ==
  /\ \A l \in 1..Len(p.walk) : p.walk[l].col = p.walk[k].col => l = k
  /\ Distinct(p.walk[k].rest) /\ Elements(p.walk[k].rest) \subseteq Elements(p.refs[p.walk[k].col])
  /\ IF p.walk[k].by = NoRow THEN p.mark[p.walk[k].col] = "DEFER"
     ELSE /\ p.mark[p.walk[k].col] = "PEEL" /\ p.walk[k].by \in Elements(p.list)
          /\ Solves(p, p.walk[k].by) = p.walk[k].col

LEMMA EachWalk ==
  ASSUME NEW p
  PROVE  WalkMatches(p) <=> \A k \in 1..Len(p.walk) : WalkMatchesAt(p, k)
  BY DEF WalkMatches, WalkMatchesAt

LEMMA SameWalks ==
  ASSUME NEW p, NEW q, WalkMatches(p), q.walk = p.walk, q.mark = p.mark, q.refs = p.refs,
         q.list = p.list, \A r \in Elements(p.list) : Solves(q, r) = Solves(p, r)
  PROVE  WalkMatches(q)
  <1> SUFFICES ASSUME NEW k \in 1..Len(p.walk) PROVE WalkMatchesAt(q, k)
    BY EachWalk
  <1>1. WalkMatchesAt(p, k)
    BY EachWalk
  <1> QED  BY <1>1 DEF WalkMatchesAt

\* A column that a walk is for is marked, and its rows contain it.
LEMMA WalkColumn ==
  ASSUME NEW p, PeelGood(p, {}), NEW k \in 1..Len(p.walk)
  PROVE  /\ p.walk[k] \in Frames /\ p.walk[k].col \in Columns /\ ~IsTodo(p, p.walk[k].col)
         /\ p.walk[k].rest \in Seq(Rows)
         /\ \A r \in Elements(p.walk[k].rest) :
               r \in StoredRows(p) /\ p.walk[k].col \in ColumnsIn(p, r)
  <1>1. p.walk[k] \in Frames
    <2>1. p.walk \in Seq(Frames)
      BY Fields DEF PeelGood
    <2> QED  BY <2>1
  <1>2. p.walk[k].col \in Columns /\ p.walk[k].rest \in Seq(Rows)
    BY <1>1 DEF Frames
  <1>3. ~IsTodo(p, p.walk[k].col) /\ Elements(p.walk[k].rest) \subseteq Elements(p.refs[p.walk[k].col])
    BY DEF PeelGood, WalkMatches, IsTodo
  <1>4. \A r \in Elements(p.walk[k].rest) :
               r \in StoredRows(p) /\ p.walk[k].col \in ColumnsIn(p, r)
    BY <1>2, <1>3 DEF PeelGood, RefsMatch
  <1> QED  BY <1>1, <1>2, <1>3, <1>4

\* The innermost walk is for column c and has row r before it.
AtRow(p, c, r) ==
  /\ p.walk # <<>> /\ p.walk[1].rest # <<>>
  /\ c = p.walk[1].col /\ r = Head(p.walk[1].rest)

\* The column leaves those that the row's count, now n, stands for.
Counted(p, q, c, r, n) ==
  /\ r \in StoredRows(p) /\ c \in Columns /\ ~IsTodo(p, c) /\ c \in Uncounted(p, r)
  /\ q.unmarked[At(r)] = n
  /\ Uncounted(q, r) = Uncounted(p, r) \ {c}

\* The innermost walk takes its next row out of the rows it has still to count.
LEMMA CountDownKeeps ==
  ASSUME NEW p, NEW q, NEW n, NEW c, NEW r, PeelGood(p, {}), q \in PeelState, n \in Word,
         AtRow(p, c, r), CountDown(p, q, n)
  PROVE  Counted(p, q, c, r, n) /\ PeelGood(q, {r})
  <1>0. /\ p.walk # <<>> /\ p.walk[1].rest # <<>>
        /\ c = p.walk[1].col /\ r = Head(p.walk[1].rest)
    BY DEF AtRow
  <1> USE <1>0
  <1> DEFINE f == p.walk[1]
  <1>1. p \in PeelState /\ p.walk \in Seq(Frames) /\ 1 \in 1..Len(p.walk)
    BY Fields, Headed DEF PeelGood
  <1>2. f \in Frames /\ c \in Columns /\ ~IsTodo(p, c) /\ f.rest \in Seq(Rows)
    BY <1>1, WalkColumn
  <1>3. r \in Elements(f.rest) /\ r \in StoredRows(p) /\ c \in ColumnsIn(p, r)
    BY <1>1, <1>2, Headed, WalkColumn
  <1>4. Distinct(f.rest)
    BY <1>1 DEF PeelGood, WalkMatches
  <1>5. /\ Tail(f.rest) \in Seq(Rows) /\ Distinct(Tail(f.rest))
        /\ Elements(Tail(f.rest)) = Elements(f.rest) \ {r}
    BY <1>2, <1>4, Headed
  <1>6. /\ Len(q.walk) = Len(p.walk)
        /\ q.walk[1] = [f EXCEPT !.rest = Tail(f.rest)]
        /\ \A k \in 1..Len(p.walk) : k # 1 => q.walk[k] = p.walk[k]
    <2>1. [f EXCEPT !.rest = Tail(f.rest)] \in Frames
      BY <1>2, <1>5 DEF Frames
    <2>2. q.walk = [p.walk EXCEPT ![1] = [f EXCEPT !.rest = Tail(f.rest)]]
      BY DEF CountDown
    <2> HIDE DEF f
    <2> QED  BY <1>1, <2>1, <2>2, Replaced
  <1>7. \A k \in 1..Len(p.walk) : q.walk[k].col = p.walk[k].col /\ q.walk[k].by = p.walk[k].by
    BY <1>2, <1>6 DEF Frames
  <1>8. q.walk[1].rest = Tail(f.rest)
    BY <1>2, <1>6 DEF Frames
  <1> HIDE DEF f
  <1>9. \A d, s : Walks(q, d, s) <=> Walks(p, d, s) /\ ~(d = c /\ s = r)
    <2> TAKE d, s
    <2>0. WalkMatches(p)
      BY DEF PeelGood
    <2>1. \A k \in 1..Len(p.walk) : p.walk[k].col = c => k = 1
      BY <1>1, <2>0 DEF WalkMatches
    <2>2. \A k \in 1..Len(p.walk) : r \in Elements(q.walk[k].rest) => k # 1
      BY <1>5, <1>8
    <2>3. ASSUME Walks(q, d, s) PROVE Walks(p, d, s) /\ ~(d = c /\ s = r)
      <3>1. PICK k \in 1..Len(p.walk) : q.walk[k].col = d /\ s \in Elements(q.walk[k].rest)
        BY <1>6, <2>3 DEF Walks
      <3>2. p.walk[k].col = d /\ s \in Elements(p.walk[k].rest)
        <4>1. CASE k = 1
          BY <1>5, <1>7, <1>8, <3>1, <4>1 DEF f
        <4>2. CASE k # 1
          BY <1>6, <3>1, <4>2
        <4> QED  BY <4>1, <4>2
      <3>3. ~(d = c /\ s = r)
        BY <2>1, <2>2, <3>1, <3>2
      <3> QED  BY <3>2, <3>3 DEF Walks
    <2>4. ASSUME Walks(p, d, s), ~(d = c /\ s = r) PROVE Walks(q, d, s)
      <3>1. PICK k \in 1..Len(p.walk) : p.walk[k].col = d /\ s \in Elements(p.walk[k].rest)
        BY <2>4 DEF Walks
      <3>2. q.walk[k].col = d /\ s \in Elements(q.walk[k].rest)
        <4>1. CASE k = 1
          <5>1. d = c /\ s # r /\ s \in Elements(f.rest)
            BY <2>4, <3>1, <4>1 DEF f
          <5> QED  BY <1>5, <1>7, <1>8, <3>1, <4>1, <5>1
        <4>2. CASE k # 1
          BY <1>6, <3>1, <4>2
        <4> QED  BY <4>1, <4>2
      <3> QED  BY <1>6, <3>2 DEF Walks
    <2> QED  BY <2>3, <2>4
  <1>10. /\ \A s : ColumnsIn(q, s) = ColumnsIn(p, s)
         /\ \A d : IsTodo(q, d) <=> IsTodo(p, d)
         /\ \A s : Solves(q, s) = Solves(p, s)
         /\ StoredRows(q) = StoredRows(p) /\ Linked(q) = Linked(p)
    BY SameLinks DEF CountDown, SameLists, ColumnsIn, IsTodo, Solves, StoredRows
  <1>11. c \in Uncounted(p, r) /\ Uncounted(q, r) = Uncounted(p, r) \ {c}
    <2>1. Walks(p, c, r)
      BY <1>1, <1>3 DEF Walks, f
    <2>2. \A d : Walks(q, d, r) <=> Walks(p, d, r) /\ d # c
      BY <1>9
    <2> QED  BY <1>2, <1>3, <1>10, <2>1, <2>2 DEF Uncounted
  <1>12. \A s : s # r => Uncounted(q, s) = Uncounted(p, s)
    BY <1>9, <1>10 DEF Uncounted
  <1>13. /\ At(r) \in 1..Len(p.unmarked) /\ p.unmarked \in Seq(Word)
         /\ q.unmarked = [p.unmarked EXCEPT ![At(r)] = n]
    BY <1>1, <1>3, RowIndex, Fields DEF PeelGood, CountDown
  <1>14. /\ q.unmarked[At(r)] = n /\ Len(q.unmarked) = Len(p.unmarked)
         /\ \A s \in StoredRows(p) : s # r => q.unmarked[At(s)] = p.unmarked[At(s)]
    <2>1. \A s \in StoredRows(p) : s # r => At(s) \in 1..Len(p.unmarked) /\ At(s) # At(r)
      BY <1>1, <1>3, RowIndex DEF PeelGood
    <2> QED  BY <1>13, <2>1, Replaced
  <1>15. RefsMatch(q)
    BY <1>14, SameReferences DEF CountDown, SameLists, PeelGood
  <1>16. WalkMatches(q)
    <2> SUFFICES ASSUME NEW k \in 1..Len(p.walk) PROVE WalkMatchesAt(q, k)
      BY <1>6, EachWalk
    <2>1. WalkMatchesAt(p, k)
      BY EachWalk DEF PeelGood
    <2>2. Distinct(q.walk[k].rest) /\ Elements(q.walk[k].rest) \subseteq Elements(p.walk[k].rest)
      BY <1>5, <1>6, <1>8, <2>1 DEF f, WalkMatchesAt
    <2>3. q.refs = p.refs /\ q.mark = p.mark /\ q.list = p.list
      BY DEF CountDown, SameLists
    <2> QED  BY <1>6, <1>7, <1>10, <2>1, <2>2, <2>3 DEF WalkMatchesAt
  <1>17. CountsMatch(q, {r})
    <2> SUFFICES ASSUME NEW s \in StoredRows(p), s # r
                 PROVE  IF s \in Linked(p) THEN DoneCount(q, s) ELSE OpenCount(q, s)
      BY <1>10 DEF CountsMatch
    <2>1. IF s \in Linked(p) THEN DoneCount(p, s) ELSE OpenCount(p, s)
      BY DEF PeelGood, CountsMatch
    <2>2. q.marks = p.marks
      BY DEF CountDown
    <2> QED  BY <1>12, <1>14, <2>1, <2>2 DEF DoneCount, OpenCount
  <1>18. ListsMatch(q)
    BY <1>10, SameMarkedLists DEF CountDown, SameLists, PeelGood
  <1>19. SolverMatches(q)
    <2> SUFFICES ASSUME NEW d \in Marked(q, "PEEL")
                 PROVE  \/ \E k \in 1..Len(q.walk) : q.walk[k].col = d
                        \/ q.solver[d] \in Elements(q.list) /\ Solves(q, q.solver[d]) = d
      BY DEF SolverMatches
    <2>1. d \in Marked(p, "PEEL") /\ q.solver = p.solver /\ q.list = p.list
      BY DEF Marked, CountDown, SameLists
    <2>2. \/ \E k \in 1..Len(p.walk) : p.walk[k].col = d
          \/ p.solver[d] \in Elements(p.list) /\ Solves(p, p.solver[d]) = d
      BY <2>1 DEF PeelGood, SolverMatches
    <2> QED  BY <1>6, <1>7, <1>10, <2>1, <2>2
  <1>20. Triangular(q)
    <2>1. p.list \in Seq(Rows)
      BY <1>1, Fields
    <2> QED  BY <1>10, <2>1, SameOrder DEF CountDown, SameLists, PeelGood
  <1> QED  BY <1>2, <1>3, <1>11, <1>14, <1>15, <1>16, <1>17, <1>18, <1>19, <1>20 DEF PeelGood, Counted

LEMMA Closed ==
  ASSUME NEW p, NEW r, PeelGood(p, {r}),
         IF r \in Linked(p) THEN DoneCount(p, r) ELSE OpenCount(p, r)
  PROVE  PeelGood(p, {})
  BY DEF PeelGood, CountsMatch

\* The row is still open, and its count stands for the same columns.
StillOpen(p, q, r) ==
  r \in StoredRows(q) /\ r \notin Linked(q) /\ Uncounted(q, r) = Uncounted(p, r)

\* While a row is handled its count and the columns it remembers are free.
LEMMA RowUpdateKeeps ==
  ASSUME NEW p, NEW q \in PeelState, NEW r \in StoredRows(p), PeelGood(p, {r}),
         r \notin Linked(p), RowUpdate(p, q, r)
  PROVE  StillOpen(p, q, r) /\ PeelGood(q, {r})
  <1>1. p \in PeelState /\ RefsMatch(p) /\ p.list \in Seq(Rows)
    BY Fields DEF PeelGood
  <1>2. /\ \A s : ColumnsIn(q, s) = ColumnsIn(p, s)
        /\ \A d : IsTodo(q, d) <=> IsTodo(p, d)
        /\ StoredRows(q) = StoredRows(p) /\ Linked(q) = Linked(p)
        /\ \A d, s : Walks(q, d, s) <=> Walks(p, d, s)
    BY SameLinks DEF RowUpdate, SameLists, ColumnsIn, IsTodo, StoredRows, Walks
  <1>3. \A s : Uncounted(q, s) = Uncounted(p, s)
    BY <1>2 DEF Uncounted
  <1>4. \A s \in StoredRows(p) : s # r =>
           q.unmarked[At(s)] = p.unmarked[At(s)] /\ q.marks[At(s)] = p.marks[At(s)]
    <2> TAKE s \in StoredRows(p)
    <2> HAVE s # r
    <2>1. At(s) \in 1..Len(p.unmarked) /\ At(s) \in 1..Len(p.marks) /\ At(s) # At(r)
      BY <1>1, RowIndex
    <2> QED  BY <2>1 DEF RowUpdate
  <1>5. \A s \in Elements(p.list) : Solves(q, s) = Solves(p, s)
    <2>1. Elements(p.list) \subseteq StoredRows(p) /\ r \notin Elements(p.list)
      BY DEF PeelGood, ListsMatch, Linked
    <2> QED  BY <1>4, <2>1 DEF Solves
  <1>6. /\ q.walk = p.walk /\ q.mark = p.mark /\ q.refs = p.refs
        /\ q.list = p.list /\ q.solver = p.solver
    BY DEF RowUpdate, SameLists
  <1>7. RefsMatch(q)
    BY <1>1, SameReferences DEF RowUpdate, SameLists
  <1>8. WalkMatches(q)
    BY <1>5, <1>6, SameWalks DEF PeelGood
  <1>9. CountsMatch(q, {r})
    <2> SUFFICES ASSUME NEW s \in StoredRows(p), s # r
                 PROVE  IF s \in Linked(p) THEN DoneCount(q, s) ELSE OpenCount(q, s)
      BY <1>2 DEF CountsMatch
    <2>1. IF s \in Linked(p) THEN DoneCount(p, s) ELSE OpenCount(p, s)
      BY DEF PeelGood, CountsMatch
    <2> QED  BY <1>3, <1>4, <2>1 DEF DoneCount, OpenCount
  <1>10. ListsMatch(q)
    BY <1>5, SameMarkedLists DEF RowUpdate, SameLists, PeelGood
  <1>11. SolverMatches(q)
    <2>1. Marked(q, "PEEL") = Marked(p, "PEEL")
      BY <1>6 DEF Marked
    <2>2. SolverMatches(p)
      BY DEF PeelGood
    <2> QED  BY <1>5, <1>6, <2>1, <2>2 DEF SolverMatches
  <1>12. Triangular(q)
    <2>1. \A i \in 1..Len(p.list) : Solves(q, p.list[i]) = Solves(p, p.list[i])
      BY <1>5 DEF Elements
    <2> QED  BY <1>1, <2>1, SameOrder DEF RowUpdate, SameLists, PeelGood
  <1> QED  BY <1>2, <1>3, <1>7, <1>8, <1>9, <1>10, <1>11, <1>12 DEF PeelGood, StillOpen

\* A row that is linked into the deferred list.
LEMMA DeferKeeps ==
  ASSUME NEW p, NEW q \in PeelState, NEW r \in StoredRows(p), PeelGood(p, {r}),
         r \notin Linked(p), Defer(p, q, r), DoneCount(p, r)
  PROVE  PeelGood(q, {})
  <1>1. /\ p \in PeelState /\ RefsMatch(p) /\ p.list \in Seq(Rows) /\ p.deferRows \in Seq(Rows)
        /\ r \in Rows
    BY Fields, RowIndex DEF PeelGood
  <1>2. /\ \A s : ColumnsIn(q, s) = ColumnsIn(p, s)
        /\ \A d : IsTodo(q, d) <=> IsTodo(p, d)
        /\ StoredRows(q) = StoredRows(p)
        /\ \A d, s : Walks(q, d, s) <=> Walks(p, d, s)
        /\ \A s : Solves(q, s) = Solves(p, s)
    BY DEF Defer, ColumnsIn, IsTodo, StoredRows, Walks, Solves
  <1>3. \A s : Uncounted(q, s) = Uncounted(p, s)
    BY <1>2 DEF Uncounted
  <1>4. /\ q.walk = p.walk /\ q.mark = p.mark /\ q.refs = p.refs /\ q.list = p.list
        /\ q.solver = p.solver /\ q.unmarked = p.unmarked /\ q.marks = p.marks
        /\ q.deferCols = p.deferCols /\ q.deferRows = <<r>> \o p.deferRows
    BY DEF Defer
  <1>5. r \notin Elements(p.list) /\ r \notin Elements(p.deferRows) /\ ListsMatch(p)
    BY DEF Linked, PeelGood
  <1>6. /\ Elements(q.deferRows) = Elements(p.deferRows) \cup {r}
        /\ Distinct(q.deferRows) /\ Len(q.deferRows) = Len(p.deferRows) + 1
    <2>1. Distinct(p.deferRows)
      BY <1>5 DEF ListsMatch
    <2> QED  BY <1>1, <1>4, <1>5, <2>1, Pushed
  <1>7. Linked(q) = Linked(p) \cup {r}
    BY <1>4, <1>6 DEF Linked
  <1>8. RefsMatch(q)
    BY <1>1, <1>4, SameReferences DEF Defer
  <1>9. WalkMatches(q)
    BY <1>2, <1>4, SameWalks DEF PeelGood
  <1>10. CountsMatch(q, {})
    <2> SUFFICES ASSUME NEW s \in StoredRows(p)
                 PROVE  IF s \in Linked(q) THEN DoneCount(q, s) ELSE OpenCount(q, s)
      BY <1>2 DEF CountsMatch
    <2>1. CASE s = r
      BY <1>3, <1>4, <1>7, <2>1 DEF DoneCount
    <2>2. CASE s # r
      <3>1. IF s \in Linked(p) THEN DoneCount(p, s) ELSE OpenCount(p, s)
        BY <2>2 DEF PeelGood, CountsMatch
      <3> QED  BY <1>3, <1>4, <1>7, <2>2, <3>1 DEF DoneCount, OpenCount
    <2> QED  BY <2>1, <2>2
  <1>11. ListsMatch(q)
    <2>1. Marked(q, "PEEL") = Marked(p, "PEEL") /\ Marked(q, "DEFER") = Marked(p, "DEFER")
      BY <1>4 DEF Marked
    <2>2. Cardinality(Linked(q)) = Cardinality(Linked(p)) + 1
      <3>1. IsFiniteSet(Linked(p))
        <4>1. StoredRows(p) \subseteq Columns
          BY <1>1, RowIndex, ColumnsAndRows
        <4> QED  BY <1>5, <4>1, ColumnsAndRows, FS_Subset DEF ListsMatch
      <3> QED  BY <1>7, <3>1, FS_AddElement
    <2>3. {Solves(q, s) : s \in Elements(q.list)} = {Solves(p, s) : s \in Elements(p.list)}
      BY <1>2, <1>4
    <2>4. Len(p.list) \in Nat /\ Len(p.deferRows) \in Nat
      BY <1>1
    <2>5. /\ Linked(p) \subseteq StoredRows(p) /\ Distinct(p.list)
          /\ Elements(p.list) \cap Elements(p.deferRows) = {}
          /\ Len(p.list) + Len(p.deferRows) = Cardinality(Linked(p))
          /\ Len(p.list) = Cardinality(Marked(p, "PEEL"))
          /\ Len(p.deferCols) = Cardinality(Marked(p, "DEFER"))
          /\ Marked(p, "PEEL") = {Solves(p, s) : s \in Elements(p.list)}
      BY <1>5 DEF ListsMatch
    <2>6. Len(q.list) + Len(q.deferRows) = Cardinality(Linked(q))
      BY <1>4, <1>6, <2>2, <2>4, <2>5
    <2>7. Elements(q.list) \cap Elements(q.deferRows) = {} /\ Linked(q) \subseteq StoredRows(q)
      BY <1>2, <1>4, <1>5, <1>6, <1>7, <2>5
    <2> QED  BY <1>4, <1>6, <2>1, <2>3, <2>5, <2>6, <2>7 DEF ListsMatch
  <1>12. SolverMatches(q)
    <2>1. Marked(q, "PEEL") = Marked(p, "PEEL") /\ SolverMatches(p)
      BY <1>4 DEF Marked, PeelGood
    <2> QED  BY <1>2, <1>4, <2>1 DEF SolverMatches
  <1>13. Triangular(q)
    BY <1>1, <1>2, <1>4, SameOrder DEF Defer, PeelGood
  <1> QED  BY <1>8, <1>9, <1>10, <1>11, <1>12, <1>13 DEF PeelGood

\* A call for the unmarked column c, made by the row that solves it or by the
\* greedy loop, marks the column and is pushed.
Call(p, q, c, by, m) ==
  /\ c \in Columns /\ IsTodo(p, c) /\ by \in Rows \cup {NoRow}
  /\ q.rows = p.rows /\ q.refs = p.refs /\ q.mark = [p.mark EXCEPT ![c] = m]
  /\ q.walk = <<Frame(p, c, by)>> \o p.walk
  /\ IF by = NoRow THEN m = "DEFER"
     ELSE m = "PEEL" /\ by \in Elements(q.list) /\ Solves(q, by) = c
  /\ Elements(p.list) \subseteq Elements(q.list)
  /\ \A s \in Elements(p.list) : Solves(q, s) = Solves(p, s)

\* What the call leaves as it was: the column's rows are still to be counted,
\* and the calls below it stay.
CallKept(p, q, c) ==
  /\ \A s \in StoredRows(p) : Uncounted(q, s) = Uncounted(p, s)
  /\ WalkMatches(q)
  /\ \A k \in 1..Len(p.walk) : \E l \in 1..Len(q.walk) : q.walk[l].col = p.walk[k].col
  /\ \E l \in 1..Len(q.walk) : q.walk[l].col = c

LEMMA CallKeeps ==
  ASSUME NEW p, NEW q, NEW c, NEW by, NEW m, NEW but, PeelGood(p, but), Call(p, q, c, by, m)
  PROVE  CallKept(p, q, c)
  <1>0. /\ c \in Columns /\ IsTodo(p, c) /\ by \in Rows \cup {NoRow} /\ m \in {"PEEL", "DEFER"}
        /\ q.rows = p.rows /\ q.refs = p.refs /\ q.mark = [p.mark EXCEPT ![c] = m]
        /\ q.walk = <<Frame(p, c, by)>> \o p.walk
        /\ IF by = NoRow THEN m = "DEFER"
           ELSE m = "PEEL" /\ by \in Elements(q.list) /\ Solves(q, by) = c
        /\ Elements(p.list) \subseteq Elements(q.list)
        /\ \A s \in Elements(p.list) : Solves(q, s) = Solves(p, s)
    BY DEF Call
  <1> USE <1>0
  <1> DEFINE f == Frame(p, c, by)
  <1>1. p \in PeelState /\ p.walk \in Seq(Frames) /\ f \in Frames /\ p.mark \in [Columns -> MarkTypes]
    BY FrameType, Fields DEF PeelGood
  <1>2. f.col = c /\ f.rest = p.refs[c] /\ f.by = by
    BY DEF Frame
  <1> HIDE DEF f
  <1>3. q.walk = <<f>> \o p.walk
    BY DEF f
  <1>4. /\ Len(q.walk) = Len(p.walk) + 1 /\ Len(p.walk) \in Nat
        /\ q.walk[1] = f
        /\ \A k \in 1..Len(p.walk) : k + 1 \in 1..Len(q.walk) /\ q.walk[k + 1] = p.walk[k]
        /\ \A k \in 1..Len(q.walk) : k = 1 \/ (k - 1 \in 1..Len(p.walk) /\ q.walk[k] = p.walk[k - 1])
    <2>1. /\ Len(q.walk) = Len(p.walk) + 1 /\ Len(p.walk) \in Nat
          /\ q.walk[1] = f
          /\ \A k \in 1..Len(p.walk) : q.walk[k + 1] = p.walk[k]
          /\ \A k \in 2..(Len(p.walk) + 1) : k - 1 \in 1..Len(p.walk) /\ q.walk[k] = p.walk[k - 1]
      BY <1>1, <1>3, Pushed
    <2>2. \A k \in 1..(Len(p.walk) + 1) : k = 1 \/ k \in 2..(Len(p.walk) + 1)
      BY <2>1
    <2>3. \A k \in 1..Len(p.walk) : k + 1 \in 1..(Len(p.walk) + 1)
      BY <2>1
    <2> QED  BY <2>1, <2>2, <2>3
  <1>5. \A d, s : Walks(q, d, s) <=> Walks(p, d, s) \/ (d = c /\ s \in Elements(p.refs[c]))
    <2> TAKE d, s
    <2>1. ASSUME Walks(q, d, s) PROVE Walks(p, d, s) \/ (d = c /\ s \in Elements(p.refs[c]))
      <3>1. PICK k \in 1..Len(q.walk) : q.walk[k].col = d /\ s \in Elements(q.walk[k].rest)
        BY <2>1 DEF Walks
      <3>2. CASE k = 1
        BY <1>2, <1>4, <3>1, <3>2
      <3>3. CASE k # 1
        BY <1>4, <3>1, <3>3 DEF Walks
      <3> QED  BY <3>2, <3>3
    <2>2. ASSUME Walks(p, d, s) PROVE Walks(q, d, s)
      <3>1. PICK k \in 1..Len(p.walk) : p.walk[k].col = d /\ s \in Elements(p.walk[k].rest)
        BY <2>2 DEF Walks
      <3> QED  BY <1>4, <3>1 DEF Walks
    <2>3. ASSUME d = c /\ s \in Elements(p.refs[c]) PROVE Walks(q, d, s)
      <3>1. 1 \in 1..Len(q.walk)
        BY <1>4
      <3> QED  BY <1>2, <1>4, <2>3, <3>1 DEF Walks
    <2> QED  BY <2>1, <2>2, <2>3
  <1>6. \A d \in Columns : IsTodo(q, d) <=> IsTodo(p, d) /\ d # c
    BY <1>1 DEF IsTodo
  <1>7. ASSUME NEW s \in StoredRows(p) PROVE Uncounted(q, s) = Uncounted(p, s)
    <2>1. ColumnsIn(q, s) = ColumnsIn(p, s) /\ ColumnsIn(p, s) \subseteq Columns
      BY <1>1, <1>7, RowIndex DEF ColumnsIn, PeelGood
    <2>2. c \in ColumnsIn(p, s) => s \in Elements(p.refs[c])
      BY <1>7 DEF PeelGood, RefsMatch
    <2> QED  BY <1>5, <1>6, <2>1, <2>2 DEF Uncounted
  <1>8. \A k \in 1..Len(p.walk) : p.walk[k].col # c /\ p.walk[k].col \in Columns
    <2> TAKE k \in 1..Len(p.walk)
    <2>1. WalkMatchesAt(p, k)
      BY EachWalk DEF PeelGood
    <2>2. p.mark[p.walk[k].col] # "TODO"
      BY <2>1 DEF WalkMatchesAt
    <2>3. p.walk[k] \in Frames
      BY <1>1
    <2> QED  BY <2>2, <2>3 DEF Frames, IsTodo
  <1>9. WalkMatches(q)
    <2> SUFFICES ASSUME NEW k \in 1..Len(q.walk) PROVE WalkMatchesAt(q, k)
      BY EachWalk
    <2>1. CASE k = 1
      <3>1. \A l \in 1..Len(q.walk) : q.walk[l].col = c => l = 1
        BY <1>4, <1>8
      <3>2. Distinct(p.refs[c])
        BY DEF PeelGood, RefsMatch
      <3>3. q.mark[c] = m
        BY <1>1
      <3> QED  BY <1>2, <1>4, <2>1, <3>1, <3>2, <3>3 DEF WalkMatchesAt
    <2>2. CASE k # 1
      <3>1. k - 1 \in 1..Len(p.walk) /\ q.walk[k] = p.walk[k - 1]
        BY <1>4, <2>2
      <3>2. WalkMatchesAt(p, k - 1)
        BY <3>1, EachWalk DEF PeelGood
      <3>3. ASSUME NEW l \in 1..Len(q.walk), q.walk[l].col = q.walk[k].col PROVE l = k
        <4>1. l # 1
          BY <1>2, <1>4, <1>8, <3>1, <3>3
        <4>2. l - 1 \in 1..Len(p.walk) /\ p.walk[l - 1].col = p.walk[k - 1].col
          BY <1>4, <3>1, <3>3, <4>1
        <4>3. l - 1 = k - 1
          BY <3>2, <4>2 DEF WalkMatchesAt
        <4> QED  BY <4>3
      <3>4. q.mark[q.walk[k].col] = p.mark[p.walk[k - 1].col]
        BY <1>1, <1>8, <3>1
      <3> QED  BY <3>1, <3>2, <3>3, <3>4 DEF WalkMatchesAt
    <2> QED  BY <2>1, <2>2
  <1>10. \A k \in 1..Len(p.walk) : \E l \in 1..Len(q.walk) : q.walk[l].col = p.walk[k].col
    BY <1>4
  <1>11. \E l \in 1..Len(q.walk) : q.walk[l].col = c
    <2>1. 1 \in 1..Len(q.walk)
      BY <1>4
    <2> QED  BY <1>2, <1>4, <2>1
  <1> QED  BY <1>7, <1>9, <1>10, <1>11 DEF CallKept

\* A column that is put off until Gaussian elimination.
LEMMA DeferColumnKeeps ==
  ASSUME NEW p, NEW q \in PeelState, NEW c \in Columns, PeelGood(p, {}), IsTodo(p, c),
         DeferColumn(p, q, c)
  PROVE  PeelGood(q, {})
  <1>1. /\ p \in PeelState /\ p.list \in Seq(Rows) /\ p.deferCols \in Seq(Columns)
        /\ p.mark \in [Columns -> MarkTypes] /\ ListsMatch(p)
    BY Fields DEF PeelGood
  <1>2. /\ \A s : ColumnsIn(q, s) = ColumnsIn(p, s)
        /\ StoredRows(q) = StoredRows(p)
        /\ \A s : Solves(q, s) = Solves(p, s)
        /\ Linked(q) = Linked(p)
    BY SameLinks DEF DeferColumn, ColumnsIn, StoredRows, Solves
  <1>3. /\ q.rows = p.rows /\ q.refs = p.refs /\ q.list = p.list /\ q.solver = p.solver
        /\ q.unmarked = p.unmarked /\ q.marks = p.marks /\ q.deferRows = p.deferRows
        /\ q.mark = [p.mark EXCEPT ![c] = "DEFER"] /\ q.deferCols = <<c>> \o p.deferCols
        /\ q.walk = <<Frame(p, c, NoRow)>> \o p.walk
    BY DEF DeferColumn
  <1>4. /\ \A s \in StoredRows(p) : Uncounted(q, s) = Uncounted(p, s)
        /\ WalkMatches(q)
        /\ \A k \in 1..Len(p.walk) : \E l \in 1..Len(q.walk) : q.walk[l].col = p.walk[k].col
    <2>1. Elements(p.list) \subseteq Elements(q.list)
      BY <1>3
    <2>2. \A s \in Elements(p.list) : Solves(q, s) = Solves(p, s)
      BY <1>2
    <2>3. Call(p, q, c, NoRow, "DEFER")
      BY <1>3, <2>1, <2>2 DEF Call
    <2>4. CallKept(p, q, c)
      BY <2>3, CallKeeps
    <2> QED  BY <2>4 DEF CallKept
  <1>5. /\ Marked(q, "PEEL") = Marked(p, "PEEL")
        /\ Marked(q, "DEFER") = Marked(p, "DEFER") \cup {c} /\ c \notin Marked(p, "DEFER")
    BY <1>1, <1>3 DEF Marked, IsTodo
  <1>6. RefsMatch(q)
    BY <1>3, SameReferences DEF PeelGood
  <1>7. CountsMatch(q, {})
    <2> SUFFICES ASSUME NEW s \in StoredRows(p)
                 PROVE  IF s \in Linked(p) THEN DoneCount(q, s) ELSE OpenCount(q, s)
      BY <1>2 DEF CountsMatch
    <2>1. IF s \in Linked(p) THEN DoneCount(p, s) ELSE OpenCount(p, s)
      BY DEF PeelGood, CountsMatch
    <2> QED  BY <1>3, <1>4, <2>1 DEF DoneCount, OpenCount
  <1>8. ListsMatch(q)
    <2>1. Len(q.deferCols) = Len(p.deferCols) + 1
      BY <1>1, <1>3, Pushed
    <2>2. Cardinality(Marked(q, "DEFER")) = Cardinality(Marked(p, "DEFER")) + 1
      <3>1. IsFiniteSet(Marked(p, "DEFER"))
        BY ColumnsAndRows, FS_Subset DEF Marked
      <3> QED  BY <1>5, <3>1, FS_AddElement
    <2>3. {Solves(q, s) : s \in Elements(q.list)} = {Solves(p, s) : s \in Elements(p.list)}
      BY <1>2, <1>3
    <2> QED  BY <1>1, <1>2, <1>3, <1>5, <2>1, <2>2, <2>3 DEF ListsMatch
  <1>9. SolverMatches(q)
    <2> SUFFICES ASSUME NEW d \in Marked(p, "PEEL")
                 PROVE  \/ \E k \in 1..Len(q.walk) : q.walk[k].col = d
                        \/ q.solver[d] \in Elements(q.list) /\ Solves(q, q.solver[d]) = d
      BY <1>5 DEF SolverMatches
    <2>1. \/ \E k \in 1..Len(p.walk) : p.walk[k].col = d
          \/ p.solver[d] \in Elements(p.list) /\ Solves(p, p.solver[d]) = d
      BY DEF PeelGood, SolverMatches
    <2> QED  BY <1>2, <1>3, <1>4, <2>1
  <1>10. Triangular(q)
    <2>1. \A k \in 1..Len(p.list) : SolvedBefore(q, k) = SolvedBefore(p, k)
      BY <1>2, <1>3 DEF SolvedBefore
    <2>2. \A d \in Columns : p.mark[d] = "DEFER" => q.mark[d] = "DEFER"
      BY <1>1, <1>3
    <2> SUFFICES ASSUME NEW k \in 1..Len(p.list)
                 PROVE  /\ Solves(p, p.list[k]) \in ColumnsIn(p, p.list[k]) \ SolvedBefore(p, k)
                        /\ \A d \in ColumnsIn(p, p.list[k]) \ {Solves(p, p.list[k])} :
                              d \in SolvedBefore(p, k) \/ q.mark[d] = "DEFER"
      BY <1>2, <1>3, <2>1 DEF Triangular
    <2>3. /\ Solves(p, p.list[k]) \in ColumnsIn(p, p.list[k]) \ SolvedBefore(p, k)
          /\ \A d \in ColumnsIn(p, p.list[k]) \ {Solves(p, p.list[k])} :
                d \in SolvedBefore(p, k) \/ p.mark[d] = "DEFER"
      BY DEF PeelGood, Triangular
    <2>4. ColumnsIn(p, p.list[k]) \subseteq Columns
      <3>1. p.list[k] \in StoredRows(p)
        BY <1>1 DEF ListsMatch, Linked, Elements
      <3> QED  BY <1>1, <3>1, RowIndex DEF PeelGood
    <2> QED  BY <2>2, <2>3, <2>4
  <1> QED  BY <1>4, <1>6, <1>7, <1>8, <1>9, <1>10 DEF PeelGood

\* A row with one unmarked column solves it.
LEMMA SolveKeeps ==
  ASSUME NEW p, NEW q \in PeelState, NEW r \in StoredRows(p), NEW c \in ColumnsIn(p, r),
         PeelGood(p, {r}), r \notin Linked(p), DoneCount(p, r), Solve(p, q, r, c),
         IsTodo(p, c), \A d \in ColumnsIn(p, r) \ {c} : ~IsTodo(p, d)
  PROVE  PeelGood(q, {})
  <1>1. /\ p \in PeelState /\ RefsMatch(p) /\ p.list \in Seq(Rows) /\ Len(p.list) \in Nat
        /\ p.mark \in [Columns -> MarkTypes] /\ ListsMatch(p) /\ SolverMatches(p)
        /\ r \in Rows /\ At(r) \in 1..Len(p.marks) /\ c \in Columns
    BY Fields, RowIndex DEF PeelGood
  <1>2. /\ q.rows = p.rows /\ q.refs = p.refs /\ q.solver = p.solver /\ q.unmarked = p.unmarked
        /\ q.deferRows = p.deferRows /\ q.deferCols = p.deferCols
        /\ q.mark = [p.mark EXCEPT ![c] = "PEEL"]
        /\ q.list = Append(p.list, r)
        /\ q.walk = <<Frame(p, c, r)>> \o p.walk
    BY DEF Solve
  <1>3. /\ Len(q.marks) = Len(p.marks) /\ Solves(q, r) = c
        /\ \A s \in StoredRows(p) : s # r => q.marks[At(s)] = p.marks[At(s)]
    <2>1. PICK m \in Word : q.marks = [p.marks EXCEPT ![At(r)] = <<c, m>>]
      BY DEF Solve
    <2>2. p.marks \in Seq(Word \X Word) /\ <<c, m>> \in Word \X Word /\ <<c, m>>[1] = c
      BY <1>1, Fields, ColumnsAndRows
    <2>3. /\ Len(q.marks) = Len(p.marks) /\ q.marks[At(r)] = <<c, m>>
          /\ \A i \in 1..Len(p.marks) : i # At(r) => q.marks[i] = p.marks[i]
      BY <1>1, <2>1, <2>2, Replaced
    <2>4. \A s \in StoredRows(p) : s # r => At(s) \in 1..Len(p.marks) /\ At(s) # At(r)
      BY <1>1, RowIndex
    <2> QED  BY <2>2, <2>3, <2>4 DEF Solves
  <1>4. r \notin Elements(p.list) /\ r \notin Elements(p.deferRows) /\ Elements(p.list) \subseteq StoredRows(p)
    BY <1>1 DEF Linked, ListsMatch
  <1>5. \A s \in Elements(p.list) : Solves(q, s) = Solves(p, s)
    BY <1>3, <1>4 DEF Solves
  <1>6. /\ Len(q.list) = Len(p.list) + 1 /\ q.list[Len(p.list) + 1] = r
        /\ \A i \in 1..Len(p.list) : q.list[i] = p.list[i]
        /\ Elements(q.list) = Elements(p.list) \cup {r} /\ Distinct(q.list)
    <2>1. Distinct(p.list)
      BY <1>1 DEF ListsMatch
    <2> QED  BY <1>1, <1>2, <1>4, <2>1, Appended
  <1>7. /\ Linked(q) = Linked(p) \cup {r} /\ StoredRows(q) = StoredRows(p)
        /\ \A s : ColumnsIn(q, s) = ColumnsIn(p, s)
    BY <1>2, <1>6 DEF Linked, StoredRows, ColumnsIn
  <1>8. /\ \A s \in StoredRows(p) : Uncounted(q, s) = Uncounted(p, s)
        /\ WalkMatches(q)
        /\ \A k \in 1..Len(p.walk) : \E l \in 1..Len(q.walk) : q.walk[l].col = p.walk[k].col
        /\ \E l \in 1..Len(q.walk) : q.walk[l].col = c
    <2>1. r # NoRow /\ r \in Elements(q.list) /\ Elements(p.list) \subseteq Elements(q.list)
      BY <1>1, <1>6, ColumnsAndRows
    <2>2. Call(p, q, c, r, "PEEL")
      BY <1>1, <1>2, <1>3, <1>5, <2>1 DEF Call
    <2>3. CallKept(p, q, c)
      BY <2>2, CallKeeps
    <2> QED  BY <2>3 DEF CallKept
  <1>9. /\ Marked(q, "DEFER") = Marked(p, "DEFER")
        /\ Marked(q, "PEEL") = Marked(p, "PEEL") \cup {c} /\ c \notin Marked(p, "PEEL")
    BY <1>1, <1>2 DEF Marked, IsTodo
  <1>10. RefsMatch(q)
    BY <1>1, <1>2, <1>3, SameReferences
  <1>11. CountsMatch(q, {})
    <2> SUFFICES ASSUME NEW s \in StoredRows(p)
                 PROVE  IF s \in Linked(q) THEN DoneCount(q, s) ELSE OpenCount(q, s)
      BY <1>7 DEF CountsMatch
    <2>1. CASE s = r
      BY <1>2, <1>7, <1>8, <2>1 DEF DoneCount
    <2>2. CASE s # r
      <3>1. IF s \in Linked(p) THEN DoneCount(p, s) ELSE OpenCount(p, s)
        BY <2>2 DEF PeelGood, CountsMatch
      <3> QED  BY <1>2, <1>3, <1>7, <1>8, <2>2, <3>1 DEF DoneCount, OpenCount
    <2> QED  BY <2>1, <2>2
  <1>12. ListsMatch(q)
    <2>1. Cardinality(Linked(q)) = Cardinality(Linked(p)) + 1
      <3>1. IsFiniteSet(Linked(p))
        <4>1. StoredRows(p) \subseteq Columns
          BY <1>1, RowIndex, ColumnsAndRows
        <4> QED  BY <1>1, <4>1, ColumnsAndRows, FS_Subset DEF ListsMatch
      <3> QED  BY <1>7, <3>1, FS_AddElement
    <2>2. Cardinality(Marked(q, "PEEL")) = Cardinality(Marked(p, "PEEL")) + 1
      <3>1. IsFiniteSet(Marked(p, "PEEL"))
        BY ColumnsAndRows, FS_Subset DEF Marked
      <3> QED  BY <1>9, <3>1, FS_AddElement
    <2>3. {Solves(q, s) : s \in Elements(q.list)} = {Solves(p, s) : s \in Elements(p.list)} \cup {c}
      BY <1>3, <1>5, <1>6
    <2>4. /\ Linked(p) \subseteq StoredRows(p) /\ Distinct(p.deferRows)
          /\ Elements(p.list) \cap Elements(p.deferRows) = {}
          /\ Len(p.list) + Len(p.deferRows) = Cardinality(Linked(p))
          /\ Len(p.list) = Cardinality(Marked(p, "PEEL"))
          /\ Len(p.deferCols) = Cardinality(Marked(p, "DEFER"))
          /\ Marked(p, "PEEL") = {Solves(p, s) : s \in Elements(p.list)}
      BY <1>1 DEF ListsMatch
    <2>5. Len(p.deferRows) \in Nat
      <3>1. p.deferRows \in Seq(Rows)
        BY <1>1, Fields
      <3> QED  BY <3>1
    <2>6. /\ Len(q.list) + Len(q.deferRows) = Cardinality(Linked(q))
          /\ Len(q.list) = Cardinality(Marked(q, "PEEL"))
      BY <1>1, <1>2, <1>6, <2>1, <2>2, <2>4, <2>5
    <2>7. Elements(q.list) \cap Elements(q.deferRows) = {} /\ Linked(q) \subseteq StoredRows(q)
      BY <1>2, <1>4, <1>6, <1>7, <2>4
    <2> QED  BY <1>2, <1>6, <1>9, <2>3, <2>4, <2>6, <2>7 DEF ListsMatch
  <1>13. SolverMatches(q)
    <2> SUFFICES ASSUME NEW d \in Marked(p, "PEEL")
                 PROVE  \/ \E k \in 1..Len(q.walk) : q.walk[k].col = d
                        \/ q.solver[d] \in Elements(q.list) /\ Solves(q, q.solver[d]) = d
      BY <1>8, <1>9 DEF SolverMatches
    <2>1. \/ \E k \in 1..Len(p.walk) : p.walk[k].col = d
          \/ p.solver[d] \in Elements(p.list) /\ Solves(p, p.solver[d]) = d
      BY <1>1 DEF SolverMatches
    <2>2. CASE \E k \in 1..Len(p.walk) : p.walk[k].col = d
      BY <1>8, <2>2
    <2>3. CASE p.solver[d] \in Elements(p.list) /\ Solves(p, p.solver[d]) = d
      BY <1>2, <1>5, <1>6, <2>3
    <2> QED  BY <2>1, <2>2, <2>3
  <1>14. Triangular(q)
    <2>1. \A k \in 1..Len(p.list) : SolvedBefore(q, k) = SolvedBefore(p, k)
      <3> TAKE k \in 1..Len(p.list)
      <3>1. \A i \in 1..(k - 1) : i \in 1..Len(p.list) /\ p.list[i] \in Elements(p.list)
        BY <1>1 DEF Elements
      <3>2. \A i \in 1..(k - 1) : Solves(q, q.list[i]) = Solves(p, p.list[i])
        BY <1>5, <1>6, <3>1
      <3> QED  BY <3>2 DEF SolvedBefore
    <2>2. SolvedBefore(q, Len(p.list) + 1) = Marked(p, "PEEL")
      <3>1. \A i \in 1..Len(p.list) : Solves(q, q.list[i]) = Solves(p, p.list[i])
        BY <1>5, <1>6 DEF Elements
      <3>2. (Len(p.list) + 1) - 1 = Len(p.list)
        BY <1>1
      <3>3. SolvedBefore(q, Len(p.list) + 1) = {Solves(p, p.list[i]) : i \in 1..Len(p.list)}
        BY <3>1, <3>2 DEF SolvedBefore
      <3>4. Marked(p, "PEEL") = {Solves(p, s) : s \in Elements(p.list)}
        BY <1>1 DEF ListsMatch
      <3> QED  BY <3>3, <3>4 DEF Elements
    <2>3. \A d \in Columns : p.mark[d] = "DEFER" => q.mark[d] = "DEFER"
      BY <1>1, <1>2 DEF IsTodo
    <2> SUFFICES ASSUME NEW k \in 1..(Len(p.list) + 1)
                 PROVE  /\ Solves(q, q.list[k]) \in ColumnsIn(p, q.list[k]) \ SolvedBefore(q, k)
                        /\ \A d \in ColumnsIn(p, q.list[k]) \ {Solves(q, q.list[k])} :
                              d \in SolvedBefore(q, k) \/ q.mark[d] = "DEFER"
      BY <1>6, <1>7 DEF Triangular
    <2>4. CASE k \in 1..Len(p.list)
      <3>1. /\ Solves(p, p.list[k]) \in ColumnsIn(p, p.list[k]) \ SolvedBefore(p, k)
            /\ \A d \in ColumnsIn(p, p.list[k]) \ {Solves(p, p.list[k])} :
                  d \in SolvedBefore(p, k) \/ p.mark[d] = "DEFER"
        BY <2>4 DEF PeelGood, Triangular
      <3>2. p.list[k] \in Elements(p.list)
        BY <2>4 DEF Elements
      <3>3. ColumnsIn(p, p.list[k]) \subseteq Columns
        BY <1>1, <1>4, <3>2, RowIndex
      <3>4. q.list[k] = p.list[k] /\ Solves(q, q.list[k]) = Solves(p, p.list[k])
        BY <1>5, <1>6, <2>4, <3>2
      <3> QED  BY <2>1, <2>3, <2>4, <3>1, <3>3, <3>4
    <2>5. CASE k = Len(p.list) + 1
      <3>1. q.list[k] = r /\ Solves(q, q.list[k]) = c /\ SolvedBefore(q, k) = Marked(p, "PEEL")
        BY <1>3, <1>6, <2>2, <2>5
      <3>2. ColumnsIn(p, r) \subseteq Columns
        BY <1>1, RowIndex
      <3>3. \A d \in ColumnsIn(p, r) \ {c} : d \in Marked(p, "PEEL") \/ q.mark[d] = "DEFER"
        <4> TAKE d \in ColumnsIn(p, r) \ {c}
        <4>1. p.mark[d] # "TODO" /\ p.mark[d] \in MarkTypes /\ d \in Columns
          BY <1>1, <3>2 DEF IsTodo
        <4> QED  BY <2>3, <4>1 DEF MarkTypes, Marked
      <3> QED  BY <1>9, <3>1, <3>3
    <2> QED  BY <1>1, <2>4, <2>5
  <1> QED  BY <1>8, <1>10, <1>11, <1>12, <1>13, <1>14 DEF PeelGood

\* The innermost call returns, its column names the row that solves it.
LEMMA ReturnKeeps ==
  ASSUME NEW p, NEW q \in PeelState, PeelGood(p, {}), p.walk # <<>>, p.walk[1].rest = <<>>,
         Return(p, q)
  PROVE  PeelGood(q, {})
  <1> DEFINE c == p.walk[1].col
             by == p.walk[1].by
  <1>1. /\ p \in PeelState /\ p.walk \in Seq(Frames) /\ p.list \in Seq(Rows)
        /\ p.solver \in [Columns -> Rows \cup {NoRow}]
    BY Fields DEF PeelGood
  <1>2. /\ Len(q.walk) = Len(p.walk) - 1 /\ Len(p.walk) \in Nat \ {0}
        /\ \A k \in 1..Len(q.walk) : k + 1 \in 1..Len(p.walk) /\ q.walk[k] = p.walk[k + 1]
        /\ \A k \in 1..Len(p.walk) : k = 1 \/ (k - 1 \in 1..Len(q.walk) /\ q.walk[k - 1] = p.walk[k])
    <2>1. /\ Len(q.walk) = Len(p.walk) - 1 /\ Len(p.walk) \in Nat \ {0}
          /\ \A k \in 1..Len(q.walk) : k + 1 \in 1..Len(p.walk) /\ q.walk[k] = p.walk[k + 1]
      BY <1>1, Headed DEF Return
    <2>2. \A k \in 1..Len(p.walk) : k = 1 \/ (k - 1 \in 1..Len(q.walk) /\ (k - 1) + 1 = k)
      BY <2>1
    <2> QED  BY <2>1, <2>2
  <1>3. /\ q.rows = p.rows /\ q.mark = p.mark /\ q.refs = p.refs /\ q.list = p.list
        /\ q.unmarked = p.unmarked /\ q.marks = p.marks
        /\ q.deferRows = p.deferRows /\ q.deferCols = p.deferCols
    BY DEF Return
  <1>4. \A d, s : Walks(q, d, s) <=> Walks(p, d, s)
    <2> TAKE d, s
    <2>1. ASSUME Walks(p, d, s) PROVE Walks(q, d, s)
      <3>1. PICK k \in 1..Len(p.walk) : p.walk[k].col = d /\ s \in Elements(p.walk[k].rest)
        BY <2>1 DEF Walks
      <3>2. k # 1
        BY <3>1 DEF Elements
      <3> QED  BY <1>2, <3>1, <3>2 DEF Walks
    <2>2. ASSUME Walks(q, d, s) PROVE Walks(p, d, s)
      BY <1>2, <2>2 DEF Walks
    <2> QED  BY <2>1, <2>2
  <1>5. /\ \A s : ColumnsIn(q, s) = ColumnsIn(p, s)
        /\ \A d : IsTodo(q, d) <=> IsTodo(p, d)
        /\ StoredRows(q) = StoredRows(p) /\ Linked(q) = Linked(p)
        /\ \A s : Solves(q, s) = Solves(p, s)
        /\ Marked(q, "PEEL") = Marked(p, "PEEL")
    BY <1>3 DEF ColumnsIn, IsTodo, StoredRows, Linked, Solves, Marked
  <1>6. \A s : Uncounted(q, s) = Uncounted(p, s)
    BY <1>4, <1>5 DEF Uncounted
  <1>7. RefsMatch(q)
    BY <1>3, SameReferences DEF PeelGood
  <1>8. WalkMatches(q)
    <2> SUFFICES ASSUME NEW k \in 1..Len(q.walk) PROVE WalkMatchesAt(q, k)
      BY EachWalk
    <2>1. k + 1 \in 1..Len(p.walk) /\ q.walk[k] = p.walk[k + 1]
      BY <1>2
    <2>2. WalkMatchesAt(p, k + 1)
      BY <2>1, EachWalk DEF PeelGood
    <2>3. ASSUME NEW l \in 1..Len(q.walk), q.walk[l].col = q.walk[k].col PROVE l = k
      <3>1. l + 1 \in 1..Len(p.walk) /\ p.walk[l + 1].col = p.walk[k + 1].col
        BY <1>2, <2>1, <2>3
      <3>2. l + 1 = k + 1
        BY <2>2, <3>1 DEF WalkMatchesAt
      <3> QED  BY <3>2
    <2> QED  BY <1>3, <1>5, <2>1, <2>2, <2>3 DEF WalkMatchesAt
  <1>9. CountsMatch(q, {})
    <2> SUFFICES ASSUME NEW s \in StoredRows(p)
                 PROVE  IF s \in Linked(p) THEN DoneCount(q, s) ELSE OpenCount(q, s)
      BY <1>5 DEF CountsMatch
    <2>1. IF s \in Linked(p) THEN DoneCount(p, s) ELSE OpenCount(p, s)
      BY DEF PeelGood, CountsMatch
    <2> QED  BY <1>3, <1>6, <2>1 DEF DoneCount, OpenCount
  <1>10. ListsMatch(q)
    BY <1>3, <1>5, SameMarkedLists DEF PeelGood
  <1>11. SolverMatches(q)
    <2> SUFFICES ASSUME NEW d \in Marked(p, "PEEL")
                 PROVE  \/ \E k \in 1..Len(q.walk) : q.walk[k].col = d
                        \/ q.solver[d] \in Elements(p.list) /\ Solves(p, q.solver[d]) = d
      BY <1>3, <1>5 DEF SolverMatches
    <2>1. q.solver = [p.solver EXCEPT ![c] = IF by = NoRow THEN p.solver[c] ELSE by]
      BY DEF Return
    <2>2. WalkMatchesAt(p, 1) /\ d \in Columns /\ p.mark[d] = "PEEL"
      BY <1>2, EachWalk DEF PeelGood, Marked
    <2>3. CASE d = c
      <3>1. by # NoRow /\ by \in Elements(p.list) /\ Solves(p, by) = d
        BY <2>2, <2>3 DEF WalkMatchesAt
      <3>2. q.solver[d] = by
        BY <1>1, <2>1, <2>2, <2>3, <3>1
      <3> QED  BY <3>1, <3>2
    <2>4. CASE d # c
      <3>1. q.solver[d] = p.solver[d]
        BY <1>1, <2>1, <2>2, <2>4
      <3>2. \/ \E k \in 1..Len(p.walk) : p.walk[k].col = d
            \/ p.solver[d] \in Elements(p.list) /\ Solves(p, p.solver[d]) = d
        BY DEF PeelGood, SolverMatches
      <3>3. CASE p.solver[d] \in Elements(p.list) /\ Solves(p, p.solver[d]) = d
        BY <3>1, <3>3
      <3>4. ASSUME NEW k \in 1..Len(p.walk), p.walk[k].col = d
            PROVE  \E l \in 1..Len(q.walk) : q.walk[l].col = d
        <4>1. k # 1
          BY <2>4, <3>4
        <4>2. k - 1 \in 1..Len(q.walk) /\ q.walk[k - 1] = p.walk[(k - 1) + 1] /\ (k - 1) + 1 = k
          BY <1>2, <4>1
        <4> QED  BY <3>4, <4>2
      <3> QED  BY <3>2, <3>3, <3>4
    <2> QED  BY <2>3, <2>4
  <1>12. Triangular(q)
    BY <1>1, <1>3, <1>5, SameOrder DEF PeelGood
  <1> QED  BY <1>7, <1>8, <1>9, <1>10, <1>11, <1>12 DEF PeelGood

(***************************************************************************)
(* Which columns of a row are unmarked.                                    *)
(***************************************************************************)
LEMMA EndsExist ==
  ASSUME NEW n \in Nat, NEW S, S \subseteq 1..n, S # {}
  PROVE  /\ \E i \in S : \A j \in S : i <= j
         /\ \E i \in S : \A j \in S : j <= i
  <1>1. IsFiniteSet(S)
    <2>1. n \in Int /\ 1 \in Int
      OBVIOUS
    <2>2. IsFiniteSet(1..n)
      BY <2>1, FS_Interval, Zenon
    <2> QED  BY <2>2, FS_Subset
  <1>2. \E i \in S : \A j \in S : i <= j
    <2> DEFINE R == {e \in S \X S : e[1] <= e[2]}
    <2>1. \A x, y \in S : <<x, y>> \in R <=> x <= y
      OBVIOUS
    <2>2. \E i \in S : \A j \in S : <<i, j>> \in R
      <3> HIDE DEF R
      <3>1. /\ \A x \in S : <<x, x>> \in R
            /\ \A x, y \in S : <<x, y>> \in R \/ <<y, x>> \in R
            /\ \A x, y, z \in S : <<x, y>> \in R /\ <<y, z>> \in R => <<x, z>> \in R
        BY <2>1
      <3> QED  BY <1>1, <3>1, BestExists
    <2> QED  BY <2>1, <2>2
  <1>3. \E i \in S : \A j \in S : j <= i
    <2> DEFINE R == {e \in S \X S : e[2] <= e[1]}
    <2>1. \A x, y \in S : <<x, y>> \in R <=> y <= x
      OBVIOUS
    <2>2. \E i \in S : \A j \in S : <<i, j>> \in R
      <3> HIDE DEF R
      <3>1. /\ \A x \in S : <<x, x>> \in R
            /\ \A x, y \in S : <<x, y>> \in R \/ <<y, x>> \in R
            /\ \A x, y, z \in S : <<x, y>> \in R /\ <<y, z>> \in R => <<x, z>> \in R
        BY <2>1
      <3> QED  BY <1>1, <3>1, BestExists
    <2> QED  BY <2>1, <2>2
  <1> QED  BY <1>2, <1>3

LEMMA TodoFinite ==
  ASSUME NEW p, NEW cols \in Seq(Columns)
  PROVE  /\ TodoColumns(p, cols) = {c \in Elements(cols) : IsTodo(p, c)}
         /\ TodoColumns(p, cols) \subseteq Columns
         /\ IsFiniteSet(TodoColumns(p, cols)) /\ Cardinality(TodoColumns(p, cols)) \in Nat
         /\ Cardinality(TodoColumns(p, cols)) <= BlockCount
         /\ Cardinality(TodoColumns(p, cols)) \in Word
         /\ Cardinality(TodoColumns(p, cols)) = 0 <=> TodoColumns(p, cols) = {}
  <1>1. /\ TodoColumns(p, cols) = {c \in Elements(cols) : IsTodo(p, c)}
        /\ TodoColumns(p, cols) \subseteq Columns
    BY DEF TodoColumns, Elements
  <1>2. /\ IsFiniteSet(TodoColumns(p, cols)) /\ Cardinality(TodoColumns(p, cols)) \in Nat
        /\ Cardinality(TodoColumns(p, cols)) <= BlockCount
    BY <1>1, ColumnsAndRows, FS_Subset, FS_CardinalityType
  <1>3. Cardinality(TodoColumns(p, cols)) \in Word
    BY <1>2, BlockCountAssumption DEF Word
  <1>4. Cardinality(TodoColumns(p, cols)) = 0 <=> TodoColumns(p, cols) = {}
    BY <1>2, FS_EmptySet
  <1> QED  BY <1>1, <1>2, <1>3, <1>4

LEMMA PairSize ==
  ASSUME NEW a, NEW b, a # b
  PROVE  IsFiniteSet({a, b}) /\ Cardinality({a, b}) = 2
  <1> DEFINE S == {a}
  <1>1. IsFiniteSet(S) /\ Cardinality(S) = 1
    BY FS_Singleton, Zenon
  <1>2. b \notin S /\ S \cup {b} = {a, b}
    OBVIOUS
  <1> HIDE DEF S
  <1>3. IsFiniteSet(S \cup {b}) /\ Cardinality(S \cup {b}) = IF b \in S THEN Cardinality(S) ELSE Cardinality(S) + 1
    BY <1>1, FS_AddElement
  <1> QED  BY <1>1, <1>2, <1>3

\* The first and the last unmarked column of a row that has one.
LEMMA TodoEnds ==
  ASSUME NEW p, NEW cols \in Seq(Columns), TodoColumns(p, cols) # {}
  PROVE  /\ FirstTodo(p, cols) \in TodoColumns(p, cols)
         /\ LastTodo(p, cols) \in TodoColumns(p, cols)
         /\ Cardinality(TodoColumns(p, cols)) = 1 => TodoColumns(p, cols) = {FirstTodo(p, cols)}
         /\ Distinct(cols) /\ Cardinality(TodoColumns(p, cols)) = 2 =>
               TodoColumns(p, cols) = {FirstTodo(p, cols), LastTodo(p, cols)}
  <1> DEFINE S == {i \in 1..Len(cols) : IsTodo(p, cols[i])}
             first(i) == IsTodo(p, cols[i]) /\ \A j \in 1..(i-1) : ~IsTodo(p, cols[j])
             last(i) == IsTodo(p, cols[i]) /\ \A j \in (i+1)..Len(cols) : ~IsTodo(p, cols[j])
             i1 == CHOOSE i \in 1..Len(cols) : first(i)
             i2 == CHOOSE i \in 1..Len(cols) : last(i)
  <1>1. Len(cols) \in Nat /\ S \subseteq 1..Len(cols) /\ S # {} /\ TodoColumns(p, cols) = {cols[i] : i \in S}
    BY DEF TodoColumns
  <1>2. \E i \in 1..Len(cols) : first(i)
    <2>1. PICK i \in S : \A j \in S : i <= j
      BY <1>1, EndsExist
    <2>2. \A j \in 1..(i-1) : j \in 1..Len(cols) /\ ~(i <= j)
      BY <1>1
    <2> QED  BY <2>1, <2>2
  <1>3. \E i \in 1..Len(cols) : last(i)
    <2>1. PICK i \in S : \A j \in S : j <= i
      BY <1>1, EndsExist
    <2>2. \A j \in (i+1)..Len(cols) : j \in 1..Len(cols) /\ ~(j <= i)
      BY <1>1
    <2> QED  BY <2>1, <2>2
  <1>4. i1 \in 1..Len(cols) /\ first(i1)
    BY <1>2
  <1>5. i2 \in 1..Len(cols) /\ last(i2)
    BY <1>3
  <1>6. FirstTodo(p, cols) = cols[i1] /\ LastTodo(p, cols) = cols[i2]
    BY DEF FirstTodo, LastTodo
  <1> HIDE DEF i1, i2
  <1>7. i1 \in S /\ i2 \in S /\ \A i \in S : i1 <= i /\ i <= i2
    <2>1. \A i \in 1..Len(cols) : i < i1 => i \in 1..(i1 - 1)
      BY <1>1, <1>4
    <2>2. \A i \in 1..Len(cols) : i > i2 => i \in (i2 + 1)..Len(cols)
      BY <1>1, <1>5
    <2> QED  BY <1>1, <1>4, <1>5, <2>1, <2>2
  <1> HIDE DEF S, first, last
  <1>8. FirstTodo(p, cols) \in TodoColumns(p, cols) /\ LastTodo(p, cols) \in TodoColumns(p, cols)
    BY <1>1, <1>6, <1>7
  <1>9. ASSUME Cardinality(TodoColumns(p, cols)) = 1
        PROVE  TodoColumns(p, cols) = {FirstTodo(p, cols)}
    <2>0. IsFiniteSet(TodoColumns(p, cols))
      BY TodoFinite
    <2>1. \E x : TodoColumns(p, cols) = {x}
      BY <1>9, <2>0, FS_Singleton, Zenon
    <2> QED  BY <1>8, <2>1
  <1>10. ASSUME Distinct(cols), Cardinality(TodoColumns(p, cols)) = 2
         PROVE  TodoColumns(p, cols) = {FirstTodo(p, cols), LastTodo(p, cols)}
    <2>1. i1 # i2
      <3> SUFFICES ASSUME i1 = i2 PROVE FALSE
        OBVIOUS
      <3>1. \A i \in S : i = i1
        BY <1>1, <1>7
      <3>2. TodoColumns(p, cols) = {cols[i1]}
        BY <1>1, <1>7, <3>1
      <3>3. Cardinality({cols[i1]}) = 1
        BY FS_Singleton, Zenon
      <3> QED  BY <1>10, <3>2, <3>3
    <2>2. FirstTodo(p, cols) # LastTodo(p, cols)
      BY <1>1, <1>6, <1>7, <1>10, <2>1 DEF Distinct
    <2>3. Cardinality({FirstTodo(p, cols), LastTodo(p, cols)}) = 2
      BY <2>2, PairSize
    <2>4. {FirstTodo(p, cols), LastTodo(p, cols)} \subseteq TodoColumns(p, cols)
      BY <1>8
    <2>5. IsFiniteSet(TodoColumns(p, cols))
      BY TodoFinite
    <2>6. {FirstTodo(p, cols), LastTodo(p, cols)} \in SUBSET TodoColumns(p, cols)
      BY <2>4, Zenon
    <2> QED  BY <1>10, <2>3, <2>5, <2>6, FS_Subset, Zenon
  <1> QED  BY <1>8, <1>9, <1>10

(***************************************************************************)
(* One turn of the recursion.                                              *)
(***************************************************************************)
\* The innermost loop takes its next row and counts it down.
CountedDown(p) ==
  LET f == Head(p.walk)
      r == Head(f.rest)
      u == (p.unmarked[At(r)] - 1) % 65536
  IN [p EXCEPT !.walk[1].rest = Tail(@), !.unmarked[At(r)] = u]

LEMMA CountDownFields ==
  ASSUME NEW p \in PeelState, NEW r, p.walk # <<>>, p.walk[1].rest # <<>>,
         r = Head(p.walk[1].rest), At(r) \in 1..Len(p.unmarked)
  PROVE  /\ CountedDown(p) \in PeelState
         /\ CountDown(p, CountedDown(p), Decremented(p.unmarked[At(r)]))
         /\ Decremented(p.unmarked[At(r)]) \in Word
         /\ Decremented(p.unmarked[At(r)]) = 1 =>
               AvalancheStep(p) = SolveLast(CountedDown(p), r, p.walk[1].col)
         /\ Decremented(p.unmarked[At(r)]) = 2 => AvalancheStep(p) = StoreLastTwo(CountedDown(p), r)
         /\ Decremented(p.unmarked[At(r)]) \notin {1, 2} => AvalancheStep(p) = CountedDown(p)
  <1> DEFINE f == p.walk[1]
             u == Decremented(p.unmarked[At(r)])
             g == [f EXCEPT !.rest = Tail(f.rest)]
  <1>1. Head(p.walk) = f /\ p.walk \in Seq(Frames) /\ 1 \in 1..Len(p.walk) /\ f \in Frames
    <2>1. p.walk \in Seq(Frames)
      BY Fields
    <2> QED  BY <2>1, Headed
  <1>2. g \in Frames
    <2>1. f.rest \in Seq(Rows) /\ f.rest # <<>>
      BY <1>1 DEF Frames
    <2>2. Tail(f.rest) \in Seq(Rows)
      BY <2>1, Headed
    <2> QED  BY <1>1, <2>2 DEF Frames
  <1>3. u \in Word /\ p.unmarked \in Seq(Word)
    <2>1. p.unmarked \in Seq(Word)
      BY Fields
    <2>2. p.unmarked[At(r)] \in Word
      BY <2>1
    <2> QED  BY <2>1, <2>2, CountsDown
  <1>4. CountedDown(p) = [p EXCEPT !.walk = [p.walk EXCEPT ![1] = g],
                                   !.unmarked = [p.unmarked EXCEPT ![At(r)] = u]]
    <2>1. CountedDown(p) = [p EXCEPT !.walk[1].rest = Tail(@), !.unmarked[At(r)] = u]
      BY <1>1 DEF CountedDown, Decremented
    <2> QED  BY <2>1
  <1>5. [p.walk EXCEPT ![1] = g] \in Seq(Frames) /\ [p.unmarked EXCEPT ![At(r)] = u] \in Seq(Word)
    <2> HIDE DEF f, g, u
    <2> QED  BY <1>1, <1>2, <1>3, Replaced
  <1>6. CountedDown(p) \in PeelState
    <2> HIDE DEF f, g, u
    <2> QED  BY <1>4, <1>5, Zenon DEF PeelState
  <1>7. CountDown(p, CountedDown(p), u)
    <2>1. g = [p.walk[1] EXCEPT !.rest = Tail(p.walk[1].rest)]
      OBVIOUS
    <2> HIDE DEF g, u
    <2> QED  BY <1>4, <2>1 DEF CountDown, SameLists, PeelState
  <1>8. /\ u = 1 => AvalancheStep(p) = SolveLast(CountedDown(p), r, f.col)
        /\ u = 2 => AvalancheStep(p) = StoreLastTwo(CountedDown(p), r)
        /\ u \notin {1, 2} => AvalancheStep(p) = CountedDown(p)
    <2>1. Head(f.rest) = r /\ f.rest # <<>>
      OBVIOUS
    <2>2. CountedDown(p) = [p EXCEPT !.walk[1].rest = Tail(@), !.unmarked[At(r)] = u]
      BY <1>1, <2>1, SMTT(30) DEF CountedDown, Decremented
    <2> HIDE DEF f
    <2>3. AvalancheStep(p) =
            CASE u = 1 -> SolveLast([p EXCEPT !.walk[1].rest = Tail(@), !.unmarked[At(r)] = u], r, f.col)
              [] u = 2 -> StoreLastTwo([p EXCEPT !.walk[1].rest = Tail(@), !.unmarked[At(r)] = u], r)
              [] OTHER -> [p EXCEPT !.walk[1].rest = Tail(@), !.unmarked[At(r)] = u]
      BY <1>1, <2>1 DEF AvalancheStep, Decremented
    <2> HIDE DEF u
    <2> QED  BY <2>2, <2>3
  <1> QED  BY <1>3, <1>6, <1>7, <1>8

\* The row's last unmarked column is solved, unless its walk is under way too.
LEMMA SolveLastKeeps ==
  ASSUME NEW p, NEW r \in StoredRows(p), NEW c, PeelGood(p, {r}), r \notin Linked(p),
         DoneCount(p, r),
         Uncounted(p, r) = {IF p.marks[At(r)][1] = c THEN p.marks[At(r)][2] ELSE p.marks[At(r)][1]}
  PROVE  PeelGood(SolveLast(p, r, c), {})
  <1> DEFINE other == IF p.marks[At(r)][1] = c THEN p.marks[At(r)][2] ELSE p.marks[At(r)][1]
  <1>1. p \in PeelState /\ r \in Rows /\ At(r) \in 1..Len(p.marks) /\ ColumnsIn(p, r) \subseteq Columns
    BY RowIndex DEF PeelGood
  <1>2. SolveLast(p, r, c) = IF IsTodo(p, other) THEN SolveWithPeel(p, r, other) ELSE DeferRow(p, r)
    BY DEF SolveLast
  <1>3. Uncounted(p, r) = {other}
    OBVIOUS
  <1> HIDE DEF other
  <1>4. CASE IsTodo(p, other)
    <2>1. other \in ColumnsIn(p, r) /\ other \in Columns /\ \A d \in ColumnsIn(p, r) \ {other} : ~IsTodo(p, d)
      BY <1>1, <1>3 DEF Uncounted
    <2>2. /\ SolveWithPeel(p, r, other) \in PeelState
          /\ Solve(p, SolveWithPeel(p, r, other), r, other)
      BY <1>1, <2>1, SolveFields
    <2> QED  BY <1>2, <1>4, <2>1, <2>2, SolveKeeps
  <1>5. CASE ~IsTodo(p, other)
    <2>1. DeferRow(p, r) \in PeelState /\ Defer(p, DeferRow(p, r), r)
      BY <1>1, DeferFields
    <2> QED  BY <1>2, <1>5, <2>1, DeferKeeps
  <1> QED  BY <1>4, <1>5

\* With one column left unmarked, of those that the count stands for.
LEMMA SolveOne ==
  ASSUME NEW p, NEW r \in StoredRows(p), NEW c, PeelGood(p, {r}), r \notin Linked(p),
         DoneCount(p, r), TodoColumns(p, p.rows[At(r)]) = {c}
  PROVE  PeelGood(SolveWithPeel(p, r, c), {})
  <1>1. /\ p \in PeelState /\ r \in Rows /\ At(r) \in 1..Len(p.marks) /\ ColumnsIn(p, r) \subseteq Columns
        /\ p.rows[At(r)] \in Seq(Columns)
    BY RowIndex DEF PeelGood
  <1>2. {d \in ColumnsIn(p, r) : IsTodo(p, d)} = {c}
    BY <1>1, TodoFinite DEF ColumnsIn
  <1>3. c \in ColumnsIn(p, r) /\ c \in Columns /\ IsTodo(p, c) /\ \A d \in ColumnsIn(p, r) \ {c} : ~IsTodo(p, d)
    BY <1>1, <1>2
  <1>4. SolveWithPeel(p, r, c) \in PeelState /\ Solve(p, SolveWithPeel(p, r, c), r, c)
    BY <1>1, <1>3, SolveFields
  <1> QED  BY <1>3, <1>4, SolveKeeps

LEMMA Weight2Fields ==
  ASSUME NEW p \in PeelState, NEW cols
  PROVE  CountWeight2(p, cols) \in [Columns -> Nat]
  <1>1. p.w2 \in [Columns -> Nat]
    BY Fields
  <1> QED  BY <1>1 DEF CountWeight2

\* A row whose count comes down to two.
LEMMA StoreLastTwoKeeps ==
  ASSUME NEW p, NEW r \in StoredRows(p), PeelGood(p, {r}), r \notin Linked(p),
         p.unmarked[At(r)] = 2, Cardinality(Uncounted(p, r)) = 2
  PROVE  PeelGood(StoreLastTwo(p, r), {})
  <1> DEFINE cols == p.rows[At(r)]
             todo == TodoColumns(p, cols)
             p1   == [p EXCEPT !.w2 = CountWeight2(p, cols)]
             zero == [p1 EXCEPT !.unmarked[At(r)] = 0]
             pair == [p1 EXCEPT !.marks[At(r)] = LastPair(p, cols)]
  <1>1. /\ p \in PeelState /\ RefsMatch(p) /\ r \in Rows /\ cols \in Seq(Columns) /\ Distinct(cols)
        /\ At(r) \in 1..Len(p.marks) /\ At(r) \in 1..Len(p.unmarked)
        /\ p.unmarked \in Seq(Word) /\ p.marks \in Seq(Word \X Word)
    BY RowIndex, Fields DEF PeelGood, RefsMatch
  <1>2. /\ todo = {d \in ColumnsIn(p, r) : IsTodo(p, d)} /\ todo \subseteq Columns
        /\ todo \subseteq Uncounted(p, r) /\ IsFiniteSet(todo) /\ Cardinality(todo) \in Nat
        /\ Cardinality(todo) = 0 <=> todo = {}
    BY <1>1, TodoFinite DEF ColumnsIn, Uncounted
  <1>3. Cardinality(todo) <= 2 /\ (Cardinality(todo) = 2 => todo = Uncounted(p, r))
    <2>1. IsFiniteSet(Uncounted(p, r)) /\ todo \in SUBSET Uncounted(p, r)
      BY <1>1, <1>2, UncountedFinite
    <2>2. Cardinality(todo) <= Cardinality(Uncounted(p, r))
          /\ (Cardinality(Uncounted(p, r)) = Cardinality(todo) => Uncounted(p, r) = todo)
      <3> HIDE DEF todo
      <3> QED  BY <2>1, FS_Subset
    <2> QED  BY <2>2
  <1>4. p1 \in PeelState
    BY <1>1, Weight2Fields, Zenon DEF PeelState
  <1>5. zero \in PeelState /\ RowUpdate(p, zero, r) /\ zero.unmarked[At(r)] = 0 /\ zero.mark = p.mark
        /\ zero.rows = p.rows
    <2>1. /\ 0 \in Word
          /\ [p.unmarked EXCEPT ![At(r)] = 0] \in Seq(Word)
          /\ Len([p.unmarked EXCEPT ![At(r)] = 0]) = Len(p.unmarked)
          /\ [p.unmarked EXCEPT ![At(r)] = 0][At(r)] = 0
          /\ \A i \in 1..Len(p.unmarked) : i # At(r) => [p.unmarked EXCEPT ![At(r)] = 0][i] = p.unmarked[i]
      <3>1. 0 \in Word
        BY DEF Word
      <3> QED  BY <1>1, <3>1, Replaced
    <2>2. zero = [p EXCEPT !.w2 = CountWeight2(p, cols), !.unmarked = [p.unmarked EXCEPT ![At(r)] = 0]]
      BY DEF PeelState
    <2>3. zero \in PeelState
      BY <1>1, <2>1, <2>2, Weight2Fields, Zenon DEF PeelState
    <2>4. RowUpdate(p, zero, r) /\ zero.unmarked[At(r)] = 0 /\ zero.mark = p.mark /\ zero.rows = p.rows
      BY <1>1, <2>1, <2>2 DEF RowUpdate, SameLists, PeelState
    <2> QED  BY <2>3, <2>4
  <1>6. StoreLastTwo(p, r) = CASE Cardinality(todo) = 0 -> DeferRow(zero, r)
                               [] Cardinality(todo) = 1 -> SolveWithPeel(zero, r, FirstTodo(p, cols))
                               [] OTHER -> pair
    BY Zenon DEF StoreLastTwo
  <1> HIDE DEF zero, pair, p1, todo
  <1>7. /\ r \in StoredRows(zero) /\ r \notin Linked(zero) /\ PeelGood(zero, {r})
        /\ Uncounted(zero, r) = Uncounted(p, r)
    <2>1. StillOpen(p, zero, r) /\ PeelGood(zero, {r})
      BY <1>5, RowUpdateKeeps
    <2> QED  BY <2>1 DEF StillOpen
  <1>8. DoneCount(zero, r)
    <2>1. (65534 + 2) % 65536 = 0
      BY SMTT(30)
    <2> QED  BY <1>5, <1>7, <2>1 DEF DoneCount
  <1>9. CASE Cardinality(todo) = 0
    <2>1. DeferRow(zero, r) \in PeelState /\ Defer(zero, DeferRow(zero, r), r)
      BY <1>1, <1>5, DeferFields
    <2>2. PeelGood(DeferRow(zero, r), {})
      BY <1>7, <1>8, <2>1, DeferKeeps
    <2> QED  BY <1>6, <1>9, <2>2
  <1>10. CASE Cardinality(todo) = 1
    <2>0. TodoColumns(p, cols) # {} /\ Cardinality(TodoColumns(p, cols)) = 1
      BY <1>2, <1>10 DEF todo
    <2>1. todo = {FirstTodo(p, cols)}
      <3> HIDE DEF cols
      <3> QED  BY <1>1, <2>0, TodoEnds DEF todo
    <2>2. TodoColumns(zero, zero.rows[At(r)]) = todo
      BY <1>5 DEF TodoColumns, IsTodo, todo
    <2>3. PeelGood(SolveWithPeel(zero, r, FirstTodo(p, cols)), {})
      BY <1>7, <1>8, <2>1, <2>2, SolveOne
    <2> QED  BY <1>6, <1>10, <2>3
  <1>11. CASE Cardinality(todo) = 2
    <2> DEFINE m == LastPair(p, cols)
    <2>1. /\ todo = {FirstTodo(p, cols), LastTodo(p, cols)} /\ m = <<FirstTodo(p, cols), LastTodo(p, cols)>>
          /\ FirstTodo(p, cols) \in Word /\ LastTodo(p, cols) \in Word
      <3>1. TodoColumns(p, cols) # {} /\ Cardinality(TodoColumns(p, cols)) = 2
        BY <1>2, <1>11 DEF todo
      <3>2. /\ FirstTodo(p, cols) \in TodoColumns(p, cols) /\ LastTodo(p, cols) \in TodoColumns(p, cols)
            /\ TodoColumns(p, cols) = {FirstTodo(p, cols), LastTodo(p, cols)}
        <4> HIDE DEF cols
        <4> QED  BY <1>1, <3>1, TodoEnds
      <3> QED  BY <1>2, <3>2, ColumnsAndRows DEF todo, LastPair
    <2>2. m \in Word \X Word /\ m[1] = FirstTodo(p, cols) /\ m[2] = LastTodo(p, cols)
      BY <2>1
    <2> HIDE DEF m
    <2>3. /\ [p.marks EXCEPT ![At(r)] = m] \in Seq(Word \X Word)
          /\ Len([p.marks EXCEPT ![At(r)] = m]) = Len(p.marks)
          /\ [p.marks EXCEPT ![At(r)] = m][At(r)] = m
          /\ \A i \in 1..Len(p.marks) : i # At(r) => [p.marks EXCEPT ![At(r)] = m][i] = p.marks[i]
      BY <1>1, <2>2, Replaced
    <2>4. pair = [p EXCEPT !.w2 = CountWeight2(p, cols), !.marks = [p.marks EXCEPT ![At(r)] = m]]
      BY DEF PeelState, pair, p1, m
    <2>5. pair \in PeelState
      BY <1>1, <2>3, <2>4, Weight2Fields, Zenon DEF PeelState
    <2>6. RowUpdate(p, pair, r) /\ pair.marks[At(r)] = m /\ pair.unmarked = p.unmarked
      BY <1>1, <2>3, <2>4 DEF RowUpdate, SameLists, PeelState
    <2>7. /\ r \in StoredRows(pair) /\ r \notin Linked(pair) /\ PeelGood(pair, {r})
          /\ Uncounted(pair, r) = Uncounted(p, r)
      <3>1. StillOpen(p, pair, r) /\ PeelGood(pair, {r})
        BY <2>5, <2>6, RowUpdateKeeps
      <3> QED  BY <3>1 DEF StillOpen
    <2>8. OpenCount(pair, r)
      <3>1. pair.unmarked[At(r)] = 2 /\ Cardinality(Uncounted(pair, r)) = 2
        BY <2>6, <2>7
      <3>2. Uncounted(pair, r) = {pair.marks[At(r)][1], pair.marks[At(r)][2]}
        BY <1>3, <1>11, <2>1, <2>2, <2>6, <2>7
      <3> QED  BY <3>1, <3>2 DEF OpenCount
    <2>9. PeelGood(pair, {})
      BY <2>7, <2>8, Closed
    <2> QED  BY <1>6, <1>11, <2>9
  <1> QED  BY <1>2, <1>3, <1>9, <1>10, <1>11

\* The row before the innermost walk is stored.
LEMMA NextRow ==
  ASSUME NEW p, PeelGood(p, {}), p.walk # <<>>, p.walk[1].rest # <<>>
  PROVE  Head(p.walk[1].rest) \in StoredRows(p)
  <1>1. p.walk \in Seq(Frames) /\ 1 \in 1..Len(p.walk)
    BY Fields, Headed DEF PeelGood
  <1>2. p.walk[1].rest \in Seq(Rows)
    BY <1>1, WalkColumn
  <1>3. Head(p.walk[1].rest) \in Elements(p.walk[1].rest)
    BY <1>2, Headed
  <1> QED  BY <1>1, <1>3, WalkColumn

\* The recursion as a whole.
LEMMA AvalancheKeeps ==
  ASSUME NEW p, PeelGood(p, {}), p.walk # <<>>
  PROVE  PeelGood(AvalancheStep(p), {})
  <1> DEFINE f == p.walk[1]
             c == f.col
             r == Head(f.rest)
             q == CountedDown(p)
             u == Decremented(p.unmarked[At(r)])
  <1>1. p \in PeelState /\ RefsMatch(p)
    BY DEF PeelGood
  <1>2. CASE f.rest = <<>>
    <2>1. AvalancheStep(p) \in PeelState /\ Return(p, AvalancheStep(p))
      BY <1>1, <1>2, ReturnFields
    <2> QED  BY <1>2, <2>1, ReturnKeeps
  <1>3. CASE f.rest # <<>>
    <2>1. r \in StoredRows(p)
      BY <1>3, NextRow
    <2>2. At(r) \in 1..Len(p.unmarked) /\ p.unmarked[At(r)] \in Word
      BY <1>1, <2>1, RowIndex
    <2>3. /\ q \in PeelState /\ CountDown(p, q, u) /\ u \in Word
          /\ u = 1 => AvalancheStep(p) = SolveLast(q, r, c)
          /\ u = 2 => AvalancheStep(p) = StoreLastTwo(q, r)
          /\ u \notin {1, 2} => AvalancheStep(p) = q
      BY <1>1, <1>3, <2>2, CountDownFields
    <2>4. /\ c \in Uncounted(p, r) /\ Uncounted(q, r) = Uncounted(p, r) \ {c}
          /\ q.unmarked[At(r)] = u /\ PeelGood(q, {r})
      <3>1. AtRow(p, c, r)
        BY <1>3 DEF AtRow
      <3> HIDE DEF u, q, c, r, f
      <3>2. q \in PeelState /\ u \in Word /\ CountDown(p, q, u)
        BY <2>3
      <3>3. Counted(p, q, c, r, u) /\ PeelGood(q, {r})
        BY <3>1, <3>2, CountDownKeeps
      <3> QED  BY <3>3 DEF Counted
    <2>5. /\ r \in StoredRows(q) /\ Linked(q) = Linked(p) /\ q.marks = p.marks
      BY <2>1, <2>3, SameLinks DEF CountDown, SameLists, StoredRows
    <2>6. u = IF p.unmarked[At(r)] = 0 THEN 65535 ELSE p.unmarked[At(r)] - 1
      BY <2>2, CountsDown
    <2> HIDE DEF u, q, c, r, f
    <2>7. /\ Cardinality(Uncounted(p, r)) \in Nat \ {0}
          /\ Cardinality(Uncounted(q, r)) = Cardinality(Uncounted(p, r)) - 1
      <3>1. IsFiniteSet(Uncounted(p, r)) /\ Cardinality(Uncounted(p, r)) \in Nat /\ Uncounted(p, r) # {}
        BY <1>1, <2>1, <2>4, UncountedFinite
      <3>2. Cardinality(Uncounted(p, r) \ {c}) = Cardinality(Uncounted(p, r)) - 1
        BY <2>4, <3>1, FS_RemoveElement
      <3> QED  BY <2>4, <3>1, <3>2, FS_EmptySet
    <2>8. CASE r \in Linked(p)
      <3>1. DoneCount(p, r)
        BY <2>1, <2>8 DEF PeelGood, CountsMatch
      <3>2. DoneCount(q, r) /\ u # 1 /\ u # 2
        <4>1. /\ (65534 + 0) % 65536 = 65534 /\ (65534 + 1) % 65536 = 65535 /\ (65534 + 2) % 65536 = 0
          BY SMTT(30)
        <4>2. CASE Cardinality(Uncounted(p, r)) = 1
          <5>1. p.unmarked[At(r)] = 1 \/ p.unmarked[At(r)] = 65535
            BY <3>1, <4>1, <4>2 DEF DoneCount
          <5>2. Cardinality(Uncounted(q, r)) = 0
            BY <2>7, <4>2
          <5>3. u = 0 \/ u = 65534
            BY <2>6, <5>1
          <5> QED  BY <2>4, <4>1, <5>2, <5>3 DEF DoneCount
        <4>3. CASE Cardinality(Uncounted(p, r)) # 1
          <5>1. Cardinality(Uncounted(p, r)) = 2 /\ p.unmarked[At(r)] = 0
            BY <2>7, <3>1, <4>1, <4>3 DEF DoneCount
          <5>2. Cardinality(Uncounted(q, r)) = 1 /\ u = 65535
            BY <2>6, <2>7, <5>1
          <5> QED  BY <2>4, <4>1, <5>2 DEF DoneCount
        <4> QED  BY <4>2, <4>3
      <3>3. AvalancheStep(p) = q
        BY <2>3, <3>2
      <3> QED  BY <2>4, <2>5, <2>8, <3>2, <3>3, Closed
    <2>9. CASE r \notin Linked(p)
      <3>1. OpenCount(p, r)
        BY <2>1, <2>9 DEF PeelGood, CountsMatch
      <3>2. /\ p.unmarked[At(r)] = Cardinality(Uncounted(p, r)) /\ Cardinality(Uncounted(p, r)) >= 2
            /\ u = Cardinality(Uncounted(q, r)) /\ u \in Nat /\ u >= 1
        BY <2>6, <2>7, <3>1 DEF OpenCount
      <3>3. CASE u = 1
        <4>1. Uncounted(p, r) = {p.marks[At(r)][1], p.marks[At(r)][2]}
          <5>1. p.unmarked[At(r)] = 2
            BY <2>7, <3>2, <3>3
          <5> QED  BY <3>1, <5>1 DEF OpenCount
        <4>2. p.marks[At(r)][1] # p.marks[At(r)][2]
          <5> SUFFICES ASSUME p.marks[At(r)][1] = p.marks[At(r)][2] PROVE FALSE
            OBVIOUS
          <5>1. Uncounted(p, r) = {p.marks[At(r)][1]}
            BY <4>1
          <5>2. Cardinality(Uncounted(p, r)) = 1
            BY <5>1, FS_Singleton, Zenon
          <5> QED  BY <3>2, <5>2
        <4>3. Uncounted(q, r) = {IF q.marks[At(r)][1] = c THEN q.marks[At(r)][2] ELSE q.marks[At(r)][1]}
          BY <2>4, <2>5, <4>1, <4>2
        <4>4. DoneCount(q, r)
          BY <2>4, <3>2, <3>3 DEF DoneCount
        <4>5. PeelGood(SolveLast(q, r, c), {})
          BY <2>4, <2>5, <2>9, <4>3, <4>4, SolveLastKeeps
        <4> QED  BY <2>3, <3>3, <4>5
      <3>4. CASE u = 2
        <4>1. PeelGood(StoreLastTwo(q, r), {})
          BY <2>4, <2>5, <2>9, <3>2, <3>4, StoreLastTwoKeeps
        <4> QED  BY <2>3, <3>4, <4>1
      <3>5. CASE u # 1 /\ u # 2
        <4>1. OpenCount(q, r)
          BY <2>4, <3>2, <3>5 DEF OpenCount
        <4>2. AvalancheStep(p) = q
          BY <2>3, <3>5
        <4> QED  BY <2>4, <2>5, <2>9, <4>1, <4>2, Closed
      <3> QED  BY <3>3, <3>4, <3>5
    <2> QED  BY <2>8, <2>9
  <1> QED  BY <1>2, <1>3

(***************************************************************************)
(* The greedy loop.                                                        *)
(***************************************************************************)
LEMMA BestColumnTodo ==
  ASSUME NEW p \in PeelState, SomeTodo(p)
  PROVE  BestColumn(p) \in Columns /\ IsTodo(p, BestColumn(p))
  <1> DEFINE todo == {c \in DOMAIN p.mark : IsTodo(p, c)}
             w(c) == p.w2[c]
             l(c) == Len(p.refs[c])
             beats(c, d) == \/ w(c) > w(d)
                            \/ w(c) = w(d) /\ l(c) > l(d)
                            \/ w(c) = w(d) /\ l(c) = l(d) /\ c >= d
             R == {e \in todo \X todo : beats(e[1], e[2])}
  <1>1. todo \subseteq Columns /\ IsFiniteSet(todo) /\ todo # {}
    <2>1. DOMAIN p.mark = Columns
      BY Fields
    <2> QED  BY <2>1, ColumnsAndRows, FS_Subset DEF SomeTodo
  <1>2. \A c \in todo : w(c) \in Nat /\ l(c) \in Nat /\ c \in Nat
    <2>1. p.w2 \in [Columns -> Nat] /\ p.refs \in [Columns -> Seq(Rows)]
      BY Fields
    <2> QED  BY <1>1, <2>1, ColumnsAndRows
  <1>3. \A c, d \in todo : <<c, d>> \in R <=> beats(c, d)
    OBVIOUS
  <1>4. /\ \A c \in todo : beats(c, c)
        /\ \A c, d \in todo : beats(c, d) \/ beats(d, c)
        /\ \A c, d, e \in todo : beats(c, d) /\ beats(d, e) => beats(c, e)
    <2> HIDE DEF todo, w, l
    <2> QED  BY <1>2
  <1>5. /\ \A c \in todo : <<c, c>> \in R
        /\ \A c, d \in todo : <<c, d>> \in R \/ <<d, c>> \in R
        /\ \A c, d, e \in todo : <<c, d>> \in R /\ <<d, e>> \in R => <<c, e>> \in R
    <2> HIDE DEF R, beats, todo
    <2> QED  BY <1>3, <1>4
  <1>6. \E c \in todo : \A d \in todo : <<c, d>> \in R
    <2> HIDE DEF R, todo
    <2> QED  BY <1>1, <1>5, BestExists
  <1>7. \E c \in todo : \A d \in todo : beats(c, d)
    <2> HIDE DEF R, beats, todo
    <2> QED  BY <1>3, <1>6
  <1>8. BestColumn(p) = CHOOSE c \in todo : \A d \in todo : beats(c, d)
    BY DEF BestColumn
  <1>9. BestColumn(p) \in todo
    <2> HIDE DEF beats, todo
    <2> QED  BY <1>7, <1>8
  <1> QED  BY <1>1, <1>9

LEMMA GreedyKeeps ==
  ASSUME NEW p, PeelGood(p, {}), SomeTodo(p)
  PROVE  PeelGood(GreedyDefer(p), {})
  <1>1. p \in PeelState
    BY DEF PeelGood
  <1>2. BestColumn(p) \in Columns /\ IsTodo(p, BestColumn(p))
    BY <1>1, BestColumnTodo
  <1>3. GreedyDefer(p) \in PeelState /\ DeferColumn(p, GreedyDefer(p), BestColumn(p))
    BY <1>1, <1>2, DeferColumnFields
  <1> QED  BY <1>2, <1>3, DeferColumnKeeps

(***************************************************************************)
(* A row arrives.                                                          *)
(***************************************************************************)
LEMMA AppendedCut ==
  ASSUME NEW T, NEW s \in Seq(T), NEW x \in T
  PROVE  SubSeq(Append(s, x), 1, Len(Append(s, x)) - 1) = s
  <1>1. /\ Append(s, x) \in Seq(T) /\ Len(s) \in Nat /\ Len(Append(s, x)) = Len(s) + 1
        /\ \A i \in 1..Len(s) : Append(s, x)[i] = s[i]
    BY Appended
  <1>2. Len(Append(s, x)) - 1 = Len(s)
    BY <1>1
  <1>3. SubSeq(Append(s, x), 1, Len(s)) \in Seq(T) /\ Len(SubSeq(Append(s, x), 1, Len(s))) = Len(s)
    BY <1>1
  <1>4. \A i \in 1..Len(s) : SubSeq(Append(s, x), 1, Len(s))[i] = s[i]
    BY <1>1
  <1> QED  BY <1>2, <1>3, <1>4

\* The references that were added are taken back.
LEMMA RefusedIsSame ==
  ASSUME NEW p \in PeelState, NEW cols \in Seq(Columns), Distinct(cols), FullColumns(p, cols) # {},
         Len(p.rows) < BlockCount
  PROVE  OpportunisticPeeling(p, cols).peel = p
  <1> DEFINE full == FullColumns(p, cols)
             r == Len(p.rows)
             k == CHOOSE i \in full : \A j \in full : i <= j
             pre == SubSeq(cols, 1, k - 1)
             added == AddReferences(p, r, pre)
             k2 == CHOOSE i \in 1..Len(cols) : cols[i] = cols[k] /\ \A j \in 1..(i-1) : cols[j] # cols[k]
             back == [c \in DOMAIN added.refs |->
                        IF \E i \in 1..(k2-1) : cols[i] = c
                        THEN SubSeq(added.refs[c], 1, Len(added.refs[c]) - 1) ELSE added.refs[c]]
  <1>1. Len(cols) \in Nat /\ full \subseteq 1..Len(cols) /\ p.refs \in [Columns -> Seq(Rows)]
    BY Fields DEF FullColumns
  <1>2. k \in 1..Len(cols)
    <2>1. \E i \in full : \A j \in full : i <= j
      BY <1>1, EndsExist
    <2> QED  BY <1>1, <2>1
  <1>3. r \in Rows
    <2>1. p.rows \in Seq(Seq(Columns))
      BY Fields
    <2>2. r \in Nat /\ r < BlockCount
      BY <2>1
    <2> QED  BY <2>2, BlockCountAssumption DEF Rows
  <1>4. OpportunisticPeeling(p, cols).peel = FixPeelFailure(added, cols, cols[k])
    BY DEF OpportunisticPeeling
  <1>5. FixPeelFailure(added, cols, cols[k]) = [added EXCEPT !.refs = back]
    BY DEF FixPeelFailure
  <1> HIDE DEF k
  <1>6. k2 = k
    <2>1. \A i \in 1..Len(cols) : cols[i] = cols[k] => i = k
      BY <1>2 DEF Distinct
    <2>2. \A j \in 1..(k-1) : j \in 1..Len(cols) /\ j # k
      BY <1>1, <1>2
    <2>3. \E i \in 1..Len(cols) : cols[i] = cols[k] /\ \A j \in 1..(i-1) : cols[j] # cols[k]
      BY <1>2, <2>1, <2>2
    <2>4. k2 \in 1..Len(cols) /\ cols[k2] = cols[k]
      BY <2>3
    <2> QED  BY <2>1, <2>4
  <1> HIDE DEF k2
  <1>7. /\ Len(pre) = k - 1 /\ \A i \in 1..(k-1) : pre[i] = cols[i]
    BY <1>1, <1>2
  <1> HIDE DEF pre
  <1>8. added = [p EXCEPT !.refs = [c \in Columns |->
                    IF \E i \in 1..(k-1) : cols[i] = c THEN Append(p.refs[c], r) ELSE p.refs[c]]]
    <2>1. DOMAIN p.refs = Columns
      BY <1>1
    <2>2. \A c : (\E i \in 1..Len(pre) : pre[i] = c) <=> \E i \in 1..(k-1) : cols[i] = c
      BY <1>7
    <2> QED  BY <2>1, <2>2 DEF AddReferences
  <1>9. added.refs = [c \in Columns |->
                    IF \E i \in 1..(k-1) : cols[i] = c THEN Append(p.refs[c], r) ELSE p.refs[c]]
    BY <1>8 DEF PeelState
  <1>10. back = p.refs
    <2>1. DOMAIN added.refs = Columns
      BY <1>9
    <2>2. ASSUME NEW c \in Columns PROVE back[c] = p.refs[c]
      <3>1. CASE \E i \in 1..(k-1) : cols[i] = c
        <4>1. added.refs[c] = Append(p.refs[c], r)
          BY <1>9, <3>1
        <4>2. SubSeq(Append(p.refs[c], r), 1, Len(Append(p.refs[c], r)) - 1) = p.refs[c]
          BY <1>1, <1>3, AppendedCut
        <4> HIDE DEF added
        <4> QED  BY <1>6, <2>1, <3>1, <4>1, <4>2
      <3>2. CASE ~\E i \in 1..(k-1) : cols[i] = c
        <4>1. added.refs[c] = p.refs[c]
          BY <1>9, <3>2
        <4> HIDE DEF added
        <4> QED  BY <1>6, <2>1, <3>2, <4>1
      <3> QED  BY <3>1, <3>2
    <2>3. back = [c \in Columns |-> back[c]]
      BY <2>1
    <2>4. p.refs = [c \in Columns |-> p.refs[c]]
      BY <1>1
    <2> HIDE DEF back
    <2> QED  BY <2>2, <2>3, <2>4
  <1> HIDE DEF back
  <1>11. [added EXCEPT !.refs = back] = p
    BY <1>8, <1>10 DEF PeelState
  <1> QED  BY <1>4, <1>5, <1>11

\* The new row as it stands before it is looked at.
Entered(p, cols) ==
  [AddReferences(p, Len(p.rows), cols) EXCEPT
     !.rows = Append(@, cols),
     !.unmarked = Append(@, Cardinality(TodoColumns(p, cols))),
     !.marks = Append(@, IF Cardinality(TodoColumns(p, cols)) = 2 THEN LastPair(p, cols) ELSE <<0, 0>>)]

LEMMA EnteredFields ==
  ASSUME NEW p \in PeelState, NEW cols \in Seq(Columns), Distinct(cols), Len(p.rows) < BlockCount
  PROVE  /\ Entered(p, cols) \in PeelState /\ Enter(p, Entered(p, cols), cols)
         /\ Entered(p, cols).unmarked = Append(p.unmarked, Cardinality(TodoColumns(p, cols)))
         /\ Cardinality(TodoColumns(p, cols)) = 2 =>
               Entered(p, cols).marks = Append(p.marks, LastPair(p, cols))
         /\ Entered(p, cols).w2 = p.w2
  <1> DEFINE n == Cardinality(TodoColumns(p, cols))
             m == IF n = 2 THEN LastPair(p, cols) ELSE <<0, 0>>
             refs == [c \in Columns |-> IF c \in Elements(cols) THEN Append(p.refs[c], Len(p.rows))
                                        ELSE p.refs[c]]
             rows == Append(p.rows, cols)
             unmarked == Append(p.unmarked, n)
             marks == Append(p.marks, m)
  <1>1. /\ p.rows \in Seq(Seq(Columns)) /\ p.unmarked \in Seq(Word) /\ p.marks \in Seq(Word \X Word)
        /\ p.refs \in [Columns -> Seq(Rows)]
    BY Fields
  <1>2. n \in Word /\ m \in Word \X Word
    <2>1. n \in Word /\ 0 \in Word
      BY TodoFinite DEF Word
    <2>2. CASE n = 2
      <3>1. TodoColumns(p, cols) # {}
        BY <2>2, TodoFinite
      <3>2. FirstTodo(p, cols) \in Word /\ LastTodo(p, cols) \in Word
        BY <3>1, TodoEnds, TodoFinite, ColumnsAndRows
      <3> QED  BY <2>1, <2>2, <3>2 DEF LastPair
    <2>3. CASE n # 2
      BY <2>1, <2>3
    <2> QED  BY <2>2, <2>3
  <1>3. Len(p.rows) \in Rows
    <2>1. Len(p.rows) \in Nat
      BY <1>1
    <2> QED  BY <2>1, BlockCountAssumption DEF Rows
  <1>4. refs \in [Columns -> Seq(Rows)]
    BY <1>1, <1>3
  <1>5. rows \in Seq(Seq(Columns)) /\ unmarked \in Seq(Word) /\ marks \in Seq(Word \X Word)
    <2> HIDE DEF n, m
    <2> QED  BY <1>1, <1>2
  <1>6. AddReferences(p, Len(p.rows), cols) = [p EXCEPT !.refs = refs]
    <2>1. DOMAIN p.refs = Columns
      BY <1>1
    <2>2. \A c : c \in Elements(cols) <=> \E i \in 1..Len(cols) : cols[i] = c
      BY DEF Elements
    <2> QED  BY <2>1, <2>2 DEF AddReferences
  <1> HIDE DEF refs
  <1>7. Entered(p, cols) = [p EXCEPT !.refs = refs, !.rows = rows, !.unmarked = unmarked, !.marks = marks]
    BY <1>6 DEF Entered, PeelState
  <1> HIDE DEF rows, unmarked, marks
  <1>8. Entered(p, cols) \in PeelState
    BY <1>4, <1>5, <1>7, Zenon DEF PeelState
  <1>9. /\ Entered(p, cols).rows = rows /\ Entered(p, cols).unmarked = unmarked
        /\ Entered(p, cols).marks = marks /\ Entered(p, cols).refs = refs
        /\ Entered(p, cols).mark = p.mark /\ Entered(p, cols).solver = p.solver
        /\ Entered(p, cols).walk = p.walk /\ Entered(p, cols).list = p.list
        /\ Entered(p, cols).deferRows = p.deferRows /\ Entered(p, cols).deferCols = p.deferCols
        /\ Entered(p, cols).w2 = p.w2
    BY <1>7 DEF PeelState
  <1>10. Enter(p, Entered(p, cols), cols)
    <2>1. /\ \E x \in Word : unmarked = Append(p.unmarked, x)
          /\ \E x \in Word \X Word : marks = Append(p.marks, x)
      <3> HIDE DEF n, m
      <3> QED  BY <1>2 DEF unmarked, marks
    <2> QED  BY <1>9, <2>1 DEF Enter, rows, refs
  <1>11. n = 2 => marks = Append(p.marks, LastPair(p, cols))
    BY DEF marks
  <1> QED  BY <1>8, <1>9, <1>10, <1>11 DEF unmarked

\* The row is listed by its columns, and its count is left to set.
LEMMA EnterKeeps ==
  ASSUME NEW p, NEW q, NEW cols, PeelGood(p, {}), q \in PeelState, cols \in Seq(Columns),
         Distinct(cols), Len(p.rows) < BlockCount, FullColumns(p, cols) = {}, Enter(p, q, cols)
  PROVE  /\ Len(p.rows) \in StoredRows(q) /\ Len(p.rows) \notin Linked(q)
         /\ q.rows[At(Len(p.rows))] = cols
         /\ Uncounted(q, Len(p.rows)) = TodoColumns(p, cols)
         /\ PeelGood(q, {Len(p.rows)})
  <1> DEFINE r == Len(p.rows)
  <1>1. /\ p \in PeelState /\ RefsMatch(p) /\ ListsMatch(p) /\ p.list \in Seq(Rows)
        /\ p.rows \in Seq(Seq(Columns)) /\ p.unmarked \in Seq(Word) /\ p.marks \in Seq(Word \X Word)
        /\ p.refs \in [Columns -> Seq(Rows)]
        /\ Len(p.unmarked) = r /\ Len(p.marks) = r
    BY Fields DEF PeelGood, RefsMatch
  <1>2. r \in Nat /\ r < BlockCount /\ r \in Rows /\ At(r) = r + 1
    BY <1>1, BlockCountAssumption DEF Rows, At
  <1>3. /\ q.mark = p.mark /\ q.solver = p.solver /\ q.walk = p.walk
        /\ q.list = p.list /\ q.deferRows = p.deferRows /\ q.deferCols = p.deferCols
        /\ q.rows = Append(p.rows, cols)
        /\ q.refs = [c \in Columns |-> IF c \in Elements(cols) THEN Append(p.refs[c], r) ELSE p.refs[c]]
    BY DEF Enter
  <1>4. /\ Len(q.rows) = r + 1 /\ q.rows[At(r)] = cols
        /\ \A i \in 1..r : q.rows[i] = p.rows[i]
    BY <1>1, <1>2, <1>3, Appended
  <1>5. /\ Len(q.unmarked) = r + 1 /\ \A i \in 1..r : q.unmarked[i] = p.unmarked[i]
    <2>1. PICK n \in Word : q.unmarked = Append(p.unmarked, n)
      BY DEF Enter
    <2> QED  BY <1>1, <2>1, Appended
  <1>6. /\ Len(q.marks) = r + 1 /\ \A i \in 1..r : q.marks[i] = p.marks[i]
    <2>1. PICK n \in Word \X Word : q.marks = Append(p.marks, n)
      BY DEF Enter
    <2> QED  BY <1>1, <2>1, Appended
  <1>7. /\ r \notin StoredRows(p) /\ StoredRows(q) = StoredRows(p) \cup {r}
        /\ \A s \in StoredRows(p) : At(s) \in 1..r
    BY <1>2, <1>4 DEF StoredRows, At
  <1>8. /\ \A s \in StoredRows(p) : ColumnsIn(q, s) = ColumnsIn(p, s) /\ Solves(q, s) = Solves(p, s)
                                    /\ q.unmarked[At(s)] = p.unmarked[At(s)]
                                    /\ q.marks[At(s)] = p.marks[At(s)]
                                    /\ q.rows[At(s)] = p.rows[At(s)]
        /\ ColumnsIn(q, r) = Elements(cols)
    BY <1>4, <1>5, <1>6, <1>7 DEF ColumnsIn, Solves
  <1>9. Linked(q) = Linked(p) /\ Linked(p) \subseteq StoredRows(p) /\ r \notin Linked(q)
    BY <1>1, <1>3, <1>7, SameLinks DEF ListsMatch
  <1>10. \A d, s : Walks(q, d, s) <=> Walks(p, d, s)
    BY <1>3 DEF Walks
  <1>11. \A d : IsTodo(q, d) <=> IsTodo(p, d)
    BY <1>3 DEF IsTodo
  <1>12. \A s \in StoredRows(p) : Uncounted(q, s) = Uncounted(p, s)
    BY <1>8, <1>10, <1>11 DEF Uncounted
  <1>13. Uncounted(q, r) = TodoColumns(p, cols)
    <2>1. \A d : ~Walks(p, d, r)
      <3>1. \A k \in 1..Len(p.walk) : r \notin Elements(p.walk[k].rest)
        BY <1>7, WalkColumn
      <3> QED  BY <3>1 DEF Walks
    <2>2. TodoColumns(p, cols) = {c \in Elements(cols) : IsTodo(p, c)}
      BY TodoFinite
    <2> QED  BY <1>8, <1>10, <1>11, <2>1, <2>2 DEF Uncounted
  <1>14. ASSUME NEW c \in Columns
         PROVE  /\ Distinct(q.refs[c]) /\ Len(q.refs[c]) <= RefListMax
                /\ Elements(q.refs[c]) = {s \in StoredRows(q) : c \in ColumnsIn(q, s)}
                /\ Elements(p.refs[c]) \subseteq Elements(q.refs[c])
    <2>1. /\ p.refs[c] \in Seq(Rows) /\ Distinct(p.refs[c]) /\ Len(p.refs[c]) <= RefListMax
          /\ Elements(p.refs[c]) = {s \in StoredRows(p) : c \in ColumnsIn(p, s)}
      BY <1>1 DEF RefsMatch
    <2>2. CASE c \in Elements(cols)
      <3>1. q.refs[c] = Append(p.refs[c], r)
        BY <1>3, <2>2
      <3>2. r \notin Elements(p.refs[c])
        BY <1>7, <2>1
      <3>3. Len(p.refs[c]) < RefListMax
        <4>1. PICK i \in 1..Len(cols) : cols[i] = c
          BY <2>2 DEF Elements
        <4>2. Len(p.refs[c]) \in Nat /\ ~(Len(p.refs[c]) >= RefListMax)
          BY <2>1, <4>1 DEF FullColumns
        <4> QED  BY <4>2, RefListMaxAssumption
      <3>4. /\ Len(q.refs[c]) = Len(p.refs[c]) + 1 /\ Len(p.refs[c]) \in Nat
            /\ Distinct(q.refs[c]) /\ Elements(q.refs[c]) = Elements(p.refs[c]) \cup {r}
        BY <1>2, <2>1, <3>1, <3>2, Appended
      <3>5. Elements(q.refs[c]) = {s \in StoredRows(q) : c \in ColumnsIn(q, s)}
        BY <1>7, <1>8, <2>1, <2>2, <3>4
      <3> QED  BY <3>3, <3>4, <3>5, RefListMaxAssumption
    <2>3. CASE c \notin Elements(cols)
      <3>1. q.refs[c] = p.refs[c]
        BY <1>3, <2>3
      <3>2. {s \in StoredRows(q) : c \in ColumnsIn(q, s)} = {s \in StoredRows(p) : c \in ColumnsIn(p, s)}
        BY <1>7, <1>8, <2>3
      <3> QED  BY <2>1, <3>1, <3>2
    <2> QED  BY <2>2, <2>3
  <1>15. RefsMatch(q)
    <2>1. Len(q.rows) <= BlockCount
      BY <1>2, <1>4, BlockCountAssumption
    <2>2. \A s \in StoredRows(q) : Distinct(q.rows[At(s)])
      <3>1. \A s \in StoredRows(p) : Distinct(p.rows[At(s)])
        BY <1>1 DEF RefsMatch
      <3> QED  BY <1>4, <1>7, <1>8, <3>1
    <2> QED  BY <1>4, <1>5, <1>6, <1>14, <2>1, <2>2 DEF RefsMatch
  <1>16. \A s \in Elements(p.list) : Solves(q, s) = Solves(p, s)
    BY <1>8, <1>9 DEF Linked
  <1>17. WalkMatches(q)
    <2> SUFFICES ASSUME NEW k \in 1..Len(p.walk) PROVE WalkMatchesAt(q, k)
      BY <1>3, EachWalk
    <2>1. WalkMatchesAt(p, k) /\ p.walk[k].col \in Columns
      BY EachWalk, WalkColumn DEF PeelGood
    <2>2. Elements(p.refs[p.walk[k].col]) \subseteq Elements(q.refs[p.walk[k].col])
      BY <1>14, <2>1
    <2> QED  BY <1>3, <1>16, <2>1, <2>2 DEF WalkMatchesAt
  <1>18. CountsMatch(q, {r})
    <2> SUFFICES ASSUME NEW s \in StoredRows(p)
                 PROVE  IF s \in Linked(p) THEN DoneCount(q, s) ELSE OpenCount(q, s)
      BY <1>7, <1>9 DEF CountsMatch
    <2>1. IF s \in Linked(p) THEN DoneCount(p, s) ELSE OpenCount(p, s)
      BY DEF PeelGood, CountsMatch
    <2> QED  BY <1>8, <1>12, <2>1 DEF DoneCount, OpenCount
  <1>19. ListsMatch(q)
    <2>1. Marked(q, "PEEL") = Marked(p, "PEEL") /\ Marked(q, "DEFER") = Marked(p, "DEFER")
      BY <1>3 DEF Marked
    <2>2. {Solves(q, s) : s \in Elements(q.list)} = {Solves(p, s) : s \in Elements(p.list)}
      BY <1>3, <1>16
    <2> QED  BY <1>1, <1>3, <1>7, <1>9, <2>1, <2>2 DEF ListsMatch
  <1>20. SolverMatches(q)
    <2> SUFFICES ASSUME NEW d \in Marked(p, "PEEL")
                 PROVE  \/ \E k \in 1..Len(p.walk) : p.walk[k].col = d
                        \/ p.solver[d] \in Elements(p.list) /\ Solves(q, p.solver[d]) = d
      BY <1>3 DEF SolverMatches, Marked
    <2>1. \/ \E k \in 1..Len(p.walk) : p.walk[k].col = d
          \/ p.solver[d] \in Elements(p.list) /\ Solves(p, p.solver[d]) = d
      BY DEF PeelGood, SolverMatches
    <2> QED  BY <1>16, <2>1
  <1>21. Triangular(q)
    <2>1. \A k \in 1..Len(p.list) : p.list[k] \in Elements(p.list) /\ p.list[k] \in StoredRows(p)
      BY <1>9 DEF Linked, Elements
    <2>2. \A k \in 1..Len(p.list) : SolvedBefore(q, k) = SolvedBefore(p, k)
      <3> TAKE k \in 1..Len(p.list)
      <3>1. \A i \in 1..(k - 1) : i \in 1..Len(p.list)
        BY <1>1
      <3> QED  BY <1>3, <1>16, <2>1, <3>1 DEF SolvedBefore
    <2> SUFFICES ASSUME NEW k \in 1..Len(p.list)
                 PROVE  /\ Solves(q, p.list[k]) \in ColumnsIn(q, p.list[k]) \ SolvedBefore(q, k)
                        /\ \A c \in ColumnsIn(q, p.list[k]) \ {Solves(q, p.list[k])} :
                              c \in SolvedBefore(q, k) \/ p.mark[c] = "DEFER"
      BY <1>3 DEF Triangular
    <2>3. /\ Solves(p, p.list[k]) \in ColumnsIn(p, p.list[k]) \ SolvedBefore(p, k)
          /\ \A c \in ColumnsIn(p, p.list[k]) \ {Solves(p, p.list[k])} :
                c \in SolvedBefore(p, k) \/ p.mark[c] = "DEFER"
      BY DEF PeelGood, Triangular
    <2> QED  BY <1>8, <2>1, <2>2, <2>3
  <1> QED  BY <1>4, <1>7, <1>9, <1>13, <1>15, <1>17, <1>18, <1>19, <1>20, <1>21 DEF PeelGood

LEMMA StoreKeeps ==
  ASSUME NEW p, NEW cols, PeelGood(p, {}), cols \in Seq(Columns), Distinct(cols),
         Len(p.rows) < BlockCount, FullColumns(p, cols) = {}
  PROVE  PeelGood(StoreRow(p, cols), {})
  <1> DEFINE r == Len(p.rows)
             todo == TodoColumns(p, cols)
             n == Cardinality(todo)
             p1 == Entered(p, cols)
             counted == [p1 EXCEPT !.w2 = CountWeight2(p, cols)]
  <1>1. p \in PeelState
    BY DEF PeelGood
  <1>2. /\ p1 \in PeelState /\ Enter(p, p1, cols)
        /\ p1.unmarked = Append(p.unmarked, n)
        /\ n = 2 => p1.marks = Append(p.marks, LastPair(p, cols))
    BY <1>1, EnteredFields
  <1>3. /\ r \in StoredRows(p1) /\ r \notin Linked(p1) /\ p1.rows[At(r)] = cols
        /\ Uncounted(p1, r) = todo /\ PeelGood(p1, {r})
    <2> HIDE DEF p1
    <2> QED  BY <1>2, EnterKeeps
  <1>4. StoreRow(p, cols) = CASE n = 0 -> DeferRow(p1, r)
                              [] n = 1 -> SolveWithPeel(p1, r, FirstTodo(p, cols))
                              [] n = 2 -> counted
                              [] OTHER -> p1
    BY Zenon DEF StoreRow, Entered
  <1>5. /\ n \in Nat /\ n \in Word /\ (n = 0 <=> todo = {})
        /\ n = 1 => todo = {FirstTodo(p, cols)}
        /\ n = 2 => todo = {FirstTodo(p, cols), LastTodo(p, cols)}
    BY TodoFinite, TodoEnds
  <1>6. p1.unmarked[At(r)] = n
    <2>1. p.unmarked \in Seq(Word) /\ Len(p.unmarked) = r /\ At(r) = r + 1
      BY <1>1, Fields DEF PeelGood, RefsMatch, At
    <2> HIDE DEF p1, n
    <2> QED  BY <1>2, <1>5, <2>1, Appended
  <1>7. \A d : IsTodo(p1, d) <=> IsTodo(p, d)
    BY <1>2 DEF Enter, IsTodo
  <1>8. TodoColumns(p1, p1.rows[At(r)]) = todo
    BY <1>3, <1>7 DEF TodoColumns
  <1>9. r \in Rows /\ At(r) \in 1..Len(p1.marks)
    BY <1>2, <1>3, RowIndex DEF PeelGood
  <1> HIDE DEF p1, n, todo, counted
  <1>10. CASE n = 0
    <2>1. DeferRow(p1, r) \in PeelState /\ Defer(p1, DeferRow(p1, r), r)
      BY <1>2, <1>9, DeferFields
    <2>2. DoneCount(p1, r)
      BY <1>3, <1>6, <1>10 DEF DoneCount, n
    <2>3. PeelGood(DeferRow(p1, r), {})
      BY <1>3, <2>1, <2>2, DeferKeeps
    <2> QED  BY <1>4, <1>10, <2>3
  <1>11. CASE n = 1
    <2>1. DoneCount(p1, r)
      BY <1>3, <1>6, <1>11 DEF DoneCount, n
    <2>2. PeelGood(SolveWithPeel(p1, r, FirstTodo(p, cols)), {})
      BY <1>3, <1>5, <1>8, <1>11, <2>1, SolveOne
    <2> QED  BY <1>4, <1>11, <2>2
  <1>12. CASE n = 2
    <2>1. counted \in PeelState /\ RowUpdate(p1, counted, r)
          /\ counted.marks = p1.marks /\ counted.unmarked = p1.unmarked
      <3>1. CountWeight2(p, cols) \in [Columns -> Nat]
        BY <1>1, Weight2Fields
      <3>2. counted \in PeelState
        BY <1>2, <3>1, Zenon DEF PeelState, counted
      <3>3. RowUpdate(p1, counted, r) /\ counted.marks = p1.marks /\ counted.unmarked = p1.unmarked
        BY <1>2 DEF RowUpdate, SameLists, PeelState, counted
      <3> QED  BY <3>2, <3>3
    <2>2. /\ r \in StoredRows(counted) /\ r \notin Linked(counted) /\ PeelGood(counted, {r})
          /\ Uncounted(counted, r) = todo
      <3>1. StillOpen(p1, counted, r) /\ PeelGood(counted, {r})
        BY <1>3, <2>1, RowUpdateKeeps
      <3> QED  BY <1>3, <3>1 DEF StillOpen
    <2>3. counted.marks[At(r)] = LastPair(p, cols)
      <3>1. p.marks \in Seq(Word \X Word) /\ Len(p.marks) = r /\ At(r) = r + 1
        BY <1>1, Fields DEF PeelGood, RefsMatch, At
      <3>2. counted.marks = Append(p.marks, LastPair(p, cols))
        BY <1>2, <1>12, <2>1
      <3> HIDE DEF r
      <3> QED  BY <3>1, <3>2
    <2>4. OpenCount(counted, r)
      <3>1. counted.unmarked[At(r)] = n /\ n = Cardinality(Uncounted(counted, r))
        BY <1>6, <2>1, <2>2 DEF n
      <3>2. Uncounted(counted, r) = {counted.marks[At(r)][1], counted.marks[At(r)][2]}
        BY <1>5, <1>12, <2>2, <2>3 DEF LastPair
      <3> QED  BY <1>12, <3>1, <3>2 DEF OpenCount
    <2>5. PeelGood(counted, {})
      BY <2>2, <2>4, Closed
    <2> QED  BY <1>4, <1>12, <2>5
  <1>13. CASE n \notin {0, 1, 2}
    <2>1. OpenCount(p1, r)
      <3>1. Cardinality(Uncounted(p1, r)) = n
        BY <1>3 DEF n
      <3> QED  BY <1>5, <1>6, <1>13, <3>1 DEF OpenCount
    <2>2. PeelGood(p1, {})
      BY <1>3, <2>1, Closed
    <2> QED  BY <1>4, <1>13, <2>2
  <1> QED  BY <1>10, <1>11, <1>12, <1>13

\* Which operators store a row.
LEMMA StoreRowRows ==
  ASSUME NEW p \in PeelState, NEW cols \in Seq(Columns), Distinct(cols), Len(p.rows) < BlockCount
  PROVE  StoreRow(p, cols).rows = Append(p.rows, cols)
  <1> DEFINE p1 == Entered(p, cols)
             n == Cardinality(TodoColumns(p, cols))
  <1>1. p1 \in PeelState /\ p1.rows = Append(p.rows, cols)
    BY EnteredFields DEF Enter
  <1>2. StoreRow(p, cols) = CASE n = 0 -> DeferRow(p1, Len(p.rows))
                              [] n = 1 -> SolveWithPeel(p1, Len(p.rows), FirstTodo(p, cols))
                              [] n = 2 -> [p1 EXCEPT !.w2 = CountWeight2(p, cols)]
                              [] OTHER -> p1
    BY Zenon DEF StoreRow, Entered
  <1> HIDE DEF p1, n
  <1>3. /\ DeferRow(p1, Len(p.rows)).rows = p1.rows
        /\ SolveWithPeel(p1, Len(p.rows), FirstTodo(p, cols)).rows = p1.rows
        /\ [p1 EXCEPT !.w2 = CountWeight2(p, cols)].rows = p1.rows
    BY <1>1 DEF DeferRow, SolveWithPeel, PeelState
  <1> QED  BY <1>1, <1>2, <1>3

LEMMA SolvingKeepsRows ==
  ASSUME NEW q \in PeelState, NEW r, NEW c
  PROVE  SolveLast(q, r, c).rows = q.rows /\ StoreLastTwo(q, r).rows = q.rows
  <1> DEFINE cols == q.rows[At(r)]
             left == Cardinality(TodoColumns(q, cols))
             p1   == [q EXCEPT !.w2 = CountWeight2(q, cols)]
             zero == [p1 EXCEPT !.unmarked[At(r)] = 0]
             pair == [p1 EXCEPT !.marks[At(r)] = LastPair(q, cols)]
  <1>1. \A d : SolveWithPeel(q, r, d).rows = q.rows /\ DeferRow(q, r).rows = q.rows
    BY DEF SolveWithPeel, DeferRow, PeelState
  <1>2. SolveLast(q, r, c).rows = q.rows
    BY <1>1 DEF SolveLast
  <1>3. p1 \in PeelState /\ p1.rows = q.rows
    <2>1. CountWeight2(q, cols) \in [Columns -> Nat]
      BY Weight2Fields
    <2>2. p1 \in PeelState
      BY <2>1, Zenon DEF PeelState
    <2>3. p1.rows = q.rows
      BY DEF PeelState
    <2> QED  BY <2>2, <2>3
  <1>4. StoreLastTwo(q, r) = CASE left = 0 -> DeferRow(zero, r)
                               [] left = 1 -> SolveWithPeel(zero, r, FirstTodo(q, cols))
                               [] OTHER -> pair
    BY Zenon DEF StoreLastTwo
  <1> HIDE DEF left, p1
  <1>5. \A d : DeferRow(zero, r).rows = p1.rows /\ SolveWithPeel(zero, r, d).rows = p1.rows
    BY <1>3 DEF SolveWithPeel, DeferRow, PeelState
  <1>6. pair.rows = p1.rows
    BY <1>3 DEF PeelState
  <1> HIDE DEF zero, pair
  <1> QED  BY <1>2, <1>3, <1>4, <1>5, <1>6

LEMMA SameRows ==
  ASSUME NEW p, PeelGood(p, {})
  PROVE  /\ p.walk # <<>> => AvalancheStep(p).rows = p.rows
         /\ GreedyDefer(p).rows = p.rows
  <1>1. p \in PeelState /\ RefsMatch(p)
    BY DEF PeelGood
  <1>2. GreedyDefer(p).rows = p.rows
    BY <1>1 DEF GreedyDefer, PeelState
  <1>3. ASSUME p.walk # <<>>, p.walk[1].rest = <<>> PROVE AvalancheStep(p).rows = p.rows
    BY <1>1, <1>3, ReturnFields DEF Return
  <1>4. ASSUME p.walk # <<>>, p.walk[1].rest # <<>> PROVE AvalancheStep(p).rows = p.rows
    <2> DEFINE r == Head(p.walk[1].rest)
               u == Decremented(p.unmarked[At(r)])
    <2>1. At(r) \in 1..Len(p.unmarked)
      BY <1>1, <1>4, NextRow, RowIndex
    <2>2. /\ CountedDown(p) \in PeelState /\ CountDown(p, CountedDown(p), u)
          /\ u = 1 => AvalancheStep(p) = SolveLast(CountedDown(p), r, p.walk[1].col)
          /\ u = 2 => AvalancheStep(p) = StoreLastTwo(CountedDown(p), r)
          /\ u \notin {1, 2} => AvalancheStep(p) = CountedDown(p)
      BY <1>1, <1>4, <2>1, CountDownFields
    <2> HIDE DEF u, r
    <2>3. CountedDown(p).rows = p.rows
      BY <2>2 DEF CountDown, SameLists
    <2>4. /\ SolveLast(CountedDown(p), r, p.walk[1].col).rows = CountedDown(p).rows
          /\ StoreLastTwo(CountedDown(p), r).rows = CountedDown(p).rows
      BY <2>2, SolvingKeepsRows
    <2> QED  BY <2>2, <2>3, <2>4
  <1> QED  BY <1>2, <1>3, <1>4

(***************************************************************************)
(* The state machine.                                                      *)
(***************************************************************************)
LEMMA FeedKeeps ==
  ASSUME NEW p, NEW cols \in RowShapes, PeelGood(p, {}), Len(p.rows) < BlockCount
  PROVE  /\ PeelGood(OpportunisticPeeling(p, cols).peel, {})
         /\ OpportunisticPeeling(p, cols).peel.rows = p.rows => OpportunisticPeeling(p, cols).peel = p
  <1>1. p \in PeelState /\ p.rows \in Seq(Seq(Columns)) /\ cols \in Seq(Columns) /\ Distinct(cols)
    BY Fields, RowShapesAssumption DEF PeelGood, Distinct
  <1>2. CASE FullColumns(p, cols) = {}
    <2>1. OpportunisticPeeling(p, cols).peel = StoreRow(p, cols)
      BY <1>2 DEF OpportunisticPeeling
    <2>2. PeelGood(StoreRow(p, cols), {}) /\ StoreRow(p, cols).rows = Append(p.rows, cols)
      BY <1>1, <1>2, StoreKeeps, StoreRowRows
    <2>3. Append(p.rows, cols) # p.rows
      BY <1>1
    <2> QED  BY <2>1, <2>2, <2>3
  <1>3. CASE FullColumns(p, cols) # {}
    BY <1>1, <1>3, RefusedIsSame
  <1> QED  BY <1>2, <1>3

LEMMA InvIsGood ==
  PeelInv <=> /\ PeelGood(peel, {}) /\ phase \in {"feed", "greedy"}
              /\ phase = "greedy" => Len(peel.rows) = BlockCount
  BY DEF PeelInv, PeelGood, TypeOK, RefsMatch, PeelOrderTriangular

LEMMA InitGood == Init => PeelInv
  <1> SUFFICES ASSUME Init PROVE PeelInv
    OBVIOUS
  <1> DEFINE p == peel
  <1>1. /\ p.rows = <<>> /\ p.unmarked = <<>> /\ p.marks = <<>>
        /\ p.mark = [c \in Columns |-> "TODO"] /\ p.w2 = [c \in Columns |-> 0]
        /\ p.solver = [c \in Columns |-> NoRow] /\ p.refs = [c \in Columns |-> <<>>]
        /\ p.list = <<>> /\ p.deferRows = <<>> /\ p.deferCols = <<>> /\ p.walk = <<>>
        /\ p \in PeelState
    BY DEF Init, NewPeel, PeelState, MarkTypes, Columns
  <1> HIDE DEF p
  <1>2. /\ StoredRows(p) = {} /\ Elements(p.list) = {} /\ Elements(p.deferRows) = {}
        /\ Linked(p) = {} /\ \A c \in Columns : Elements(p.refs[c]) = {}
    BY <1>1 DEF StoredRows, Elements, Linked
  <1>3. RefsMatch(p)
    BY <1>1, <1>2, RefListMaxAssumption, BlockCountAssumption DEF RefsMatch, Distinct
  <1>4. WalkMatches(p) /\ CountsMatch(p, {}) /\ Triangular(p)
    BY <1>1, <1>2 DEF WalkMatches, CountsMatch, Triangular
  <1>5. Marked(p, "PEEL") = {} /\ Marked(p, "DEFER") = {}
    BY <1>1 DEF Marked
  <1>6. SolverMatches(p)
    BY <1>5 DEF SolverMatches
  <1>7. ListsMatch(p)
    <2>1. Cardinality({}) = 0
      BY FS_EmptySet
    <2>2. Len(p.list) = 0 /\ Len(p.deferRows) = 0 /\ Len(p.deferCols) = 0
      BY <1>1
    <2>3. Distinct(p.list) /\ Distinct(p.deferRows)
      BY <1>1 DEF Distinct
    <2>4. {Solves(p, r) : r \in Elements(p.list)} = {}
      BY <1>2
    <2>5. 0 + 0 = Cardinality({})
      BY <2>1
    <2> QED  BY <1>2, <1>5, <2>1, <2>2, <2>3, <2>4, <2>5 DEF ListsMatch
  <1> QED  BY <1>1, <1>3, <1>4, <1>6, <1>7, InvIsGood DEF PeelGood, Init, p

LEMMA NextGood == PeelInv /\ [Next]_vars => PeelInv'
  <1> SUFFICES ASSUME PeelInv, [Next]_vars PROVE PeelInv'
    OBVIOUS
  <1>1. /\ PeelGood(peel, {}) /\ phase \in {"feed", "greedy"}
        /\ phase = "greedy" => Len(peel.rows) = BlockCount
    BY InvIsGood
  <1>2. SUFFICES /\ PeelGood(peel', {}) /\ phase' \in {"feed", "greedy"}
                 /\ phase' = "greedy" => Len(peel'.rows) = BlockCount
    BY DEF PeelInv, PeelGood, TypeOK, RefsMatch, PeelOrderTriangular
  <1>3. CASE \E cols \in RowShapes : Feed(cols)
    BY <1>1, <1>3, FeedKeeps DEF Feed
  <1>4. CASE Avalanche
    BY <1>1, <1>4, AvalancheKeeps, SameRows DEF Avalanche, Idle
  <1>5. CASE StartGreedy
    BY <1>1, <1>5 DEF StartGreedy
  <1>6. CASE Greedy
    BY <1>1, <1>6, GreedyKeeps, SameRows DEF Greedy
  <1>7. CASE UNCHANGED vars
    BY <1>1, <1>7 DEF vars
  <1> QED  BY <1>3, <1>4, <1>5, <1>6, <1>7 DEF Next

(***************************************************************************)
(* Rows, counts, walks and lists agree in every state, for any number of   *)
(* columns, any row shapes and any limit on the references of a column:    *)
(* PeelAvalancheOnSolve, SolveWithPeel, OpportunisticPeeling and           *)
(* GreedyPeeling keep PeelInv.                                             *)
(***************************************************************************)
THEOREM PeelInvariant == Spec => []PeelInv
  <1>1. Init => PeelInv
    BY InitGood
  <1>2. PeelInv /\ [Next]_vars => PeelInv'
    BY NextGood
  <1> QED  BY <1>1, <1>2, PTL DEF Spec

\* The record keeps its shape: indices in range, 16-bit counters, reference
\* lists within PeelRefs.
THEOREM PeelTypeCorrect == Spec => []TypeOK
  <1>1. PeelInv => TypeOK
    BY DEF PeelInv
  <1> QED  BY <1>1, PeelInvariant, PTL

LEMMA CountOnce ==
  ASSUME NEW T, NEW s \in Seq(T), Distinct(s), NEW x
  PROVE  Count(s, x) = IF x \in Elements(s) THEN 1 ELSE 0
  <1>1. CASE x \in Elements(s)
    <2>1. PICK i \in 1..Len(s) : s[i] = x
      BY <1>1 DEF Elements
    <2>2. {j \in 1..Len(s) : s[j] = x} = {i}
      BY <2>1 DEF Distinct
    <2>3. Cardinality({i}) = 1
      BY FS_Singleton, Zenon
    <2> QED  BY <1>1, <2>2, <2>3 DEF Count
  <1>2. CASE x \notin Elements(s)
    <2>1. {j \in 1..Len(s) : s[j] = x} = {}
      BY <1>2 DEF Elements
    <2> QED  BY <1>2, <2>1, FS_EmptySet DEF Count
  <1> QED  BY <1>1, <1>2

\* Count of a record's lists.
LEMMA LinkedOnce ==
  ASSUME NEW p, PeelGood(p, {}), NEW r
  PROVE  Count(p.list, r) + Count(p.deferRows, r) = IF r \in Linked(p) THEN 1 ELSE 0
  <1>1. p.list \in Seq(Rows) /\ p.deferRows \in Seq(Rows)
    BY Fields DEF PeelGood
  <1>2. /\ Distinct(p.list) /\ Distinct(p.deferRows)
        /\ Elements(p.list) \cap Elements(p.deferRows) = {}
    BY DEF PeelGood, ListsMatch
  <1>3. /\ Count(p.list, r) = IF r \in Elements(p.list) THEN 1 ELSE 0
        /\ Count(p.deferRows, r) = IF r \in Elements(p.deferRows) THEN 1 ELSE 0
    BY <1>1, <1>2, CountOnce
  <1> QED  BY <1>2, <1>3 DEF Linked

(***************************************************************************)
(* No row is linked twice through PeelRow::NextRow.                        *)
(***************************************************************************)
THEOREM RowsLinkedOnce == Spec => []RowLinkedOnce
  <1>1. PeelInv => RowLinkedOnce
    BY InvIsGood, LinkedOnce DEF RowLinkedOnce
  <1> QED  BY <1>1, PeelInvariant, PTL

(***************************************************************************)
(* The unmarked columns that PeelAvalancheOnSolve stores when a count      *)
(* reaches two fit the array of two: the third that the count stood for is *)
(* the column just solved.                                                 *)
(***************************************************************************)
THEOREM UnmarkedAlwaysFits == Spec => []UnmarkedFits
  <1>1. PeelInv => UnmarkedFits
    <2> SUFFICES ASSUME PeelInv, peel.walk # <<>>, Head(peel.walk).rest # <<>>,
                        peel.unmarked[At(Head(Head(peel.walk).rest))] = 3
                 PROVE  Cardinality(TodoColumns(peel, peel.rows[At(Head(Head(peel.walk).rest))])) <= 2
      BY DEF UnmarkedFits, Idle
    <2> DEFINE p == peel
               f == p.walk[1]
               r == Head(f.rest)
    <2>1. PeelGood(p, {}) /\ p \in PeelState /\ RefsMatch(p)
      BY InvIsGood DEF PeelGood
    <2>2. Head(p.walk) = f /\ 1 \in 1..Len(p.walk) /\ f.rest # <<>>
      <3>1. p.walk \in Seq(Frames)
        BY <2>1, Fields
      <3> QED  BY <3>1, Headed
    <2>3. p.unmarked[At(r)] = 3
      BY <2>2
    <2> HIDE DEF p
    <2>4. SUFFICES Cardinality(TodoColumns(p, p.rows[At(r)])) <= 2
      BY <2>2 DEF p
    <2>5. p.walk # <<>>
      BY DEF p
    <2>6. r \in StoredRows(p) /\ f.col \in ColumnsIn(p, r) /\ ~IsTodo(p, f.col) /\ r \in Elements(f.rest)
      <3>1. f.rest \in Seq(Rows)
        BY <2>1, <2>2, WalkColumn
      <3>2. r \in Elements(f.rest)
        BY <2>2, <3>1, Headed
      <3> QED  BY <2>1, <2>2, <3>2, WalkColumn
    <2>7. f.col \in Uncounted(p, r)
      BY <2>2, <2>6 DEF Uncounted, Walks
    <2> HIDE DEF r, f
    <2>8. IF r \in Linked(p) THEN DoneCount(p, r) ELSE OpenCount(p, r)
      BY <2>1, <2>6 DEF PeelGood, CountsMatch
    <2>9. ~DoneCount(p, r)
      <3>1. /\ (65534 + 0) % 65536 = 65534 /\ (65534 + 1) % 65536 = 65535 /\ (65534 + 2) % 65536 = 0
        BY SMTT(30)
      <3>2. Cardinality(Uncounted(p, r)) \in Nat
        BY <2>1, <2>6, UncountedFinite
      <3>3. Cardinality(Uncounted(p, r)) <= 2 =>
              Cardinality(Uncounted(p, r)) = 0 \/ Cardinality(Uncounted(p, r)) = 1 \/ Cardinality(Uncounted(p, r)) = 2
        BY <3>2
      <3> QED  BY <2>3, <3>1, <3>2, <3>3 DEF DoneCount
    <2>10. Cardinality(Uncounted(p, r)) = 3 /\ IsFiniteSet(Uncounted(p, r))
      BY <2>1, <2>3, <2>6, <2>8, <2>9, UncountedFinite DEF OpenCount
    <2>11. /\ IsFiniteSet(Uncounted(p, r) \ {f.col}) /\ Cardinality(Uncounted(p, r) \ {f.col}) = 2
      BY <2>7, <2>10, FS_RemoveElement
    <2>12. p.rows[At(r)] \in Seq(Columns)
      BY <2>1, <2>6, RowIndex
    <2>13. TodoColumns(p, p.rows[At(r)]) \subseteq Uncounted(p, r) \ {f.col}
      BY <2>6, <2>12, TodoFinite DEF Uncounted, ColumnsIn
    <2> QED  BY <2>11, <2>13, FS_Subset
  <1> QED  BY <1>1, PeelInvariant, PTL

(***************************************************************************)
(* Forward substitution in the order of the peeled list never reads a      *)
(* block that is neither solved nor left to Gaussian elimination.          *)
(***************************************************************************)
THEOREM OrderIsTriangular == Spec => []PeelOrderTriangular
  <1>1. PeelInv => PeelOrderTriangular
    BY DEF PeelInv
  <1> QED  BY <1>1, PeelInvariant, PTL

(***************************************************************************)
(* When the greedy loop is through, every row is peeled or deferred once,  *)
(* as many rows as columns wait for elimination, and each solved column    *)
(* names its row.                                                          *)
(***************************************************************************)
THEOREM RemainderIsSquare == Spec => []SquareRemainder
  <1>1. PeelInv => SquareRemainder
    <2> SUFFICES ASSUME PeelInv, Complete PROVE SquareRemainder
      BY DEF SquareRemainder
    <2> DEFINE p == peel
    <2>1. /\ PeelGood(p, {}) /\ p \in PeelState /\ RefsMatch(p) /\ ListsMatch(p) /\ Len(p.rows) = BlockCount
          /\ p.walk = <<>> /\ ~SomeTodo(p)
      BY InvIsGood DEF PeelGood, Complete, Idle
    <2> SUFFICES /\ \A r \in Rows : Count(p.list, r) + Count(p.deferRows, r) = 1
                 /\ Len(p.deferRows) = Len(p.deferCols)
                 /\ \A c \in Columns : p.mark[c] = "PEEL" =>
                       /\ p.solver[c] \in Rows
                       /\ p.marks[At(p.solver[c])][1] = c
      BY DEF SquareRemainder
    <2> HIDE DEF p
    <2>2. StoredRows(p) = Rows
      BY <2>1 DEF StoredRows, Rows
    <2>3. p.mark \in [Columns -> MarkTypes] /\ \A c \in Columns : ~IsTodo(p, c)
      BY <2>1, Fields DEF SomeTodo
    <2>4. \A r \in Rows : Uncounted(p, r) = {}
      <3> TAKE r \in Rows
      <3>1. ColumnsIn(p, r) \subseteq Columns
        BY <2>1, <2>2, RowIndex
      <3>2. \A c : ~Walks(p, c, r)
        BY <2>1 DEF Walks
      <3> QED  BY <2>3, <3>1, <3>2 DEF Uncounted
    <2>5. Linked(p) = Rows
      <3>1. ASSUME NEW r \in Rows PROVE r \in Linked(p)
        <4>1. Cardinality(Uncounted(p, r)) = 0
          BY <2>4, FS_EmptySet
        <4>2. ~OpenCount(p, r)
          BY <4>1 DEF OpenCount
        <4> QED  BY <2>1, <2>2, <4>2 DEF PeelGood, CountsMatch
      <3> QED  BY <2>1, <2>2, <3>1 DEF ListsMatch
    <2>6. \A r \in Rows : Count(p.list, r) + Count(p.deferRows, r) = 1
      BY <2>1, <2>5, LinkedOnce
    <2>7. Len(p.deferRows) = Len(p.deferCols)
      <3>1. /\ Len(p.list) \in Nat /\ Len(p.deferRows) \in Nat /\ Len(p.deferCols) \in Nat
        <4>1. p.list \in Seq(Rows) /\ p.deferRows \in Seq(Rows) /\ p.deferCols \in Seq(Columns)
          BY <2>1, Fields
        <4> QED  BY <4>1
      <3>2. Marked(p, "PEEL") \cap Marked(p, "DEFER") = {} /\ Columns = Marked(p, "PEEL") \cup Marked(p, "DEFER")
        BY <2>3 DEF Marked, MarkTypes, IsTodo
      <3>3. IsFiniteSet(Marked(p, "PEEL")) /\ IsFiniteSet(Marked(p, "DEFER"))
        BY ColumnsAndRows, FS_Subset DEF Marked
      <3>4. BlockCount = Cardinality(Marked(p, "PEEL")) + Cardinality(Marked(p, "DEFER"))
        <4>1. Cardinality(Columns) = BlockCount /\ Cardinality({}) = 0
          BY ColumnsAndRows, FS_EmptySet
        <4>2. Cardinality(Marked(p, "PEEL") \cup Marked(p, "DEFER")) =
                Cardinality(Marked(p, "PEEL")) + Cardinality(Marked(p, "DEFER"))
                - Cardinality(Marked(p, "PEEL") \cap Marked(p, "DEFER"))
          BY <3>3, FS_Union
        <4>3. Cardinality(Marked(p, "PEEL")) \in Nat /\ Cardinality(Marked(p, "DEFER")) \in Nat
          BY <3>3, FS_CardinalityType
        <4>4. Cardinality(Marked(p, "PEEL") \cup Marked(p, "DEFER")) = BlockCount
              /\ Cardinality(Marked(p, "PEEL") \cap Marked(p, "DEFER")) = 0
          BY <3>2, <4>1
        <4> QED  BY <4>2, <4>3, <4>4
      <3>5. Len(p.list) + Len(p.deferRows) = BlockCount
        <4>1. Cardinality(Linked(p)) = BlockCount
          BY <2>5, ColumnsAndRows
        <4> QED  BY <2>1, <4>1 DEF ListsMatch
      <3>6. Len(p.list) = Cardinality(Marked(p, "PEEL")) /\ Len(p.deferCols) = Cardinality(Marked(p, "DEFER"))
        BY <2>1 DEF ListsMatch
      <3> QED  BY <3>1, <3>4, <3>5, <3>6
    <2>8. ASSUME NEW c \in Columns, p.mark[c] = "PEEL"
          PROVE  p.solver[c] \in Rows /\ p.marks[At(p.solver[c])][1] = c
      <3>1. p.solver[c] \in Elements(p.list) /\ Solves(p, p.solver[c]) = c
        BY <2>1, <2>8 DEF PeelGood, SolverMatches, Marked
      <3> QED  BY <2>5, <3>1 DEF Linked, Solves
    <2> QED  BY <2>6, <2>7, <2>8
  <1> QED  BY <1>1, PeelInvariant, PTL

(***************************************************************************)
(* A row refused for a full reference list leaves the record as it was.    *)
(***************************************************************************)
THEOREM RefusalsLeaveNoTrace == Spec => RefusedRowLeavesNoTrace
  <1>1. PeelInv /\ [Next]_vars =>
          [(phase = "feed" /\ Idle /\ phase' = "feed" /\ peel'.rows = peel.rows) => peel' = peel]_vars
    <2> SUFFICES ASSUME PeelInv, Next, phase = "feed", Idle, phase' = "feed", peel'.rows = peel.rows
                 PROVE  peel' = peel
      BY DEF vars
    <2>1. PeelGood(peel, {})
      BY InvIsGood
    <2>2. CASE \E cols \in RowShapes : Feed(cols)
      BY <2>1, <2>2, FeedKeeps DEF Feed
    <2>3. CASE Avalanche \/ StartGreedy \/ Greedy
      BY <2>3 DEF Avalanche, StartGreedy, Greedy
    <2> QED  BY <2>2, <2>3 DEF Next
  <1> QED  BY <1>1, PeelInvariant, PTL DEF Spec, RefusedRowLeavesNoTrace

=============================================================================
