---------------------------- MODULE SolverMatrix ----------------------------
(***************************************************************************)
(* Stages 2 and 3 of the Wirehair solver and its resumption: what peeling  *)
(* left over becomes a small dense matrix over GF(2), closed by six heavy  *)
(* rows over GF(256), and Gaussian elimination brings it to triangular     *)
(* form.  A decoder that lacks a pivot keeps the half-done elimination and *)
(* ResumeSolveMatrix adds the next block to it.                            *)
(*                                                                         *)
(* A binary row is the set of its columns.  A heavy row is its bytes, a    *)
(* partial function of the heavy row number: a row nobody wrote has no     *)
(* value, so reading one is an error of the model.  The operators take and *)
(* return the codec as a record:                                           *)
(*   N, D, mix        _block_count, _dense_count, _mix_count               *)
(*   extra            _extra_count, rows kept for blocks after the N-th    *)
(*   bytes            _block_bytes                                         *)
(*   inFinal, outFinal   _input_final_bytes, _output_final_bytes           *)
(*   ids, input       RecoveryId and data of each stored row               *)
(*   peel             the state of PeelMatrix                              *)
(*   copied           rows whose IsCopied is set                           *)
(*   defer, fhc, heavyCols   _defer_count, _first_heavy_column,            *)
(*                    _heavy_columns                                       *)
(*   compress, ge, heavy     the three matrices                            *)
(*   pivots, next, count, fhp   _pivots, _next_pivot, _pivot_count,        *)
(*                    _first_heavy_pivot                                   *)
(*   rowMap, colMap   _ge_row_map, _ge_col_map                             *)
(*   recovery         _recovery_blocks                                     *)
(***************************************************************************)
EXTENDS PeelMatrix, WirehairTools, Gf256, TLC

CONSTANTS
  BlockCounts,   \* values of _block_count the instance looks at
  RowIds         \* block ids the instance looks at

kHeavyRows == 6
kHeavyCols == 18

(* A finite function, tabulated when it is built. *)
Table(S, op(_)) == [x \in S |-> op(x)] @@ <<>>

(* The sum of two binary rows, and a row with the listed columns flipped. *)
Xor(A, B) == {x \in A \cup B : (x \in A) # (x \in B)}
Flip(A, cols) == ForEach(LAMBDA s, x : Xor(s, {x}), A, cols)

-----------------------------------------------------------------------------
(* What the block count and a block id determine *)

DenseRows == Table(BlockCounts, GetDenseCount)
MixCount(n) == DenseRows[n] + kHeavyRows

(* PeelRowParameters::Initialize and the two iterators over its result. *)
ColumnsOf(params, n, mix) == [peel |-> PeelColumnsOf(params, n, NextPrime16(n)),
                              mix  |-> MixColumnsOf(params, mix, NextPrime16(mix))]
RowColumns ==
  Table(BlockCounts, LAMBDA n : Table(RowIds, LAMBDA id :
    ColumnsOf(PeelRowParameters(id, GetPeelSeed(n), n, MixCount(n)), n, MixCount(n))))

(* One group of dense columns: D steps of a Shuffle-2 code.  Each step flips *)
(* some columns of a running row and adds it to one of the dense rows.       *)
(* The four decks are the rows, the first row's bits and the bits to flip.   *)
Deal4(prng, d) ==
  ForEach(LAMBDA s, k : LET t == ShuffleDeck16(s.prng, d)
                        IN [prng |-> t.prng, decks |-> Append(s.decks, t.deck)],
          [prng |-> prng, decks |-> <<>>], Upto(1, 4))

GroupSteps(deck, d, first, width) ==
  LET half  == (d + 1) \div 2
      loop1 == d \div 2
      loop2 == loop1 - 1 + (d % 2)
      bits(k) == CASE k = 0 -> [i \in 1..half |-> deck[2][i]]
                   [] k \in 1..loop1 -> <<deck[3][k], deck[3][half + k]>>
                   [] OTHER -> <<deck[4][k - loop1], deck[4][half + k - loop1]>>
      inside == Table(0..(loop1 + loop2), LAMBDA k : SelectSeq(bits(k), LAMBDA b : b < width))
      cols(b) == [i \in 1..Len(b) |-> first + b[i]] \o <<>>
  IN [k \in 1..(loop1 + loop2 + 1) |->
        [row |-> deck[1][k], cols |-> cols(inside[k - 1]), fresh |-> k = 1]]

DenseGroup(s, first, n) ==
  LET join(t, d) == [prng |-> t.prng,
                     steps |-> s.steps \o GroupSteps(t.decks, d, first, AtMost(d, n - first))]
  IN join(Deal4(s.prng, DenseRows[n]), DenseRows[n])

(* The steps MultiplyDenseRows and MultiplyDenseValues both go through. *)
DenseStepsOf(n, d) ==
  ForEach(LAMBDA s, g : DenseGroup(s, g * d, n),
          [prng |-> PcgSeed(GetDenseSeed(n), 0), steps |-> <<>>],
          Upto(0, (n + d - 1) \div d - 1)).steps
DenseSteps == Table(BlockCounts, LAMBDA n : DenseStepsOf(n, DenseRows[n]))

InvertibleMatrix == Table(BlockCounts, LAMBDA n : InvertibleRows(DenseRows[n]))

-----------------------------------------------------------------------------
(* Stage 1, run to its end: the peeling calls return when the walk is empty *)

(* At most 2^k turns of the avalanche. *)
RECURSIVE Settle(_, _)
Settle(p, k) ==
  IF p.walk = <<>> THEN p
  ELSE IF k = 0 THEN AvalancheStep(p)
  ELSE Settle(Settle(p, k - 1), k - 1)
AvalancheDepth == 12
PeelAvalanche(p) == Settle(p, AvalancheDepth)

GreedyPeeling(c) ==
  LET peeled(p) == [c EXCEPT !.peel = p, !.defer = Len(p.deferCols)]
  IN peeled(ForEach(LAMBDA p, i : IF SomeTodo(p) THEN PeelAvalanche(GreedyDefer(p)) ELSE p,
                    c.peel, Upto(1, c.N)))

-----------------------------------------------------------------------------
(* Stage 2: the dense matrix *)

MixBits(c, id) == LET mix == RowColumns[c.N][id].mix
                  IN [i \in 1..kMixColumnCount |-> c.defer + mix[i]]

AllocateMatrix(c) ==
  LET heavyCols == IF c.mix < kHeavyCols THEN c.mix ELSE kHeavyCols
  IN [c EXCEPT !.compress  = Table(0..(c.N - 1), LAMBDA r : {}),
               !.ge        = Table(0..(c.defer + c.D + c.extra), LAMBDA r : {}),
               !.heavy     = <<>>,
               !.heavyCols = heavyCols,
               !.fhc       = c.defer + c.mix - heavyCols]

(* Each deferred column becomes a column of the dense matrix. *)
SetDeferredColumns(c) ==
  LET deferred == c.peel.deferCols
      bits(r) == {i \in 0..(c.defer - 1) :
                    \E k \in DOMAIN c.peel.refs[deferred[At(i)]] :
                       c.peel.refs[deferred[At(i)]][k] = r}
  IN [c EXCEPT !.compress = Table(0..(c.N - 1), bits),
               !.colMap = deferred \o [i \in 1..c.mix |-> c.N + i - 1]]

GEColumn(c, col) == CHOOSE i \in 0..(c.defer - 1) : c.colMap[At(i)] = col

SetMixingColumnsForDeferredRows(c) ==
  [c EXCEPT !.compress = ForEach(
      LAMBDA m, r : [m EXCEPT ![r] = Flip(@, MixBits(c, c.ids[At(r)]))],
      @, c.peel.deferRows)]

IsDeferredRow(c, r) == \E k \in DOMAIN c.peel.deferRows : c.peel.deferRows[k] = r
PeelColumnOf(c, r)  == c.peel.marks[At(r)][1]

(* A stored block, row N-1 cut to the bytes that count and filled with zeros. *)
Padded(block, size, final) ==
  [i \in 1..size |-> IF i <= final THEN block[i] ELSE 0] \o <<>>
InputBlock(c, r) ==
  Padded(c.input[At(r)], c.bytes, IF r = c.N - 1 THEN c.inFinal ELSE c.bytes)

(* Row r reaches another row that has the column r solves. *)
PeelOnto(c, r, ref) ==
  LET src  == c.recovery[PeelColumnOf(c, r)]
      dest == PeelColumnOf(c, ref)
      sum  == [c EXCEPT !.compress[ref] = Xor(@, c.compress[r])]
  IN CASE ref = r -> c
       [] ref # r /\ IsDeferredRow(c, ref) -> sum
       [] OTHER ->
            [sum EXCEPT !.recovery[dest] =
                           gf256_add_mem(IF ref \in c.copied THEN @ ELSE InputBlock(c, ref), src),
                        !.copied = @ \cup {ref}]

PeelRowDown(c, r) ==
  LET col == PeelColumnOf(c, r)
      c1  == [c EXCEPT !.compress[r] = Flip(@, MixBits(c, c.ids[At(r)])),
                       !.recovery[col] = IF r \in c.copied THEN @ ELSE InputBlock(c, r)]
  IN ForEach(LAMBDA d, ref : PeelOnto(d, r, ref), c1, c1.peel.refs[col])

PeelDiagonal(c) == ForEach(PeelRowDown, c, c.peel.list)

CopyDeferredRows(c) ==
  ForEach(LAMBDA d, k : [d EXCEPT !.ge[d.D + k - 1] = d.compress[d.peel.deferRows[k]],
                                  !.rowMap = (d.D + k - 1) :> d.peel.deferRows[k] @@ @],
          c, Upto(1, Len(c.peel.deferRows)))

(* What a column of the check matrix is in terms of the dense columns. *)
ColumnRow(c, col) ==
  IF c.peel.mark[col] = "PEEL" THEN c.compress[c.peel.solver[col]] ELSE {GEColumn(c, col)}

(* The running row is the workspace row below the deferred ones. *)
DenseRowStep(c, step) ==
  LET work == c.D + c.defer
      temp == ForEach(LAMBDA t, col : Xor(t, ColumnRow(c, col)),
                      IF step.fresh THEN {} ELSE c.ge[work], step.cols)
  IN [c EXCEPT !.ge[work] = temp, !.ge[step.row] = Xor(@, temp)]

MultiplyDenseRows(c) == ForEach(DenseRowStep, c, DenseSteps[c.N])

kHeavyMatrix == <<
  <<133, 211, 102, 243, 56, 149, 86, 173, 87, 175, 88, 72, 188, 250, 2, 197, 67, 232>>,
  <<211, 133, 243, 102, 149, 56, 173, 86, 175, 87, 72, 88, 250, 188, 197, 2, 232, 67>>,
  <<130, 34, 87, 175, 86, 173, 56, 149, 102, 243, 67, 232, 2, 197, 188, 250, 88, 72>>,
  <<34, 130, 175, 87, 173, 86, 149, 56, 243, 102, 232, 67, 197, 2, 250, 188, 72, 88>>,
  <<81, 52, 86, 173, 87, 175, 102, 243, 56, 149, 2, 197, 67, 232, 88, 72, 188, 250>>,
  <<52, 81, 173, 86, 175, 87, 243, 102, 149, 56, 197, 2, 232, 67, 72, 88, 250, 188>> >>

SetHeavyRows(c) ==
  [c EXCEPT !.heavy = Table(c.extra..(c.extra + kHeavyRows - 1),
                            LAMBDA h : SubSeq(kHeavyMatrix[h - c.extra + 1], 1, c.heavyCols)) @@ @]

AddInvertibleGF2Matrix(c) ==
  ForEach(LAMBDA d, i : [d EXCEPT !.ge[i] = Xor(@, {d.defer + x : x \in InvertibleMatrix[d.N][i]})],
          c, Upto(0, c.D - 1))

-----------------------------------------------------------------------------
(* Stage 3: Gaussian elimination *)

FirstHeavyRow(c) == c.defer + c.D
ColumnCount(c)   == c.defer + c.mix
Pivot(c, i)      == c.pivots[At(i)]
HeavyCol(c, i)   == i - c.fhc + 1   \* column i as an index into a heavy row
HeavyOf(c, row)  == c.heavy[row - FirstHeavyRow(c)]

(* The bits of a binary row in the heavy columns, as bytes. *)
AsBytes(c, row) ==
  [k \in 1..c.heavyCols |-> IF c.fhc + k - 1 \in c.ge[row] THEN 1 ELSE 0] \o <<>>

(* Pivots from next on that are extra rows move to the end of the list. *)
SinkExtraRow(c, j) ==
  LET row  == Pivot(c, j)
      last == c.fhp - 1
      c1   == IF j >= c.next
              THEN [c EXCEPT !.fhp = last, !.pivots[At(j)] = Pivot(c, last),
                             !.pivots[At(last)] = row]
              ELSE c
  IN IF row < FirstHeavyRow(c) THEN c
     ELSE [c1 EXCEPT !.heavy = (row - FirstHeavyRow(c)) :> AsBytes(c, row) @@ @]

InsertHeavyRows(c) ==
  [ForEach(SinkExtraRow, [c EXCEPT !.fhp = c.count], Downto(c.count - 1, 0))
     EXCEPT !.pivots = SubSeq(@, 1, c.count)
                       \o [h \in 1..kHeavyRows |-> FirstHeavyRow(c) + c.extra + h - 1],
            !.count = @ + kHeavyRows]

SetupTriangle(c) ==
  LET heavy(d) == IF c.fhc <= 0 THEN InsertHeavyRows(d) ELSE d
  IN heavy([c EXCEPT !.pivots = Upto(0, FirstHeavyRow(c) - 1) \o <<>>,
                     !.next = 0, !.count = FirstHeavyRow(c)])

Swap(c, i, j) == [c EXCEPT !.pivots[At(i)] = Pivot(c, j), !.pivots[At(j)] = Pivot(c, i)]

(* The part of a row right of the pivot; the pivot's own bit is kept. *)
RightOf(row, i) == {x \in row : x > i}

(* Row pivots[j] is added to the light rows of a range of pivots. *)
EliminateLight(c, i, row, from, to) ==
  ForEach(LAMBDA d, k : IF i \in d.ge[Pivot(d, k)]
                        THEN [d EXCEPT !.ge[Pivot(d, k)] = Xor(@, RightOf(d.ge[row], i))]
                        ELSE d,
          c, Upto(from, to))

LightCandidates(c, i, to) == {j \in i..to : i \in c.ge[Pivot(c, j)]}

(* Light columns: one column, then the rest; the outcome is in ok. *)
LightPivot(s, i) ==
  LET found == LightCandidates(s.c, i, s.c.count - 1)
      j     == MinOf(found)
      row   == Pivot(s.c, j)
  IN CASE ~s.ok -> s
       [] s.ok /\ found = {} -> [ok |-> FALSE, c |-> [s.c EXCEPT !.next = i]]
       [] OTHER -> [s EXCEPT !.c = EliminateLight(Swap(@, i, j), i, row, j + 1, s.c.count - 1)]

LightDone(s) ==
  IF s.ok THEN [s EXCEPT !.c = InsertHeavyRows([@ EXCEPT !.next = s.c.fhc])] ELSE s
TriangleNonHeavy(c) ==
  LightDone(ForEach(LightPivot, [ok |-> TRUE, c |-> c], Upto(c.next, c.fhc - 1)))

(* A light pivot row against a heavy row: its code value times the bits. *)
AddBitsTimes(c, bytes, row, i, code) ==
  [k \in 1..c.heavyCols |->
     IF c.fhc + k - 1 \in RightOf(c.ge[row], i) THEN gf256_add(bytes[k], code) ELSE bytes[k]]
  \o <<>>

EliminateHeavyByLight(c, i, row, k) ==
  LET h    == Pivot(c, k) - FirstHeavyRow(c)
      code == c.heavy[h][HeavyCol(c, i)]
  IN IF code = 0 THEN c ELSE [c EXCEPT !.heavy[h] = AddBitsTimes(c, @, row, i, code)]

(* rem += x * pivot in the columns right of i; x stays in column i. *)
MulAddRight(c, rem, i, x, pivot) ==
  [k \in 1..c.heavyCols |->
     CASE k < HeavyCol(c, i) -> rem[k]
       [] k = HeavyCol(c, i) -> x
       [] OTHER -> gf256_add(rem[k], gf256_mul(pivot[k], x))] \o <<>>

EliminateHeavyByHeavy(c, i, pivot, k) ==
  LET h   == Pivot(c, k) - FirstHeavyRow(c)
      rem == c.heavy[h][HeavyCol(c, i)]
  IN IF rem = 0 THEN c
     ELSE [c EXCEPT !.heavy[h] =
             MulAddRight(c, @, i, gf256_div(rem, pivot[HeavyCol(c, i)]), pivot)]

(* A light pivot for a heavy column. *)
TakeLight(c, i, j) ==
  LET row == Pivot(c, j)
  IN ForEach(LAMBDA d, k : EliminateHeavyByLight(d, i, row, k),
             EliminateLight(Swap(c, i, j), i, row, j + 1, c.fhp - 1),
             Upto(c.fhp, c.count - 1))

(* A heavy pivot: the light row it displaces joins the light rows again. *)
TakeHeavy(c, i, j) ==
  LET pivot == HeavyOf(c, Pivot(c, j))
      c1 == Swap(c, i, j)
      c2 == IF i < c.fhp THEN [Swap(c1, c.fhp, j) EXCEPT !.fhp = @ + 1] ELSE c1
  IN ForEach(LAMBDA d, k : EliminateHeavyByHeavy(d, i, pivot, k), c2, Upto(j + 1, c.count - 1))

HeavyPivot(s, i) ==
  LET c     == s.c
      light == LightCandidates(c, i, c.fhp - 1)
      heavy == {j \in (IF i > c.fhp THEN i ELSE c.fhp)..(c.count - 1) :
                  HeavyOf(c, Pivot(c, j))[HeavyCol(c, i)] # 0}
  IN CASE ~s.ok -> s
       [] s.ok /\ light # {} -> [s EXCEPT !.c = TakeLight(c, i, MinOf(light))]
       [] s.ok /\ light = {} /\ heavy # {} -> [s EXCEPT !.c = TakeHeavy(c, i, MinOf(heavy))]
       [] OTHER -> [ok |-> FALSE, c |-> [c EXCEPT !.next = i]]

(* [ok, c].  A failure keeps _next_pivot and _first_heavy_pivot for the      *)
(* resumption; a success leaves the members as they were.                    *)
TriangleHeavy(s) ==
  LET done(t) == IF t.ok THEN [t EXCEPT !.c.fhp = s.c.fhp] ELSE t
  IN done(ForEach(HeavyPivot, s, Upto(s.c.next, ColumnCount(s.c) - 1)))
Triangle(c) ==
  TriangleHeavy(IF c.next < c.fhc THEN TriangleNonHeavy(c) ELSE [ok |-> TRUE, c |-> c])

(* SolveMatrix: [result, c] *)
Verdict(s) == [result |-> IF s.ok THEN "Success" ELSE "NeedMore", c |-> s.c]
CompressedMatrix(c) ==
  CopyDeferredRows(PeelDiagonal(SetMixingColumnsForDeferredRows(SetDeferredColumns(
    AllocateMatrix(GreedyPeeling(c))))))
SolveMatrix(c) ==
  Verdict(Triangle(SetupTriangle(AddInvertibleGF2Matrix(SetHeavyRows(MultiplyDenseRows(
    CompressedMatrix(c)))))))

-----------------------------------------------------------------------------
(* ResumeSolveMatrix *)

(* Pivots not used yet that hold an extra row; index 0 counts as none. *)
SpareExtraPivots(c) ==
  {j \in c.next..(c.count - 1) :
     Pivot(c, j) \in FirstHeavyRow(c)..(FirstHeavyRow(c) + c.extra - 1)}
SpareExtraPivot(c) == IF SpareExtraPivots(c) = {} THEN 0 ELSE MinOf(SpareExtraPivots(c))

RowCount(c) == Len(c.ids)

AppendRowBelow(c) ==
  LET row == FirstHeavyRow(c) + RowCount(c) - c.N + 1
  IN [at |-> c.count, row |-> row, slot |-> RowCount(c),
      c |-> [c EXCEPT !.count  = @ + 1,
                      !.ids    = Append(@, 0),
                      !.input  = Append(@, <<>>),
                      !.rowMap = row :> RowCount(c) @@ @,
                      !.pivots = SubSeq(@, 1, c.count) \o <<row>>]]

(* The new block takes the next row and a pivot at the end of the list, or, *)
(* when all extra rows are taken, the place of one that is not a pivot yet. *)
AppendExtraRow(c) ==
  LET row == FirstHeavyRow(c) + RowCount(c) - c.N
  IN [at |-> c.count, row |-> row, slot |-> RowCount(c),
      c |-> [c EXCEPT !.count  = @ + 1,
                      !.ids    = Append(@, 0),
                      !.input  = Append(@, <<>>),
                      !.rowMap = row :> RowCount(c) @@ @,
                      !.pivots = SubSeq(@, 1, c.count) \o <<row>>]]
ReuseExtraRow(c) ==
  LET row == Pivot(c, SpareExtraPivot(c))
  IN [at |-> SpareExtraPivot(c), row |-> row, slot |-> c.rowMap[row], c |-> c]

(* The stored copy of a received block; the final one is short. *)
Received(c, id, data) ==
  Padded(data, c.bytes, IF id = c.N - 1 THEN c.outFinal ELSE c.bytes)

NewRowUnreduced(c, id) ==
  LET cols == RowColumns[c.N][id]
  IN ForEach(LAMBDA t, col : Xor(t, ColumnRow(c, col)), Flip({}, MixBits(c, id)), cols.peel)

(* The row in terms of the dense columns, reduced by the light pivots. *)
NewRowBits(c, id) ==
  LET cols == RowColumns[c.N][id]
      bits == ForEach(LAMBDA t, col : Xor(t, ColumnRow(c, col)),
                      Flip({}, MixBits(c, id)), cols.peel)
      light == IF c.next < c.fhc THEN c.next ELSE c.fhc
  IN ForEach(LAMBDA t, j : IF j \in t THEN Xor(t, RightOf(c.ge[Pivot(c, j)], j)) ELSE t,
             bits, Upto(0, light - 1))

(* The heavy form of the row, reduced by the pivots of the heavy columns. *)
ReduceHeavy(c, bytes, j) ==
  LET code  == bytes[HeavyCol(c, j)]
      row   == Pivot(c, j)
      pivot == HeavyOf(c, row)
      pivotCode == pivot[HeavyCol(c, j)]
      x == IF pivotCode = 1 THEN code ELSE gf256_div(code, pivotCode)
  IN CASE code = 0 -> bytes
       [] code # 0 /\ row >= FirstHeavyRow(c) -> MulAddRight(c, bytes, j, x, pivot)
       [] OTHER -> AddBitsTimes(c, bytes, row, j, code)

(* The new row becomes pivot next, from position at of the pivot list. *)
PlaceLightEarly(c, new) ==
  LET last == IF c.next = 0 THEN 0 ELSE c.next - 1
  IN [c EXCEPT !.pivots[At(new.at)] = Pivot(c, last), !.pivots[At(last)] = new.row]

PlaceLight(c, new) ==
  [c EXCEPT !.pivots[At(new.at)] = Pivot(c, c.next), !.pivots[At(c.next)] = new.row]
PlaceHeavy(c, new) ==
  LET c1 == [c EXCEPT !.pivots[At(new.at)] = Pivot(c, IF c.next < c.fhp THEN c.fhp ELSE c.next)]
      c2 == IF c.next < c.fhp
            THEN [c1 EXCEPT !.pivots[At(c.fhp)] = Pivot(c1, c.next), !.fhp = @ + 1]
            ELSE c1
  IN [c2 EXCEPT !.pivots[At(c.next)] = new.row]

(* [ok, c]: does the new row have the column the elimination stopped at? *)
OfferLight(c, new) ==
  IF c.next \in c.ge[new.row] THEN [ok |-> TRUE, c |-> PlaceLight(c, new)]
  ELSE [ok |-> FALSE, c |-> c]
OfferHeavy(c, new) ==
  IF HeavyOf(c, new.row)[HeavyCol(c, c.next)] # 0 THEN [ok |-> TRUE, c |-> PlaceHeavy(c, new)]
  ELSE [ok |-> FALSE, c |-> c]

WithHeavyForm(c, row) ==
  [c EXCEPT !.heavy = (row - FirstHeavyRow(c))
      :> ForEach(LAMBDA b, j : ReduceHeavy(c, b, j), AsBytes(c, row), Upto(c.fhc, c.next - 1))
      @@ @]
Offer(c, new) ==
  IF c.next < c.fhc THEN OfferLight(c, new) ELSE OfferHeavy(WithHeavyForm(c, new.row), new)

(* One more pivot: the elimination goes on from there. *)
OnePivotMore(c) == IF c.next + 1 = c.fhc THEN InsertHeavyRows([c EXCEPT !.next = @ + 1])
                   ELSE [c EXCEPT !.next = @ + 1]
Continue(s) == Verdict(IF s.ok THEN Triangle(OnePivotMore(s.c)) ELSE s)

ResumeWith(new, id, data) ==
  Continue(Offer([new.c EXCEPT !.ids[At(new.slot)] = id,
                               !.input[At(new.slot)] = Received(new.c, id, data),
                               !.ge[new.row] = NewRowBits(new.c, id)], new))

ResumeSolveMatrix(c, id, data) ==
  IF RowCount(c) >= c.N + c.extra /\ SpareExtraPivot(c) = 0
  THEN [result |-> "ExtraInsufficient", c |-> c]
  ELSE ResumeWith(IF RowCount(c) < c.N + c.extra THEN AppendExtraRow(c) ELSE ReuseExtraRow(c),
                  id, data)
=============================================================================
