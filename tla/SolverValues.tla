---------------------------- MODULE SolverValues ----------------------------
(***************************************************************************)
(* Stage 4 of the Wirehair solver, GenerateRecoveryBlocks: the operations  *)
(* of the elimination are repeated on the block values.  Peeled columns    *)
(* hold partial sums, then serve as scratch space for the window tables,   *)
(* and receive their value last, in Substitute.                            *)
(*                                                                         *)
(* A binary coefficient is the code value 1: adding 1 times a block is     *)
(* gf256_add_mem.                                                          *)
(***************************************************************************)
EXTENDS SolverMatrix

CONSTANTS
  UnderThresh,   \* CAT_UNDER_WIN_THRESH_4 .. 7
  AboveThresh    \* CAT_ABOVE_WIN_THRESH_4 .. 7

(* "Assumes this is higher than CAT_HEAVY_MAX_COLS": a window below the     *)
(* diagonal ends before the heavy columns begin.                            *)
ASSUME WindowAssumption ==
  \A w \in 4..7 : UnderThresh[w] >= kHeavyCols + w /\ AboveThresh[w] >= w

IsPeeled(c, col) == c.peel.mark[col] = "PEEL"
Block(c, col)    == c.recovery[col]
Bit01(b)         == IF b THEN 1 ELSE 0

(* start plus code times the block of column col, for each term <<col, code>> *)
Combine(c, start, terms) ==
  ForEach(LAMBDA b, t : gf256_muladd_mem(b, t[2], Block(c, t[1])), start,
          SelectSeq(terms, LAMBDA t : t[2] # 0))
Terms(term(_), seq) == [k \in 1..Len(seq) |-> term(seq[k])]
Plain(cols) == Terms(LAMBDA col : <<col, 1>>, cols)

-----------------------------------------------------------------------------
(* The value each pivot column starts from *)

(* Dense and heavy rows sum to zero; a deferred or extra row is its block   *)
(* plus the peeled columns in it.                                           *)
PivotValue(c, i) ==
  LET row  == Pivot(c, i)
      dest == c.colMap[At(i)]
      slot == c.rowMap[row]
      zero == row < c.D \/ row >= FirstHeavyRow(c) + c.extra
      peeled == SelectSeq(RowColumns[c.N][c.ids[At(slot)]].peel, LAMBDA col : IsPeeled(c, col))
  IN IF zero THEN [c EXCEPT !.recovery[dest] = Zeros(c.bytes) \o <<>>,
                            !.rowMap = row :> dest @@ @]
     ELSE [c EXCEPT !.recovery[dest] = Combine(c, InputBlock(c, slot), Plain(peeled))]

(* A row that is no pivot gets no value. *)
DropRow(c, i) ==
  LET row == Pivot(c, i)
  IN IF row < c.D \/ row \in FirstHeavyRow(c)..(ColumnCount(c) - 1)
     THEN [c EXCEPT !.rowMap = row :> NoRow @@ @] ELSE c

InitializeColumnValues(c) ==
  ForEach(DropRow, ForEach(PivotValue, c, Upto(0, ColumnCount(c) - 1)),
          Upto(ColumnCount(c), c.count - 1))

(* The dense steps once more, on the values of the peeled columns. *)
DenseValueStep(c, step) ==
  LET work == c.N + c.mix
      temp == Combine(c, IF step.fresh THEN Zeros(c.bytes) ELSE Block(c, work),
                      Plain(SelectSeq(step.cols, LAMBDA col : IsPeeled(c, col))))
      dest == c.rowMap[step.row]
      c1   == [c EXCEPT !.recovery[work] = temp]
  IN IF dest = NoRow THEN c1
     ELSE [c1 EXCEPT !.recovery[dest] = gf256_add_mem(@, temp)]

MultiplyDenseValues(c) == ForEach(DenseValueStep, c, DenseSteps[c.N])

-----------------------------------------------------------------------------
(* Window tables *)

PeeledColumns(c) == SelectSeq(Upto(0, c.N - 1), LAMBDA col : IsPeeled(c, col))

(* if (jj >= win_lim): the peeled columns hold a table for w columns. *)
RoomForTable(c, w) == Len(PeeledColumns(c)) >= 2^w - 1

TopBit(k) == Log2Floor(k)

(* win_table[k]: entries 1, 2, 4... are the pivot columns themselves. *)
TableSlot(c, base, k) ==
  IF k = 2^TopBit(k) THEN c.colMap[At(base + TopBit(k))] ELSE PeeledColumns(c)[k]

FillTable(c, base, w) ==
  ForEach(LAMBDA d, k :
            LET top == 2^TopBit(k)
            IN IF k = top THEN d
               ELSE [d EXCEPT !.recovery[TableSlot(d, base, k)] =
                       gf256_add_mem(Block(d, TableSlot(d, base, k - top)),
                                     Block(d, TableSlot(d, base, top)))],
          c, Upto(1, 2^w - 1))

WindowBitsButLast(c, row, base, w) ==
  ForEach(LAMBDA s, k : s + IF base + k \in c.ge[row] THEN 2^k ELSE 0, 0, Upto(0, w - 2))

(* The bits of a row in the window, as an index into the table. *)
WindowBits(c, row, base, w) ==
  ForEach(LAMBDA s, k : s + IF base + k \in c.ge[row] THEN 2^k ELSE 0, 0, Upto(0, w - 1))

AddFromTable(c, i, base, w) ==
  LET bits == WindowBits(c, Pivot(c, i), base, w)
  IN IF bits = 0 THEN c
     ELSE [c EXCEPT !.recovery[c.colMap[At(i)]] =
                       gf256_add_mem(@, Block(c, TableSlot(c, base, bits)))]

(* Pivot column src times its code value is added to pivot column dest. *)
AddPivot(c, dest, src, code) ==
  IF code = 0 THEN c
  ELSE [c EXCEPT !.recovery[c.colMap[At(dest)]] =
                   gf256_muladd_mem(@, code, Block(c, c.colMap[At(src)]))]

(* The narrower window for what is left, or the end of the windows. *)
Narrower(s, thresh, left, check) ==
  LET fits == {w \in 4..6 : left >= thresh[w]}
      w    == CHOOSE x \in fits : \A y \in fits : x >= y
  IN IF fits = {} THEN [s EXCEPT !.done = TRUE] ELSE [s EXCEPT !.w = w, !.check = check[w]]

FirstWidth(thresh, left) ==
  LET fits == {w \in 5..7 : left >= thresh[w]} IN CHOOSE x \in fits : \A y \in fits : x >= y

-----------------------------------------------------------------------------
(* AddSubdiagonalValues: down the matrix, below the diagonal *)

InsideDown(c, src, last) ==
  ForEach(LAMBDA d, dest : AddPivot(d, dest, src, Bit01(src \in d.ge[Pivot(d, dest)])),
          c, Upto(src + 1, last))

BinaryBelow(c, last) ==
  SelectSeq(Upto(last + 1, ColumnCount(c) - 1),
            LAMBDA k : Pivot(c, k) < FirstHeavyRow(c) + c.extra)

NextDown(s) ==
  LET left == ColumnCount(s.c) - s.i
  IN IF s.i >= s.check
     THEN Narrower(s, UnderThresh, left, [x \in 4..6 |-> left - UnderThresh[x]]) ELSE s

(* One window: its columns against each other, the table, the rows below. *)
OneWindowDown(c, i, last) ==
  ForEach(LAMBDA d, k : AddFromTable(d, k, i, last - i + 1),
          FillTable(ForEach(LAMBDA d, src : InsideDown(d, src, last), c, Upto(i, last - 1)),
                    i, last - i + 1),
          BinaryBelow(c, last))

WindowDown(s) ==
  NextDown([s EXCEPT !.c = OneWindowDown(@, s.i, s.i + s.w - 1), !.i = @ + s.w])

RECURSIVE WindowsDown(_)
WindowsDown(s) == IF s.done THEN s ELSE WindowsDown(WindowDown(s))

(* One row at a time, from the first column no window covered. *)
SubdiagonalRow(c, i, from) ==
  LET row   == Pivot(c, i)
      heavy == row >= FirstHeavyRow(c)
      bits(j)  == <<c.colMap[At(j)], Bit01(j \in c.ge[row])>>
      codes(j) == <<c.colMap[At(j)], HeavyOf(c, row)[HeavyCol(c, j)]>>
      limit == IF heavy /\ i > c.fhc THEN c.fhc ELSE i
      codeTerms == IF heavy THEN Terms(codes, Upto(c.fhc, i - 1)) ELSE <<>>
      bitTerms  == IF row >= FirstHeavyRow(c) + c.extra THEN <<>>
                   ELSE Terms(bits, Upto(from, limit - 1))
  IN [c EXCEPT !.recovery[c.colMap[At(i)]] = Combine(c, @, codeTerms \o bitTerms)]

StartDown(c, w) == [c |-> c, i |-> 0, w |-> w, check |-> ColumnCount(c) - UnderThresh[w],
                    done |-> ~RoomForTable(c, w)]
RowsDown(s) ==
  ForEach(LAMBDA d, i : SubdiagonalRow(d, i, s.i), s.c, Upto(s.i + 1, ColumnCount(s.c) - 1))

AddSubdiagonalValues(c) ==
  RowsDown(IF ColumnCount(c) < UnderThresh[5] THEN [c |-> c, i |-> 0]
           ELSE WindowsDown(StartDown(c, FirstWidth(UnderThresh, ColumnCount(c)))))

-----------------------------------------------------------------------------
(* BackSubstituteAboveDiagonal: up the matrix, above the diagonal *)

MultiplyByDiagonal(c, i) ==
  LET row  == Pivot(c, i)
      code == HeavyOf(c, row)[HeavyCol(c, i)]
  IN IF row >= FirstHeavyRow(c) /\ i >= c.fhc /\ code # 1
     THEN [c EXCEPT !.recovery[c.colMap[At(i)]] = gf256_mul_mem(@, code)] ELSE c

(* Divide the value of a heavy pivot by its diagonal. *)
Normalize(c, i) ==
  LET row  == Pivot(c, i)
      code == HeavyOf(c, row)[HeavyCol(c, i)]
  IN IF row >= FirstHeavyRow(c) /\ i >= c.fhc /\ code # 1
     THEN [c EXCEPT !.recovery[c.colMap[At(i)]] = gf256_div_mem(@, code)] ELSE c

(* Inside a window a row is read as heavy when the source column is. *)
WindowCode(c, dest, src) ==
  LET row == Pivot(c, dest)
  IN IF row >= FirstHeavyRow(c) /\ src >= c.fhc
     THEN HeavyOf(c, row)[HeavyCol(c, src)] ELSE Bit01(src \in c.ge[row])

(* Without windows it is read as heavy when its own pivot column is. *)
RowCode(c, dest, src) ==
  LET row == Pivot(c, dest)
  IN IF row >= FirstHeavyRow(c) /\ dest >= c.fhc
     THEN HeavyOf(c, row)[HeavyCol(c, src)] ELSE Bit01(src \in c.ge[row])

(* A heavy row above the window takes the window's columns one by one. *)
HeavyAbove(c, k, base, last) ==
  IF Pivot(c, k) < FirstHeavyRow(c) THEN c
  ELSE ForEach(LAMBDA d, j : AddPivot(d, k, j, WindowCode(d, k, j)), c, Upto(base, last))

InsideUp(c, src, base) ==
  ForEach(LAMBDA d, dest : AddPivot(d, dest, src, WindowCode(d, dest, src)),
          Normalize(c, src), Upto(base, src - 1))

HeavyRowsAbove(c, i, base) ==
  IF i < c.fhc THEN c
  ELSE ForEach(LAMBDA d, k : HeavyAbove(d, k, base, i), c, Upto(0, base - 1))

BinaryAbove(c, i, base) ==
  SelectSeq(Upto(0, base - 1), LAMBDA k : i < c.fhc \/ Pivot(c, k) < FirstHeavyRow(c))

NextUp(s) == IF s.i < s.check THEN Narrower(s, AboveThresh, s.i, AboveThresh) ELSE s

(* One window: its columns against each other, the table, the rows above. *)
OneWindowUp(c, i, base) ==
  ForEach(LAMBDA d, k : AddFromTable(d, k, base, i - base + 1),
          HeavyRowsAbove(FillTable(Normalize(ForEach(LAMBDA d, src : InsideUp(d, src, base),
                                                     c, Downto(i, base + 1)), base),
                                   base, i - base + 1),
                         i, base),
          BinaryAbove(c, i, base))

WindowUp(s) ==
  NextUp([s EXCEPT !.c = OneWindowUp(@, s.i, s.i - s.w + 1), !.i = @ - s.w])

RECURSIVE WindowsUp(_)
WindowsUp(s) == IF s.done THEN s ELSE WindowsUp(WindowUp(s))

BackSubstituteColumn(c, i) ==
  ForEach(LAMBDA d, up : AddPivot(d, up, i, RowCode(d, up, i)), Normalize(c, i), Upto(0, i - 1))

StartUp(c, last, w) == [c |-> c, i |-> last, w |-> w, check |-> AboveThresh[w],
                        done |-> ~RoomForTable(c, w)]
ColumnsUp(s) == ForEach(BackSubstituteColumn, s.c, Downto(s.i, 0))

BackSubstituteAboveDiagonal(c) ==
  LET last == ColumnCount(c) - 1
  IN ColumnsUp(IF last < AboveThresh[5] THEN [c |-> c, i |-> last]
               ELSE WindowsUp(StartUp(c, last, FirstWidth(AboveThresh, last))))

-----------------------------------------------------------------------------
(* Substitute: the peeled columns, in the order they were solved *)

SubstituteRow(c, r) ==
  LET dest == PeelColumnOf(c, r)
      cols == RowColumns[c.N][c.ids[At(r)]]
      mix  == [k \in 1..kMixColumnCount |-> c.N + cols.mix[k]]
      rest == SelectSeq(cols.peel, LAMBDA col : col # dest)
  IN [c EXCEPT !.recovery[dest] = Combine(c, InputBlock(c, r), Plain(mix \o rest))]

Substitute(c) == ForEach(SubstituteRow, c, c.peel.list)

GenerateRecoveryBlocks(c) ==
  Substitute(BackSubstituteAboveDiagonal(AddSubdiagonalValues(
    MultiplyDenseValues(InitializeColumnValues(c)))))
=============================================================================
