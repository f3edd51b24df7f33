------------------------------ MODULE PeelMatrix ------------------------------
(***************************************************************************)
(* Stage 1 of the Wirehair solver, Codec::OpportunisticPeeling to          *)
(* Codec::GreedyPeeling: rows of a sparse binary matrix arrive one at a    *)
(* time, a row with one unmarked column solves it, and every solved column *)
(* sets off an avalanche through the rows that refer to it.                *)
(*                                                                         *)
(* The recursion PeelAvalancheOnSolve <-> SolveWithPeel is a stack of      *)
(* frames, one AvalancheStep for each turn of the inner loop, so that the  *)
(* states between two steps of the recursion can be seen.  The operators   *)
(* take and return the peeling state as a record.                          *)
(***************************************************************************)
EXTENDS Integers, Sequences, FiniteSets

CONSTANT RefListMax   \* CAT_REF_LIST_MAX: rows a column can list

ASSUME RefListMaxAssumption == RefListMax \in Nat \ {0}

NoRow == 65535   \* LIST_TERM

(* Codec::_peel_rows, _peel_cols, _peel_col_refs and the list heads.         *)
(*   rows      columns of each stored row, in the order of its iterator      *)
(*   unmarked  PeelRow::UnmarkedCount                                        *)
(*   marks     the union PeelRow::Marks: Unmarked[2] until the row is solved,*)
(*             then PeelColumn in the place of Unmarked[0]                   *)
(*   mark, w2, solver   PeelColumn::Mark, Weight2Refs and PeelRow            *)
(*   refs      PeelRefs: the rows that contain the column                    *)
(*   list      _peel_head_rows .. _peel_tail_rows, solution order            *)
(*   deferRows, deferCols   _defer_head_rows, _defer_head_columns, head first*)
(*   walk      the active calls of PeelAvalancheOnSolve, innermost first     *)
NewPeel(n) ==
  [rows     |-> <<>>,
   unmarked |-> <<>>,
   marks    |-> <<>>,
   mark     |-> [c \in 0..(n-1) |-> "TODO"],
   w2       |-> [c \in 0..(n-1) |-> 0],
   solver   |-> [c \in 0..(n-1) |-> NoRow],
   refs     |-> [c \in 0..(n-1) |-> <<>>],
   list     |-> <<>>,
   deferRows |-> <<>>,
   deferCols |-> <<>>,
   walk     |-> <<>>]

(* Row r as an index into the sequences above. *)
At(r) == r + 1

IsTodo(p, c) == p.mark[c] = "TODO"

(* The call PeelAvalancheOnSolve(c); by is the row whose SolveWithPeel made it. *)
Frame(p, c, by) == [col |-> c, rest |-> p.refs[c], by |-> by]

SolveAtHead(p, r, c) ==
  [p EXCEPT !.mark[c] = "PEEL",
            !.marks[At(r)] = <<c, @[2] - (@[2] % 256)>>,
            !.list = <<r>> \o @,
            !.walk = <<Frame(p, c, r)>> \o @]

(* SolveWithPeel up to its recursive call; the frame remembers what is left. *)
SolveWithPeel(p, r, c) ==
  [p EXCEPT !.mark[c] = "PEEL",
            !.marks[At(r)] = <<c, @[2] - (@[2] % 256)>>,   \* IsCopied is a byte of Unmarked[1]
            !.list = Append(@, r),
            !.walk = <<Frame(p, c, r)>> \o @]

(* Link at head of defer list *)
DeferRow(p, r) == [p EXCEPT !.deferRows = <<r>> \o @]

(* The unmarked columns of a row, and the first and the last of them in the    *)
(* order of the row's iterator, which names no column twice.                   *)
TodoColumns(p, cols) == {c \in {cols[i] : i \in 1..Len(cols)} : IsTodo(p, c)}

FirstTodo(p, cols) ==
  cols[CHOOSE i \in 1..Len(cols) :
         IsTodo(p, cols[i]) /\ \A j \in 1..(i-1) : ~IsTodo(p, cols[j])]

LastTodo(p, cols) ==
  cols[CHOOSE i \in 1..Len(cols) :
         IsTodo(p, cols[i]) /\ \A j \in (i+1)..Len(cols) : ~IsTodo(p, cols[j])]

(* Both unmarked columns of a row that has two. *)
LastPair(p, cols) == <<FirstTodo(p, cols), LastTodo(p, cols)>>

(* Weight2Refs of each column left unmarked goes up by one. *)
CountWeight2(p, cols) ==
  [c \in DOMAIN p.w2 |-> IF c \in TodoColumns(p, cols) THEN p.w2[c] + 1 ELSE p.w2[c]]

(* unmarked_count = 1: the remembered column that is not the one just solved. *)
SolveLast(p, r, c) ==
  LET marks == p.marks[At(r)]
      other == IF marks[1] = c THEN marks[2] ELSE marks[1]
  IN IF IsTodo(p, other) THEN SolveWithPeel(p, r, other) ELSE DeferRow(p, r)

(* Mutant: a row left with no unmarked column is not deferred. *)
StoreAndForget(p, r) ==
  LET cols == p.rows[At(r)]
      left == Cardinality(TodoColumns(p, cols))
      zero == [p EXCEPT !.unmarked[At(r)] = 0]
  IN CASE left = 0 -> zero
       [] left = 1 -> SolveWithPeel(zero, r, FirstTodo(p, cols))
       [] OTHER    -> [p EXCEPT !.marks[At(r)] = LastPair(p, cols)]

(* Mutant: a row solved or deferred early keeps its count. *)
StoreKeepingCount(p, r) ==
  LET cols == p.rows[At(r)]
      left == Cardinality(TodoColumns(p, cols))
  IN CASE left = 0 -> DeferRow(p, r)
       [] left = 1 -> SolveWithPeel(p, r, FirstTodo(p, cols))
       [] OTHER    -> [p EXCEPT !.marks[At(r)] = LastPair(p, cols)]

(* unmarked_count = 2: the unmarked columns are stored in the row, each counts *)
(* one more weight-2 row; when columns were marked deeper in the recursion     *)
(* fewer than two are left and the row is solved or deferred at once.          *)
StoreLastTwo(p, r) ==
  LET cols == p.rows[At(r)]
      left == Cardinality(TodoColumns(p, cols))
      p1   == [p EXCEPT !.w2 = CountWeight2(p, cols)]
      zero == [p1 EXCEPT !.unmarked[At(r)] = 0]
  IN CASE left = 0 -> DeferRow(zero, r)
       [] left = 1 -> SolveWithPeel(zero, r, FirstTodo(p, cols))
       [] OTHER    -> [p1 EXCEPT !.marks[At(r)] = LastPair(p, cols)]

StepWithoutReturn(p) ==
  LET f == Head(p.walk)
      r == Head(f.rest)
      u == (p.unmarked[At(r)] - 1) % 65536
      q == [p EXCEPT !.walk[1].rest = Tail(@), !.unmarked[At(r)] = u]
  IN IF f.rest = <<>> THEN IF f.by = NoRow THEN p ELSE [p EXCEPT !.walk = Tail(@), !.solver[f.col] = f.by]
     ELSE CASE u = 1 -> SolveLast(q, r, f.col) [] u = 2 -> StoreLastTwo(q, r) [] OTHER -> q

(* One turn of the loop of the innermost PeelAvalancheOnSolve, or its return: *)
(* SolveWithPeel then records the row that solves the column.                 *)
AvalancheStep(p) ==
  LET f == Head(p.walk)
      r == Head(f.rest)
      u == (p.unmarked[At(r)] - 1) % 65536
      q == [p EXCEPT !.walk[1].rest = Tail(@), !.unmarked[At(r)] = u]
  IN IF f.rest = <<>>
     THEN [p EXCEPT !.walk = Tail(@),
                    !.solver[f.col] = IF f.by = NoRow THEN @ ELSE f.by]
     ELSE CASE u = 1 -> SolveLast(q, r, f.col)
            [] u = 2 -> StoreLastTwo(q, r)
            [] OTHER -> q

(* The first loop of OpportunisticPeeling: the row is listed by its columns. *)
AddReferences(p, r, cols) ==
  [p EXCEPT !.refs = [c \in DOMAIN @ |->
      IF \E i \in 1..Len(cols) : cols[i] = c THEN Append(@[c], r) ELSE @[c]]]

FixAllButOne(p, cols, fail) ==
  LET k == CHOOSE i \in 1..Len(cols) : cols[i] = fail
  IN [p EXCEPT !.refs = [c \in DOMAIN @ |->
         IF \E i \in 1..(k-2) : cols[i] = c THEN SubSeq(@[c], 1, Len(@[c]) - 1) ELSE @[c]]]

(* The columns before the one that was full drop their last entry again. *)
FixPeelFailure(p, cols, fail) ==
  LET k == CHOOSE i \in 1..Len(cols) : cols[i] = fail /\ \A j \in 1..(i-1) : cols[j] # fail
  IN [p EXCEPT !.refs = [c \in DOMAIN @ |->
         IF \E i \in 1..(k-1) : cols[i] = c THEN SubSeq(@[c], 1, Len(@[c]) - 1) ELSE @[c]]]

FullColumnsLate(p, cols) == {i \in 1..Len(cols) : Len(p.refs[cols[i]]) > RefListMax}

(* The columns of the row that have no room for one more reference. *)
FullColumns(p, cols) == {i \in 1..Len(cols) : Len(p.refs[cols[i]]) >= RefListMax}

(* The row enters slot Len(p.rows) with its count of unmarked columns. *)
StoreRow(p, cols) ==
  LET r    == Len(p.rows)
      left == Cardinality(TodoColumns(p, cols))
      p1 == [AddReferences(p, r, cols) EXCEPT
               !.rows = Append(@, cols),
               !.unmarked = Append(@, left),
               !.marks = Append(@, IF left = 2 THEN LastPair(p, cols) ELSE <<0, 0>>)]
  IN CASE left = 0 -> DeferRow(p1, r)
       [] left = 1 -> SolveWithPeel(p1, r, FirstTodo(p, cols))
       [] left = 2 -> [p1 EXCEPT !.w2 = CountWeight2(p, cols)]
       [] OTHER    -> p1

(* OpportunisticPeeling: [ok |-> its result, peel |-> the state it leaves]. *)
OpportunisticPeeling(p, cols) ==
  LET full == FullColumns(p, cols)
      k    == CHOOSE i \in full : \A j \in full : i <= j
  IN IF full = {} THEN [ok |-> TRUE, peel |-> StoreRow(p, cols)]
     ELSE [ok |-> FALSE,
           peel |-> FixPeelFailure(AddReferences(p, Len(p.rows), SubSeq(cols, 1, k - 1)),
                                   cols, cols[k])]

(* GreedyPeeling's choice: most weight-2 rows, then most rows, then the last. *)
BestColumn(p) ==
  LET todo == {c \in DOMAIN p.mark : IsTodo(p, c)}
      beats(c, d) == \/ p.w2[c] > p.w2[d]
                     \/ p.w2[c] = p.w2[d] /\ Len(p.refs[c]) > Len(p.refs[d])
                     \/ p.w2[c] = p.w2[d] /\ Len(p.refs[c]) = Len(p.refs[d]) /\ c >= d
  IN CHOOSE c \in todo : \A d \in todo : beats(c, d)

SomeTodo(p) == \E c \in DOMAIN p.mark : IsTodo(p, c)

DeferUnmarked(p) ==
  LET c == BestColumn(p)
  IN [p EXCEPT !.deferCols = <<c>> \o @, !.walk = <<Frame(p, c, NoRow)>> \o @]

(* One turn of GreedyPeeling: the best column waits for Gaussian elimination. *)
GreedyDefer(p) ==
  LET c == BestColumn(p)
  IN [p EXCEPT !.mark[c] = "DEFER",
               !.deferCols = <<c>> \o @,
               !.walk = <<Frame(p, c, NoRow)>> \o @]
=============================================================================
