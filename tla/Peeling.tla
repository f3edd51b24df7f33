------------------------------- MODULE Peeling -------------------------------
(***************************************************************************)
(* The peeling of PeelMatrix as a state machine on rows of any shape: rows *)
(* arrive, the recursion of each runs to its end, and after BlockCount of  *)
(* them the greedy loop defers what is left.                               *)
(***************************************************************************)
EXTENDS PeelMatrix

CONSTANTS
  BlockCount,   \* _block_count: rows to collect and columns to solve
  RowShapes     \* the column sequences a row may have, distinct columns each

Columns == 0..(BlockCount - 1)
Rows    == 0..(BlockCount - 1)

ASSUME BlockCountAssumption == BlockCount \in Nat /\ BlockCount >= 2 /\ BlockCount <= 64000
ASSUME RowShapesAssumption ==
  \A s \in RowShapes : /\ s \in Seq(Columns) /\ Len(s) >= 1
                       /\ \A i, j \in 1..Len(s) : s[i] = s[j] => i = j

-----------------------------------------------------------------------------
VARIABLES
  peel,    \* the record above
  phase    \* "feed" until BlockCount rows are stored, then "greedy"

vars == <<peel, phase>>

Idle == peel.walk = <<>>

Init == peel = NewPeel(BlockCount) /\ phase = "feed"

(* A row arrives between two runs of the recursion; a refused one is not stored. *)
Feed(cols) ==
  /\ phase = "feed" /\ Idle /\ Len(peel.rows) < BlockCount
  /\ peel' = OpportunisticPeeling(peel, cols).peel
  /\ UNCHANGED phase

Avalanche ==
  /\ ~Idle
  /\ peel' = AvalancheStep(peel)
  /\ UNCHANGED phase

StartGreedy ==
  /\ phase = "feed" /\ Idle /\ Len(peel.rows) = BlockCount
  /\ phase' = "greedy"
  /\ UNCHANGED peel

Greedy ==
  /\ phase = "greedy" /\ Idle /\ SomeTodo(peel)
  /\ peel' = GreedyDefer(peel)
  /\ UNCHANGED phase

Next == (\E cols \in RowShapes : Feed(cols)) \/ Avalanche \/ StartGreedy \/ Greedy

Spec == Init /\ [][Next]_vars

(* The recursion and the greedy loop run to their end; rows may stop coming. *)
FairSpec == Spec /\ WF_vars(Avalanche \/ Greedy)

-----------------------------------------------------------------------------
Stored == 0..(Len(peel.rows) - 1)
Count(s, x) == Cardinality({i \in 1..Len(s) : s[i] = x})
Complete == phase = "greedy" /\ Idle /\ ~SomeTodo(peel)

Word      == {x \in Nat : x < 65536}
MarkTypes == {"TODO", "PEEL", "DEFER"}
Frames    == [col : Columns, rest : Seq(Rows), by : Rows \cup {NoRow}]

PeelState ==
  [rows : Seq(Seq(Columns)), unmarked : Seq(Word), marks : Seq(Word \X Word),
   mark : [Columns -> MarkTypes], w2 : [Columns -> Nat],
   solver : [Columns -> Rows \cup {NoRow}], refs : [Columns -> Seq(Rows)],
   list : Seq(Rows), deferRows : Seq(Rows), deferCols : Seq(Columns),
   walk : Seq(Frames)]

(* The record keeps its shape: indices in range, 16-bit counters, and no more *)
(* rows in a column's list than its array holds.                              *)
TypeOK ==
  /\ peel \in PeelState
  /\ \A c \in Columns : Len(peel.refs[c]) <= RefListMax
  /\ phase \in {"feed", "greedy"}

(* A row is linked into the peeled list or the deferred list at most once,    *)
(* and into one of them only: the lists share PeelRow::NextRow.               *)
RowLinkedOnce ==
  \A r \in Stored : Count(peel.list, r) + Count(peel.deferRows, r) <= 1

(* When UnmarkedCount reaches 2 at most two columns of the row are unmarked:  *)
(* PeelAvalancheOnSolve stores them in an array of two.                       *)
UnmarkedFits ==
  ~Idle => LET f == Head(peel.walk)
           IN f.rest # <<>> =>
                LET r == Head(f.rest)
                IN peel.unmarked[At(r)] = 3 => Cardinality(TodoColumns(peel, peel.rows[At(r)])) <= 2

Elements(s) == {s[i] : i \in 1..Len(s)}
Distinct(s) == \A i, j \in 1..Len(s) : s[i] = s[j] => i = j

StoredRows(p)   == 0..(Len(p.rows) - 1)
ColumnsIn(p, r) == Elements(p.rows[At(r)])
Solves(p, r)    == p.marks[At(r)][1]   \* the column of a peeled row

(* A row solves a column only when every other column of it is already solved *)
(* by an earlier row of the list or deferred: forward substitution in list    *)
(* order (PeelDiagonal, Substitute) never reads an unsolved block.            *)
SolvedBefore(p, k) == {Solves(p, p.list[i]) : i \in 1..(k-1)}
Triangular(p) ==
  \A k \in 1..Len(p.list) :
     LET r == p.list[k]
     IN /\ Solves(p, r) \in ColumnsIn(p, r) \ SolvedBefore(p, k)
        /\ \A c \in ColumnsIn(p, r) \ {Solves(p, r)} :
              c \in SolvedBefore(p, k) \/ p.mark[c] = "DEFER"
PeelOrderTriangular == Triangular(peel)

(* After greedy peeling the elimination matrix is square: every row is peeled *)
(* or deferred, every column solved or deferred, as many rows as columns wait,*)
(* and each solved column names the row that solves it.                       *)
SquareRemainder ==
  Complete =>
    /\ \A r \in Rows : Count(peel.list, r) + Count(peel.deferRows, r) = 1
    /\ Len(peel.deferRows) = Len(peel.deferCols)
    /\ \A c \in Columns : peel.mark[c] = "PEEL" =>
          /\ peel.solver[c] \in Rows
          /\ peel.marks[At(peel.solver[c])][1] = c

(* A row that found a full reference list leaves no trace: FixPeelFailure     *)
(* takes back exactly the references that were added.                         *)
RefusedRowLeavesNoTrace ==
  [][(phase = "feed" /\ Idle /\ phase' = "feed" /\ peel'.rows = peel.rows) => peel' = peel]_vars

(* The recursion ends, and the greedy loop marks every column. *)
GreedyCompletes == (phase = "greedy") ~> Complete

-----------------------------------------------------------------------------
(* The invariant that makes these hold.  While the recursion runs, a row's    *)
(* count stands for its unmarked columns and for the marked ones whose walk   *)
(* has not reached the row yet.                                               *)
Marked(p, m)     == {c \in Columns : p.mark[c] = m}
Linked(p)        == Elements(p.list) \cup Elements(p.deferRows)
Walks(p, c, r)   == \E k \in 1..Len(p.walk) : p.walk[k].col = c /\ r \in Elements(p.walk[k].rest)
Uncounted(p, r)  == {c \in ColumnsIn(p, r) : IsTodo(p, c) \/ Walks(p, c, r)}

(* A column lists the stored rows that contain it, each once. *)
RefsMatch(p) ==
  /\ Len(p.rows) <= BlockCount /\ Len(p.unmarked) = Len(p.rows) /\ Len(p.marks) = Len(p.rows)
  /\ \A r \in StoredRows(p) : Distinct(p.rows[At(r)])
  /\ \A c \in Columns :
        /\ Distinct(p.refs[c]) /\ Len(p.refs[c]) <= RefListMax
        /\ Elements(p.refs[c]) = {r \in StoredRows(p) : c \in ColumnsIn(p, r)}

(* The calls under way are for different columns, each marked by its caller. *)
WalkMatches(p) ==
  \A k \in 1..Len(p.walk) :
     LET f == p.walk[k]
     IN /\ \A l \in 1..Len(p.walk) : p.walk[l].col = f.col => l = k
        /\ Distinct(f.rest) /\ Elements(f.rest) \subseteq Elements(p.refs[f.col])
        /\ IF f.by = NoRow THEN p.mark[f.col] = "DEFER"
           ELSE p.mark[f.col] = "PEEL" /\ f.by \in Elements(p.list) /\ Solves(p, f.by) = f.col

(* The count of a row that is neither solved nor deferred; with two columns   *)
(* left, the row remembers both.                                              *)
OpenCount(p, r) ==
  /\ p.unmarked[At(r)] = Cardinality(Uncounted(p, r)) /\ Cardinality(Uncounted(p, r)) >= 2
  /\ p.unmarked[At(r)] = 2 => Uncounted(p, r) = {p.marks[At(r)][1], p.marks[At(r)][2]}

(* Once it is linked at most two calls can still reach the row, and none of   *)
(* them brings its count down to 2 or 1 again: a count that was reset to 0 at *)
(* two wraps around.                                                          *)
DoneCount(p, r) ==
  LET n == Cardinality(Uncounted(p, r))
  IN \/ n <= 1 /\ p.unmarked[At(r)] = n
     \/ n <= 2 /\ p.unmarked[At(r)] = (65534 + n) % 65536

CountsMatch(p, but) ==
  \A r \in StoredRows(p) \ but : IF r \in Linked(p) THEN DoneCount(p, r) ELSE OpenCount(p, r)

(* The lists are disjoint, and as long as the columns they solve and wait for.*)
ListsMatch(p) ==
  /\ Linked(p) \subseteq StoredRows(p)
  /\ Distinct(p.list) /\ Distinct(p.deferRows)
  /\ Elements(p.list) \cap Elements(p.deferRows) = {}
  /\ Len(p.list) + Len(p.deferRows) = Cardinality(Linked(p))
  /\ Len(p.list) = Cardinality(Marked(p, "PEEL"))
  /\ Len(p.deferCols) = Cardinality(Marked(p, "DEFER"))
  /\ Marked(p, "PEEL") = {Solves(p, r) : r \in Elements(p.list)}

(* A solved column names its row, once the walk that it set off is over. *)
SolverMatches(p) ==
  \A c \in Marked(p, "PEEL") :
     \/ \E k \in 1..Len(p.walk) : p.walk[k].col = c
     \/ p.solver[c] \in Elements(p.list) /\ Solves(p, p.solver[c]) = c

PeelInv ==
  /\ TypeOK
  /\ RefsMatch(peel) /\ WalkMatches(peel) /\ CountsMatch(peel, {})
  /\ ListsMatch(peel) /\ SolverMatches(peel) /\ PeelOrderTriangular
  /\ phase = "greedy" => Len(peel.rows) = BlockCount

=============================================================================
