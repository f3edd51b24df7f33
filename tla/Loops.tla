-------------------------------- MODULE Loops --------------------------------
(***************************************************************************)
(* Counting loops.  ForEach is a left fold that halves the sequence, so    *)
(* that the evaluation nests as deep as the logarithm of its length: the   *)
(* loops of the codec run over hundreds of elements.                       *)
(***************************************************************************)
EXTENDS Integers, Sequences, FiniteSets

(* Fold of op over a sequence from the left; the loops of the code.  The     *)
(* comparison makes TLC evaluate the first half before the second one.       *)
ForEach(op(_, _), base, seq) ==
  LET RECURSIVE run(_, _, _)
      run(lo, hi, acc) ==
        CASE lo > hi -> acc
          [] lo = hi -> op(acc, seq[lo])
          [] OTHER   -> LET mid  == (lo + hi) \div 2
                            half == run(lo, mid, acc)
                        IN IF half = half THEN run(mid + 1, hi, half) ELSE half
  IN run(1, Len(seq), base)

(* lo, lo+1, ..., hi as a sequence; empty when hi < lo. *)
Upto(lo, hi) == [i \in 1..(IF hi < lo THEN 0 ELSE hi - lo + 1) |-> lo + i - 1]

(* hi, hi-1, ..., lo. *)
Downto(hi, lo) == [i \in 1..(IF hi < lo THEN 0 ELSE hi - lo + 1) |-> hi - i + 1]
=============================================================================
