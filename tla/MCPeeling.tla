------------------------------ MODULE MCPeeling ------------------------------
(* Four columns and rows of one to four of them: enough for an avalanche that *)
(* is three calls deep and meets rows it has already counted down.            *)
EXTENDS Peeling

(* Ascending rows: the order only decides which column fills which slot. *)
Ascending == {s \in UNION {[1..k -> Columns] : k \in 1..BlockCount} :
                \A i, j \in DOMAIN s : i < j => s[i] < s[j]}

(* Some rows in another order, as the Weyl iterator yields them. *)
Shapes == Ascending \cup {<<3, 1, 0>>, <<2, 3, 0, 1>>}
=============================================================================
