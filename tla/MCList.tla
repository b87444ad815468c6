------------------------------- MODULE MCList -------------------------------
(* Instances of List and ListDoc for TLC: comparison functions on three     *)
(* values, two of which are equal for the callbacks without being the same. *)
EXTENDS ListDoc, TLC

CONSTANTS a1, a2, b

MCValue == {a1, a2, b}

\* NULL is before every value; a1 and a2 are equal.
Rank(d) == CASE d = NULL -> 0 [] d \in {a1, a2} -> 1 [] OTHER -> 2

ByRank == [d \in (MCValue \cup {NULL}) \X (MCValue \cup {NULL}) |->
              Rank(d[1]) - Rank(d[2])]

AllModes   == {-1, -3, 2}        \* reorder, none (stored as 0), two recents
ReorderOnly == {-1}

OrderOrNone == {NULL, ByRank}
NoOrder     == {NULL}

\* The texts of the values; that of b is empty.
MCLength == [v \in MCValue |-> IF v = a1 THEN 2 ELSE IF v = a2 THEN 1 ELSE 0]

Symmetry == Permutations(Cell)
=============================================================================
