----------------------------- MODULE ElementOps -----------------------------
(***************************************************************************)
(* The callbacks of element_ops.c for elements that are ints, in an int    *)
(* that wraps around, as gcc's does: vanessa_length_int and                *)
(* vanessa_match_int.  The other two copy an int and print it.             *)
(***************************************************************************)
EXTENDS Integers, FiniteSets

CONSTANT INT_MAX

Billion == 1000000000

\* No int has more than ten digits.
ASSUME IntAssumption == INT_MAX \in Nat /\ INT_MAX \div 10 < Billion

INT_MIN == -INT_MAX - 1
CInt == INT_MIN .. INT_MAX

Wrapped(n) == ((n - INT_MIN) % (2 * (INT_MAX + 1))) + INT_MIN

\* Rounds of the loop of vanessa_length_int
Divisions[n \in CInt] == IF n > 9 THEN 1 + Divisions[n \div 10] ELSE 0

\* Mutant: the sign is not counted.
LengthIntUnsigned(n) == 1 + Divisions[IF n < 0 THEN Wrapped(-n) ELSE n]

LengthInt(n) == IF n < 0 THEN 2 + Divisions[Wrapped(-n)] ELSE 1 + Divisions[n]

MatchInt(x, y) == IF x < y THEN Wrapped(x - y) ELSE Wrapped(y - x)

Powers == {10, 100, 1000, 10000, 100000, 1000000, 10000000, 100000000, Billion}

\* The characters printf("%d") prints: a sign, and a digit more for each power of
\* ten that fits.
PrintedLength(n) ==
    LET m == IF n < 0 THEN -n ELSE n
    IN  (IF n < 0 THEN 1 ELSE 0) + 1 + Cardinality({p \in Powers : p <= m})
=============================================================================
