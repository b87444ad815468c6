------------------------------- MODULE MCHash -------------------------------
(* Instances of Hash for TLC, and what the documentation says of a display. *)
(* Two of the four values match, three share a bucket, one is alone.        *)
EXTENDS Hash, TLC

CONSTANTS a1, a2, b, c

MCValue == {a1, a2, b, c}

Rank(d) == CASE d = NULL -> 0 [] d \in {a1, a2} -> 1 [] d = b -> 2 [] OTHER -> 3

ByRank == [d \in (MCValue \cup {NULL}) \X (MCValue \cup {NULL}) |->
              Rank(d[1]) - Rank(d[2])]

BucketOfC == [v \in MCValue |-> IF v = c THEN 1 ELSE 0]

NoRecent    == {0}
NoOrder     == {NULL}
OrderOrNone == {NULL, ByRank}

MCLength == [v \in MCValue |-> IF v \in {a2, c} THEN 2 ELSE 1]

Symmetry == Permutations(Cell)

\* "a character buffer is allocated and an ASCII representation of each hashed
\* element [...] is placed in" it (hash.c 208-211): a hash with elements can be
\* displayed.
ElementsDisplayed == Lives /\ Count(h) > 0 => HashDisplay(Buckets) # NULL
=============================================================================
