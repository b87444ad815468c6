------------------------------- MODULE Chain -------------------------------
(***************************************************************************)
(* Doubly linked chains of malloc'ed cells, what list.c and queue.c are    *)
(* built on: which cells a loop along a link visits, and when the links of *)
(* a list or queue form one chain.                                         *)
(***************************************************************************)
EXTENDS Integers, FiniteSets, Pointers

CONSTANT Cell    \* addresses malloc may return for a cell

ASSUME ChainAssumption == NULL \notin Cell

Ptr == Cell \cup {NULL}

\* The cells a loop visits that starts at p and follows link: the least set
\* that holds p and is closed under link (NULL ends the loop).
Reach(link, p) ==
    {d \in Cell :
        /\ p # NULL
        /\ \A S \in SUBSET Cell :
              (p \in S /\ \A c \in S : link[c] # NULL => link[c] \in S)
                  => d \in S}

\* Where a loop from start along link stops that looks for a cell of C: the
\* first one it meets, NULL when there is none.
FirstOnWalk(link, start, C) ==
    LET hits == C \cap Reach(link, start)
        head == {p \in hits : hits \subseteq Reach(link, p)}
    IN  IF head = {} THEN NULL ELSE CHOOSE p \in head : TRUE

----------------------------------------------------------------------------
\* A record x with the fields first and last and with the links next and prev of
\* its cells.

\* The chain is doubly linked and holds every allocated cell: a cell that next
\* reaches is reached by prev from the other side, and no pointer leads to a
\* freed cell.
Chained(x) ==
    /\ Reach(x.next, x.first) = x.cells
    /\ x.first = NULL <=> x.cells = {}
    /\ x.last \in x.cells \cup {NULL}
    /\ \A c \in Cell \ x.cells : x.next[c] = NULL /\ x.prev[c] = NULL
    /\ \A c \in x.cells :
          /\ x.next[c] # NULL => x.prev[x.next[c]] = c
          /\ x.prev[c] # NULL => x.prev[c] \in x.cells /\ x.next[x.prev[c]] = c
          /\ x.prev[c] = NULL <=> c = x.first

\* last is the end of the chain: what sorted insertion and duplication start
\* from.
LastEndsChain(x) ==
    /\ x.last = NULL <=> x.cells = {}
    /\ \A c \in x.cells : x.next[c] = NULL <=> c = x.last

----------------------------------------------------------------------------
\* o lists the cells of x, each at the place at which a loop from first along
\* next visits it.
IsWalk(x, o) ==
    /\ o \in [1 .. Cardinality(x.cells) -> x.cells]
    /\ x.first = IF x.cells = {} THEN NULL ELSE o[1]
    /\ \A k \in DOMAIN o :
          x.next[o[k]] = IF k + 1 \in DOMAIN o THEN o[k + 1] ELSE NULL

Walk(x) == CHOOSE o \in [1 .. Cardinality(x.cells) -> x.cells] : IsWalk(x, o)

\* The values in the order in which such a loop shows them
Contents(x) ==
    LET o == Walk(x)
    IN  [k \in 1 .. Cardinality(x.cells) |-> x.value[o[k]]]
=============================================================================
