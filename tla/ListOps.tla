------------------------------ MODULE ListOps ------------------------------
(***************************************************************************)
(* The doubly linked list of list.c as a data structure: a list is one     *)
(* record, every function of list.c an operator from lists to lists.  The  *)
(* modules that have lists in their state (List, Hash) EXTEND this one.   *)
(*                                                                         *)
(* A record holds its own heap: next, prev and value are the fields of the *)
(* cells (vanessa_list_elem_t), cells is the set of cells malloc'ed for    *)
(* this list and not yet freed.  The fields of a cell that is not          *)
(* allocated are NULL.  All loops over the chain are stated with the set   *)
(* of cells the loop can visit, so that nothing here is recursive.         *)
(***************************************************************************)
EXTENDS Chain

CONSTANTS
    Value,       \* the values stored, up to what the callbacks can tell apart
    NoRecentArg, \* the norecent arguments of vanessa_list_create
    E_match,     \* the element_match arguments: comparisons, or NULL
    E_sort       \* the element_sort arguments: comparisons, or NULL

Datum == Value \cup {NULL}        \* a list also stores NULL values
Comparison == [Datum \X Datum -> Int]

ASSUME ListAssumption ==
    /\ NoRecentArg \subseteq Int
    /\ E_match \subseteq Comparison \cup {NULL}
    /\ E_sort \subseteq Comparison \cup {NULL}

REORDER == -1                     \* VANESSA_LIST_REORDER

----------------------------------------------------------------------------
StoredNoRecent(n) == IF n > 0 \/ n = REORDER THEN n ELSE 0

\* vanessa_list_elem_t's fields and vanessa_list_t, for a list whose norecent
\* is n.
ListOf(n) ==
    [norecent : {n}, recent : [0 .. n - 1 -> Ptr], recent_offset : Nat,
     first : Ptr, last : Ptr,
     next : [Cell -> Ptr], prev : [Cell -> Ptr], value : [Cell -> Datum],
     cells : SUBSET Cell, e_match : E_match, e_sort : E_sort]

IsList(l) == \E n \in NoRecentArg : l \in ListOf(StoredNoRecent(n))

\* vanessa_list_create
NewList(n, match, sort) ==
    LET stored == StoredNoRecent(n)
    IN  [norecent |-> stored, recent |-> [i \in 0 .. stored - 1 |-> NULL],
         recent_offset |-> 0, first |-> NULL, last |-> NULL,
         next |-> [c \in Cell |-> NULL], prev |-> [c \in Cell |-> NULL],
         value |-> [c \in Cell |-> NULL], cells |-> {},
         e_match |-> match, e_sort |-> sort]

----------------------------------------------------------------------------
\* Mutant: the arguments of element_sort are swapped.
InsertionPointSwapped(l, v) ==
    IF l.e_sort = NULL
      THEN l.first
      ELSE FirstOnWalk(l.prev, l.last,
                       {c \in Cell : l.e_sort[l.value[c], v] >= 0})

\* Mutant: without element_sort the search for the place runs to the end.
InsertionPointAtEnd(l, v) == l.last

\* The cell after which v goes: the first cell when there is no element_sort,
\* otherwise the last cell, seen from the end, that v is not before.
InsertionPoint(l, v) ==
    IF l.e_sort = NULL
      THEN l.first
      ELSE FirstOnWalk(l.prev, l.last,
                       {c \in Cell : l.e_sort[v, l.value[c]] >= 0})

\* The pointer assignments of vanessa_list_add_element for the new cell e,
\* after p; at the front when p is NULL.
LinkAfter(l, e, p, v) ==
    LET succ == IF p = NULL THEN l.first ELSE l.next[p]
    IN  [l EXCEPT
           !.next  = [c \in Cell |-> IF c = e THEN succ
                                     ELSE IF c = p THEN e ELSE l.next[c]],
           !.prev  = [c \in Cell |-> IF c = e THEN p
                                     ELSE IF c = succ THEN e ELSE l.prev[c]],
           !.value = [c \in Cell |-> IF c = e THEN v ELSE l.value[c]],
           !.first = IF p = NULL THEN e ELSE l.first,
           !.last  = IF p = l.last THEN e ELSE l.last,
           !.cells = l.cells \cup {e}]

\* The recent array is a ring: the new cell replaces the oldest entry.
RememberRecent(l, e) ==
    IF l.norecent > 0
      THEN LET o == (l.recent_offset + 1) % l.norecent
           IN  [l EXCEPT !.recent_offset = o,
                         !.recent = [i \in 0 .. l.norecent - 1 |->
                                        IF i = o THEN e ELSE l.recent[i]]]
      ELSE l

\* Mutant: last is only set by the first insertion.
AddKeepsLast(l, e, v) ==
    RememberRecent([LinkAfter(l, e, InsertionPoint(l, v), v)
                       EXCEPT !.last = IF l.first = NULL THEN e ELSE l.last], e)

\* vanessa_list_add_element when e is the cell malloc returns
Add(l, e, v) == RememberRecent(LinkAfter(l, e, InsertionPoint(l, v), v), e)

----------------------------------------------------------------------------
Matches(l, v, k) == IF l.e_match = NULL THEN v = k ELSE l.e_match[v, k] = 0

\* The slots of the recent array at which its search stops: the first one that
\* holds a cell with a matching value, if there is one.
RecentHit(l, k) ==
    LET hits == {i \in 0 .. l.norecent - 1 :
                   l.recent[i] # NULL /\ Matches(l, l.value[l.recent[i]], k)}
    IN  {i \in hits : \A j \in hits : i <= j}

\* Mutant: with a recent array, the chain is not searched.
FoundInRecent(l, k) ==
    IF k = NULL THEN NULL
    ELSE IF l.norecent > 0
      THEN IF RecentHit(l, k) = {} THEN NULL
           ELSE l.recent[CHOOSE i \in RecentHit(l, k) : TRUE]
      ELSE FirstOnWalk(l.next, l.first,
                       {c \in Cell : Matches(l, l.value[c], k)})

\* The cell that __vanessa_list_get_element finds: the recent cells in the
\* order of their slots, then the chain from its first cell.
Found(l, k) ==
    IF k = NULL THEN NULL
    ELSE IF RecentHit(l, k) # {}
      THEN l.recent[CHOOSE i \in RecentHit(l, k) : TRUE]
      ELSE FirstOnWalk(l.next, l.first,
                       {c \in Cell : Matches(l, l.value[c], k)})

\* Mutant: the moved element keeps its pointer to the one in front of it.
MoveToFrontKeepsPrev(l, e) ==
    [l EXCEPT
       !.next  = [c \in Cell |-> IF c = e THEN l.first
                                 ELSE IF c = l.prev[e] THEN l.next[e]
                                 ELSE l.next[c]],
       !.prev  = [c \in Cell |-> IF c = l.first THEN e
                                 ELSE IF c = l.next[e] THEN l.prev[e]
                                 ELSE l.prev[c]],
       !.first = e,
       !.last  = IF l.last = e THEN l.first ELSE l.last]

\* The move to the front under VANESSA_LIST_REORDER, with the assignments in
\* the code's order: when e was last, last becomes e->next after e->next was
\* set, which is the cell that was first.
MoveToFront(l, e) ==
    [l EXCEPT
       !.next  = [c \in Cell |-> IF c = e THEN l.first
                                 ELSE IF c = l.prev[e] THEN l.next[e]
                                 ELSE l.next[c]],
       !.prev  = [c \in Cell |-> IF c = e THEN NULL
                                 ELSE IF c = l.first THEN e
                                 ELSE IF c = l.next[e] THEN l.prev[e]
                                 ELSE l.prev[c]],
       !.first = e,
       !.last  = IF l.last = e THEN l.first ELSE l.last]

\* Mutant: an element that is already first is moved as well.
GetMovesFirst(l, k) ==
    LET e == Found(l, k)
    IN  IF e # NULL /\ l.norecent = REORDER THEN MoveToFront(l, e) ELSE l

\* __vanessa_list_get_element: the list it leaves
Get(l, k) ==
    LET e == Found(l, k)
    IN  IF e # NULL /\ l.norecent = REORDER /\ e # l.first
          THEN MoveToFront(l, e)
          ELSE l

\* __vanessa_list_remove_element and vanessa_list_elem_destroy
Unlink(l, e) ==
    [l EXCEPT
       !.next   = [c \in Cell |-> IF c = e THEN NULL
                                  ELSE IF c = l.prev[e] THEN l.next[e]
                                  ELSE l.next[c]],
       !.prev   = [c \in Cell |-> IF c = e THEN NULL
                                  ELSE IF c = l.next[e] THEN l.prev[e]
                                  ELSE l.prev[c]],
       !.value  = [c \in Cell |-> IF c = e THEN NULL ELSE l.value[c]],
       !.first  = IF l.first = e THEN l.next[e] ELSE l.first,
       !.last   = IF l.last = e THEN l.prev[e] ELSE l.last,
       !.recent = [i \in 0 .. l.norecent - 1 |->
                      IF l.recent[i] = e THEN NULL ELSE l.recent[i]],
       !.cells  = l.cells \ {e}]

\* Mutant: the recent array is not searched for the removed element.
RemoveKeepsRecent(l, k) ==
    LET found == Found(l, k)
    IN  IF found = NULL THEN l
        ELSE [Unlink(Get(l, k), found) EXCEPT !.recent = l.recent]

\* vanessa_list_remove_element: the lookup is the one of get, move included
Remove(l, k) ==
    LET found == Found(l, k)
    IN  IF found = NULL THEN l ELSE Unlink(Get(l, k), found)

----------------------------------------------------------------------------
\* Properties of a list record, for the modules that keep lists.

\* The recent array never holds a freed cell, nor one cell twice.
RecentsLive(l) ==
    /\ \A i \in 0 .. l.norecent - 1 : l.recent[i] \in l.cells \cup {NULL}
    /\ \A i, j \in 0 .. l.norecent - 1 :
          l.recent[i] = l.recent[j] => i = j \/ l.recent[i] = NULL

\* Looking up k gives a cell exactly when some allocated cell's value matches k,
\* whether the recent array or the chain answers.
LookupExact(l, k) ==
    /\ Found(l, k) = NULL <=> ~ \E c \in l.cells : Matches(l, l.value[c], k)
    /\ Found(l, k) # NULL => /\ Found(l, k) \in l.cells
                             /\ Matches(l, l.value[Found(l, k)], k)

\* A comparison sorts when it is a total preorder.
IsOrder(cmp) ==
    /\ \A v, w \in Datum : cmp[v, w] <= 0 <=> cmp[w, v] >= 0
    /\ \A u, v, w \in Datum : cmp[u, v] <= 0 /\ cmp[v, w] <= 0 => cmp[u, w] <= 0

SortedBy(l, cmp) ==
    \A c \in l.cells :
        l.next[c] # NULL => cmp[l.value[c], l.value[l.next[c]]] <= 0
=============================================================================
