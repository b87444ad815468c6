-------------------------------- MODULE List --------------------------------
(***************************************************************************)
(* A program that uses one list of list.c, and the duplicate it takes of   *)
(* it.  One action per function of the API; the loop of                    *)
(* vanessa_list_duplicate is one action per round, because each round may  *)
(* fail to get memory.  Between two calls, the program waits for the call  *)
(* to return: the library has no threads.                                  *)
(*                                                                         *)
(* The copy's cells have a heap of their own, so each is named after the   *)
(* cell it copies.  The program destroys the copy before it goes on with   *)
(* the list: calls on lists that share no cell commute.                    *)
(* vanessa_list_length and vanessa_list_display are operators of Display.  *)
(***************************************************************************)
EXTENDS ListOps, Display

CONSTANTS
    e_destroy,   \* the element_destroy argument: NULL or a callback
    FREED        \* what a pointer to freed memory points to

ASSUME PointerAssumption ==
    /\ ~ IsList(NULL) /\ ~ IsList(FREED)
    /\ e_length # NULL => Value \subseteq DOMAIN e_length

VARIABLES
    l,           \* the list, NULL while the program has none
    copy,        \* its duplicate: NULL, a list, or FREED
    at,          \* e in vanessa_list_duplicate's loop, NULL outside of it
    lost,        \* kinds of memory that nothing points to and nobody freed
    undefined    \* TRUE once the program has done what C does not define

vars == <<l, copy, at, lost, undefined>>

Idle == ~undefined /\ at = NULL /\ copy = NULL

----------------------------------------------------------------------------
\* Mutant: the loop over the chain stops after its first cell.
FreedFirst(x) == IF e_destroy = NULL THEN {} ELSE {x.first} \ {NULL}

\* vanessa_list_destroy frees the chain only if there is an e_destroy, and
\* the recent array never.
FreedByDestroy(x) == IF e_destroy = NULL THEN {} ELSE Reach(x.next, x.first)

LostByDestroy(x) ==
    {part \in {"cells", "recent"} :
        \/ part = "cells"  /\ ~ x.cells \subseteq FreedByDestroy(x)
        \/ part = "recent" /\ x.norecent > 0}

Create(n, match, sort) ==
    /\ l = NULL
    /\ Idle
    /\ l' = NewList(n, match, sort)
    /\ UNCHANGED <<copy, at, lost, undefined>>

\* vanessa_list_add_element when malloc and e_duplicate succeed
AddElement(v) ==
    /\ l # NULL
    /\ Idle
    /\ \E e \in Cell \ l.cells : l' = Add(l, e, v)
    /\ UNCHANGED <<copy, at, lost, undefined>>

\* vanessa_list_add_element when malloc or e_duplicate fails: the whole list
\* is destroyed
AddElementFails ==
    /\ l # NULL
    /\ Idle
    /\ l' = NULL
    /\ lost' = lost \cup LostByDestroy(l)
    /\ UNCHANGED <<copy, at, undefined>>

GetElement(k) ==
    /\ l # NULL
    /\ Idle
    /\ l' = Get(l, k)
    /\ UNCHANGED <<copy, at, lost, undefined>>

RemoveElement(k) ==
    /\ l # NULL
    /\ Idle
    /\ l' = Remove(l, k)
    /\ UNCHANGED <<copy, at, lost, undefined>>

Destroy ==
    /\ l # NULL
    /\ Idle
    /\ l' = NULL
    /\ lost' = lost \cup LostByDestroy(l)
    /\ UNCHANGED <<copy, at, undefined>>

\* vanessa_list_duplicate up to its loop; when vanessa_list_create fails it
\* returns NULL and nothing changes.
DuplicateBegins ==
    /\ l # NULL
    /\ Idle
    /\ copy' = NewList(l.norecent, l.e_match, l.e_sort)
    /\ at' = l.last
    /\ UNCHANGED <<l, lost, undefined>>

\* Mutant: the loop ends when it gets to the first element.
DuplicateElementButFirst ==
    /\ at # NULL
    /\ copy' = Add(copy, at, l.value[at])
    /\ at' = IF l.prev[at] = l.first THEN NULL ELSE l.prev[at]
    /\ UNCHANGED <<l, lost, undefined>>

\* One round of the loop
DuplicateElement ==
    /\ at # NULL
    /\ copy' = Add(copy, at, l.value[at])
    /\ at' = l.prev[at]
    /\ UNCHANGED <<l, lost, undefined>>

\* A round whose vanessa_list_add_element fails, which destroys the copy.  The
\* result is not looked at: the next round adds to freed memory, and without one
\* the pointer to it is returned.
DuplicateElementFails ==
    /\ at # NULL
    /\ copy' = FREED
    /\ at' = NULL
    /\ lost' = lost \cup LostByDestroy(copy)
    /\ undefined' = (l.prev[at] # NULL)
    /\ UNCHANGED l

DestroyCopy ==
    /\ at = NULL
    /\ copy \notin {NULL, FREED}
    /\ copy' = NULL
    /\ lost' = lost \cup LostByDestroy(copy)
    /\ UNCHANGED <<l, at, undefined>>

\* The program cannot tell that what it was given as a duplicate is freed already.
DestroyFreed ==
    /\ ~undefined
    /\ copy = FREED
    /\ copy' = NULL
    /\ undefined' = TRUE
    /\ UNCHANGED <<l, at, lost>>

----------------------------------------------------------------------------
Init ==
    /\ l = NULL
    /\ copy = NULL
    /\ at = NULL
    /\ lost = {}
    /\ undefined = FALSE

Next ==
    \/ \E n \in NoRecentArg, match \in E_match, sort \in E_sort :
          Create(n, match, sort)
    \/ \E v \in Datum : AddElement(v)
    \/ AddElementFails
    \/ \E k \in Datum : GetElement(k)
    \/ \E k \in Datum : RemoveElement(k)
    \/ Destroy
    \/ DuplicateBegins
    \/ DuplicateElement
    \/ DuplicateElementFails
    \/ DestroyCopy
    \/ DestroyFreed

Spec == Init /\ [][Next]_vars

----------------------------------------------------------------------------
HasList == l # NULL
HasCopy == copy \notin {NULL, FREED}

\* Types of the state: every list is a vanessa_list_t whose recent array has
\* exactly norecent slots.
TypeOK ==
    /\ HasList => IsList(l)
    /\ HasCopy => IsList(copy)
    /\ at \in Ptr
    /\ lost \subseteq {"cells", "recent"}
    /\ undefined \in BOOLEAN

\* After any sequence of inserts, moves to the front and removals, list and
\* copy are doubly linked chains that hold exactly their allocated cells (list.c
\* 408-422, 505-520, 550-562).  Without VANESSA_LIST_REORDER, last is the end of
\* the chain, where sorted insertion and duplication start from (490, 607).
ChainIntact ==
    /\ HasList => Chained(l) /\ (l.norecent # REORDER => LastEndsChain(l))
    /\ HasCopy => Chained(copy) /\ (copy.norecent # REORDER => LastEndsChain(copy))

\* Removal leaves no dangling pointer in the recent array, and an element is
\* at most once in it, whatever the ring has overwritten (list.c 522-525,
\* 564-568).
RecentIsLive ==
    /\ HasList => RecentsLive(l)
    /\ HasCopy => RecentsLive(copy)

\* Sorted insertion keeps the list in the order of e_sort when that is an
\* order, equal elements included, as long as lookups do not move elements
\* (list.c 490-494).
SortedInOrder ==
    HasList /\ l.norecent # REORDER /\ l.e_sort # NULL =>
        (IsOrder(l.e_sort) => SortedBy(l, l.e_sort))

\* A lookup answers NULL exactly when no element matches, and never anything
\* but an element that does, be it from the recent array or from the chain
\* (list.c 395-406).
LookupFinds == HasList => \A k \in Datum \ {NULL} : LookupExact(l, k)

\* When vanessa_list_duplicate returns a list and elements are not reordered,
\* every element of the list was copied, once (list.c 607-609).
CopyComplete ==
    HasList /\ HasCopy /\ at = NULL /\ l.norecent # REORDER =>
        /\ copy.cells = l.cells
        /\ \A c \in l.cells : copy.value[c] = l.value[c]

\* vanessa_list_destroy frees every cell when there is an e_destroy, also after an
\* addition that failed and in a duplicate (list.c 251-260).  A duplication that
\* fails before its last round adds to freed memory: nothing is said from then on
\* (607-609).
CellsFreed == e_destroy # NULL /\ ~undefined => "cells" \notin lost

\* A list is shown with all of its values, also those that are NULL, in exactly the
\* buffer that vanessa_list_length asks for.  That the last text is not empty is
\* necessary: when it is, the terminator is written behind the buffer (list.c
\* 290-304, 343-362).
DisplayExact ==
    HasList /\ NULL \notin {e_length, e_display} =>
        LET s == Contents(l) IN
        LastLength(s) # 0 =>
            /\ Shows(ListDisplay(s), s, {DELIMITER})
            /\ Len(ListDisplay(s)) = ListLength(s)

\* Each round of a duplication leaves fewer cells in front of it, so that its loop
\* ends: also when elements were moved to the front, and last with them, and the
\* loop begins in the middle of the chain (list.c 408-422, 607).
DuplicateAdvances ==
    [][at # NULL => Reach(l'.prev, at') \subseteq Reach(l.prev, at) \ {at}]_vars
=============================================================================
