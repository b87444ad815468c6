------------------------------ MODULE DocList ------------------------------
(***************************************************************************)
(* What the documentation in list.c and vanessa_adt.h promises of a list,  *)
(* without cells and pointers: a sequence of values.  FrontPosition is     *)
(* where an element goes when there is no element_sort: 1 for the          *)
(* documentation ("inserted at the begining of the list", list.c 471-472); *)
(* SortsReordered is TRUE when sorted insertion also finds its place in a  *)
(* list whose lookups move elements, as the same lines say.  AddsNull is   *)
(* FALSE for the documentation: "l, unchanged if value is null" (474).     *)
(* MayBreak is FALSE for it too: no call does what C does not define.      *)
(***************************************************************************)
EXTENDS Integers, SequencesExt

CONSTANTS
    Value, NULL, NoRecentArg, E_match, E_sort, REORDER, FrontPosition,
    SortsReordered, AddsNull, MayBreak

VARIABLES
    s,        \* the values in the order of the list, NULL without a list
    mode,     \* the callbacks and norecent the list was created with
    broken    \* TRUE once nothing can be said of the list any more

doc_vars == <<s, mode, broken>>

InOrder(t) ==
    \A i \in 1 .. Len(t) - 1 : mode.e_sort[t[i], t[i + 1]] <= 0

Matching(d, k) ==
    IF mode.e_match = NULL THEN d = k ELSE mode.e_match[d, k] = 0

Hits(k) == {i \in 1 .. Len(s) : Matching(s[i], k)}

Create ==
    /\ s = NULL
    /\ ~broken
    /\ s' = <<>>
    /\ broken' = broken
    /\ \E n \in NoRecentArg, match \in E_match, sort \in E_sort :
          mode' = [reorder |-> n = REORDER, e_match |-> match, e_sort |-> sort]

\* "the element will be inserted in order.  Otherwise [...] at the begining"
AddElement(v) ==
    /\ s # NULL
    /\ v = NULL => AddsNull
    /\ \E i \in 1 .. Len(s) + 1 :
          /\ s' = InsertAt(s, i, v)
          /\ IF mode.e_sort = NULL
               THEN i = Min({FrontPosition, Len(s) + 1})
               ELSE InOrder(s) /\ (mode.reorder => SortsReordered) => InOrder(s')
    /\ UNCHANGED <<mode, broken>>

\* Lookups change nothing, except that "elements are moved to the front of the
\* list as they are retrieved" under VANESSA_LIST_REORDER (list.c 146-149).
GetElement(k) ==
    /\ s # NULL
    /\ mode.reorder
    /\ \E i \in Hits(k) : s' = <<s[i]>> \o RemoveAt(s, i)
    /\ UNCHANGED <<mode, broken>>

RemoveElement(k) ==
    /\ s # NULL
    /\ \E i \in Hits(k) : s' = RemoveAt(s, i)
    /\ UNCHANGED <<mode, broken>>

\* vanessa_list_destroy, and vanessa_list_add_element when there is no memory
Destroy ==
    /\ s # NULL
    /\ s' = NULL
    /\ mode' = NULL
    /\ broken' = broken

Break ==
    /\ MayBreak
    /\ ~broken
    /\ s' = NULL
    /\ mode' = NULL
    /\ broken' = TRUE

Init == s = NULL /\ mode = NULL /\ broken = FALSE

Next ==
    \/ Create
    \/ \E v \in Value \cup {NULL} : AddElement(v)
    \/ \E k \in Value : GetElement(k)
    \/ \E k \in Value : RemoveElement(k)
    \/ Destroy
    \/ Break

Spec == Init /\ [][Next]_doc_vars
=============================================================================
