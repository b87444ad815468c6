------------------------------ MODULE DocArray ------------------------------
(***************************************************************************)
(* What dynamic_array.c documents of an array: a sequence of elements that *)
(* grows at its end, closes the gap a deletion leaves, and is reversed.    *)
(* AddsNull and MayBreak are Booleans.  With both FALSE this is the        *)
(* documentation; with TRUE they stand for what the code does instead.     *)
(***************************************************************************)
EXTENDS Integers, SequencesExt

CONSTANTS
    Elem, NULL,
    AddsNull,      \* whether a NULL that is added takes a place in the array
    MayBreak       \* whether a call may do what C does not define

VARIABLES
    s,             \* the elements in order, NULL without an array
    broken         \* TRUE once nothing can be said of the array any more

doc_vars == <<s, broken>>

Create ==
    /\ s = NULL
    /\ ~broken
    /\ s' = <<>>
    /\ broken' = broken

\* "element in inserted in the first unused position in the array.  Nothing is
\* done if e is NULL"
AddElement ==
    /\ s # NULL
    /\ \E e \in Elem \cup {NULL} :
          /\ e = NULL => AddsNull
          /\ s' = Append(s, e)
    /\ broken' = broken

\* "Subsequent elements in the array are shuffled up to fill the gap."
DeleteElement ==
    /\ s # NULL
    /\ \E p \in 1 .. Len(s) : s' = RemoveAt(s, p)
    /\ broken' = broken

\* "Elements of a are in the reverse order"
ReverseElements ==
    /\ s # NULL
    /\ s' = Reverse(s)
    /\ broken' = broken

Destroy ==
    /\ s # NULL
    /\ s' = NULL
    /\ broken' = broken

Break ==
    /\ MayBreak
    /\ ~broken
    /\ s' = NULL
    /\ broken' = TRUE

Init == s = NULL /\ broken = FALSE

Next ==
    \/ Create
    \/ AddElement
    \/ DeleteElement
    \/ ReverseElements
    \/ Destroy
    \/ Break

Spec == Init /\ [][Next]_doc_vars
=============================================================================
