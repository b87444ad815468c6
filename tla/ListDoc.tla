------------------------------ MODULE ListDoc ------------------------------
(***************************************************************************)
(* The list of List.tla against the documented one of DocList.tla: the     *)
(* sequence of values that a walk along next shows.                        *)
(***************************************************************************)
EXTENDS List

ContentsOrNull == IF l = NULL \/ undefined THEN NULL ELSE Contents(l)

ModeOrNull ==
    IF l = NULL \/ undefined THEN NULL
    ELSE [reorder |-> l.norecent = REORDER,
          e_match |-> l.e_match, e_sort |-> l.e_sort]

\* The documentation with the four places where the code does something else
Actual == INSTANCE DocList WITH
    s <- ContentsOrNull, mode <- ModeOrNull, broken <- undefined,
    FrontPosition <- 2, SortsReordered <- FALSE, AddsNull <- TRUE, MayBreak <- TRUE

\* Every call does to the sequence of values what the documentation says, but for
\* four things.  An unsorted list is filled behind its first element, where list.c
\* 472 says "at the begining of the list".  Nothing is said of the order of a list
\* whose elements lookups have moved.  NULL is inserted, where 474 says "l, unchanged
\* if value is null".  And a duplication that fails may do what C does not define,
\* after which nothing is said at all, where 586 says "NULL [...] on error" (list.c
\* 383-611).
ActualSpec == Actual!Spec

\* "post: list is duplicated" (list.c 585), also under VANESSA_LIST_REORDER:
\* no element is left out.
CopyIsWhole ==
    HasList /\ HasCopy /\ at = NULL => copy.cells = l.cells
=============================================================================
