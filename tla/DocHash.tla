------------------------------ MODULE DocHash ------------------------------
(***************************************************************************)
(* What hash.c documents of a hash, without buckets: a bag of values.      *)
(* MayBreak is FALSE for the documentation: adding NULL returns "h,        *)
(* unchanged" (hash.c 354), an error in a duplication NULL (412), and no   *)
(* call does what C does not define.                                       *)
(***************************************************************************)
EXTENDS Integers

CONSTANTS Value, NULL, E_match, MayBreak

VARIABLES
    held,     \* how often each value is in the hash, NULL without a hash
    match,    \* the element_match the hash was created with
    broken    \* TRUE once nothing can be said of the hash any more

doc_vars == <<held, match, broken>>

Matching(d, k) == IF match = NULL THEN d = k ELSE match[d, k] = 0

Create ==
    /\ held = NULL
    /\ ~broken
    /\ held' = [v \in Value |-> 0]
    /\ match' \in E_match
    /\ broken' = broken

\* "value is inserted into the hash" (hash.c 352)
AddElement(v) ==
    /\ held # NULL
    /\ held' = [held EXCEPT ![v] = @ + 1]
    /\ UNCHANGED <<match, broken>>

\* "value is removed from the hash" (hash.c 388)
RemoveElement(k) ==
    /\ held # NULL
    /\ \E v \in Value : /\ held[v] > 0
                        /\ Matching(v, k)
                        /\ held' = [held EXCEPT ![v] = @ - 1]
    /\ UNCHANGED <<match, broken>>

\* vanessa_hash_destroy, and vanessa_hash_add_element when there is no memory
Destroy ==
    /\ held # NULL
    /\ held' = NULL
    /\ match' = NULL
    /\ broken' = broken

Break ==
    /\ MayBreak
    /\ ~broken
    /\ held' = NULL
    /\ match' = NULL
    /\ broken' = TRUE

Init == held = NULL /\ match = NULL /\ broken = FALSE

Next ==
    \/ Create
    \/ \E v \in Value : AddElement(v)
    \/ \E k \in Value : RemoveElement(k)
    \/ Destroy
    \/ Break

Spec == Init /\ [][Next]_doc_vars
=============================================================================
