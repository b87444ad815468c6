------------------------------ MODULE DocQueue ------------------------------
(***************************************************************************)
(* What queue.c documents of a queue: a sequence of elements, pushed onto  *)
(* its beginning and popped off its end.                                   *)
(***************************************************************************)
EXTENDS Sequences, SequencesExt

CONSTANTS Value, NULL

VARIABLES
    s,        \* the elements from the first to the last, NULL without a queue
    value     \* what the last pop assigned to *value

Create == s = NULL /\ s' = <<>> /\ UNCHANGED value

\* "push an element onto the beginning" (queue.c 103)
Push(v) == s # NULL /\ s' = <<v>> \o s /\ UNCHANGED value

\* "Pop an element off the end" (queue.c 149)
Pop ==
    /\ s # NULL
    /\ s # <<>>
    /\ value' = Last(s)
    /\ s' = Front(s)

\* vanessa_queue_destroy, and vanessa_queue_push when there is no memory
Destroy == s # NULL /\ s' = NULL /\ UNCHANGED value

Init == s = NULL /\ value = NULL

Next ==
    \/ Create
    \/ \E v \in Value \cup {NULL} : Push(v)
    \/ Pop
    \/ Destroy

Spec == Init /\ [][Next]_<<s, value>>
=============================================================================
