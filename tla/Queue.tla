------------------------------- MODULE Queue -------------------------------
(***************************************************************************)
(* queue.c: a program that uses one queue.  Elements are pushed at first   *)
(* and popped at last.  The queue is one record that holds its own heap:   *)
(* next, prev and value are the fields of its members, cells the members   *)
(* that are allocated.                                                     *)
(***************************************************************************)
EXTENDS Chain

CONSTANTS
    Value,        \* the elements
    e_destroy,    \* the e_destroy argument: NULL or a callback
    INT_MAX       \* the largest int

INT_MIN == - INT_MAX - 1

ASSUME QueueAssumption == INT_MAX \in Nat

VARIABLES
    q,            \* the queue, NULL while the program has none
    popped,       \* what *value is after vanessa_queue_pop
    destroyed     \* what the callback was given: values, or addresses of
                  \* the value field of a member

vars == <<q, popped, destroyed>>

Datum == Value \cup {NULL}

ValueField(c) == [field |-> "value", of |-> c]

\* vanessa_queue_t and its vanessa_queue_member_t's
Queues ==
    [first : Ptr, last : Ptr, next : [Cell -> Ptr], prev : [Cell -> Ptr],
     value : [Cell -> Datum], cells : SUBSET Cell, size : INT_MIN .. INT_MAX]

NewQueue ==
    [first |-> NULL, last |-> NULL, next |-> [c \in Cell |-> NULL],
     prev |-> [c \in Cell |-> NULL], value |-> [c \in Cell |-> NULL],
     cells |-> {}, size |-> 0]

\* Mutant: size is not decremented.
DecrementedNever(n) == n

\* size is an int; beyond INT_MAX the builds of the library wrap around.
Incremented(n) == IF n = INT_MAX THEN INT_MIN ELSE n + 1
Decremented(n) == IF n = INT_MIN THEN INT_MAX ELSE n - 1

\* vanessa_queue_push for the new member c
Pushed(x, c, v) ==
    [x EXCEPT
       !.value = [d \in Cell |-> IF d = c THEN v ELSE x.value[d]],
       !.next  = [d \in Cell |-> IF d = c THEN x.first ELSE x.next[d]],
       !.prev  = [d \in Cell |-> IF d = c THEN NULL
                                 ELSE IF d = x.first THEN c ELSE x.prev[d]],
       !.last  = IF x.first = NULL THEN c ELSE x.last,
       !.first = c,
       !.cells = x.cells \cup {c},
       !.size  = Incremented(x.size)]

\* vanessa_queue_pop of a queue that has a last member, which is freed
WithoutLast(x) ==
    LET old == x.last
        new == x.prev[x.last]
    IN  [x EXCEPT
           !.last  = new,
           !.first = IF new = NULL THEN NULL ELSE x.first,
           !.next  = [d \in Cell |-> IF d = old \/ d = new THEN NULL ELSE x.next[d]],
           !.prev  = [d \in Cell |-> IF d = old THEN NULL ELSE x.prev[d]],
           !.value = [d \in Cell |-> IF d = old THEN NULL ELSE x.value[d]],
           !.cells = x.cells \ {old},
           !.size  = Decremented(x.size)]

\* vanessa_queue_length
Length(x) == x.size

\* vanessa_queue_member_free gives e_destroy the address of the member's value
\* field, not the value.
Given(x) ==
    IF e_destroy = NULL THEN {}
    ELSE {ValueField(c) : c \in {d \in Reach(x.next, x.first) : x.value[d] # NULL}}

----------------------------------------------------------------------------
Create ==
    /\ q = NULL
    /\ q' = NewQueue
    /\ UNCHANGED <<popped, destroyed>>

Push(v) ==
    /\ q # NULL
    /\ \E c \in Cell \ q.cells : q' = Pushed(q, c, v)
    /\ UNCHANGED <<popped, destroyed>>

\* No memory for a member: the queue is destroyed.
PushFails ==
    /\ q # NULL
    /\ q' = NULL
    /\ destroyed' = destroyed \cup Given(q)
    /\ UNCHANGED popped

\* Mutant: first is not reset when the last member goes.
PopKeepsFirst ==
    /\ q # NULL
    /\ q.last # NULL
    /\ popped' = q.value[q.last]
    /\ q' = [WithoutLast(q) EXCEPT !.first = q.first]
    /\ UNCHANGED destroyed

\* Mutant: the value is taken from the other end.
PopTakesFirst ==
    /\ q # NULL
    /\ q.last # NULL
    /\ popped' = q.value[q.first]
    /\ q' = WithoutLast(q)
    /\ UNCHANGED destroyed

Pop ==
    /\ q # NULL
    /\ q.last # NULL
    /\ popped' = q.value[q.last]
    /\ q' = WithoutLast(q)
    /\ UNCHANGED destroyed

Destroy ==
    /\ q # NULL
    /\ q' = NULL
    /\ destroyed' = destroyed \cup Given(q)
    /\ UNCHANGED popped

Init ==
    /\ q = NULL
    /\ popped = NULL
    /\ destroyed = {}

Next ==
    \/ Create
    \/ \E v \in Datum : Push(v)
    \/ PushFails
    \/ Pop
    \/ Destroy

Spec == Init /\ [][Next]_vars

----------------------------------------------------------------------------
HasQueue == q # NULL

TypeOK ==
    /\ HasQueue => q \in Queues
    /\ popped \in Datum
    /\ destroyed \subseteq Value \cup {ValueField(c) : c \in Cell}

\* Pushing at one end and popping at the other leaves one chain from first to
\* last without a pointer to a freed member, also when the queue runs empty and
\* is filled again (queue.c 130-138, 169-175).
ChainIntact == HasQueue => Chained(q) /\ LastEndsChain(q)

\* vanessa_queue_length is the number of members while an int can hold
\* it, also after it has held more than that (queue.c 141, 178, 266).
LengthExact ==
    HasQueue /\ Cardinality(q.cells) <= INT_MAX => Length(q) = Cardinality(q.cells)

----------------------------------------------------------------------------
ContentsOrNull == IF q = NULL THEN NULL ELSE Contents(q)

Documented == INSTANCE DocQueue WITH s <- ContentsOrNull, value <- popped

\* The queue is first in, first out: pop returns the oldest element, and the
\* others keep their order (queue.c 112-184).
DocumentedSpec == Documented!Spec
=============================================================================
