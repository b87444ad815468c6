---------------------------- MODULE DynamicArray ----------------------------
(***************************************************************************)
(* dynamic_array.c: a program that uses one dynamic array, and the         *)
(* duplicate it takes of it.  What matters here is memory: how the vector  *)
(* grows and shrinks by blocks, which slots hold elements and which only   *)
(* stale pointers, who destroys which element, and what is left when       *)
(* realloc or element_duplicate fails.                                     *)
(*                                                                         *)
(* An array is one record.  held is the set of elements that are alive in  *)
(* it: made by element_duplicate and not yet passed to element_destroy.    *)
(* The duplicate has elements of its own, named after those they copy; it  *)
(* is destroyed before the program goes on with the array.                 *)
(* vanessa_dynamic_array_length and _display are operators of Display.     *)
(***************************************************************************)
EXTENDS Integers, Display

CONSTANTS
    Elem,         \* the elements element_duplicate may return
    GARBAGE,      \* what a slot holds that was never written
    BlockArg,     \* the block_size arguments of vanessa_dynamic_array_create
    Index,        \* the indices callers pass to delete_element
    SSIZE_MAX,    \* the largest ssize_t: no array has more elements
    SIZE_MAX,     \* the largest size_t
    PointerSize,  \* sizeof(void *)
    e_destroy,    \* the element_destroy argument: NULL or a callback
    ValidIndices  \* TRUE when callers only pass indices of elements

ASSUME ArrayAssumption ==
    /\ NULL \notin Elem \cup Nat
    /\ GARBAGE \notin Elem \cup {NULL}
    /\ BlockArg \subseteq 0 .. SIZE_MAX
    /\ Index \subseteq Nat
    /\ SSIZE_MAX \in Nat \ {0}
    /\ SIZE_MAX \in Nat /\ SIZE_MAX > SSIZE_MAX
    /\ PointerSize \in Nat \ {0}
    /\ ValidIndices \in BOOLEAN
    /\ e_length # NULL => Elem \subseteq DOMAIN e_length

VANESSA_DEFAULT_DYNAMIC_ARRAY_BLOCK_SIZE == 7

VARIABLES
    a,            \* the array, NULL while the program has none
    copy,         \* its duplicate, NULL while there is none
    i,            \* i in vanessa_dynamic_array_duplicate, NULL outside of it
    undefined     \* TRUE once the program has done what C does not define

vars == <<a, copy, i, undefined>>

Slot == Elem \cup {NULL, GARBAGE}

\* vanessa_dynamic_array_t with n slots allocated
ArrayOf(n) ==
    [vector : [0 .. n - 1 -> Slot], count : Nat, allocated_size : {n},
     block_size : Nat \ {0}, held : SUBSET Elem]

IsArray(x) == x.allocated_size \in Nat /\ x \in ArrayOf(x.allocated_size)

Used(x) == 0 .. x.count - 1

----------------------------------------------------------------------------
\* Mutant: a block_size of 0 is not replaced by the default.
NewArrayNoDefault(block) ==
    [vector |-> [s \in 0 .. -1 |-> NULL], count |-> 0, allocated_size |-> 0,
     block_size |-> block, held |-> {}]

NewArray(block) ==
    [vector |-> [s \in 0 .. -1 |-> NULL], count |-> 0, allocated_size |-> 0,
     block_size |-> IF block = 0 THEN VANESSA_DEFAULT_DYNAMIC_ARRAY_BLOCK_SIZE
                                 ELSE block,
     held |-> {}]

\* realloc to n slots: the slots both vectors have are kept.
Resized(x, n) ==
    [x EXCEPT !.allocated_size = n,
              !.vector = [s \in 0 .. n - 1 |->
                             IF s < x.allocated_size THEN x.vector[s] ELSE GARBAGE]]

MustGrow(x) == x.count = x.allocated_size

\* The bytes of the grown vector can be counted in a size_t.
Fits(x) == (x.allocated_size + x.block_size) * PointerSize <= SIZE_MAX

Grown(x) == IF MustGrow(x) THEN Resized(x, x.allocated_size + x.block_size) ELSE x

\* The last lines of vanessa_dynamic_array_add_element; e is the duplicate,
\* or NULL, which is stored as it is.
Stored(x, e) ==
    [x EXCEPT !.vector = [s \in 0 .. x.allocated_size - 1 |->
                             IF s = x.count THEN e ELSE x.vector[s]],
              !.count  = x.count + 1,
              !.held   = x.held \cup ({e} \ {NULL})]

\* size_t wraps around.
Decremented(n) == IF n = 0 THEN SIZE_MAX ELSE n - 1

\* Mutant: the loop that moves the elements up ends one too early.
ShuffledUpButLast(x, index) ==
    [x EXCEPT !.vector = [s \in 0 .. x.allocated_size - 1 |->
                             IF index <= s /\ s < x.count - 2 THEN x.vector[s + 1]
                                                              ELSE x.vector[s]],
              !.count  = Decremented(x.count),
              !.held   = x.held \ {x.vector[index]}]

\* vanessa_dynamic_array_delete_element up to the realloc: the element is
\* destroyed, the ones behind it move up, and the last slot keeps its pointer.
ShuffledUp(x, index) ==
    [x EXCEPT !.vector = [s \in 0 .. x.allocated_size - 1 |->
                             IF index <= s /\ s < x.count - 1 THEN x.vector[s + 1]
                                                              ELSE x.vector[s]],
              !.count  = Decremented(x.count),
              !.held   = x.held \ {x.vector[index]}]

\* Mutant: the vector shrinks one element too early.
MustShrinkEarly(x) == x.count > 0 /\ x.count <= x.allocated_size - x.block_size + 1

MustShrink(x) == x.count > 0 /\ x.count <= x.allocated_size - x.block_size

\* Mutant: the last element is not swapped.
ReversedButLast(x) ==
    [x EXCEPT !.vector = [s \in 0 .. x.allocated_size - 1 |->
                             IF s < x.count - 1 THEN x.vector[x.count - 1 - s]
                                                ELSE x.vector[s]]]

Reversed(x) ==
    [x EXCEPT !.vector = [s \in 0 .. x.allocated_size - 1 |->
                             IF s < x.count THEN x.vector[x.count - 1 - s]
                                            ELSE x.vector[s]]]

\* vanessa_dynamic_array_destroy after realloc has failed: vector is NULL, and
\* the loop over the elements goes through it.
DestroyReadsNull(x) == e_destroy # NULL /\ x.count > 0

\* vanessa_dynamic_array_get_element, for an index within the vector
GetElement(x, elementno) ==
    IF elementno > x.count THEN NULL ELSE x.vector[elementno]

----------------------------------------------------------------------------
Idle == ~undefined /\ i = NULL /\ copy = NULL

Create(block) ==
    /\ a = NULL
    /\ Idle
    /\ a' = NewArray(block)
    /\ UNCHANGED <<copy, i, undefined>>

AddElement(e) ==
    /\ a # NULL
    /\ Idle
    /\ a.count < SSIZE_MAX
    /\ MustGrow(a) => Fits(a)
    /\ e \notin a.held
    /\ a' = Stored(Grown(a), e)
    /\ UNCHANGED <<copy, i, undefined>>

\* The vector has grown, but the array has no new element and is kept.
AddDuplicateFails ==
    /\ a # NULL
    /\ Idle
    /\ a.count < SSIZE_MAX
    /\ MustGrow(a) => Fits(a)
    /\ a' = Grown(a)
    /\ UNCHANGED <<copy, i, undefined>>

\* The size in bytes wraps around, so that realloc returns a vector with fewer
\* slots than allocated_size says: this element, or a later one, is stored behind
\* its end.
AddOverflows ==
    /\ a # NULL
    /\ Idle
    /\ a.count < SSIZE_MAX
    /\ MustGrow(a)
    /\ ~Fits(a)
    /\ a' = NULL
    /\ undefined' = TRUE
    /\ UNCHANGED <<copy, i>>

AddReallocFails ==
    /\ a # NULL
    /\ Idle
    /\ a.count < SSIZE_MAX
    /\ MustGrow(a)
    /\ a' = NULL
    /\ undefined' = DestroyReadsNull(a)
    /\ UNCHANGED <<copy, i>>

\* The index is not checked: behind the vector it is undefined what happens,
\* in front of its end whatever the slot holds is destroyed.
DeleteElement(index) ==
    /\ a # NULL
    /\ Idle
    /\ ValidIndices => index < a.count
    /\ IF index >= a.allocated_size
         THEN a' = NULL /\ undefined' = TRUE
         ELSE LET x == ShuffledUp(a, index)
              IN  /\ a' = IF MustShrink(x)
                            THEN Resized(x, x.allocated_size - x.block_size)
                            ELSE x
                  /\ undefined' = undefined
    /\ UNCHANGED <<copy, i>>

DeleteReallocFails(index) ==
    /\ a # NULL
    /\ Idle
    /\ ValidIndices => index < a.count
    /\ index < a.allocated_size
    /\ MustShrink(ShuffledUp(a, index))
    /\ a' = NULL
    /\ undefined' = DestroyReadsNull(ShuffledUp(a, index))
    /\ UNCHANGED <<copy, i>>

Reverse ==
    /\ a # NULL
    /\ Idle
    /\ a.count # 0
    /\ a' = Reversed(a)
    /\ UNCHANGED <<copy, i, undefined>>

Destroy ==
    /\ a # NULL
    /\ Idle
    /\ a' = NULL
    /\ UNCHANGED <<copy, i, undefined>>

DuplicateBegins ==
    /\ a # NULL
    /\ Idle
    /\ copy' = NewArray(a.block_size)
    /\ i' = 0
    /\ UNCHANGED <<a, undefined>>

DuplicateElement ==
    /\ i # NULL
    /\ i < a.count
    /\ copy' = Stored(Grown(copy), a.vector[i])
    /\ i' = i + 1
    /\ UNCHANGED <<a, undefined>>

\* element_duplicate fails: the copy is destroyed and NULL returned.
DuplicateElementFails ==
    /\ i # NULL
    /\ i < a.count
    /\ a.vector[i] # NULL
    /\ copy' = NULL
    /\ i' = NULL
    /\ UNCHANGED <<a, undefined>>

\* realloc fails: add_element has destroyed the copy, and then duplicate
\* destroys it again.
DuplicateReallocFails ==
    /\ i # NULL
    /\ i < a.count
    /\ MustGrow(copy)
    /\ copy' = NULL
    /\ i' = NULL
    /\ undefined' = TRUE
    /\ UNCHANGED a

\* Mutant: the loop over the elements may end one too early.
DuplicateEndsEarly ==
    /\ i # NULL
    /\ i >= a.count - 1
    /\ i' = NULL
    /\ UNCHANGED <<a, copy, undefined>>

DuplicateEnds ==
    /\ i # NULL
    /\ i = a.count
    /\ i' = NULL
    /\ UNCHANGED <<a, copy, undefined>>

DestroyCopy ==
    /\ i = NULL
    /\ copy # NULL
    /\ copy' = NULL
    /\ UNCHANGED <<a, i, undefined>>

----------------------------------------------------------------------------
Init ==
    /\ a = NULL
    /\ copy = NULL
    /\ i = NULL
    /\ undefined = FALSE

Next ==
    \/ \E block \in BlockArg : Create(block)
    \/ \E e \in Elem \cup {NULL} : AddElement(e)
    \/ AddDuplicateFails
    \/ AddOverflows
    \/ AddReallocFails
    \/ \E index \in Index : DeleteElement(index)
    \/ \E index \in Index : DeleteReallocFails(index)
    \/ Reverse
    \/ Destroy
    \/ DuplicateBegins
    \/ DuplicateElement
    \/ DuplicateElementFails
    \/ DuplicateReallocFails
    \/ DuplicateEnds
    \/ DestroyCopy

Spec == Init /\ [][Next]_vars

----------------------------------------------------------------------------
HasArray == a # NULL

TypeOK ==
    /\ HasArray => IsArray(a)
    /\ copy # NULL => IsArray(copy)
    /\ i \in Nat \cup {NULL}
    /\ undefined \in BOOLEAN

\* The vector is a whole number of blocks and holds all elements.
SizesAgree(x) ==
    /\ x.count <= x.allocated_size
    /\ \E blocks \in 0 .. x.allocated_size : x.allocated_size = blocks * x.block_size

\* At most a block is allocated in excess, also after failed adds.
SlackBounded(x) ==
    IF x.count > 0 THEN x.allocated_size - x.count <= x.block_size
                   ELSE x.allocated_size <= x.block_size + 1

\* Whatever grows, shrinks and fails, no element is stored behind the vector,
\* and the subtraction allocated_size - block_size (dynamic_array.c 244) does not
\* wrap around; the array never keeps more than a block it has no use for, and
\* its count fits the ssize_t that get_count returns (171-177).  The bytes of the
\* vector and of its duplicate fit a size_t: the growth of the array may overflow
\* (181-183), and is undefined then, that of a duplicate never does.
SizesSafe ==
    /\ HasArray =>
        /\ SizesAgree(a)
        /\ SlackBounded(a)
        /\ a.count > 0 => a.allocated_size >= a.block_size
        /\ a.count <= SSIZE_MAX
        /\ a.allocated_size * PointerSize <= SIZE_MAX
    /\ copy # NULL => copy.allocated_size * PointerSize <= SIZE_MAX

\* The slots in use hold the elements alive in x, each once: destroying the slots
\* destroys every element, and none twice.
Owned(x) ==
    /\ \A s \in Used(x) : x.vector[s] \in x.held \cup {NULL}
    /\ \A s, t \in Used(x) : x.vector[s] = x.vector[t] => s = t \/ x.vector[s] = NULL
    /\ \A e \in x.held : \E s \in Used(x) : x.vector[s] = e

\* Stale pointers stay behind the last element when elements move up, and slots
\* are never cleared, but no element in use is a stale one (dynamic_array.c
\* 233-241, 199-200, 476-481).
ElementsOwned ==
    /\ HasArray => Owned(a)
    /\ copy # NULL => Owned(copy)

\* A duplicate has the elements of the array in the same slots (dynamic_array.c
\* 282-289).
CopyEqual ==
    copy # NULL /\ i = NULL =>
        /\ copy.count = a.count
        /\ \A s \in Used(a) : copy.vector[s] = a.vector[s]

----------------------------------------------------------------------------
\* The elements of an array in order
SeqOf(x) == [p \in 1 .. x.count |-> x.vector[p - 1]]

\* The array as its documentation describes it
ContentsOrNull == IF a = NULL \/ undefined THEN NULL ELSE SeqOf(a)

\* The documentation with the two places where the code does something else
Actual == INSTANCE DocArray WITH
    s <- ContentsOrNull, broken <- undefined, AddsNull <- TRUE, MayBreak <- TRUE

\* The used slots, read in order, are the documented sequence: adding appends,
\* deleting closes the gap, reversing reverses, and growing and shrinking the
\* vector, failures of element_duplicate and duplication are not seen
\* (dynamic_array.c 150-151, 208-215, 460-464).  Two things are not as documented:
\* NULL is added, where "Nothing is done if e is NULL" (159), and a call may do
\* what C does not define, as if vanessa_dynamic_array_destroy after a failed
\* realloc were one of the errors for which NULL is returned (161, 217).
ActualSpec == Actual!Spec

\* An array is shown with all of its elements, whatever was inserted, deleted or
\* reversed before, and within the buffer that vanessa_dynamic_array_length asks
\* for (dynamic_array.c 314-335, 375-395).
DisplayFits ==
    HasArray /\ a.count > 0 /\ NULL \notin {e_length, e_display} =>
        /\ Shows(ArrayDisplay(SeqOf(a)), SeqOf(a), {DELIMITER})
        /\ Len(ArrayDisplay(SeqOf(a))) <= ArrayLength(SeqOf(a))
=============================================================================
