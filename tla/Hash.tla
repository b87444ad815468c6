-------------------------------- MODULE Hash --------------------------------
(***************************************************************************)
(* hash.c: a program that uses one hash, and the duplicate it takes of it. *)
(* A bucket is a list of list.c, created on demand, without recent array   *)
(* and without element_sort; what the hash does to it are the operators of *)
(* ListOps.  vanessa_hash_duplicate is followed round by round through the *)
(* loops of vanessa_list_duplicate, because each round may fail to get     *)
(* memory.                                                                 *)
(*                                                                         *)
(* Each bucket has a heap of its own: two lists never share a cell.  The   *)
(* program destroys the duplicate before it goes on with the hash.         *)
(* vanessa_hash_length and vanessa_hash_display are operators of Display.  *)
(***************************************************************************)
EXTENDS ListOps, Display

CONSTANTS
    NoBucket,     \* the nobucket argument of vanessa_hash_create
    e_hash,       \* the element_hash argument
    e_destroy,    \* the element_destroy argument: NULL or a callback
    AddsNull      \* TRUE when callers also add NULL

Bucket == 0 .. NoBucket - 1

\* element_hash returns "a number >= 0 && < nobucket" (hash.c 81-83): the
\* program never aborts in __vanessa_hash_get_bucket.
ASSUME HashAssumption ==
    /\ NoBucket \in Nat \ {0}
    /\ e_hash \in [Value -> Bucket]
    /\ NULL \notin Value
    /\ NULL \notin Nat
    /\ 0 \in NoRecentArg
    /\ NULL \in E_sort
    /\ ~ IsList(NULL)
    /\ AddsNull \in BOOLEAN
    /\ e_length # NULL => Value \subseteq DOMAIN e_length

VARIABLES
    h,            \* the hash, NULL while the program has none
    copy,         \* its duplicate, NULL while there is none
    i,            \* i in vanessa_hash_duplicate, NULL outside of it
    at,           \* e in vanessa_list_duplicate for bucket i, NULL outside of it
    lost,         \* kinds of memory that nothing points to and nobody freed
    undefined     \* TRUE once the program has done what C does not define

vars == <<h, copy, i, at, lost, undefined>>

IsBucketList(x) == IsList(x) /\ x.norecent = 0 /\ x.e_sort = NULL

\* vanessa_hash_t
IsHash(x) ==
    /\ x = [bucket |-> x.bucket, e_match |-> x.e_match]
    /\ x.e_match \in E_match
    /\ DOMAIN x.bucket = Bucket
    /\ \A n \in Bucket :
          x.bucket[n] # NULL =>
              IsBucketList(x.bucket[n]) /\ x.bucket[n].e_match = x.e_match

NewHash(match) == [bucket |-> [n \in Bucket |-> NULL], e_match |-> match]

\* The list of bucket n, created when there is none yet
ListFor(x, n) == IF x.bucket[n] = NULL THEN NewList(0, x.e_match, NULL)
                                       ELSE x.bucket[n]

InBucket(x, n, list) == [x EXCEPT !.bucket = [@ EXCEPT ![n] = list]]

\* The cell vanessa_hash_get_element finds, in the bucket of the value
HashFound(x, v) ==
    IF x.bucket[e_hash[v]] = NULL THEN NULL ELSE Found(x.bucket[e_hash[v]], v)

\* The cells, each with its bucket, that loops over all buckets visit
Visited(x) ==
    {p \in Bucket \X Cell :
        /\ x.bucket[p[1]] # NULL
        /\ p[2] \in Reach(x.bucket[p[1]].next, x.bucket[p[1]].first)}

\* vanessa_hash_get_count
Count(x) == Cardinality(Visited(x))

----------------------------------------------------------------------------
\* vanessa_list_destroy, called for every bucket that has a list, frees the chain
\* only if there is an e_destroy.
FreedByDestroy(x) == IF e_destroy = NULL THEN {} ELSE Visited(x)

\* The array of buckets itself is never freed.
LostByDestroy(x) ==
    {part \in {"bucket", "cells"} :
        \/ part = "bucket"
        \/ part = "cells" /\ \E n \in Bucket :
               /\ x.bucket[n] # NULL
               /\ \E c \in x.bucket[n].cells : <<n, c>> \notin FreedByDestroy(x)}

Idle == ~undefined /\ i = NULL /\ copy = NULL

Create(match) ==
    /\ h = NULL
    /\ Idle
    /\ h' = NewHash(match)
    /\ UNCHANGED <<copy, i, at, lost, undefined>>

\* Mutant: hash_key is not set.
AddElementUnhashed(v) ==
    /\ h # NULL
    /\ Idle
    /\ \E e \in Cell \ ListFor(h, 0).cells :
          h' = InBucket(h, 0, Add(ListFor(h, 0), e, v))
    /\ UNCHANGED <<copy, i, at, lost, undefined>>

\* Mutant: the list is created whether there is one or not.
AddElementFresh(v) ==
    /\ h # NULL
    /\ Idle
    /\ \E e \in Cell :
          h' = InBucket(h, e_hash[v], Add(NewList(0, h.e_match, NULL), e, v))
    /\ UNCHANGED <<copy, i, at, lost, undefined>>

AddElement(v) ==
    /\ h # NULL
    /\ Idle
    /\ LET n == e_hash[v] IN
       \E e \in Cell \ ListFor(h, n).cells :
          h' = InBucket(h, n, Add(ListFor(h, n), e, v))
    /\ UNCHANGED <<copy, i, at, lost, undefined>>

\* vanessa_list_create finds no memory: the hash is destroyed.
AddListFails(v) ==
    /\ h # NULL
    /\ Idle
    /\ h.bucket[e_hash[v]] = NULL
    /\ h' = NULL
    /\ lost' = lost \cup LostByDestroy(h)
    /\ UNCHANGED <<copy, i, at, undefined>>

\* vanessa_list_add_element fails and destroys the list of the bucket, which
\* vanessa_hash_destroy then destroys again.
AddElementFails ==
    /\ h # NULL
    /\ Idle
    /\ h' = NULL
    /\ undefined' = TRUE
    /\ UNCHANGED <<copy, i, at, lost>>

\* What is lost when a bucket's list is overwritten
LostByOverwriting(list) ==
    {part \in {"list", "cells"} :
        list # NULL /\ (part = "cells" => list.cells # {})}

\* With NULL, __vanessa_hash_get_bucket does not set hash_key: the program
\* crashes, or some bucket gets a new list that holds NULL, in the place of the
\* one it had.
AddNull ==
    /\ AddsNull
    /\ h # NULL
    /\ Idle
    /\ \/ /\ h' = NULL
          /\ lost' = lost
       \/ \E n \in Bucket, e \in Cell :
             /\ h' = InBucket(h, n, Add(NewList(0, h.e_match, NULL), e, NULL))
             /\ lost' = lost \cup LostByOverwriting(h.bucket[n])
    /\ undefined' = TRUE
    /\ UNCHANGED <<copy, i, at>>

GetElement(v) ==
    /\ h # NULL
    /\ Idle
    /\ LET n == e_hash[v] IN
       h' = IF h.bucket[n] = NULL THEN h ELSE InBucket(h, n, Get(h.bucket[n], v))
    /\ UNCHANGED <<copy, i, at, lost, undefined>>

RemoveElement(v) ==
    /\ h # NULL
    /\ Idle
    /\ LET n == e_hash[v] IN
       h' = IF h.bucket[n] = NULL THEN h ELSE InBucket(h, n, Remove(h.bucket[n], v))
    /\ UNCHANGED <<copy, i, at, lost, undefined>>

Destroy ==
    /\ h # NULL
    /\ Idle
    /\ h' = NULL
    /\ lost' = lost \cup LostByDestroy(h)
    /\ UNCHANGED <<copy, i, at, undefined>>

----------------------------------------------------------------------------
DuplicateBegins ==
    /\ h # NULL
    /\ Idle
    /\ copy' = NewHash(h.e_match)
    /\ i' = 0
    /\ UNCHANGED <<h, at, lost, undefined>>

\* One bucket of the loop, up to the loop of vanessa_list_duplicate
DuplicateBucket ==
    /\ i # NULL
    /\ at = NULL
    /\ i < NoBucket
    /\ IF h.bucket[i] = NULL
         THEN copy' = copy /\ at' = NULL
         ELSE /\ copy' = InBucket(copy, i, NewList(0, h.e_match, NULL))
              /\ at' = h.bucket[i].last
    /\ i' = IF at' = NULL THEN i + 1 ELSE i
    /\ UNCHANGED <<h, lost, undefined>>

\* One round of the loop of vanessa_list_duplicate
DuplicateElement ==
    /\ at # NULL
    /\ copy' = InBucket(copy, i, Add(copy.bucket[i], at, h.bucket[i].value[at]))
    /\ at' = h.bucket[i].prev[at]
    /\ i' = IF at' = NULL THEN i + 1 ELSE i
    /\ UNCHANGED <<h, lost, undefined>>

\* Mutant: the last bucket may be left out.
DuplicateEndsEarly ==
    /\ i # NULL
    /\ at = NULL
    /\ i >= NoBucket - 1
    /\ i' = NULL
    /\ UNCHANGED <<h, copy, at, lost, undefined>>

DuplicateEnds ==
    /\ i # NULL
    /\ i = NoBucket
    /\ i' = NULL
    /\ UNCHANGED <<h, copy, at, lost, undefined>>

\* vanessa_list_duplicate returns NULL: the copy is destroyed.
DuplicateBucketFails ==
    /\ i # NULL
    /\ at = NULL
    /\ i < NoBucket
    /\ h.bucket[i] # NULL
    /\ copy' = NULL
    /\ i' = NULL
    /\ lost' = lost \cup LostByDestroy(copy)
    /\ UNCHANGED <<h, at, undefined>>

\* vanessa_list_add_element fails in the loop of vanessa_list_duplicate: the
\* list is destroyed, and returned as the duplicate of the bucket.
DuplicateElementFails ==
    /\ at # NULL
    /\ copy' = NULL
    /\ i' = NULL
    /\ at' = NULL
    /\ undefined' = TRUE
    /\ UNCHANGED <<h, lost>>

DestroyCopy ==
    /\ i = NULL
    /\ copy # NULL
    /\ copy' = NULL
    /\ lost' = lost \cup LostByDestroy(copy)
    /\ UNCHANGED <<h, i, at, undefined>>

----------------------------------------------------------------------------
Init ==
    /\ h = NULL
    /\ copy = NULL
    /\ i = NULL
    /\ at = NULL
    /\ lost = {}
    /\ undefined = FALSE

Next ==
    \/ \E match \in E_match : Create(match)
    \/ \E v \in Value : AddElement(v)
    \/ \E v \in Value : AddListFails(v)
    \/ AddElementFails
    \/ AddNull
    \/ \E v \in Value : GetElement(v)
    \/ \E v \in Value : RemoveElement(v)
    \/ Destroy
    \/ DuplicateBegins
    \/ DuplicateBucket
    \/ DuplicateElement
    \/ DuplicateEnds
    \/ DuplicateBucketFails
    \/ DuplicateElementFails
    \/ DestroyCopy

Spec == Init /\ [][Next]_vars

----------------------------------------------------------------------------
HasHash == h # NULL
HasCopy == copy # NULL

TypeOK ==
    /\ HasHash => IsHash(h)
    /\ HasCopy => IsHash(copy)
    /\ i \in Nat \cup {NULL}
    /\ at \in Ptr
    /\ lost \subseteq {"bucket", "list", "cells"}
    /\ undefined \in BOOLEAN

\* Every bucket's list is a doubly linked chain that ends at last.
Sound(x) ==
    \A n \in Bucket :
        x.bucket[n] # NULL => Chained(x.bucket[n]) /\ LastEndsChain(x.bucket[n])

\* Whatever is added, removed and duplicated, the lists of the buckets are
\* whole: a removal in one never leaves a pointer into another (hash.c 373,
\* 401, 433).
BucketsSound ==
    /\ HasHash => Sound(h)
    /\ HasCopy => Sound(copy)

\* Every element is in the bucket its hash names.
Placed(x) ==
    \A n \in Bucket :
        x.bucket[n] # NULL =>
            \A c \in x.bucket[n].cells :
                /\ x.bucket[n].value[c] \in Value
                /\ e_hash[x.bucket[n].value[c]] = n

\* Every element of the hash and of its duplicate is in the bucket where
\* get and remove look for it, as long as nobody adds NULL (hash.c 306, 341,
\* 373, 401, 433).
ElementsPlaced ==
    ~ undefined => /\ HasHash => Placed(h)
                   /\ HasCopy => Placed(copy)

\* Values that match hash alike: without this no hash can find its elements.
Consistent(match) ==
    \A d, k \in Value :
        (IF match = NULL THEN d = k ELSE match[d, k] = 0) => e_hash[d] = e_hash[k]

\* A lookup answers NULL exactly when no element of any bucket matches
\* (hash.c 337-341).
LookupFinds ==
    HasHash /\ ~ undefined /\ Consistent(h.e_match) =>
        \A v \in Value :
            HashFound(h, v) = NULL <=>
                ~ \E n \in Bucket :
                     /\ h.bucket[n] # NULL
                     /\ \E c \in h.bucket[n].cells :
                           Matches(h.bucket[n], h.bucket[n].value[c], v)

\* The duplicate has every element of the hash, in the same bucket, and no
\* other (hash.c 428-439).
CopyComplete ==
    HasCopy /\ i = NULL =>
        \A n \in Bucket :
            IF h.bucket[n] = NULL
              THEN copy.bucket[n] = NULL
              ELSE /\ copy.bucket[n] # NULL
                   /\ copy.bucket[n].cells = h.bucket[n].cells
                   /\ \A c \in h.bucket[n].cells :
                         copy.bucket[n].value[c] = h.bucket[n].value[c]

\* As long as the program has done nothing undefined, no cell is ever lost when
\* there is an e_destroy: vanessa_hash_destroy frees the cells of all buckets, also
\* when a new list finds no memory and in a duplicate of which only some buckets
\* are filled (hash.c 144-148, 367-370, 434-438).
CellsFreed == e_destroy # NULL /\ ~ undefined => "cells" \notin lost

----------------------------------------------------------------------------
\* The hash as its documentation describes it: how often it holds each value.
CellsOf(x, v) ==
    {p \in Bucket \X Cell :
        /\ x.bucket[p[1]] # NULL
        /\ p[2] \in x.bucket[p[1]].cells
        /\ x.bucket[p[1]].value[p[2]] = v}

Lives       == h # NULL /\ ~ undefined
HeldOrNull  == IF Lives THEN [v \in Value |-> Cardinality(CellsOf(h, v))] ELSE NULL
MatchOrNull == IF Lives THEN h.e_match ELSE NULL

\* The documentation, but for calls that do what C does not define
Actual == INSTANCE DocHash WITH
    held <- HeldOrNull, match <- MatchOrNull, broken <- undefined, MayBreak <- TRUE

\* The hash is a bag of values: each call adds one value, removes one that
\* matches, or changes nothing, over all buckets (hash.c 357-404).  This is what
\* the documentation says with two exceptions, after which nothing is said of the
\* hash at all: a program that adds NULL, where hash.c 354 says "h, unchanged if
\* value is NULL", and an element that finds no memory, in vanessa_hash_add_element
\* or in a duplication, which 412 says returns "NULL [...] on error".
ActualSpec == Actual!Spec

----------------------------------------------------------------------------
Buckets ==
    [n \in 1 .. NoBucket |->
        IF h.bucket[n - 1] = NULL THEN NULL ELSE Contents(h.bucket[n - 1])]

\* A hash of which every list has elements is shown with all of them, in exactly
\* the buffer that vanessa_hash_length asks for, as long as vanessa_list_display
\* keeps to its own buffers (hash.c 183-192, 229-253).  Between two buckets stands
\* a comma (244), whatever the delimiter, where 208-211 say "each hashed element
\* [...] separated by delimiter".
DisplayExact ==
    Lives /\ NULL \notin {e_length, e_display} /\ AllValues(Buckets) # <<>> =>
        \/ \E n \in 1 .. NoBucket :
               Buckets[n] # NULL /\ (Buckets[n] = <<>> \/ LastLength(Buckets[n]) = 0)
        \/ /\ ShowsBuckets(HashDisplay(Buckets), Buckets)
           /\ Len(HashDisplay(Buckets)) = HashLength(Buckets)
=============================================================================
