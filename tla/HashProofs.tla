----------------------------- MODULE HashProofs -----------------------------
(***************************************************************************)
(* Theorems about Hash, for every number of buckets, every hash function   *)
(* and every comparison.  What the operations do to one bucket is proved   *)
(* in ListOpsProofs; here it is lifted to the array of buckets, and to the *)
(* nested loops of vanessa_hash_duplicate.                                 *)
(***************************************************************************)
EXTENDS Hash, ListOpsProofs, FiniteSetTheorems

\* A list as the buckets have it
BucketWellFormed(x, match) ==
    WellFormed(x) /\ x.norecent = 0 /\ x.e_sort = NULL /\ x.e_match = match

HashWellFormed(x) ==
    /\ x = [bucket |-> x.bucket, e_match |-> x.e_match]
    /\ x.e_match \in E_match
    /\ DOMAIN x.bucket = Bucket
    /\ x.bucket = [n \in Bucket |-> x.bucket[n]]
    /\ \A n \in Bucket :
          x.bucket[n] # NULL => BucketWellFormed(x.bucket[n], x.e_match)

\* The bucket y of the copy has what vanessa_list_duplicate has copied of the
\* bucket x when p is the next cell to copy.
Copying(x, y, p) ==
    /\ x # NULL
    /\ y # NULL
    /\ y.cells \subseteq x.cells
    /\ \A c \in y.cells : y.value[c] = x.value[c]
    /\ y.cells \cap Reach(x.prev, p) = {}
    /\ y.cells \cup Reach(x.prev, p) = x.cells

Copied(x, y) == IF x = NULL THEN y = NULL ELSE Copying(x, y, NULL)

\* The copy is made, or there to be used.
InCopy == HasCopy \/ i # NULL

\* In vanessa_hash_duplicate, the buckets before i are copied, bucket i is
\* copied up to at, and those behind i have no list yet.
CopyProgress ==
    /\ i # NULL => i \in 0 .. NoBucket
    /\ at # NULL => /\ i # NULL /\ i \in Bucket
                    /\ Copying(h.bucket[i], copy.bucket[i], at)
                    /\ at \in h.bucket[i].cells
    /\ InCopy =>
          /\ HasHash
          /\ copy.e_match = h.e_match
          /\ \A n \in Bucket :
                IF i = NULL \/ n < i THEN Copied(h.bucket[n], copy.bucket[n])
                ELSE n # i \/ at = NULL => copy.bucket[n] = NULL

\* The inductive invariant
IInv ==
    /\ HasHash => HashWellFormed(h)
    /\ InCopy => HashWellFormed(copy)
    /\ i \in Nat \cup {NULL}
    /\ at \in Ptr
    /\ lost \subseteq {"bucket", "list", "cells"}
    /\ undefined \in BOOLEAN
    /\ ~ undefined => /\ HasHash => Placed(h)
                      /\ InCopy => Placed(copy)
    /\ CellsFreed
    /\ CopyProgress

----------------------------------------------------------------------------
\* A hash whose bucket n is replaced by a list for it is a hash.
LEMMA InBucketWellFormed ==
    ASSUME NEW x, HashWellFormed(x), NEW n \in Bucket, NEW list,
           BucketWellFormed(list, x.e_match)
    PROVE  /\ HashWellFormed(InBucket(x, n, list))
           /\ InBucket(x, n, list).e_match = x.e_match
           /\ \A m \in Bucket : InBucket(x, n, list).bucket[m] =
                                   IF m = n THEN list ELSE x.bucket[m]
<1> DEFINE y == InBucket(x, n, list)
<1>1. y = [bucket |-> [m \in Bucket |-> IF m = n THEN list ELSE x.bucket[m]],
           e_match |-> x.e_match]
  BY DEF InBucket, HashWellFormed
<1> HIDE DEF y
<1>2. /\ y.e_match = x.e_match
      /\ y.bucket = [m \in Bucket |-> IF m = n THEN list ELSE x.bucket[m]]
  BY <1>1
<1>3. y = [bucket |-> y.bucket, e_match |-> y.e_match]
  BY <1>1, <1>2
<1>4. /\ DOMAIN y.bucket = Bucket
      /\ y.bucket = [m \in Bucket |-> y.bucket[m]]
      /\ \A m \in Bucket : y.bucket[m] = IF m = n THEN list ELSE x.bucket[m]
  BY <1>2
<1>5. \A m \in Bucket : y.bucket[m] # NULL => BucketWellFormed(y.bucket[m], y.e_match)
  BY <1>2, <1>4 DEF HashWellFormed
<1>6. HashWellFormed(y)
  BY <1>2, <1>3, <1>4, <1>5 DEF HashWellFormed
<1> QED
  BY <1>2, <1>4, <1>6 DEF y

LEMMA NewHashWellFormed ==
    ASSUME NEW match \in E_match
    PROVE  /\ HashWellFormed(NewHash(match))
           /\ Placed(NewHash(match))
           /\ NewHash(match).e_match = match
           /\ \A n \in Bucket : NewHash(match).bucket[n] = NULL
BY DEF NewHash, HashWellFormed, Placed

\* The empty list that a bucket gets on demand
LEMMA NewBucket ==
    ASSUME NEW match \in E_match
    PROVE  /\ BucketWellFormed(NewList(0, match, NULL), match)
           /\ NewList(0, match, NULL).cells = {}
<1>1. WellFormed(NewList(0, match, NULL))
  BY HashAssumption, NewListWellFormed
<1> QED
  BY <1>1 DEF NewList, StoredNoRecent, REORDER, BucketWellFormed

LEMMA ListForWellFormed ==
    ASSUME NEW x, HashWellFormed(x), NEW n \in Bucket
    PROVE  /\ BucketWellFormed(ListFor(x, n), x.e_match)
           /\ x.bucket[n] = NULL => ListFor(x, n).cells = {}
           /\ x.bucket[n] # NULL => ListFor(x, n) = x.bucket[n]
BY NewBucket DEF ListFor, HashWellFormed

LEMMA BucketIsNotNull ==
    ASSUME NEW x, WellFormed(x)
    PROVE  x # NULL
BY HashAssumption DEF WellFormed

LEMMA AddToBucket ==
    ASSUME NEW x, NEW match, BucketWellFormed(x, match), NEW e \in Cell \ x.cells,
           NEW v \in Datum
    PROVE  /\ BucketWellFormed(Add(x, e, v), match)
           /\ Add(x, e, v).cells = x.cells \cup {e}
           /\ \A c \in Cell : Add(x, e, v).value[c] = IF c = e THEN v ELSE x.value[c]
BY AddWellFormed DEF BucketWellFormed

LEMMA RemoveFromBucket ==
    ASSUME NEW x, NEW match, BucketWellFormed(x, match), NEW k
    PROVE  /\ BucketWellFormed(Remove(x, k), match)
           /\ Remove(x, k).cells \subseteq x.cells
           /\ \A c \in Remove(x, k).cells : Remove(x, k).value[c] = x.value[c]
BY RemoveWellFormed DEF BucketWellFormed

\* Without VANESSA_LIST_REORDER a lookup leaves the bucket alone.
LEMMA GetFromBucket ==
    ASSUME NEW x, NEW match, BucketWellFormed(x, match), NEW k
    PROVE  Get(x, k) = x
BY GetWellFormed DEF BucketWellFormed, REORDER

----------------------------------------------------------------------------
\* The steps that concern the hash alone, between two duplications.

LEMMA InitIInv == Init => IInv
BY DEF Init, IInv, HasHash, HasCopy, InCopy, CopyProgress, CellsFreed, Ptr

LEMMA HashCallIInv ==
    ASSUME IInv, Idle, UNCHANGED <<copy, i, at>>,
           lost' \subseteq {"bucket", "list", "cells"}, CellsFreed',
           undefined' \in BOOLEAN,
           h' # NULL => HashWellFormed(h'),
           h' # NULL /\ ~ undefined' => Placed(h')
    PROVE  IInv'
BY DEF IInv, Idle, HasHash, HasCopy, InCopy, CopyProgress

LEMMA HashBetweenCalls ==
    ASSUME IInv, h # NULL, Idle
    PROVE  HashWellFormed(h) /\ Placed(h)
BY DEF IInv, HasHash, Idle

LEMMA CreateIInv == ASSUME IInv, NEW match \in E_match, Create(match) PROVE IInv'
<1>1. HashWellFormed(h') /\ Placed(h')
  BY NewHashWellFormed DEF Create
<1> QED
  BY <1>1, HashCallIInv DEF Create, IInv, CellsFreed

LEMMA AddElementIInv == ASSUME IInv, NEW v \in Value, AddElement(v) PROVE IInv'
<1> DEFINE n == e_hash[v]
           x == ListFor(h, n)
<1>1. h # NULL /\ Idle /\ HashWellFormed(h) /\ Placed(h)
  BY HashBetweenCalls DEF AddElement
<1>2. n \in Bucket /\ v \in Datum
  BY HashAssumption DEF Datum
<1>3. PICK e \in Cell \ x.cells : h' = InBucket(h, n, Add(x, e, v))
  BY DEF AddElement
<1>4. /\ BucketWellFormed(x, h.e_match)
      /\ h.bucket[n] = NULL => x.cells = {}
      /\ h.bucket[n] # NULL => x = h.bucket[n]
  BY <1>1, <1>2, ListForWellFormed
<1> DEFINE y == Add(x, e, v)
<1> HIDE DEF x, n
<1>5. /\ BucketWellFormed(y, h.e_match)
      /\ y.cells = x.cells \cup {e}
      /\ \A c \in Cell : y.value[c] = IF c = e THEN v ELSE x.value[c]
  BY <1>2, <1>4, AddToBucket
<1> HIDE DEF y
<1>6. /\ HashWellFormed(h')
      /\ \A m \in Bucket : h'.bucket[m] = IF m = n THEN y ELSE h.bucket[m]
  BY <1>1, <1>2, <1>3, <1>5, InBucketWellFormed DEF y
<1>7. x.cells \subseteq Cell
  BY <1>4, ListFields DEF BucketWellFormed, WellFormed
<1>8. \A c \in y.cells : y.value[c] \in Value /\ e_hash[y.value[c]] = n
  <2> TAKE c \in y.cells
  <2>1. CASE c = e
    BY <2>1, <1>5 DEF n
  <2>2. CASE c # e
    <3>1. c \in x.cells /\ y.value[c] = x.value[c]
      BY <2>2, <1>5, <1>7
    <3>2. h.bucket[n] # NULL /\ x = h.bucket[n]
      BY <3>1, <1>4
    <3> QED
      BY <3>1, <3>2, <1>1, <1>2 DEF Placed
  <2> QED
    BY <2>1, <2>2
<1>9. Placed(h')
  BY <1>1, <1>6, <1>8 DEF Placed
<1> QED
  BY <1>1, <1>6, <1>9, HashCallIInv DEF AddElement, IInv, CellsFreed

LEMMA AddNullIInv == IInv /\ AddNull => IInv'
<1> SUFFICES ASSUME IInv, AddNull
             PROVE  IInv'
  OBVIOUS
<1>1. h # NULL /\ Idle /\ HashWellFormed(h)
  BY DEF AddNull, IInv, HasHash
<1>4. undefined' = TRUE /\ lost' \subseteq {"bucket", "list", "cells"}
  BY DEF AddNull, IInv, LostByOverwriting
<1>2. CASE h' = NULL
  BY <1>1, <1>2, <1>4, HashCallIInv DEF AddNull, CellsFreed
<1>3. CASE \E n \in Bucket, e \in Cell :
              h' = InBucket(h, n, Add(NewList(0, h.e_match, NULL), e, NULL))
  <2>1. PICK n \in Bucket, e \in Cell :
              h' = InBucket(h, n, Add(NewList(0, h.e_match, NULL), e, NULL))
    BY <1>3
  <2>2. /\ BucketWellFormed(NewList(0, h.e_match, NULL), h.e_match)
        /\ NewList(0, h.e_match, NULL).cells = {}
    BY <1>1, NewBucket DEF HashWellFormed
  <2>3. BucketWellFormed(Add(NewList(0, h.e_match, NULL), e, NULL), h.e_match)
    BY <2>2, AddToBucket DEF Datum
  <2>4. HashWellFormed(h')
    BY <1>1, <2>1, <2>3, InBucketWellFormed
  <2> QED
    BY <1>1, <1>4, <2>4, HashCallIInv DEF AddNull, CellsFreed
<1> QED
  BY <1>2, <1>3 DEF AddNull

LEMMA GetElementIInv == ASSUME IInv, NEW v \in Value, GetElement(v) PROVE IInv'
<1> DEFINE n == e_hash[v]
<1>1. h # NULL /\ Idle /\ HashWellFormed(h) /\ Placed(h)
  BY HashBetweenCalls DEF GetElement
<1>2. n \in Bucket
  BY HashAssumption
<1>3. CASE h.bucket[n] = NULL
  BY <1>1, <1>3, HashCallIInv DEF GetElement, IInv, CellsFreed
<1>4. CASE h.bucket[n] # NULL
  <2>1. BucketWellFormed(h.bucket[n], h.e_match)
    BY <1>1, <1>2, <1>4 DEF HashWellFormed
  <2>2. h' = InBucket(h, n, h.bucket[n])
    BY <2>1, <1>4, GetFromBucket DEF GetElement
  <2>3. /\ HashWellFormed(h')
        /\ \A m \in Bucket : h'.bucket[m] = h.bucket[m]
    BY <1>1, <1>2, <2>1, <2>2, InBucketWellFormed
  <2>4. Placed(h')
    BY <1>1, <2>3 DEF Placed
  <2> QED
    BY <1>1, <2>3, <2>4, HashCallIInv DEF GetElement, IInv, CellsFreed
<1> QED
  BY <1>3, <1>4

LEMMA RemoveElementIInv == ASSUME IInv, NEW v \in Value, RemoveElement(v) PROVE IInv'
<1> DEFINE n == e_hash[v]
<1>1. h # NULL /\ Idle /\ HashWellFormed(h) /\ Placed(h)
  BY HashBetweenCalls DEF RemoveElement
<1>2. n \in Bucket
  BY HashAssumption
<1>3. CASE h.bucket[n] = NULL
  BY <1>1, <1>3, HashCallIInv DEF RemoveElement, IInv, CellsFreed
<1>4. CASE h.bucket[n] # NULL
  <2> DEFINE y == Remove(h.bucket[n], v)
  <2>1. BucketWellFormed(h.bucket[n], h.e_match)
    BY <1>1, <1>2, <1>4 DEF HashWellFormed
  <2>2. /\ BucketWellFormed(y, h.e_match)
        /\ y.cells \subseteq h.bucket[n].cells
        /\ \A c \in y.cells : y.value[c] = h.bucket[n].value[c]
    BY <2>1, RemoveFromBucket
  <2>3. h' = InBucket(h, n, y)
    BY <1>4 DEF RemoveElement
  <2> HIDE DEF y
  <2>4. /\ HashWellFormed(h')
        /\ \A m \in Bucket : h'.bucket[m] = IF m = n THEN y ELSE h.bucket[m]
    BY <1>1, <1>2, <2>2, <2>3, InBucketWellFormed
  <2>5. Placed(h')
    BY <1>1, <1>2, <1>4, <2>2, <2>4 DEF Placed
  <2> QED
    BY <1>1, <2>4, <2>5, HashCallIInv DEF RemoveElement, IInv, CellsFreed
<1> QED
  BY <1>3, <1>4

LEMMA HashGoneIInv ==
    ASSUME IInv, Idle, h' = NULL, UNCHANGED <<copy, i, at>>,
           lost' \subseteq {"bucket", "list", "cells"}, CellsFreed',
           undefined' \in BOOLEAN
    PROVE  IInv'
BY HashCallIInv

\* vanessa_hash_destroy of a well-formed hash with an e_destroy leaves no cell
\* behind: the loop over the buckets visits every cell.
LEMMA DestroyFreesCells ==
    ASSUME NEW x, HashWellFormed(x), e_destroy # NULL
    PROVE  "cells" \notin LostByDestroy(x)
<1>1. ASSUME NEW n \in Bucket, x.bucket[n] # NULL, NEW c \in x.bucket[n].cells
      PROVE  <<n, c>> \in FreedByDestroy(x)
  <2>1. /\ x.bucket[n].cells \subseteq Cell
        /\ Reach(x.bucket[n].next, x.bucket[n].first) = x.bucket[n].cells
    BY <1>1, ListFields DEF HashWellFormed, BucketWellFormed, WellFormed, Chained
  <2> QED
    BY <1>1, <2>1 DEF FreedByDestroy, Visited
<1> QED
  BY <1>1 DEF LostByDestroy

LEMMA LostIInv ==
    ASSUME IInv, NEW x, HashWellFormed(x), lost' = lost \cup LostByDestroy(x),
           undefined' = undefined
    PROVE  lost' \subseteq {"bucket", "list", "cells"} /\ CellsFreed'
<1>1. LostByDestroy(x) \subseteq {"bucket", "list", "cells"}
  BY DEF LostByDestroy
<1> QED
  <2>1. /\ lost \subseteq {"bucket", "list", "cells"} /\ CellsFreed
        /\ e_destroy # NULL => "cells" \notin LostByDestroy(x)
    BY DestroyFreesCells DEF IInv
  <2> QED
    BY <1>1, <2>1 DEF CellsFreed

----------------------------------------------------------------------------
\* The loops of vanessa_hash_duplicate.

LEMMA CopyGoneIInv ==
    ASSUME IInv, copy' = NULL, i' = NULL, at' = NULL, UNCHANGED h,
           lost' \subseteq {"bucket", "list", "cells"}, CellsFreed',
           undefined' \in BOOLEAN, undefined => undefined'
    PROVE  IInv'
BY DEF IInv, HasHash, HasCopy, InCopy, CopyProgress, Ptr

LEMMA DuplicateBeginsIInv == IInv /\ DuplicateBegins => IInv'
<1> SUFFICES ASSUME IInv, DuplicateBegins
             PROVE  IInv'
  OBVIOUS
<1>1. /\ h # NULL /\ h' = h /\ Idle /\ copy' = NewHash(h.e_match) /\ i' = 0
      /\ at' = at /\ lost' = lost /\ undefined' = undefined
  BY DEF DuplicateBegins
<1>2. HashWellFormed(h) /\ Placed(h)
  BY <1>1, HashBetweenCalls
<1>3. /\ HashWellFormed(copy') /\ Placed(copy') /\ copy'.e_match = h.e_match
      /\ \A n \in Bucket : copy'.bucket[n] = NULL
  BY <1>1, <1>2, NewHashWellFormed DEF HashWellFormed
<1>4. at = NULL /\ NoBucket \in Nat /\ i' # NULL
  BY <1>1, HashAssumption DEF IInv, CopyProgress, Idle
<1>5. CopyProgress'
  <2>1. \A n \in Bucket : ~ (n < 0)
    BY <1>4 DEF Bucket
  <2> QED
    BY <1>1, <1>3, <1>4, <2>1 DEF CopyProgress, HasHash
<1> QED
  BY <1>1, <1>2, <1>3, <1>5 DEF IInv, HasHash, CellsFreed

\* What is common to the rounds: the parts of the state they read
LEMMA InLoop ==
    ASSUME IInv, i # NULL
    PROVE  /\ HasHash /\ HashWellFormed(h) /\ HashWellFormed(copy)
           /\ copy.e_match = h.e_match /\ i \in 0 .. NoBucket
           /\ ~ undefined => Placed(h) /\ Placed(copy)
           /\ NoBucket \in Nat
           /\ at # NULL => i \in Bucket
           /\ \A n \in Bucket :
                 IF n < i THEN Copied(h.bucket[n], copy.bucket[n])
                 ELSE n # i \/ at = NULL => copy.bucket[n] = NULL
BY HashAssumption DEF IInv, InCopy, CopyProgress

\* One more round is done: the copy's bucket i has changed to y.
LEMMA RoundIInv ==
    ASSUME IInv, i # NULL, i \in Bucket, UNCHANGED <<h, lost, undefined>>,
           h.bucket[i] # NULL,
           NEW y, BucketWellFormed(y, h.e_match),
           Copying(h.bucket[i], y, at'),
           at' \in h.bucket[i].cells \cup {NULL},
           copy' = InBucket(copy, i, y),
           i' = IF at' = NULL THEN i + 1 ELSE i
    PROVE  IInv'
<1>1. /\ HasHash /\ HashWellFormed(h) /\ HashWellFormed(copy)
      /\ copy.e_match = h.e_match /\ i \in 0 .. NoBucket
      /\ ~ undefined => Placed(h) /\ Placed(copy)
      /\ NoBucket \in Nat
      /\ \A n \in Bucket :
            IF n < i THEN Copied(h.bucket[n], copy.bucket[n])
            ELSE n # i => copy.bucket[n] = NULL
  BY InLoop
<1>2. /\ HashWellFormed(copy') /\ copy'.e_match = h.e_match
      /\ \A n \in Bucket : copy'.bucket[n] = IF n = i THEN y ELSE copy.bucket[n]
  BY <1>1, InBucketWellFormed
<1>3. /\ i \in Nat /\ i < NoBucket /\ i' \in Nat /\ i' # NULL /\ i' \in 0 .. NoBucket
      /\ at' # NULL => i' = i
      /\ at' = NULL => i' = i + 1
  BY <1>1, HashAssumption DEF Bucket
<1>4. h.bucket[i].cells \subseteq Cell
  BY <1>1, ListFields DEF HashWellFormed, BucketWellFormed, WellFormed
<1>5. at' \in Ptr
  BY <1>4 DEF Ptr
<1>6. ~ undefined => Placed(copy')
  <2> SUFFICES ASSUME ~ undefined PROVE Placed(copy')
    OBVIOUS
  <2>1. \A c \in y.cells : y.value[c] \in Value /\ e_hash[y.value[c]] = i
    BY <1>1 DEF Copying, Placed
  <2>2. ASSUME NEW n \in Bucket, copy'.bucket[n] # NULL,
               NEW c \in copy'.bucket[n].cells
        PROVE  /\ copy'.bucket[n].value[c] \in Value
               /\ e_hash[copy'.bucket[n].value[c]] = n
    <3>1. CASE n = i
      BY <1>2, <2>1, <2>2, <3>1
    <3>2. CASE n # i
      <4>1. copy'.bucket[n] = copy.bucket[n]
        BY <1>2, <3>2
      <4>2. Placed(copy)
        BY <1>1
      <4> QED
        BY <2>2, <4>1, <4>2 DEF Placed
    <3> QED
      BY <3>1, <3>2
  <2> QED
    BY <2>2 DEF Placed
<1>7. ASSUME NEW n \in Bucket
      PROVE  IF n < i' THEN Copied(h.bucket[n], copy'.bucket[n])
             ELSE n # i' \/ at' = NULL => copy'.bucket[n] = NULL
  <2>1. n \in Nat
    BY DEF Bucket
  <2>2. CASE n = i
    <3>1. copy'.bucket[n] = y
      BY <1>2, <2>2
    <3>2. CASE at' = NULL
      BY <3>1, <3>2, <2>2, <1>3 DEF Copied
    <3>3. CASE at' # NULL
      BY <3>3, <2>2, <1>3
    <3> QED
      BY <3>2, <3>3
  <2>3. CASE n # i
    <3>1. copy'.bucket[n] = copy.bucket[n]
      BY <1>2, <2>3
    <3>2. n < i' <=> n < i
      BY <1>3, <2>1, <2>3
    <3> QED
      BY <3>1, <3>2, <2>3, <1>1
  <2> QED
    BY <2>2, <2>3
<1>8. at' # NULL => /\ i' \in Bucket
                    /\ Copying(h.bucket[i'], copy'.bucket[i'], at')
                    /\ at' \in h.bucket[i'].cells
  BY <1>2, <1>3
<1>9. CopyProgress'
  BY <1>1, <1>2, <1>3, <1>7, <1>8 DEF CopyProgress, HasHash
<1> QED
  BY <1>1, <1>2, <1>3, <1>5, <1>6, <1>9 DEF IInv, HasHash, CellsFreed

LEMMA DuplicateBucketIInv == IInv /\ DuplicateBucket => IInv'
<1> SUFFICES ASSUME IInv, DuplicateBucket
             PROVE  IInv'
  OBVIOUS
<1>1. /\ i # NULL /\ at = NULL /\ i < NoBucket
      /\ h' = h /\ lost' = lost /\ undefined' = undefined
      /\ i' = IF at' = NULL THEN i + 1 ELSE i
  BY DEF DuplicateBucket
<1>2. /\ HasHash /\ HashWellFormed(h) /\ HashWellFormed(copy)
      /\ copy.e_match = h.e_match /\ i \in 0 .. NoBucket
      /\ ~ undefined => Placed(h) /\ Placed(copy)
      /\ NoBucket \in Nat
      /\ \A n \in Bucket :
            IF n < i THEN Copied(h.bucket[n], copy.bucket[n])
            ELSE copy.bucket[n] = NULL
  BY <1>1, InLoop
<1>3. i \in Bucket
  BY <1>1, <1>2 DEF Bucket
<1>4. CASE h.bucket[i] = NULL
  <2>1. copy' = copy /\ at' = NULL /\ i' = i + 1
    BY <1>1, <1>4 DEF DuplicateBucket
  <2>2. i' \in Nat /\ i' # NULL /\ i' \in 0 .. NoBucket
    BY <1>1, <1>2, <2>1, HashAssumption
  <2>3. ASSUME NEW n \in Bucket
        PROVE  IF n < i' THEN Copied(h.bucket[n], copy.bucket[n])
               ELSE copy.bucket[n] = NULL
    <3>1. n \in Nat
      BY DEF Bucket
    <3>2. CASE n = i
      BY <3>2, <1>2, <1>3, <1>4, <2>1 DEF Copied
    <3>3. CASE n # i
      BY <3>1, <3>3, <1>2, <2>1
    <3> QED
      BY <3>2, <3>3
  <2>4. CopyProgress'
    BY <1>1, <1>2, <2>1, <2>2, <2>3 DEF CopyProgress, HasHash
  <2> QED
    BY <1>1, <1>2, <2>1, <2>2, <2>4 DEF IInv, HasHash, CellsFreed, Ptr
<1>5. CASE h.bucket[i] # NULL
  <2> DEFINE y == NewList(0, h.e_match, NULL)
             x == h.bucket[i]
  <2>1. copy' = InBucket(copy, i, y) /\ at' = x.last
    BY <1>5 DEF DuplicateBucket
  <2>2. BucketWellFormed(y, h.e_match) /\ y.cells = {} /\ y # NULL
    BY <1>2, NewBucket, BucketIsNotNull DEF HashWellFormed, BucketWellFormed
  <2>3. WellFormed(x) /\ x.norecent = 0
    BY <1>2, <1>3, <1>5 DEF HashWellFormed, BucketWellFormed
  <2>4. IsList(x) /\ Chained(x) /\ LastEndsChain(x)
    BY <2>3 DEF WellFormed, REORDER
  <2>5. x.last \in x.cells \cup {NULL} /\ Reach(x.prev, x.last) = x.cells
    BY <2>4, BackFromLast DEF Chained
  <2> HIDE DEF y
  <2>6. Copying(x, y, at')
    BY <1>5, <2>1, <2>2, <2>5 DEF Copying
  <2> QED
    BY <1>1, <1>3, <1>5, <2>1, <2>2, <2>5, <2>6, RoundIInv
<1> QED
  BY <1>4, <1>5

LEMMA DuplicateElementIInv == IInv /\ DuplicateElement => IInv'
<1> SUFFICES ASSUME IInv, DuplicateElement
             PROVE  IInv'
  OBVIOUS
<1> DEFINE x == h.bucket[i]
           z == copy.bucket[i]
           y == Add(z, at, x.value[at])
<1>1. /\ at # NULL /\ at' = x.prev[at]
      /\ h' = h /\ lost' = lost /\ undefined' = undefined
      /\ copy' = InBucket(copy, i, y)
      /\ i' = IF at' = NULL THEN i + 1 ELSE i
  BY DEF DuplicateElement
<1>2. i # NULL /\ i \in Bucket /\ Copying(x, z, at) /\ at \in x.cells
  BY <1>1 DEF IInv, CopyProgress
<1>3. HashWellFormed(h) /\ HashWellFormed(copy) /\ copy.e_match = h.e_match
  BY <1>2, InLoop
<1>4. /\ x # NULL /\ z # NULL /\ z.cells \subseteq x.cells
      /\ \A c \in z.cells : z.value[c] = x.value[c]
      /\ z.cells \cap Reach(x.prev, at) = {}
      /\ z.cells \cup Reach(x.prev, at) = x.cells
  BY <1>2 DEF Copying
<1>5. BucketWellFormed(x, h.e_match) /\ BucketWellFormed(z, h.e_match)
  BY <1>2, <1>3, <1>4 DEF HashWellFormed
<1>6. IsList(x) /\ Chained(x)
  BY <1>5 DEF BucketWellFormed, WellFormed
<1> HIDE DEF x, z
<1>7. /\ at \in Cell /\ x.value[at] \in Datum
      /\ x.prev[at] \in x.cells \cup {NULL}
      /\ x.cells \subseteq Cell
  BY <1>2, <1>6, ListFields, ChainStays
<1>8. Reach(x.prev, at) = {at} \cup Reach(x.prev, x.prev[at])
  BY <1>6, <1>7, ListFields, ReachUnfold
<1>9. at \notin Reach(x.prev, x.prev[at])
  BY <1>2, <1>6, BackIsAcyclic
<1>10. at \in Cell \ z.cells
  BY <1>4, <1>7, <1>8
<1>11. /\ BucketWellFormed(y, h.e_match)
       /\ y.cells = z.cells \cup {at}
       /\ \A c \in Cell : y.value[c] = IF c = at THEN x.value[at] ELSE z.value[c]
  BY <1>5, <1>7, <1>10, AddToBucket
<1>12. y # NULL
  BY <1>11, BucketIsNotNull DEF BucketWellFormed
<1> HIDE DEF y
<1>13. Copying(x, y, at')
  <2>1. y.cells \subseteq x.cells
    BY <1>2, <1>4, <1>11
  <2>2. \A c \in y.cells : y.value[c] = x.value[c]
    BY <1>4, <1>7, <1>11, <2>1
  <2>3. y.cells \cap Reach(x.prev, at') = {}
    BY <1>1, <1>4, <1>8, <1>9, <1>11
  <2>4. y.cells \cup Reach(x.prev, at') = x.cells
    BY <1>1, <1>4, <1>8, <1>11
  <2> QED
    BY <1>4, <1>12, <2>1, <2>2, <2>3, <2>4 DEF Copying
<1> QED
  BY <1>1, <1>2, <1>4, <1>7, <1>11, <1>13, RoundIInv DEF x

LEMMA DuplicateEndsIInv == IInv /\ DuplicateEnds => IInv'
<1> SUFFICES ASSUME IInv, DuplicateEnds
             PROVE  IInv'
  OBVIOUS
<1>1. /\ i # NULL /\ i = NoBucket /\ i' = NULL
      /\ h' = h /\ copy' = copy /\ at' = at /\ lost' = lost
      /\ undefined' = undefined
  BY DEF DuplicateEnds
<1>2. /\ HasHash /\ HashWellFormed(h) /\ HashWellFormed(copy)
      /\ copy.e_match = h.e_match
      /\ ~ undefined => Placed(h) /\ Placed(copy)
      /\ NoBucket \in Nat
      /\ at # NULL => i \in Bucket
      /\ \A n \in Bucket :
            IF n < i THEN Copied(h.bucket[n], copy.bucket[n])
            ELSE n # i \/ at = NULL => copy.bucket[n] = NULL
  BY <1>1, InLoop
<1>3. at = NULL /\ \A n \in Bucket : n < i
  BY <1>1, <1>2 DEF Bucket
<1>4. CopyProgress'
  BY <1>1, <1>2, <1>3 DEF CopyProgress, HasHash
<1> QED
  BY <1>1, <1>2, <1>4 DEF IInv, HasHash, HasCopy, InCopy, CellsFreed

----------------------------------------------------------------------------
LEMMA NextIInv == IInv /\ [Next]_vars => IInv'
<1> SUFFICES ASSUME IInv, [Next]_vars
             PROVE  IInv'
  OBVIOUS
<1>1. ASSUME NEW match \in E_match, Create(match) PROVE IInv'
  BY <1>1, CreateIInv
<1>2. ASSUME NEW v \in Value, AddElement(v) PROVE IInv'
  BY <1>2, AddElementIInv
<1>3. ASSUME NEW v \in Value, AddListFails(v) PROVE IInv'
  BY <1>3, HashGoneIInv, LostIInv DEF AddListFails, IInv, HasHash
<1>4. CASE AddElementFails
  BY <1>4, HashGoneIInv DEF AddElementFails, IInv, CellsFreed
<1>5. CASE AddNull
  BY <1>5, AddNullIInv
<1>6. ASSUME NEW v \in Value, GetElement(v) PROVE IInv'
  BY <1>6, GetElementIInv
<1>7. ASSUME NEW v \in Value, RemoveElement(v) PROVE IInv'
  BY <1>7, RemoveElementIInv
<1>8. CASE Destroy
  BY <1>8, HashGoneIInv, LostIInv DEF Destroy, IInv, HasHash
<1>9. CASE DuplicateBegins
  BY <1>9, DuplicateBeginsIInv
<1>10. CASE DuplicateBucket
  BY <1>10, DuplicateBucketIInv
<1>11. CASE DuplicateElement
  BY <1>11, DuplicateElementIInv
<1>12. CASE DuplicateEnds
  BY <1>12, DuplicateEndsIInv
<1>13. CASE DuplicateBucketFails
  BY <1>13, CopyGoneIInv, LostIInv DEF DuplicateBucketFails, IInv, InCopy
<1>14. CASE DuplicateElementFails
  BY <1>14, CopyGoneIInv DEF DuplicateElementFails, IInv, CellsFreed
<1>15. CASE DestroyCopy
  <2>1. at = NULL
    BY <1>15 DEF DestroyCopy, IInv, CopyProgress
  <2> QED
    BY <1>15, <2>1, CopyGoneIInv, LostIInv DEF DestroyCopy, IInv, InCopy, HasCopy
<1>16. CASE UNCHANGED vars
  BY <1>16 DEF vars, IInv, CellsFreed, HasHash, HasCopy, InCopy, CopyProgress, Placed,
        HashWellFormed, Copied, Copying
<1> QED
  BY <1>1, <1>2, <1>3, <1>4, <1>5, <1>6, <1>7, <1>8, <1>9, <1>10, <1>11, <1>12,
     <1>13, <1>14, <1>15, <1>16 DEF Next

LEMMA Invariant == Spec => []IInv
<1>1. Init => IInv
  BY InitIInv
<1>2. IInv /\ [Next]_vars => IInv'
  BY NextIInv
<1> QED
  BY <1>1, <1>2, PTL DEF Spec

----------------------------------------------------------------------------
\* The state has its types, whatever sequence of calls and failures led to it.
THEOREM TypeCorrect == Spec => []TypeOK
<1>1. IInv => TypeOK
  BY DEF IInv, TypeOK, HashWellFormed, BucketWellFormed, WellFormed, IsHash,
         IsBucketList, InCopy
<1> QED
  BY <1>1, Invariant, PTL

\* The buckets of hash and duplicate are always whole chains (hash.c 373, 401, 433).
THEOREM BucketsAlwaysSound == Spec => []BucketsSound
<1>1. ASSUME NEW x, HashWellFormed(x) PROVE Sound(x)
  BY <1>1 DEF HashWellFormed, BucketWellFormed, WellFormed, Sound, REORDER
<1>2. IInv => BucketsSound
  BY <1>1 DEF IInv, BucketsSound, InCopy
<1> QED
  BY <1>2, Invariant, PTL

\* Every element is always where its hash says (hash.c 306, 373, 433).
THEOREM ElementsAlwaysPlaced == Spec => []ElementsPlaced
<1>1. IInv => ElementsPlaced
  BY DEF IInv, ElementsPlaced, InCopy
<1> QED
  BY <1>1, Invariant, PTL

\* A lookup finds an element exactly when one matches, in any bucket, for every
\* hash function that is consistent with the comparison (hash.c 337-341).
THEOREM LookupAlwaysFinds == Spec => []LookupFinds
<1>1. ASSUME IInv, HasHash, ~ undefined, Consistent(h.e_match), NEW v \in Value
      PROVE  HashFound(h, v) = NULL <=>
                ~ \E n \in Bucket :
                     /\ h.bucket[n] # NULL
                     /\ \E c \in h.bucket[n].cells :
                           Matches(h.bucket[n], h.bucket[n].value[c], v)
  <2> DEFINE m == e_hash[v]
  <2>1. HashWellFormed(h) /\ Placed(h)
    BY <1>1 DEF IInv
  <2>2. m \in Bucket /\ v # NULL
    BY HashAssumption
  <2>3. ASSUME NEW n \in Bucket, h.bucket[n] # NULL, NEW c \in h.bucket[n].cells,
               Matches(h.bucket[n], h.bucket[n].value[c], v)
        PROVE  n = m
    <3>1. h.bucket[n].e_match = h.e_match
      BY <2>1, <2>3 DEF HashWellFormed, BucketWellFormed
    <3>2. h.bucket[n].value[c] \in Value /\ e_hash[h.bucket[n].value[c]] = n
      BY <2>1, <2>3 DEF Placed
    <3> QED
      BY <1>1, <2>3, <3>1, <3>2 DEF Consistent, Matches
  <2>4. CASE h.bucket[m] = NULL
    BY <2>3, <2>4 DEF HashFound
  <2>5. CASE h.bucket[m] # NULL
    <3>1. WellFormed(h.bucket[m])
      BY <2>1, <2>2, <2>5 DEF HashWellFormed, BucketWellFormed
    <3>2. LookupExact(h.bucket[m], v)
      BY <2>2, <3>1, LookupIsExact
    <3>3. HashFound(h, v) = Found(h.bucket[m], v)
      BY <2>5 DEF HashFound
    <3> QED
      BY <2>2, <2>3, <2>5, <3>2, <3>3 DEF LookupExact
  <2> QED
    BY <2>4, <2>5
<1>2. IInv => LookupFinds
  BY <1>1 DEF LookupFinds
<1> QED
  BY <1>2, Invariant, PTL

\* A duplicate always has every element of the hash in its bucket, and no other
\* (hash.c 428-439).
THEOREM CopyAlwaysComplete == Spec => []CopyComplete
<1>1. ASSUME NEW x, NEW y, Copied(x, y)
      PROVE  IF x = NULL THEN y = NULL
             ELSE /\ y # NULL
                  /\ y.cells = x.cells
                  /\ \A c \in x.cells : y.value[c] = x.value[c]
  BY <1>1, ReachNull DEF Copied, Copying
<1>2. IInv => CopyComplete
  BY <1>1 DEF IInv, CopyComplete, CopyProgress, InCopy
<1> QED
  BY <1>2, Invariant, PTL

\* As long as the program has done nothing undefined, with an e_destroy no cell of
\* any bucket is ever lost, also when a hash is destroyed because a new list found
\* no memory, and a duplicate that is filled only in part (hash.c 144-148, 367-370,
\* 434-438).  Not covered: after NULL was added or an element found no memory,
\* cells may be lost.
THEOREM CellsAlwaysFreed == Spec => []CellsFreed
<1>1. IInv => CellsFreed
  BY DEF IInv
<1> QED
  BY <1>1, Invariant, PTL

----------------------------------------------------------------------------
\* What a hash shows is what walks along its chains show.

\* malloc has a finite number of cells to give.
FiniteMemory == IsFiniteSet(Cell)

\* A list of values for each bucket that has one, of which the last text is not empty
LEMMA BucketsShown ==
    ASSUME FiniteMemory, IInv, HasHash,
           \A n \in 1 .. NoBucket : Buckets[n] # NULL => LastLength(Buckets[n]) # 0
    PROVE  Buckets \in Seq(ShownBucket(Datum))
<1>1. ASSUME NEW n \in 1 .. NoBucket PROVE Buckets[n] \in ShownBucket(Datum)
  <2> DEFINE x == h.bucket[n - 1]
  <2>1. n - 1 \in Bucket /\ Buckets[n] = IF x = NULL THEN NULL ELSE Contents(x)
    BY HashAssumption DEF Bucket, Buckets
  <2>2. x # NULL => Contents(x) \in Seq(Datum)
    <3> HAVE x # NULL
    <3>1. IsList(x) /\ Chained(x) /\ LastEndsChain(x)
      BY <2>1 DEF IInv, HasHash, HashWellFormed, BucketWellFormed, WellFormed, REORDER
    <3>2. IsFiniteSet(x.cells)
      <4>1. x.cells \subseteq Cell
        BY <3>1, ListFields
      <4> QED
        BY <4>1, FS_Subset DEF FiniteMemory
    <3>3. Walkable(x)
      BY <3>1, <3>2, WalkExists
    <3> QED
      BY <3>1, <3>3, ListContents DEF Walkable
  <2> QED
    BY <2>1, <2>2 DEF ShownBucket
<1>2. NoBucket \in Nat /\ DOMAIN Buckets = 1 .. NoBucket
  BY HashAssumption DEF Buckets
<1>3. Buckets \in [1 .. NoBucket -> ShownBucket(Datum)]
  BY <1>1 DEF Buckets
<1> QED
  BY <1>2, <1>3, FunctionIsSeq

\* As long as vanessa_list_display keeps to its buffers and no list is empty, a hash is
\* shown with all of its values, in the buffer that vanessa_hash_length asks for, with
\* the delimiter between the values of a bucket and a comma between two buckets
\* (hash.c 170-255).
THEOREM DisplayAlwaysExact ==
    ASSUME FiniteMemory
    PROVE  Spec => []DisplayExact
<1>1. IInv => DisplayExact
  <2> SUFFICES ASSUME IInv, HasHash, NULL \notin {e_length, e_display},
                      AllValues(Buckets) # <<>>,
                      \A n \in 1 .. NoBucket :
                          Buckets[n] # NULL => LastLength(Buckets[n]) # 0
               PROVE  /\ ShowsBuckets(HashDisplay(Buckets), Buckets)
                      /\ Len(HashDisplay(Buckets)) = HashLength(Buckets)
    BY DEF DisplayExact, Lives, HasHash
  <2>1. Displayable(Datum)
    BY HashAssumption DEF Displayable, Datum
  <2> QED
    BY <2>1, BucketsShown, HashShown
<1> QED
  BY <1>1, Invariant, PTL

----------------------------------------------------------------------------
\* The hash implements its documentation: a bag.

\* Neither a hash nor a bag is mistaken for NULL.
NullIsNone == ~ IsHash(NULL) /\ NULL \notin [Value -> Nat]

LEMMA HashIsNotNull ==
    ASSUME NullIsNone, NEW x, HashWellFormed(x)
    PROVE  x # NULL
BY DEF NullIsNone, HashWellFormed, BucketWellFormed, WellFormed, IsHash, IsBucketList

LEMMA CellsOfFinite ==
    ASSUME FiniteMemory, NEW x, NEW v
    PROVE  /\ IsFiniteSet(CellsOf(x, v))
           /\ Cardinality(CellsOf(x, v)) \in Nat
<1>1. IsFiniteSet(Bucket)
  BY FS_Interval, HashAssumption DEF Bucket
<1>2. IsFiniteSet(Bucket \X Cell)
  BY <1>1, FS_Product DEF FiniteMemory
<1>3. CellsOf(x, v) \in SUBSET (Bucket \X Cell)
  BY DEF CellsOf
<1>4. IsFiniteSet(CellsOf(x, v))
  BY <1>2, <1>3, FS_Subset
<1> QED
  BY <1>4, FS_CardinalityType

\* Buckets that hold the same hold the same cells of each value.
LEMMA SameBucketsSameCells ==
    ASSUME NEW x, NEW y, \A n \in Bucket : y.bucket[n] = x.bucket[n], NEW v
    PROVE  CellsOf(y, v) = CellsOf(x, v)
BY DEF CellsOf

\* One bucket gains a cell.
LEMMA AddedCell ==
    ASSUME NEW x, HashWellFormed(x), NEW n \in Bucket, NEW v \in Value,
           NEW e \in Cell \ ListFor(x, n).cells, NEW w
    PROVE  LET y == InBucket(x, n, Add(ListFor(x, n), e, v))
           IN  /\ HashWellFormed(y) /\ y.e_match = x.e_match
               /\ w = v => /\ CellsOf(y, w) = CellsOf(x, w) \cup {<<n, e>>}
                           /\ <<n, e>> \notin CellsOf(x, w)
               /\ w # v => CellsOf(y, w) = CellsOf(x, w)
<1> DEFINE old == ListFor(x, n)
           new == Add(old, e, v)
           y == InBucket(x, n, new)
<1>1. /\ BucketWellFormed(old, x.e_match)
      /\ x.bucket[n] = NULL => old.cells = {}
      /\ x.bucket[n] # NULL => old = x.bucket[n]
  BY ListForWellFormed
<1> HIDE DEF old
<1>2. /\ BucketWellFormed(new, x.e_match)
      /\ new.cells = old.cells \cup {e}
      /\ \A c \in Cell : new.value[c] = IF c = e THEN v ELSE old.value[c]
  BY <1>1, AddToBucket DEF Datum, old
<1>3. new # NULL /\ e \in Cell /\ e \notin old.cells
  BY <1>2, BucketIsNotNull DEF BucketWellFormed, old
<1> HIDE DEF new
<1>4. /\ HashWellFormed(y) /\ y.e_match = x.e_match
      /\ \A m \in Bucket : y.bucket[m] = IF m = n THEN new ELSE x.bucket[m]
  BY <1>2, InBucketWellFormed
<1> HIDE DEF y
<1>5. ASSUME NEW m \in Bucket, NEW c \in Cell, m # n \/ c # e
      PROVE  <<m, c>> \in CellsOf(y, w) <=> <<m, c>> \in CellsOf(x, w)
  <2>1. CASE m # n
    BY <2>1, <1>4 DEF CellsOf
  <2>2. CASE m = n
    <3>1. c \in new.cells <=> c \in old.cells
      BY <1>2, <1>5, <2>2
    <3>2. new.value[c] = old.value[c]
      BY <1>2, <1>5, <2>2
    <3>3. <<m, c>> \in CellsOf(y, w) <=> c \in old.cells /\ old.value[c] = w
      BY <1>3, <1>4, <2>2, <3>1, <3>2 DEF CellsOf
    <3>4. <<m, c>> \in CellsOf(x, w) <=> c \in old.cells /\ old.value[c] = w
      BY <1>1, <2>2 DEF CellsOf
    <3> QED
      BY <3>3, <3>4
  <2> QED
    BY <2>1, <2>2
<1>6. <<n, e>> \notin CellsOf(x, w)
  BY <1>1, <1>3 DEF CellsOf
<1>7. <<n, e>> \in CellsOf(y, w) <=> w = v
  BY <1>2, <1>3, <1>4 DEF CellsOf
<1>8. /\ \A p \in CellsOf(x, w) : \E m \in Bucket, c \in Cell : p = <<m, c>>
      /\ \A p \in CellsOf(y, w) : \E m \in Bucket, c \in Cell : p = <<m, c>>
  BY DEF CellsOf
<1>9. CASE w = v
  <2>1. CellsOf(y, w) = CellsOf(x, w) \cup {<<n, e>>}
    BY <1>3, <1>5, <1>7, <1>8, <1>9
  <2> QED
    BY <2>1, <1>4, <1>6, <1>9 DEF y, new, old
<1>10. CASE w # v
  <2>1. CellsOf(y, w) = CellsOf(x, w)
    BY <1>3, <1>5, <1>6, <1>7, <1>8, <1>10
  <2> QED
    BY <2>1, <1>4, <1>10 DEF y, new, old
<1> QED
  BY <1>9, <1>10

\* One bucket loses the cell of a value that matches, or no list changes.
LEMMA RemovedCell ==
    ASSUME NEW x, HashWellFormed(x), NEW n \in Bucket, x.bucket[n] # NULL,
           NEW k, Found(x.bucket[n], k) # NULL
    PROVE  LET y == InBucket(x, n, Remove(x.bucket[n], k))
               e == Found(x.bucket[n], k)
               v == x.bucket[n].value[e]
           IN  /\ HashWellFormed(y) /\ y.e_match = x.e_match
               /\ e \in x.bucket[n].cells
               /\ Matches(x.bucket[n], v, k)
               /\ \A w : IF w = v
                           THEN /\ CellsOf(y, w) = CellsOf(x, w) \ {<<n, e>>}
                                /\ <<n, e>> \in CellsOf(x, w)
                           ELSE CellsOf(y, w) = CellsOf(x, w)
<1> DEFINE old == x.bucket[n]
           new == Remove(old, k)
           e == Found(old, k)
           v == old.value[e]
           y == InBucket(x, n, new)
<1>1. BucketWellFormed(old, x.e_match)
  BY DEF HashWellFormed
<1>2. WellFormed(old) /\ IsList(old) /\ old.cells \in SUBSET Cell
  BY <1>1, ListFields DEF BucketWellFormed, WellFormed
<1>3. e \in old.cells /\ e \in Cell /\ Matches(old, v, k)
  BY <1>2, FoundType
<1>4. BucketWellFormed(new, x.e_match)
  BY <1>1, RemoveFromBucket
<1>5. Get(old, k) = old
  BY <1>1, GetFromBucket
<1>6. /\ new.cells = old.cells \ {e}
      /\ \A c \in Cell : new.value[c] = IF c = e THEN NULL ELSE old.value[c]
  BY <1>2, <1>5, UnlinkFields DEF Remove
<1>7. new # NULL
  BY <1>4, BucketIsNotNull DEF BucketWellFormed
<1>8. /\ HashWellFormed(y) /\ y.e_match = x.e_match
      /\ \A m \in Bucket : y.bucket[m] = IF m = n THEN new ELSE x.bucket[m]
  BY <1>4, InBucketWellFormed
<1> HIDE DEF old, new, e, v, y
<1>9. ASSUME NEW w
      PROVE  IF w = v THEN /\ CellsOf(y, w) = CellsOf(x, w) \ {<<n, e>>}
                           /\ <<n, e>> \in CellsOf(x, w)
                      ELSE CellsOf(y, w) = CellsOf(x, w)
  <2>1. ASSUME NEW m \in Bucket, NEW c \in Cell, m # n \/ c # e
        PROVE  <<m, c>> \in CellsOf(y, w) <=> <<m, c>> \in CellsOf(x, w)
    <3>1. CASE m # n
      BY <3>1, <1>8 DEF CellsOf
    <3>2. CASE m = n
      <4>1. /\ c \in new.cells <=> c \in old.cells
            /\ new.value[c] = old.value[c]
        BY <1>6, <2>1, <3>2
      <4>2. <<m, c>> \in CellsOf(y, w) <=> c \in old.cells /\ old.value[c] = w
        BY <1>7, <1>8, <3>2, <4>1 DEF CellsOf
      <4>3. <<m, c>> \in CellsOf(x, w) <=> c \in old.cells /\ old.value[c] = w
        BY <3>2 DEF CellsOf, old
      <4> QED
        BY <4>2, <4>3
    <3> QED
      BY <3>1, <3>2
  <2>2. <<n, e>> \notin CellsOf(y, w)
    BY <1>6, <1>8 DEF CellsOf
  <2>3. <<n, e>> \in CellsOf(x, w) <=> w = v
    BY <1>3 DEF CellsOf, v, old
  <2>4. /\ \A p \in CellsOf(x, w) : \E m \in Bucket, c \in Cell : p = <<m, c>>
        /\ \A p \in CellsOf(y, w) : \E m \in Bucket, c \in Cell : p = <<m, c>>
    BY DEF CellsOf
  <2>5. CASE w = v
    <3>1. ASSUME NEW m \in Bucket, NEW c \in Cell
          PROVE  <<m, c>> \in CellsOf(y, w) <=>
                 <<m, c>> \in CellsOf(x, w) /\ <<m, c>> # <<n, e>>
      BY <2>1, <2>2
    <3>2. CellsOf(y, w) = CellsOf(x, w) \ {<<n, e>>}
      BY <2>4, <3>1
    <3> QED
      BY <3>2, <2>3, <2>5
  <2>6. CASE w # v
    <3>1. ASSUME NEW m \in Bucket, NEW c \in Cell
          PROVE  <<m, c>> \in CellsOf(y, w) <=> <<m, c>> \in CellsOf(x, w)
      BY <2>1, <2>2, <2>3, <2>6
    <3>2. CellsOf(y, w) = CellsOf(x, w)
      BY <2>4, <3>1
    <3> QED
      BY <3>2, <2>6
  <2> QED
    BY <2>5, <2>6
<1> QED
  BY <1>3, <1>8, <1>9 DEF y, new, e, v, old

LEMMA NextImplements ==
    ASSUME FiniteMemory, NullIsNone
    PROVE  IInv /\ [Next]_vars => [Actual!Next]_(Actual!doc_vars)
<1> SUFFICES ASSUME IInv, [Next]_vars
             PROVE  [Actual!Next]_(Actual!doc_vars)
  OBVIOUS
<1> DEFINE bag(x) == [v \in Value |-> Cardinality(CellsOf(x, v))]
<1>1. /\ Lives => HeldOrNull = bag(h) /\ MatchOrNull = h.e_match
      /\ ~ Lives => HeldOrNull = NULL /\ MatchOrNull = NULL
      /\ Lives' => HeldOrNull' = bag(h') /\ MatchOrNull' = h'.e_match
      /\ ~ Lives' => HeldOrNull' = NULL /\ MatchOrNull' = NULL
  BY DEF HeldOrNull, MatchOrNull
<1>2. \A x : bag(x) \in [Value -> Nat] /\ bag(x) # NULL
  BY CellsOfFinite DEF NullIsNone
<1>3. \A x, v : v \in Value => bag(x)[v] = Cardinality(CellsOf(x, v))
  OBVIOUS
<1>4. ASSUME NEW x, NEW y, \A v \in Value : CellsOf(y, v) = CellsOf(x, v)
      PROVE  bag(y) = bag(x)
  BY <1>4
<1> HIDE DEF bag
<1>5. ASSUME Lives, ~ Lives'
      PROVE  /\ undefined' = undefined => Actual!Destroy
             /\ undefined' = TRUE => Actual!Break
  BY <1>1, <1>2, <1>5 DEF Actual!Destroy, Actual!Break, Lives
<1>6. ASSUME ~ Lives, ~ Lives', undefined' = undefined
      PROVE  UNCHANGED <<HeldOrNull, MatchOrNull, undefined>>
  BY <1>1, <1>6
<1>7. ASSUME h' = h, undefined' = undefined
      PROVE  UNCHANGED <<HeldOrNull, MatchOrNull, undefined>>
  BY <1>7 DEF HeldOrNull, MatchOrNull, Lives
<1>8. ASSUME Idle, h # NULL, undefined' = undefined, h' # NULL,
             bag(h') = bag(h), h'.e_match = h.e_match
      PROVE  UNCHANGED <<HeldOrNull, MatchOrNull, undefined>>
  BY <1>1, <1>8 DEF Lives, Idle
<1>9. ASSUME NEW match \in E_match, Create(match)
      PROVE  Actual!Create
  <2>1. /\ ~ Lives /\ ~ undefined /\ h' = NewHash(match)
        /\ undefined' = undefined
    BY <1>9 DEF Create, Lives, Idle
  <2>2. /\ HashWellFormed(h') /\ h'.e_match = match
        /\ \A n \in Bucket : h'.bucket[n] = NULL
    BY <2>1, NewHashWellFormed
  <2>3. Lives'
    BY <2>1, <2>2, HashIsNotNull DEF Lives
  <2>4. \A v \in Value : CellsOf(h', v) = {}
    BY <2>2 DEF CellsOf
  <2>5. bag(h') = [v \in Value |-> 0]
    BY <2>4, FS_EmptySet DEF bag
  <2> QED
    BY <1>1, <2>1, <2>2, <2>3, <2>5 DEF Actual!Create
<1>10. ASSUME NEW v \in Value, AddElement(v)
       PROVE  Actual!AddElement(v)
  <2> DEFINE n == e_hash[v]
  <2>1. /\ h # NULL /\ Idle /\ HashWellFormed(h) /\ n \in Bucket
        /\ undefined' = undefined
    BY <1>10, HashBetweenCalls, HashAssumption DEF AddElement
  <2>2. PICK e \in Cell \ ListFor(h, n).cells :
              h' = InBucket(h, n, Add(ListFor(h, n), e, v))
    BY <1>10 DEF AddElement
  <2> HIDE DEF n
  <2>3. /\ HashWellFormed(h') /\ h'.e_match = h.e_match
        /\ \A w : /\ w = v => /\ CellsOf(h', w) = CellsOf(h, w) \cup {<<n, e>>}
                              /\ <<n, e>> \notin CellsOf(h, w)
                  /\ w # v => CellsOf(h', w) = CellsOf(h, w)
    BY <2>1, <2>2, AddedCell
  <2>4. h' # NULL
    BY <2>3, HashIsNotNull
  <2>5. bag(h')[v] = bag(h)[v] + 1
    BY <1>3, <2>3, CellsOfFinite, FS_AddElement
  <2>6. \A w \in Value \ {v} : bag(h')[w] = bag(h)[w]
    BY <1>3, <2>3
  <2>7. bag(h') = [bag(h) EXCEPT ![v] = @ + 1]
    BY <1>2, <2>5, <2>6
  <2>8. Lives /\ Lives'
    BY <2>1, <2>4 DEF Lives, Idle
  <2> QED
    BY <1>1, <1>2, <2>1, <2>3, <2>7, <2>8 DEF Actual!AddElement
<1>11. ASSUME NEW k \in Value, GetElement(k)
       PROVE  UNCHANGED <<HeldOrNull, MatchOrNull, undefined>>
  <2> DEFINE n == e_hash[k]
  <2>1. /\ h # NULL /\ Idle /\ HashWellFormed(h) /\ n \in Bucket
        /\ undefined' = undefined
    BY <1>11, HashBetweenCalls, HashAssumption DEF GetElement
  <2>2. CASE h.bucket[n] = NULL
    BY <1>7, <1>11, <2>1, <2>2 DEF GetElement
  <2>3. CASE h.bucket[n] # NULL
    <3>1. BucketWellFormed(h.bucket[n], h.e_match)
      BY <2>1, <2>3 DEF HashWellFormed
    <3>2. h' = InBucket(h, n, h.bucket[n])
      BY <1>11, <2>3, <3>1, GetFromBucket DEF GetElement
    <3>3. /\ h'.e_match = h.e_match /\ HashWellFormed(h')
          /\ \A m \in Bucket : h'.bucket[m] = h.bucket[m]
      BY <2>1, <3>1, <3>2, InBucketWellFormed
    <3>4. bag(h') = bag(h)
      BY <1>4, <3>3, SameBucketsSameCells
    <3>5. h' # NULL
      BY <3>3, HashIsNotNull
    <3> QED
      BY <1>8, <2>1, <3>3, <3>4, <3>5
  <2> QED
    BY <2>2, <2>3
<1>12. ASSUME NEW k \in Value, RemoveElement(k)
       PROVE  \/ Actual!RemoveElement(k)
              \/ UNCHANGED <<HeldOrNull, MatchOrNull, undefined>>
  <2> DEFINE n == e_hash[k]
  <2>1. /\ h # NULL /\ Idle /\ HashWellFormed(h) /\ Placed(h) /\ n \in Bucket
        /\ undefined' = undefined
    BY <1>12, HashBetweenCalls, HashAssumption DEF RemoveElement
  <2>2. CASE h.bucket[n] = NULL
    BY <1>7, <1>12, <2>1, <2>2 DEF RemoveElement
  <2>3. CASE h.bucket[n] # NULL /\ Found(h.bucket[n], k) = NULL
    <3>1. BucketWellFormed(h.bucket[n], h.e_match)
      BY <2>1, <2>3 DEF HashWellFormed
    <3>2. h' = InBucket(h, n, h.bucket[n])
      BY <1>12, <2>3, <3>1, GetFromBucket DEF RemoveElement, Remove
    <3>3. /\ h'.e_match = h.e_match /\ HashWellFormed(h')
          /\ \A m \in Bucket : h'.bucket[m] = h.bucket[m]
      BY <2>1, <3>1, <3>2, InBucketWellFormed
    <3>4. bag(h') = bag(h)
      BY <1>4, <3>3, SameBucketsSameCells
    <3>5. h' # NULL
      BY <3>3, HashIsNotNull
    <3> QED
      BY <1>8, <2>1, <3>3, <3>4, <3>5
  <2>4. CASE h.bucket[n] # NULL /\ Found(h.bucket[n], k) # NULL
    <3> DEFINE e == Found(h.bucket[n], k)
               v == h.bucket[n].value[e]
    <3>1. h' = InBucket(h, n, Remove(h.bucket[n], k))
      BY <1>12, <2>4 DEF RemoveElement
    <3> HIDE DEF n
    <3>2. /\ HashWellFormed(h') /\ h'.e_match = h.e_match
          /\ e \in h.bucket[n].cells
          /\ Matches(h.bucket[n], v, k)
          /\ \A w : IF w = v
                      THEN /\ CellsOf(h', w) = CellsOf(h, w) \ {<<n, e>>}
                           /\ <<n, e>> \in CellsOf(h, w)
                      ELSE CellsOf(h', w) = CellsOf(h, w)
      BY <2>1, <2>4, <3>1, RemovedCell
    <3>3. v \in Value
      BY <2>1, <2>4, <3>2 DEF Placed
    <3> HIDE DEF e, v
    <3>4. /\ CellsOf(h', v) = CellsOf(h, v) \ {<<n, e>>}
          /\ <<n, e>> \in CellsOf(h, v)
          /\ IsFiniteSet(CellsOf(h, v))
          /\ Cardinality(CellsOf(h, v)) \in Nat
      BY <3>2, CellsOfFinite
    <3>5. /\ Cardinality(CellsOf(h', v)) = Cardinality(CellsOf(h, v)) - 1
          /\ Cardinality(CellsOf(h, v)) > 0
      <4>1. CellsOf(h, v) # {}
        BY <3>4
      <4>2. Cardinality(CellsOf(h, v)) # 0
        BY <3>4, <4>1, FS_EmptySet
      <4>3. Cardinality(CellsOf(h', v)) = Cardinality(CellsOf(h, v)) - 1
        BY <3>4, FS_RemoveElement
      <4> QED
        BY <3>4, <4>2, <4>3
    <3>6. bag(h')[v] = bag(h)[v] - 1 /\ bag(h)[v] > 0
      BY <1>3, <3>3, <3>5
    <3>7. \A w \in Value \ {v} : bag(h')[w] = bag(h)[w]
      BY <1>3, <3>2
    <3>8. bag(h') = [bag(h) EXCEPT ![v] = @ - 1]
      BY <1>2, <3>6, <3>7
    <3>9. Lives /\ Lives'
      BY <2>1, <3>2, HashIsNotNull DEF Lives, Idle
    <3>10. Actual!Matching(v, k)
      <4>1. h.bucket[n].e_match = h.e_match
        BY <2>1, <2>4 DEF HashWellFormed, BucketWellFormed
      <4>2. MatchOrNull = h.e_match
        BY <1>1, <3>9
      <4> QED
        BY <3>2, <4>1, <4>2, Zenon DEF Actual!Matching, Matches
    <3> QED
      BY <1>1, <1>2, <2>1, <3>2, <3>3, <3>6, <3>8, <3>9, <3>10
         DEF Actual!RemoveElement
  <2> QED
    BY <2>2, <2>3, <2>4
<1>13. ASSUME \/ \E v \in Value : AddListFails(v)
              \/ AddElementFails
              \/ AddNull
              \/ Destroy
       PROVE  Actual!Destroy \/ Actual!Break
  <2>1. /\ h # NULL /\ ~ undefined
        /\ \/ h' = NULL /\ undefined' = undefined
           \/ undefined' = TRUE
    BY <1>13 DEF AddListFails, AddElementFails, AddNull, Destroy, Idle
  <2> QED
    BY <1>5, <2>1 DEF Lives
<1>14. ASSUME \/ DuplicateBegins
              \/ DuplicateBucket
              \/ DuplicateElement
              \/ DuplicateEnds
              \/ DuplicateBucketFails
              \/ DestroyCopy
              \/ UNCHANGED vars
       PROVE  UNCHANGED <<HeldOrNull, MatchOrNull, undefined>>
  BY <1>7, <1>14 DEF DuplicateBegins, DuplicateBucket, DuplicateElement,
       DuplicateEnds, DuplicateBucketFails, DestroyCopy, vars
<1>15. ASSUME DuplicateElementFails
       PROVE  \/ Actual!Break
              \/ UNCHANGED <<HeldOrNull, MatchOrNull, undefined>>
  <2>1. h' = h /\ undefined' = TRUE
    BY <1>15 DEF DuplicateElementFails
  <2>2. CASE Lives
    BY <1>5, <2>1, <2>2 DEF Lives
  <2>3. CASE undefined
    BY <1>6, <2>1, <2>3 DEF Lives, IInv
  <2>4. HasHash /\ h # NULL
    <3>1. HasHash
      BY <1>15 DEF DuplicateElementFails, IInv, CopyProgress, InCopy
    <3> QED
      BY <3>1 DEF HasHash
  <2> QED
    BY <2>2, <2>3, <2>4 DEF Lives
<1> QED
  BY <1>9, <1>10, <1>11, <1>12, <1>13, <1>14, <1>15 DEF Next, Actual!Next, Actual!doc_vars

\* Every behaviour of a hash is one of a bag of values, over all buckets, as it is
\* documented, but for two cases after which nothing is said of the hash at all:
\* NULL was added, where hash.c 354 says that the hash is unchanged, or an element
\* found no memory, in a call or in a duplication (hash.c 357-439).
THEOREM ImplementsDocumentation ==
    ASSUME FiniteMemory, NullIsNone
    PROVE  Spec => ActualSpec
<1>1. Init => Actual!Init
  BY DEF Init, Actual!Init, HeldOrNull, MatchOrNull, Lives
<1>2. IInv /\ [Next]_vars => [Actual!Next]_(Actual!doc_vars)
  BY NextImplements
<1> QED
  BY <1>1, <1>2, Invariant, PTL DEF Spec, ActualSpec, Actual!Spec
=============================================================================
