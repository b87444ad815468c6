------------------------- MODULE DynamicArrayProofs -------------------------
(***************************************************************************)
(* Theorems about DynamicArray, for every block size, every number of      *)
(* elements and every SSIZE_MAX, when callers only delete elements there   *)
(* are; and about Split, which fills such an array, for every set of       *)
(* texts.                                                                  *)
(***************************************************************************)
EXTENDS Split, SharedProofs

WellFormed(x) ==
    /\ IsArray(x)
    /\ SizesAgree(x)
    /\ SlackBounded(x)
    /\ Owned(x)

LEMMA ArrayFields ==
    ASSUME NEW x, IsArray(x)
    PROVE  /\ x.vector \in [0 .. x.allocated_size - 1 -> Slot]
           /\ x.count \in Nat /\ x.allocated_size \in Nat
           /\ x.block_size \in Nat \ {0}
           /\ x.held \in SUBSET Elem
BY DEF IsArray, ArrayOf

LEMMA NewArrayWellFormed ==
    ASSUME NEW block \in Nat
    PROVE  LET x == NewArray(block)
           IN  /\ WellFormed(x)
               /\ x.count = 0 /\ x.held = {}
<1> DEFINE x == NewArray(block)
<1>1. IsArray(x)
  BY DEF NewArray, IsArray, ArrayOf, VANESSA_DEFAULT_DYNAMIC_ARRAY_BLOCK_SIZE
<1>2. x.count = 0 /\ x.held = {} /\ x.allocated_size = 0
  BY DEF NewArray
<1> HIDE DEF x
<1>3. SizesAgree(x)
  BY <1>1, <1>2, ArrayFields DEF SizesAgree
<1>4. SlackBounded(x)
  BY <1>1, <1>2, ArrayFields DEF SlackBounded
<1>5. Owned(x)
  BY <1>2 DEF Owned, Used
<1> QED
  BY <1>1, <1>2, <1>3, <1>4, <1>5 DEF WellFormed, x

\* Making room keeps the elements and leaves a free slot.
LEMMA GrownWellFormed ==
    ASSUME NEW x, WellFormed(x)
    PROVE  LET y == Grown(x)
           IN  /\ WellFormed(y)
               /\ y.count = x.count /\ y.held = x.held
               /\ y.count < y.allocated_size
               /\ \A s \in Used(x) : y.vector[s] = x.vector[s]
<1>1. /\ IsArray(x)
      /\ x.count \in Nat /\ x.allocated_size \in Nat /\ x.block_size \in Nat \ {0}
      /\ x.vector \in [0 .. x.allocated_size - 1 -> Slot]
      /\ x.count <= x.allocated_size
  BY ArrayFields DEF WellFormed, SizesAgree
<1>2. CASE ~MustGrow(x)
  BY <1>1, <1>2 DEF Grown, MustGrow
<1>3. CASE MustGrow(x)
  <2> DEFINE n == x.allocated_size + x.block_size
             v == [s \in 0 .. n - 1 |->
                      IF s < x.allocated_size THEN x.vector[s] ELSE GARBAGE]
             y == Grown(x)
  <2>1. y = [x EXCEPT !.allocated_size = n, !.vector = v]
    BY <1>3 DEF Grown, Resized
  <2>2. v \in [0 .. n - 1 -> Slot] /\ n \in Nat
    BY <1>1 DEF Slot
  <2>3. \A s \in Used(x) : v[s] = x.vector[s]
    BY <1>1 DEF Used
  <2>4. x.count = x.allocated_size
    BY <1>3 DEF MustGrow
  <2> HIDE DEF n, v, y
  <2>5. /\ IsArray(y)
        /\ y.count = x.count /\ y.held = x.held /\ y.block_size = x.block_size
        /\ y.allocated_size = n /\ y.vector = v
    BY <1>1, <2>1, <2>2 DEF IsArray, ArrayOf
  <2>6. SizesAgree(y)
    <3>1. PICK k \in 0 .. x.allocated_size : x.allocated_size = k * x.block_size
      BY DEF WellFormed, SizesAgree
    <3>2. k + 1 \in 0 .. n /\ n = (k + 1) * x.block_size
      BY <1>1, <3>1 DEF n
    <3> QED
      BY <1>1, <2>4, <2>5, <3>2 DEF SizesAgree, n
  <2>7. SlackBounded(y)
    BY <1>1, <2>4, <2>5 DEF SlackBounded, n
  <2>8. Owned(y)
    BY <2>3, <2>5 DEF Owned, Used, WellFormed
  <2> QED
    BY <1>1, <2>3, <2>4, <2>5, <2>6, <2>7, <2>8 DEF WellFormed, n, y
<1> QED
  BY <1>2, <1>3

\* Storing a new element, or NULL, in a free slot
LEMMA StoredWellFormed ==
    ASSUME NEW x, WellFormed(x), x.count < x.allocated_size,
           NEW e \in Elem \cup {NULL}, e \notin x.held
    PROVE  LET y == Stored(x, e)
           IN  /\ WellFormed(y)
               /\ y.count = x.count + 1
               /\ y.held = x.held \cup ({e} \ {NULL})
               /\ y.vector[x.count] = e
               /\ \A s \in Used(x) : y.vector[s] = x.vector[s]
<1> DEFINE v == [s \in 0 .. x.allocated_size - 1 |->
                    IF s = x.count THEN e ELSE x.vector[s]]
           y == Stored(x, e)
<1>1. /\ IsArray(x)
      /\ x.count \in Nat /\ x.allocated_size \in Nat /\ x.block_size \in Nat \ {0}
      /\ x.vector \in [0 .. x.allocated_size - 1 -> Slot]
      /\ x.held \in SUBSET Elem
  BY ArrayFields DEF WellFormed
<1>2. v \in [0 .. x.allocated_size - 1 -> Slot]
  BY <1>1 DEF Slot
<1>3. v[x.count] = e /\ \A s \in Used(x) : v[s] = x.vector[s]
  BY <1>1 DEF Used
<1> DEFINE h == x.held \cup ({e} \ {NULL})
<1>4. y = [x EXCEPT !.vector = v, !.count = x.count + 1, !.held = h]
  BY DEF Stored
<1>9. h \in SUBSET Elem /\ x.count + 1 \in Nat
  BY <1>1
<1> HIDE DEF v, y, h
<1>5. /\ IsArray(y)
      /\ y.vector = v /\ y.count = x.count + 1 /\ y.held = h
      /\ y.block_size = x.block_size /\ y.allocated_size = x.allocated_size
  BY <1>1, <1>2, <1>4, <1>9 DEF IsArray, ArrayOf
<1>6. SizesAgree(y)
  BY <1>1, <1>5 DEF SizesAgree, WellFormed
<1>7. SlackBounded(y)
  BY <1>1, <1>5 DEF SlackBounded, WellFormed
<1>8. Owned(y)
  <2>1. Used(y) = Used(x) \cup {x.count} /\ x.count \notin Used(x)
    BY <1>1, <1>5 DEF Used
  <2>2. /\ \A s \in Used(x) : x.vector[s] \in x.held \cup {NULL}
        /\ \A s, t \in Used(x) : x.vector[s] = x.vector[t] => s = t \/ x.vector[s] = NULL
        /\ \A d \in x.held : \E s \in Used(x) : x.vector[s] = d
    BY DEF WellFormed, Owned
  <2>3. \A s \in Used(y) : y.vector[s] \in y.held \cup {NULL}
    BY <1>3, <1>5, <2>1, <2>2 DEF h
  <2>4. \A s, t \in Used(y) : y.vector[s] = y.vector[t] => s = t \/ y.vector[s] = NULL
    BY <1>3, <1>5, <2>1, <2>2 DEF h
  <2>5. \A d \in y.held : \E s \in Used(y) : y.vector[s] = d
    BY <1>3, <1>5, <2>1, <2>2 DEF h
  <2> QED
    BY <2>3, <2>4, <2>5 DEF Owned
<1> QED
  BY <1>3, <1>5, <1>6, <1>7, <1>8 DEF WellFormed, y, h

\* Adding an element: the vector grows first if it must.
LEMMA AddWellFormed ==
    ASSUME NEW x, WellFormed(x), NEW e \in Elem \cup {NULL}, e \notin x.held
    PROVE  LET y == Stored(Grown(x), e)
           IN  /\ WellFormed(y)
               /\ y.count = x.count + 1
               /\ y.held = x.held \cup ({e} \ {NULL})
               /\ y.vector[x.count] = e
               /\ \A s \in Used(x) : y.vector[s] = x.vector[s]
<1> DEFINE g == Grown(x)
<1>1. /\ WellFormed(g)
      /\ g.count = x.count /\ g.held = x.held
      /\ g.count < g.allocated_size
      /\ \A s \in Used(x) : g.vector[s] = x.vector[s]
  BY GrownWellFormed
<1>2. Used(g) = Used(x)
  BY <1>1 DEF Used
<1> HIDE DEF g
<1> DEFINE y == Stored(g, e)
<1>3. /\ WellFormed(y)
      /\ y.count = g.count + 1
      /\ y.held = g.held \cup ({e} \ {NULL})
      /\ y.vector[g.count] = e
      /\ \A s \in Used(g) : y.vector[s] = g.vector[s]
  BY <1>1, StoredWellFormed
<1> QED
  BY <1>1, <1>2, <1>3 DEF g

\* The state between the shuffle and the realloc of a deletion: one slot more
\* than SlackBounded may be free.
LEMMA ShuffledUpOwned ==
    ASSUME NEW x, WellFormed(x), NEW index \in Used(x)
    PROVE  LET y == ShuffledUp(x, index)
           IN  /\ IsArray(y)
               /\ Owned(y)
               /\ y.count = x.count - 1
               /\ y.allocated_size = x.allocated_size
               /\ y.block_size = x.block_size
<1> DEFINE v == [s \in 0 .. x.allocated_size - 1 |->
                    IF index <= s /\ s < x.count - 1 THEN x.vector[s + 1]
                                                     ELSE x.vector[s]]
           h == x.held \ {x.vector[index]}
           y == ShuffledUp(x, index)
<1>1. /\ IsArray(x)
      /\ x.count \in Nat /\ x.allocated_size \in Nat /\ x.block_size \in Nat \ {0}
      /\ x.vector \in [0 .. x.allocated_size - 1 -> Slot]
      /\ x.held \in SUBSET Elem
      /\ x.count <= x.allocated_size
      /\ index \in Nat /\ index < x.count
  BY ArrayFields DEF WellFormed, SizesAgree, Used
<1>2. v \in [0 .. x.allocated_size - 1 -> Slot] /\ h \in SUBSET Elem
  BY <1>1
<1>3. Decremented(x.count) = x.count - 1 /\ x.count - 1 \in Nat
  BY <1>1 DEF Decremented
<1>4. y = [x EXCEPT !.vector = v, !.count = x.count - 1, !.held = h]
  BY <1>3 DEF ShuffledUp
<1>5. \A s \in 0 .. x.count - 2 :
         /\ s \in Used(x) /\ s + 1 \in Used(x)
         /\ v[s] = IF index <= s THEN x.vector[s + 1] ELSE x.vector[s]
  BY <1>1 DEF Used
<1> HIDE DEF v, h, y
<1>6. /\ IsArray(y)
      /\ y.vector = v /\ y.count = x.count - 1 /\ y.held = h
      /\ y.block_size = x.block_size /\ y.allocated_size = x.allocated_size
  BY <1>1, <1>2, <1>3, <1>4 DEF IsArray, ArrayOf
<1>7. Owned(y)
  <2>1. Used(y) = 0 .. x.count - 2
    BY <1>1, <1>6 DEF Used
  <2>2. /\ \A s \in Used(x) : x.vector[s] \in x.held \cup {NULL}
        /\ \A s, t \in Used(x) : x.vector[s] = x.vector[t] => s = t \/ x.vector[s] = NULL
        /\ \A d \in x.held : \E s \in Used(x) : x.vector[s] = d
    BY DEF WellFormed, Owned
  \* where the element of slot s of y was in x
  <2> DEFINE from(s) == IF index <= s THEN s + 1 ELSE s
  <2>3. \A s \in Used(y) : /\ from(s) \in Used(x) /\ from(s) # index
                           /\ v[s] = x.vector[from(s)]
    BY <1>1, <1>5, <2>1
  <2>4. \A s, t \in Used(y) : from(s) = from(t) => s = t
    BY <1>1, <2>1
  <2>5. \A t \in Used(x) \ {index} : \E s \in Used(y) : from(s) = t
    <3> SUFFICES ASSUME NEW t \in Used(x) \ {index}
                 PROVE  \E s \in Used(y) : from(s) = t
      OBVIOUS
    <3>0. t \in 0 .. x.count - 1 /\ t # index
      BY DEF Used
    <3>1. CASE t < index
      <4>1. t \in Used(y) /\ from(t) = t
        BY <3>0, <3>1, <1>1, <2>1
      <4> QED
        BY <4>1
    <3>2. CASE t > index
      <4>1. t - 1 \in Used(y) /\ from(t - 1) = t
        BY <3>0, <3>2, <1>1, <2>1
      <4> QED
        BY <4>1
    <3> QED
      BY <3>0, <3>1, <3>2, <1>1
  <2> HIDE DEF from
  <2>6. \A s \in Used(y) : y.vector[s] \in y.held \cup {NULL}
    BY <1>6, <2>2, <2>3 DEF h
  <2>7. \A s, t \in Used(y) : y.vector[s] = y.vector[t] => s = t \/ y.vector[s] = NULL
    BY <1>6, <2>2, <2>3, <2>4
  <2>8. \A d \in y.held : \E s \in Used(y) : y.vector[s] = d
    BY <1>6, <2>2, <2>3, <2>5 DEF h
  <2> QED
    BY <2>6, <2>7, <2>8 DEF Owned
<1> QED
  BY <1>6, <1>7 DEF y

\* Deleting an element: the vector then shrinks if it must.
LEMMA DeleteWellFormed ==
    ASSUME NEW x, WellFormed(x), NEW index \in Used(x)
    PROVE  LET y == ShuffledUp(x, index)
           IN  WellFormed(IF MustShrink(y)
                            THEN Resized(y, y.allocated_size - y.block_size)
                            ELSE y)
<1> DEFINE y == ShuffledUp(x, index)
<1>1. /\ IsArray(y) /\ Owned(y)
      /\ y.count = x.count - 1
      /\ y.allocated_size = x.allocated_size /\ y.block_size = x.block_size
  BY ShuffledUpOwned
<1> HIDE DEF y
<1>2. /\ x.count \in Nat /\ x.allocated_size \in Nat /\ x.block_size \in Nat \ {0}
      /\ x.count > 0 /\ x.count <= x.allocated_size
      /\ x.allocated_size - x.count <= x.block_size
  BY ArrayFields DEF WellFormed, SizesAgree, SlackBounded, Used
<1>3. PICK k \in 0 .. x.allocated_size : x.allocated_size = k * x.block_size
  BY DEF WellFormed, SizesAgree
<1>4. /\ y.vector \in [0 .. y.allocated_size - 1 -> Slot]
      /\ y.count \in Nat /\ y.held \in SUBSET Elem
  BY <1>1, ArrayFields
<1>5. CASE ~MustShrink(y)
  <2>1. SizesAgree(y)
    BY <1>1, <1>2, <1>3, <1>4 DEF SizesAgree
  <2>2. SlackBounded(y)
    BY <1>1, <1>2, <1>4, <1>5 DEF SlackBounded, MustShrink
  <2> QED
    BY <1>1, <1>5, <2>1, <2>2 DEF WellFormed, y
<1>6. CASE MustShrink(y)
  <2> DEFINE n == x.allocated_size - x.block_size
             v == [s \in 0 .. n - 1 |->
                      IF s < y.allocated_size THEN y.vector[s] ELSE GARBAGE]
             z == Resized(y, n)
  <2>1. n \in Nat /\ y.count > 0 /\ y.count <= n
    BY <1>1, <1>2, <1>4, <1>6 DEF MustShrink
  <2>2. z = [y EXCEPT !.allocated_size = n, !.vector = v]
    BY DEF Resized
  <2>3. v \in [0 .. n - 1 -> Slot] /\ \A s \in Used(y) : v[s] = y.vector[s]
    <3>1. y.allocated_size \in Nat /\ n <= y.allocated_size
      BY <1>1, <1>2
    <3> HIDE DEF n
    <3>2. v \in [0 .. n - 1 -> Slot]
      BY <1>4, <2>1, <3>1 DEF Slot
    <3>3. \A s \in Used(y) : v[s] = y.vector[s]
      BY <1>4, <2>1, <3>1 DEF Used
    <3> QED
      BY <3>2, <3>3
  <2> HIDE DEF v, z
  <2>4. /\ IsArray(z)
        /\ z.count = y.count /\ z.held = y.held /\ z.block_size = x.block_size
        /\ z.allocated_size = n /\ z.vector = v
    <3> HIDE DEF n
    <3> QED
      BY <1>1, <1>4, <2>1, <2>2, <2>3 DEF IsArray, ArrayOf
  <2>5. SizesAgree(z)
    <3>1. k > 0
      BY <1>2, <1>3, <2>1
    <3>2. n = (k - 1) * x.block_size
      BY <1>2, <1>3
    <3>3. k - 1 <= n
      BY <1>2, <2>1, <3>1, <3>2
    <3> QED
      BY <1>3, <2>1, <2>4, <3>1, <3>2, <3>3 DEF SizesAgree
  <2>6. SlackBounded(z)
    BY <1>1, <1>2, <2>1, <2>4 DEF SlackBounded
  <2>7. Owned(z)
    BY <1>1, <2>3, <2>4 DEF Owned, Used
  <2>8. WellFormed(z)
    BY <2>4, <2>5, <2>6, <2>7 DEF WellFormed
  <2> QED
    BY <1>1, <1>6, <2>8 DEF z, y
<1> QED
  BY <1>5, <1>6 DEF y

LEMMA ReversedWellFormed ==
    ASSUME NEW x, WellFormed(x)
    PROVE  WellFormed(Reversed(x)) /\ Reversed(x).count = x.count
<1> DEFINE v == [s \in 0 .. x.allocated_size - 1 |->
                    IF s < x.count THEN x.vector[x.count - 1 - s] ELSE x.vector[s]]
           y == Reversed(x)
           from(s) == x.count - 1 - s
<1>1. /\ IsArray(x)
      /\ x.count \in Nat /\ x.allocated_size \in Nat /\ x.block_size \in Nat \ {0}
      /\ x.vector \in [0 .. x.allocated_size - 1 -> Slot]
      /\ x.count <= x.allocated_size
  BY ArrayFields DEF WellFormed, SizesAgree
<1>2. v \in [0 .. x.allocated_size - 1 -> Slot]
  <2>1. \A s \in 0 .. x.allocated_size - 1 :
           (IF s < x.count THEN x.vector[x.count - 1 - s] ELSE x.vector[s]) \in Slot
    <3> SUFFICES ASSUME NEW s \in 0 .. x.allocated_size - 1
                 PROVE  (IF s < x.count THEN x.vector[x.count - 1 - s]
                                        ELSE x.vector[s]) \in Slot
      OBVIOUS
    <3>1. s < x.count => x.count - 1 - s \in 0 .. x.allocated_size - 1
      BY <1>1
    <3> QED
      BY <1>1, <3>1
  <2> QED
    BY <2>1
<1>3. \A s \in Used(x) : v[s] = x.vector[from(s)] /\ from(s) \in Used(x)
  BY <1>1 DEF Used
<1>4. \A s, t \in Used(x) : from(s) = from(t) => s = t
  BY <1>1 DEF Used
<1>5. \A t \in Used(x) : from(from(t)) = t
  BY <1>1 DEF Used
<1>6. y = [x EXCEPT !.vector = v]
  BY DEF Reversed
<1> HIDE DEF v, y, from
<1>7. /\ IsArray(y)
      /\ y.vector = v /\ y.count = x.count /\ y.held = x.held
      /\ y.block_size = x.block_size /\ y.allocated_size = x.allocated_size
  BY <1>1, <1>2, <1>6 DEF IsArray, ArrayOf
<1>8. Owned(y)
  <2>1. Used(y) = Used(x)
    BY <1>7 DEF Used
  <2>2. /\ \A s \in Used(x) : x.vector[s] \in x.held \cup {NULL}
        /\ \A s, t \in Used(x) : x.vector[s] = x.vector[t] => s = t \/ x.vector[s] = NULL
        /\ \A d \in x.held : \E s \in Used(x) : x.vector[s] = d
    BY DEF WellFormed, Owned
  <2>3. \A s \in Used(y) : y.vector[s] \in y.held \cup {NULL}
    BY <1>3, <1>7, <2>1, <2>2
  <2>4. \A s, t \in Used(y) : y.vector[s] = y.vector[t] => s = t \/ y.vector[s] = NULL
    BY <1>3, <1>4, <1>7, <2>1, <2>2
  <2>5. \A d \in y.held : \E s \in Used(y) : y.vector[s] = d
    <3> SUFFICES ASSUME NEW d \in x.held PROVE \E s \in Used(x) : v[s] = d
      BY <1>7, <2>1
    <3>1. PICK t \in Used(x) : x.vector[t] = d
      BY <2>2
    <3>2. from(t) \in Used(x) /\ v[from(t)] = d
      BY <1>3, <1>5, <3>1
    <3> QED
      BY <3>2
  <2> QED
    BY <2>3, <2>4, <2>5 DEF Owned
<1>9. SizesAgree(y) /\ SlackBounded(y)
  BY <1>7 DEF SizesAgree, SlackBounded, WellFormed
<1> QED
  BY <1>7, <1>8, <1>9 DEF WellFormed, y

\* An allocated vector has at least one block.
LEMMA AllocatedBlocks ==
    ASSUME NEW x, WellFormed(x), x.count > 0
    PROVE  x.allocated_size >= x.block_size
<1>1. /\ x.count \in Nat /\ x.allocated_size \in Nat /\ x.block_size \in Nat \ {0}
      /\ x.allocated_size > 0
  BY ArrayFields DEF WellFormed, SizesAgree
<1>2. PICK k \in 0 .. x.allocated_size : x.allocated_size = k * x.block_size
  BY DEF WellFormed, SizesAgree
<1>3. k >= 1
  BY <1>1, <1>2
<1> QED
  BY <1>1, <1>2, <1>3

----------------------------------------------------------------------------
\* What a size_t can count: the bytes of a vector

BytesFit(x) == x.allocated_size * PointerSize <= SIZE_MAX

LEMMA SmallerFits ==
    ASSUME NEW x, IsArray(x), NEW y, IsArray(y), BytesFit(y),
           x.allocated_size <= y.allocated_size
    PROVE  BytesFit(x)
<1> DEFINE m == x.allocated_size
           n == y.allocated_size
           p == PointerSize
<1>1. m \in Nat /\ n \in Nat /\ p \in Nat /\ SIZE_MAX \in Nat /\ m <= n /\ n * p <= SIZE_MAX
  BY ArrayFields, ArrayAssumption DEF BytesFit
<1> HIDE DEF m, n, p
<1>2. m * p <= n * p /\ m * p \in Nat /\ n * p \in Nat
  BY <1>1
<1>3. m * p <= SIZE_MAX
  BY <1>1, <1>2
<1> QED
  BY <1>3 DEF BytesFit, m, p

\* Growing, storing, moving up and reversing: what becomes of the sizes
LEMMA SizesOf ==
    ASSUME NEW x, IsArray(x)
    PROVE  /\ Grown(x).block_size = x.block_size
           /\ Grown(x).allocated_size =
                 IF MustGrow(x) THEN x.allocated_size + x.block_size ELSE x.allocated_size
           /\ \A e : /\ Stored(x, e).block_size = x.block_size
                    /\ Stored(x, e).allocated_size = x.allocated_size
           /\ \A index : ShuffledUp(x, index).allocated_size = x.allocated_size
           /\ \A n : Resized(x, n).allocated_size = n
           /\ Reversed(x).allocated_size = x.allocated_size
BY DEF Grown, Resized, Stored, ShuffledUp, Reversed, IsArray, ArrayOf

LEMMA GrownFits ==
    ASSUME NEW x, WellFormed(x), BytesFit(x), MustGrow(x) => Fits(x)
    PROVE  BytesFit(Grown(x))
BY SizesOf DEF WellFormed, BytesFit, Fits

\* An array that has fewer elements than another with the same block size needs
\* no larger vector, also when it has to grow.
LEMMA GrownNoLarger ==
    ASSUME NEW x, WellFormed(x), NEW y, WellFormed(y), x.block_size = y.block_size,
           x.count < y.count, x.allocated_size <= y.allocated_size
    PROVE  Grown(x).allocated_size <= y.allocated_size
<1>1. /\ IsArray(x) /\ IsArray(y) /\ x.count \in Nat /\ y.count \in Nat
      /\ x.allocated_size \in Nat /\ y.allocated_size \in Nat
      /\ y.block_size \in Nat \ {0} /\ y.count <= y.allocated_size
  BY ArrayFields DEF WellFormed, SizesAgree
<1>2. CASE ~MustGrow(x)
  BY <1>1, <1>2, SizesOf
<1>3. CASE MustGrow(x)
  <2>1. x.allocated_size < y.allocated_size
    BY <1>1, <1>3 DEF MustGrow
  <2>2. PICK k \in 0 .. x.allocated_size : x.allocated_size = k * x.block_size
    BY DEF WellFormed, SizesAgree
  <2>3. PICK m \in 0 .. y.allocated_size : y.allocated_size = m * y.block_size
    BY DEF WellFormed, SizesAgree
  <2>4. k \in Nat /\ m \in Nat /\ k * y.block_size < m * y.block_size
    BY <1>1, <2>1, <2>2, <2>3
  <2>5. k + 1 <= m
    BY <1>1, <2>4
  <2>6. (k + 1) * y.block_size <= m * y.block_size
    BY <1>1, <2>4, <2>5
  <2>7. (k + 1) * y.block_size = k * y.block_size + y.block_size
    BY <1>1, <2>4
  <2> QED
    BY <1>1, <1>3, <2>2, <2>3, <2>6, <2>7, SizesOf
<1> QED
  BY <1>2, <1>3

----------------------------------------------------------------------------
\* The duplicate has the first i elements of the array, and all of them when
\* the loop has ended.
CopyProgress ==
    /\ i # NULL => /\ HasArray
                   /\ WellFormed(copy)
                   /\ copy.count = i /\ i <= a.count
                   /\ \A s \in Used(copy) : copy.vector[s] = a.vector[s]
    /\ copy # NULL => HasArray
    /\ CopyEqual

\* The vector of the duplicate grows by the same blocks as that of the array.
CopyNoLarger ==
    i # NULL => /\ copy.block_size = a.block_size
                /\ copy.allocated_size <= a.allocated_size

\* The inductive invariant
IInv ==
    /\ HasArray => WellFormed(a) /\ BytesFit(a) /\ a.count <= SSIZE_MAX
    /\ copy # NULL => WellFormed(copy) /\ BytesFit(copy)
    /\ CopyNoLarger
    /\ i \in Nat \cup {NULL}
    /\ undefined \in BOOLEAN
    /\ CopyProgress

LEMMA InitIInv == Init => IInv
BY DEF Init, IInv, HasArray, CopyProgress, CopyEqual, CopyNoLarger

\* A call on the array, between two duplications
LEMMA ArrayCallIInv ==
    ASSUME IInv, Idle, UNCHANGED <<copy, i>>, undefined' \in BOOLEAN,
           a' # NULL => WellFormed(a') /\ BytesFit(a') /\ a'.count <= SSIZE_MAX
    PROVE  IInv'
BY DEF IInv, Idle, HasArray, CopyProgress, CopyEqual, CopyNoLarger

LEMMA DuplicateBeginsIInv == IInv /\ DuplicateBegins => IInv'
<1> SUFFICES ASSUME IInv, DuplicateBegins
             PROVE  IInv'
  OBVIOUS
<1>1. /\ HasArray /\ a' = a /\ undefined' = undefined /\ i' = 0
      /\ copy' = NewArray(a.block_size)
  BY DEF DuplicateBegins, HasArray
<1>2. WellFormed(a) /\ a.count \in Nat /\ a.block_size \in Nat
  BY <1>1, ArrayFields DEF IInv, WellFormed
<1>3. WellFormed(copy') /\ copy'.count = 0
  BY <1>1, <1>2, NewArrayWellFormed
<1>4. i' # NULL
  BY <1>1, ArrayAssumption
<1>5. CopyProgress'
  BY <1>1, <1>2, <1>3, <1>4 DEF CopyProgress, CopyEqual, HasArray, Used
<1>6. a.block_size # 0 /\ a.allocated_size \in Nat
  BY <1>2, ArrayFields DEF WellFormed
<1>7. copy'.allocated_size = 0 /\ copy'.block_size = a'.block_size
  BY <1>1, <1>6 DEF NewArray
<1>8. CopyNoLarger'
  BY <1>1, <1>6, <1>7 DEF CopyNoLarger
<1>9. BytesFit(copy') /\ BytesFit(a)
  BY <1>1, <1>7, ArrayAssumption DEF BytesFit, IInv
<1> QED
  BY <1>1, <1>3, <1>5, <1>8, <1>9 DEF IInv, HasArray

LEMMA DuplicateElementIInv == IInv /\ DuplicateElement => IInv'
<1> SUFFICES ASSUME IInv, DuplicateElement
             PROVE  IInv'
  OBVIOUS
<1>1. /\ i # NULL /\ i < a.count /\ a' = a /\ undefined' = undefined
      /\ i' = i + 1 /\ copy' = Stored(Grown(copy), a.vector[i])
  BY DEF DuplicateElement
<1>2. /\ HasArray /\ WellFormed(a) /\ WellFormed(copy)
      /\ copy.count = i
      /\ \A s \in Used(copy) : copy.vector[s] = a.vector[s]
  BY <1>1 DEF IInv, CopyProgress
<1>3. i \in Nat /\ a.count \in Nat /\ i \in Used(a)
  BY <1>1, <1>2, ArrayFields DEF IInv, WellFormed, Used
<1>4. a.vector[i] \in Elem \cup {NULL} /\ a.vector[i] \notin copy.held
  <2>1. a.vector[i] \in Elem \cup {NULL}
    BY <1>2, <1>3, ArrayFields DEF WellFormed, Owned
  <2>2. ASSUME a.vector[i] \in copy.held
        PROVE  FALSE
    <3>1. PICK s \in Used(copy) : copy.vector[s] = a.vector[i]
      BY <1>2, <2>2 DEF WellFormed, Owned
    <3>2. s \in Used(a) /\ s # i /\ a.vector[s] = a.vector[i]
      BY <1>1, <1>2, <1>3, <3>1 DEF Used
    <3>3. a.vector[i] # NULL
      BY <1>2, <2>2, ArrayFields, ArrayAssumption DEF WellFormed
    <3> QED
      BY <1>2, <1>3, <3>2, <3>3 DEF WellFormed, Owned
  <2> QED
    BY <2>1, <2>2
<1>5. /\ WellFormed(copy') /\ copy'.count = i + 1
      /\ copy'.vector[i] = a.vector[i]
      /\ \A s \in Used(copy) : copy'.vector[s] = copy.vector[s]
  BY <1>1, <1>2, <1>4, AddWellFormed
<1>6. i' \in Nat /\ i' # NULL /\ i' <= a.count
  BY <1>1, <1>3, ArrayAssumption
<1>7. \A s \in Used(copy') : copy'.vector[s] = a.vector[s]
  <2>1. Used(copy') = Used(copy) \cup {i}
    BY <1>2, <1>3, <1>5 DEF Used
  <2> QED
    BY <1>2, <1>5, <2>1
<1>8. CopyProgress'
  BY <1>1, <1>2, <1>5, <1>6, <1>7 DEF CopyProgress, CopyEqual, HasArray
<1>9. copy.block_size = a.block_size /\ copy.allocated_size <= a.allocated_size
  BY <1>1 DEF IInv, CopyNoLarger
<1>10. /\ Grown(copy).allocated_size <= a.allocated_size
       /\ IsArray(Grown(copy)) /\ Grown(copy).block_size = a.block_size
  BY <1>1, <1>2, <1>9, GrownNoLarger, GrownWellFormed, SizesOf DEF WellFormed
<1>11. /\ copy'.allocated_size <= a.allocated_size /\ copy'.block_size = a.block_size
  BY <1>1, <1>10, SizesOf
<1>12. CopyNoLarger'
  BY <1>1, <1>11 DEF CopyNoLarger
<1>13. BytesFit(a) /\ BytesFit(copy')
  BY <1>1, <1>2, <1>5, <1>11, SmallerFits DEF IInv, WellFormed
<1> QED
  BY <1>1, <1>5, <1>6, <1>8, <1>12, <1>13 DEF IInv, HasArray

LEMMA BlocksAreNat == BlockArg \subseteq Nat
BY ArrayAssumption

\* What a program does that only creates and adds
Filling ==
    \/ \E block \in BlockArg : Create(block)
    \/ \E e \in Elem \cup {NULL} : AddElement(e)
    \/ AddDuplicateFails
    \/ AddOverflows
    \/ AddReallocFails

LEMMA FillingIInv == IInv /\ Filling => IInv'
<1> SUFFICES ASSUME IInv, Filling
             PROVE  IInv'
  OBVIOUS
<1>1. ASSUME NEW block \in BlockArg, Create(block)
      PROVE  IInv'
  <2>1. WellFormed(a') /\ a'.count = 0
    BY <1>1, BlocksAreNat, NewArrayWellFormed DEF Create
  <2>2. BytesFit(a')
    BY <1>1, ArrayAssumption DEF Create, NewArray, BytesFit
  <2> QED
    BY <1>1, <2>1, <2>2, ArrayCallIInv, ArrayAssumption DEF Create, IInv
<1>2. ASSUME NEW e \in Elem \cup {NULL}, AddElement(e)
      PROVE  IInv'
  <2>1. WellFormed(a) /\ a.count < SSIZE_MAX /\ a.count \in Nat
    BY <1>2, ArrayFields DEF AddElement, IInv, HasArray, WellFormed
  <2>2. WellFormed(a') /\ a'.count = a.count + 1
    BY <1>2, <2>1, AddWellFormed DEF AddElement
  <2>3. BytesFit(Grown(a)) /\ IsArray(Grown(a))
    BY <1>2, <2>1, GrownFits, GrownWellFormed DEF AddElement, IInv, HasArray, WellFormed
  <2>4. BytesFit(a')
    BY <1>2, <2>3, SizesOf DEF AddElement, BytesFit
  <2> QED
    BY <1>2, <2>1, <2>2, <2>4, ArrayCallIInv, ArrayAssumption DEF AddElement, IInv
<1>3. CASE AddDuplicateFails
  <2>1. WellFormed(a) /\ a.count < SSIZE_MAX /\ a.count \in Nat
    BY <1>3, ArrayFields DEF AddDuplicateFails, IInv, HasArray, WellFormed
  <2>2. WellFormed(a') /\ a'.count = a.count
    BY <1>3, <2>1, GrownWellFormed DEF AddDuplicateFails
  <2>3. BytesFit(a')
    BY <1>3, <2>1, GrownFits DEF AddDuplicateFails, IInv, HasArray
  <2> QED
    BY <1>3, <2>1, <2>2, <2>3, ArrayCallIInv, ArrayAssumption DEF AddDuplicateFails, IInv
<1>4. CASE AddReallocFails
  BY <1>4, ArrayCallIInv DEF AddReallocFails, DestroyReadsNull
<1>5. CASE AddOverflows
  BY <1>5, ArrayCallIInv DEF AddOverflows
<1> QED
  BY <1>1, <1>2, <1>3, <1>4, <1>5 DEF Filling

LEMMA NextIInv == ValidIndices /\ IInv /\ [Next]_vars => IInv'
<1> SUFFICES ASSUME ValidIndices, IInv, [Next]_vars
             PROVE  IInv'
  OBVIOUS
<1>1. CASE Filling
  BY <1>1, FillingIInv
<1>2. ASSUME NEW index \in Index, DeleteElement(index)
      PROVE  IInv'
  <2>1. /\ WellFormed(a) /\ a.count <= SSIZE_MAX /\ index < a.count
        /\ a.count \in Nat /\ a.allocated_size \in Nat
        /\ a.count <= a.allocated_size /\ index \in Nat
    BY <1>2, ArrayFields, ArrayAssumption
       DEF DeleteElement, IInv, HasArray, WellFormed, SizesAgree
  <2>2. index \in Used(a) /\ ~ index >= a.allocated_size
    BY <2>1 DEF Used
  <2> DEFINE x == ShuffledUp(a, index)
             y == IF MustShrink(x) THEN Resized(x, x.allocated_size - x.block_size)
                                   ELSE x
  <2>3. a' = y /\ undefined' = undefined
    BY <1>2, <2>2 DEF DeleteElement
  <2>4. WellFormed(y)
    BY <2>1, <2>2, DeleteWellFormed
  <2>5. x.count = a.count - 1
    BY <2>1, <2>2, ShuffledUpOwned
  <2>6. y.count = x.count
    <3>1. IsArray(x)
      BY <2>1, <2>2, ShuffledUpOwned
    <3> HIDE DEF x
    <3> QED
      BY <3>1 DEF Resized, IsArray, ArrayOf
  <2>8. y.allocated_size <= a.allocated_size
    <3>1. /\ IsArray(x) /\ IsArray(a) /\ x.allocated_size = a.allocated_size
      BY <2>1, <2>2, ShuffledUpOwned, SizesOf DEF WellFormed
    <3> HIDE DEF x
    <3>2. x.block_size \in Nat /\ x.allocated_size \in Nat
      BY <3>1, ArrayFields
    <3> QED
      BY <3>1, <3>2, SizesOf
  <2> HIDE DEF x, y
  <2>7. a'.count <= SSIZE_MAX
    BY <2>1, <2>3, <2>5, <2>6, ArrayAssumption
  <2>9. BytesFit(a')
    BY <1>2, <2>1, <2>3, <2>4, <2>8, SmallerFits DEF DeleteElement, IInv, HasArray, WellFormed
  <2> QED
    BY <1>2, <2>3, <2>4, <2>7, <2>9, ArrayCallIInv DEF DeleteElement, IInv
<1>3. ASSUME NEW index \in Index, DeleteReallocFails(index)
      PROVE  IInv'
  BY <1>3, ArrayCallIInv DEF DeleteReallocFails, DestroyReadsNull
<1>4. CASE Reverse
  <2>1. WellFormed(a) /\ BytesFit(a) /\ a.count <= SSIZE_MAX
    BY <1>4 DEF Reverse, IInv, HasArray
  <2>2. WellFormed(a') /\ a'.count = a.count
    BY <1>4, <2>1, ReversedWellFormed DEF Reverse
  <2>3. BytesFit(a')
    BY <1>4, <2>1, SizesOf DEF Reverse, BytesFit, WellFormed
  <2> QED
    BY <1>4, <2>1, <2>2, <2>3, ArrayCallIInv DEF Reverse, IInv
<1>5. CASE Destroy
  BY <1>5, ArrayCallIInv DEF Destroy, IInv
<1>6. CASE DuplicateBegins
  BY <1>6, DuplicateBeginsIInv
<1>7. CASE DuplicateElement
  BY <1>7, DuplicateElementIInv
<1>8. CASE DuplicateElementFails
  BY <1>8 DEF DuplicateElementFails, IInv, HasArray, CopyProgress, CopyEqual, CopyNoLarger
<1>9. CASE DuplicateReallocFails
  BY <1>9 DEF DuplicateReallocFails, IInv, HasArray, CopyProgress, CopyEqual, CopyNoLarger
<1>10. CASE DuplicateEnds
  <2>1. /\ i # NULL /\ i = a.count /\ i' = NULL /\ a' = a /\ copy' = copy
        /\ undefined' = undefined
    BY <1>10 DEF DuplicateEnds
  <2>2. Used(copy) = Used(a)
    BY <2>1 DEF IInv, CopyProgress, Used
  <2>3. CopyProgress'
    BY <2>1, <2>2 DEF IInv, CopyProgress, CopyEqual, CopyNoLarger, HasArray
  <2> QED
    BY <2>1, <2>3 DEF IInv, HasArray, CopyNoLarger
<1>11. CASE DestroyCopy
  BY <1>11 DEF DestroyCopy, IInv, HasArray, CopyProgress, CopyEqual, CopyNoLarger
<1>12. CASE UNCHANGED vars
  BY <1>12 DEF vars, IInv, HasArray, CopyProgress, CopyEqual, CopyNoLarger, Used
<1> QED
  BY <1>1, <1>2, <1>3, <1>4, <1>5, <1>6, <1>7, <1>8, <1>9, <1>10, <1>11, <1>12
     DEF Next, Filling

LEMMA SpecIInv ==
    ASSUME ValidIndices
    PROVE  Spec => []IInv
<1>1. IInv /\ [Next]_vars => IInv'
  BY NextIInv
<1> QED
  BY InitIInv, <1>1, PTL DEF Spec

----------------------------------------------------------------------------
\* Arrays have as many slots as allocated_size says, in every state.
THEOREM TypeCorrect ==
    ASSUME ValidIndices
    PROVE  Spec => []TypeOK
<1>1. IInv => TypeOK
  BY DEF IInv, TypeOK, WellFormed
<1> QED
  BY <1>1, SpecIInv, PTL

\* For every block size and every size_t, growing and shrinking keep whole blocks,
\* room for every element and at most a block in excess, and never compute a
\* negative size.  The bytes given to realloc can be counted, but for the additions
\* that overflow: what those do is not defined, and nothing is said from then on.
THEOREM SizesAlwaysSafe ==
    ASSUME ValidIndices
    PROVE  Spec => []SizesSafe
<1>1. IInv => SizesSafe
  BY AllocatedBlocks DEF IInv, SizesSafe, WellFormed, BytesFit
<1> QED
  BY <1>1, SpecIInv, PTL

\* Every element is in exactly one slot, whatever was added, deleted, reversed
\* and copied.
THEOREM ElementsAlwaysOwned ==
    ASSUME ValidIndices
    PROVE  Spec => []ElementsOwned
<1>1. IInv => ElementsOwned
  BY DEF IInv, ElementsOwned, WellFormed
<1> QED
  BY <1>1, SpecIInv, PTL

\* A duplication that ends has copied every slot in use.
THEOREM CopiesAreEqual ==
    ASSUME ValidIndices
    PROVE  Spec => []CopyEqual
<1>1. IInv => CopyEqual
  BY DEF IInv, CopyProgress
<1> QED
  BY <1>1, SpecIInv, PTL

----------------------------------------------------------------------------
\* The array implements what its documentation says of it.

LEMMA SeqOfIsSeq ==
    ASSUME NEW x, WellFormed(x)
    PROVE  /\ x.count \in Nat
           /\ SeqOf(x) \in Seq(Elem \cup {NULL})
           /\ Len(SeqOf(x)) = x.count
           /\ \A p \in 1 .. x.count : SeqOf(x)[p] = x.vector[p - 1] /\ p - 1 \in Used(x)
<1>1. x.count \in Nat
  BY ArrayFields DEF WellFormed
<1>2. \A p \in 1 .. x.count : p - 1 \in Used(x) /\ x.vector[p - 1] \in Elem \cup {NULL}
  <2>1. \A p \in 1 .. x.count : p - 1 \in Used(x)
    BY <1>1 DEF Used
  <2>2. \A s \in Used(x) : x.vector[s] \in Elem \cup {NULL}
    BY ArrayFields DEF WellFormed, Owned
  <2> QED
    BY <2>1, <2>2
<1>3. SeqOf(x) \in [1 .. x.count -> Elem \cup {NULL}]
  BY <1>2 DEF SeqOf
<1>4. SeqOf(x) \in Seq(Elem \cup {NULL})
  BY <1>1, <1>3, SeqDef
<1> QED
  BY <1>1, <1>2, <1>3, <1>4, LenProperties DEF SeqOf

LEMMA SameSlotsSameSeq ==
    ASSUME NEW x, WellFormed(x), NEW y, WellFormed(y), y.count = x.count,
           \A s \in Used(x) : y.vector[s] = x.vector[s]
    PROVE  SeqOf(y) = SeqOf(x)
BY SeqOfIsSeq DEF SeqOf

\* Adding appends.
LEMMA AddAppends ==
    ASSUME NEW x, WellFormed(x), NEW e \in Elem \cup {NULL}, e \notin x.held
    PROVE  SeqOf(Stored(Grown(x), e)) = Append(SeqOf(x), e)
<1> DEFINE y == Stored(Grown(x), e)
<1>1. /\ WellFormed(y) /\ y.count = x.count + 1 /\ y.vector[x.count] = e
      /\ \A s \in Used(x) : y.vector[s] = x.vector[s]
  BY AddWellFormed
<1> HIDE DEF y
<1>2. /\ x.count \in Nat
      /\ SeqOf(x) \in Seq(Elem \cup {NULL}) /\ Len(SeqOf(x)) = x.count
      /\ \A p \in 1 .. x.count : SeqOf(x)[p] = x.vector[p - 1] /\ p - 1 \in Used(x)
      /\ SeqOf(y) \in Seq(Elem \cup {NULL}) /\ Len(SeqOf(y)) = x.count + 1
      /\ \A p \in 1 .. x.count + 1 : SeqOf(y)[p] = y.vector[p - 1]
  BY <1>1, SeqOfIsSeq
<1> DEFINE t == Append(SeqOf(x), e)
<1>3. /\ t \in Seq(Elem \cup {NULL}) /\ Len(t) = x.count + 1
      /\ \A p \in 1 .. x.count : t[p] = SeqOf(x)[p]
      /\ t[x.count + 1] = e
  BY <1>2
<1> HIDE DEF t
<1>4. \A p \in 1 .. x.count + 1 : SeqOf(y)[p] = t[p]
  <2> SUFFICES ASSUME NEW p \in 1 .. x.count + 1
               PROVE  SeqOf(y)[p] = t[p]
    OBVIOUS
  <2>1. CASE p = x.count + 1
    BY <1>1, <1>2, <1>3, <2>1
  <2>2. CASE p \in 1 .. x.count
    BY <1>1, <1>2, <1>3, <2>2
  <2> QED
    BY <1>2, <2>1, <2>2
<1>5. SeqOf(y) = t
  BY <1>2, <1>3, <1>4, SeqEqual
<1> QED
  BY <1>5 DEF y, t

\* What the used slots hold after a deletion, also when the vector has shrunk
LEMMA DeleteSlots ==
    ASSUME NEW x, WellFormed(x), NEW index \in Used(x)
    PROVE  LET y == ShuffledUp(x, index)
               z == IF MustShrink(y) THEN Resized(y, y.allocated_size - y.block_size)
                                     ELSE y
           IN  /\ z.count = x.count - 1
               /\ \A s \in 0 .. x.count - 2 :
                     z.vector[s] = IF index <= s THEN x.vector[s + 1] ELSE x.vector[s]
<1> DEFINE y == ShuffledUp(x, index)
           n == y.allocated_size - y.block_size
           z == IF MustShrink(y) THEN Resized(y, n) ELSE y
<1>1. /\ IsArray(y) /\ y.count = x.count - 1
      /\ y.allocated_size = x.allocated_size /\ y.block_size = x.block_size
  BY ShuffledUpOwned
<1>2. /\ IsArray(x)
      /\ x.count \in Nat /\ x.allocated_size \in Nat /\ x.block_size \in Nat \ {0}
      /\ x.count <= x.allocated_size
  BY ArrayFields DEF WellFormed, SizesAgree
<1>3. \A s \in 0 .. x.count - 2 :
         y.vector[s] = IF index <= s THEN x.vector[s + 1] ELSE x.vector[s]
  <2> DEFINE v == [s \in 0 .. x.allocated_size - 1 |->
                      IF index <= s /\ s < x.count - 1 THEN x.vector[s + 1]
                                                       ELSE x.vector[s]]
  <2>1. y.vector = v
    BY <1>2 DEF ShuffledUp, IsArray, ArrayOf
  <2>2. \A s \in 0 .. x.count - 2 : s \in 0 .. x.allocated_size - 1 /\ s < x.count - 1
    BY <1>2
  <2> QED
    BY <2>1, <2>2
<1> HIDE DEF y
<1>4. CASE ~MustShrink(y)
  BY <1>1, <1>3, <1>4 DEF y
<1>5. CASE MustShrink(y)
  <2>1. n \in Nat /\ x.count - 1 <= n
    BY <1>1, <1>2, <1>5 DEF MustShrink
  <2> DEFINE v == [s \in 0 .. n - 1 |->
                      IF s < y.allocated_size THEN y.vector[s] ELSE GARBAGE]
  <2>2. z.vector = v /\ z.count = y.count
    BY <1>1, <1>5 DEF Resized, IsArray, ArrayOf
  <2>3. \A s \in 0 .. x.count - 2 : s \in 0 .. n - 1 /\ s < y.allocated_size
    BY <1>1, <1>2, <2>1
  <2> HIDE DEF z, n
  <2>4. \A s \in 0 .. x.count - 2 : z.vector[s] = y.vector[s]
    BY <2>2, <2>3
  <2> QED
    BY <1>1, <1>3, <2>2, <2>4 DEF y, z, n
<1> QED
  BY <1>4, <1>5

\* Deleting the element of a slot removes it from the sequence.
LEMMA DeleteRemoves ==
    ASSUME NEW x, WellFormed(x), NEW index \in Used(x)
    PROVE  LET y == ShuffledUp(x, index)
               z == IF MustShrink(y) THEN Resized(y, y.allocated_size - y.block_size)
                                     ELSE y
           IN  SeqOf(z) = Actual!RemoveAt(SeqOf(x), index + 1)
<1> DEFINE y == ShuffledUp(x, index)
           z == IF MustShrink(y) THEN Resized(y, y.allocated_size - y.block_size)
                                 ELSE y
           q == SeqOf(x)
           t1 == SubSeq(q, 1, (index + 1) - 1)
           t2 == SubSeq(q, (index + 1) + 1, Len(q))
           t == t1 \o t2
<1>1. /\ WellFormed(z) /\ z.count = x.count - 1
      /\ \A s \in 0 .. x.count - 2 :
            z.vector[s] = IF index <= s THEN x.vector[s + 1] ELSE x.vector[s]
  BY DeleteWellFormed, DeleteSlots
<1> HIDE DEF y, z
<1>2. /\ x.count \in Nat /\ index \in Nat /\ index < x.count
      /\ q \in Seq(Elem \cup {NULL}) /\ Len(q) = x.count
      /\ \A p \in 1 .. x.count : q[p] = x.vector[p - 1] /\ q[p] \in Elem \cup {NULL}
  BY SeqOfIsSeq, ElementOfSeq DEF Used
<1>3. /\ SeqOf(z) \in Seq(Elem \cup {NULL}) /\ Len(SeqOf(z)) = x.count - 1
      /\ \A p \in 1 .. x.count - 1 : SeqOf(z)[p] = z.vector[p - 1]
  BY <1>1, SeqOfIsSeq
<1> HIDE DEF q
<1>4. /\ t1 \in Seq(Elem \cup {NULL}) /\ Len(t1) = index
      /\ \A p \in 1 .. index : t1[p] = q[p]
  <2>1. 1 \in Int /\ (index + 1) - 1 \in Int
    BY <1>2
  <2>2. \A p \in 1 .. (index + 1) - 1 : q[p] \in Elem \cup {NULL}
    BY <1>2
  <2> QED
    BY <1>2, <2>1, <2>2, SubSeqProperties
<1>5. /\ t2 \in Seq(Elem \cup {NULL}) /\ Len(t2) = x.count - 1 - index
      /\ \A p \in 1 .. x.count - 1 - index : t2[p] = q[p + index + 1]
  <2>1. (index + 1) + 1 \in Int /\ Len(q) \in Int
    BY <1>2
  <2>2. \A p \in (index + 1) + 1 .. Len(q) : q[p] \in Elem \cup {NULL}
    BY <1>2
  <2> QED
    BY <1>2, <2>1, <2>2, SubSeqProperties
<1> HIDE DEF t1, t2
<1>6. /\ t \in Seq(Elem \cup {NULL}) /\ Len(t) = x.count - 1
      /\ \A p \in 1 .. x.count - 1 :
            t[p] = IF p <= index THEN t1[p] ELSE t2[p - index]
  <2>0. t1 \in Seq(Elem \cup {NULL}) /\ t2 \in Seq(Elem \cup {NULL})
    BY <1>4, <1>5
  <2>1. /\ t \in Seq(Elem \cup {NULL}) /\ Len(t) = Len(t1) + Len(t2)
        /\ \A p \in 1 .. Len(t1) + Len(t2) :
              t[p] = IF p <= Len(t1) THEN t1[p] ELSE t2[p - Len(t1)]
    BY <2>0, ConcatProperties, Zenon
  <2>2. Len(t1) + Len(t2) = x.count - 1
    BY <1>2, <1>4, <1>5
  <2> HIDE DEF t
  <2> QED
    BY <1>4, <2>1, <2>2
<1> HIDE DEF t
<1>7. \A p \in 1 .. x.count - 1 : SeqOf(z)[p] = t[p]
  <2> SUFFICES ASSUME NEW p \in 1 .. x.count - 1
               PROVE  SeqOf(z)[p] = t[p]
    OBVIOUS
  <2>1. CASE p <= index
    <3>1. /\ p \in 1 .. index /\ p \in 1 .. x.count
          /\ p - 1 \in 0 .. x.count - 2 /\ ~ index <= p - 1
      BY <1>2, <2>1
    <3>2. t[p] = q[p]
      BY <1>4, <1>6, <2>1, <3>1
    <3> QED
      BY <1>1, <1>2, <1>3, <3>1, <3>2
  <2>2. CASE ~ p <= index
    <3>1. /\ p - index \in 1 .. x.count - 1 - index
          /\ p - 1 \in 0 .. x.count - 2 /\ index <= p - 1
          /\ p + 1 \in 1 .. x.count
      BY <1>2, <2>2
    <3>2. t[p] = t2[p - index] /\ t2[p - index] = q[(p - index) + index + 1]
      BY <1>5, <1>6, <2>2, <3>1
    <3>3. (p - index) + index + 1 = p + 1 /\ (p - 1) + 1 = p /\ (p + 1) - 1 = p
      BY <1>2
    <3>4. q[p + 1] = x.vector[p]
      BY <1>2, <3>1, <3>3
    <3>5. SeqOf(z)[p] = x.vector[p]
      BY <1>1, <1>3, <3>1, <3>3
    <3> QED
      BY <3>2, <3>3, <3>4, <3>5
  <2> QED
    BY <2>1, <2>2
<1>8. SeqOf(z) = t
  BY <1>3, <1>6, <1>7, SeqEqual
<1> QED
  BY <1>8 DEF Actual!RemoveAt, t, t1, t2, q, y, z

\* Reversing the slots reverses the sequence.
LEMMA ReversedReverses ==
    ASSUME NEW x, WellFormed(x)
    PROVE  SeqOf(Reversed(x)) = Actual!Reverse(SeqOf(x))
<1> DEFINE y == Reversed(x)
<1>1. WellFormed(y) /\ y.count = x.count
  BY ReversedWellFormed
<1>2. /\ x.count \in Nat /\ Len(SeqOf(x)) = x.count
      /\ \A p \in 1 .. x.count : SeqOf(x)[p] = x.vector[p - 1]
  BY SeqOfIsSeq
<1>3. \A s \in Used(x) : y.vector[s] = x.vector[x.count - 1 - s]
  <2>1. IsArray(x) /\ x.allocated_size \in Nat /\ x.count <= x.allocated_size
    BY ArrayFields DEF WellFormed, SizesAgree
  <2>2. y.vector = [s \in 0 .. x.allocated_size - 1 |->
                       IF s < x.count THEN x.vector[x.count - 1 - s] ELSE x.vector[s]]
    BY <2>1 DEF Reversed, IsArray, ArrayOf
  <2> QED
    BY <1>2, <2>1, <2>2 DEF Used
<1> HIDE DEF y
<1>4. \A p \in 1 .. x.count : y.vector[p - 1] = SeqOf(x)[(x.count - p) + 1]
  <2> SUFFICES ASSUME NEW p \in 1 .. x.count
               PROVE  y.vector[p - 1] = SeqOf(x)[(x.count - p) + 1]
    OBVIOUS
  <2>1. /\ p - 1 \in Used(x) /\ (x.count - p) + 1 \in 1 .. x.count
        /\ ((x.count - p) + 1) - 1 = x.count - 1 - (p - 1)
    BY <1>2 DEF Used
  <2> QED
    BY <1>2, <1>3, <2>1
<1>5. SeqOf(y) = [p \in 1 .. x.count |-> SeqOf(x)[(x.count - p) + 1]]
  BY <1>1, <1>4 DEF SeqOf
<1> QED
  BY <1>2, <1>5 DEF Actual!Reverse, y

\* NULL is neither an array nor a sequence.
NullIsNone == ~ IsArray(NULL) /\ NULL \notin Seq(Elem \cup {NULL})

LEMMA NextImplements ==
    ASSUME ValidIndices, NullIsNone
    PROVE  IInv /\ [Next]_vars => [Actual!Next]_(Actual!doc_vars)
<1> SUFFICES ASSUME IInv, [Next]_vars
             PROVE  [Actual!Next]_(Actual!doc_vars)
  OBVIOUS
<1>1. /\ a # NULL /\ ~undefined => ContentsOrNull = SeqOf(a)
      /\ a = NULL => ContentsOrNull = NULL
      /\ a' # NULL /\ ~undefined' => ContentsOrNull' = SeqOf(a')
      /\ a' = NULL \/ undefined' => ContentsOrNull' = NULL
      /\ undefined \in BOOLEAN
  BY DEF ContentsOrNull, SeqOf, IInv
<1>2. /\ a # NULL => WellFormed(a)
      /\ a # NULL /\ ~undefined => ContentsOrNull # NULL
      /\ a' # NULL => WellFormed(a')
  <2>1. a # NULL => WellFormed(a)
    BY DEF IInv, HasArray
  <2>2. IInv'
    BY NextIInv
  <2>3. a' # NULL => WellFormed(a')
    BY <2>2 DEF IInv, HasArray
  <2> QED
    BY <1>1, <2>1, <2>3, SeqOfIsSeq DEF NullIsNone
<1>3. \A x : WellFormed(x) => x # NULL
  BY DEF NullIsNone, WellFormed
<1>4. ASSUME NEW block \in BlockArg, Create(block)
      PROVE  Actual!Create
  <2>1. /\ WellFormed(a') /\ a'.count = 0 /\ a = NULL
        /\ ~undefined /\ undefined' = undefined
    BY <1>4, BlocksAreNat, NewArrayWellFormed DEF Create, Idle
  <2>2. SeqOf(a') = <<>>
    BY <2>1, SeqOfIsSeq, EmptySeq
  <2> QED
    BY <1>1, <1>3, <2>1, <2>2 DEF Actual!Create
<1>5. ASSUME NEW e \in Elem \cup {NULL}, AddElement(e)
      PROVE  Actual!AddElement
  <2>1. /\ a # NULL /\ a' = Stored(Grown(a), e) /\ e \notin a.held
        /\ ~undefined /\ undefined' = undefined
    BY <1>5 DEF AddElement, Idle
  <2>2. WellFormed(a')
    BY <1>2, <2>1, AddWellFormed
  <2>3. ContentsOrNull' = Append(ContentsOrNull, e)
    BY <1>1, <1>2, <1>3, <2>1, <2>2, AddAppends
  <2> QED
    BY <1>2, <2>1, <2>3 DEF Actual!AddElement
<1>6. ASSUME AddDuplicateFails
      PROVE  UNCHANGED <<ContentsOrNull, undefined>>
  <2>1. a # NULL /\ a' = Grown(a) /\ ~undefined /\ undefined' = undefined
    BY <1>6 DEF AddDuplicateFails, Idle
  <2>2. /\ WellFormed(a') /\ a'.count = a.count
        /\ \A s \in Used(a) : a'.vector[s] = a.vector[s]
    BY <1>2, <2>1, GrownWellFormed
  <2> QED
    BY <1>1, <1>2, <1>3, <2>1, <2>2, SameSlotsSameSeq
<1>7. ASSUME a # NULL, a' = NULL, Idle, undefined' \in BOOLEAN
      PROVE  Actual!Destroy \/ Actual!Break
  <2>1. ~undefined /\ ContentsOrNull # NULL /\ ContentsOrNull' = NULL
    BY <1>1, <1>2, <1>7 DEF Idle
  <2>2. CASE undefined'
    BY <1>7, <2>1, <2>2 DEF Actual!Break
  <2>3. CASE ~undefined'
    BY <1>1, <1>7, <2>1, <2>3 DEF Actual!Destroy
  <2> QED
    BY <2>2, <2>3
<1>8. ASSUME NEW index \in Index, DeleteElement(index)
      PROVE  Actual!DeleteElement
  <2> DEFINE y == ShuffledUp(a, index)
             z == IF MustShrink(y) THEN Resized(y, y.allocated_size - y.block_size)
                                   ELSE y
  <2>1. /\ a # NULL /\ index < a.count /\ index \in Nat /\ ~undefined
    BY <1>8, ArrayAssumption DEF DeleteElement, Idle
  <2>2. /\ a.count \in Nat /\ a.allocated_size \in Nat
        /\ a.count <= a.allocated_size
    BY <1>2, <2>1, ArrayFields DEF WellFormed, SizesAgree
  <2>3. index \in Used(a) /\ ~ index >= a.allocated_size
    BY <2>1, <2>2 DEF Used
  <2>4. a' = z /\ undefined' = undefined
    BY <1>8, <2>3 DEF DeleteElement
  <2>5. WellFormed(z) /\ SeqOf(z) = Actual!RemoveAt(SeqOf(a), index + 1)
    BY <1>2, <2>1, <2>3, DeleteWellFormed, DeleteRemoves
  <2> HIDE DEF y, z
  <2>6. ContentsOrNull' = Actual!RemoveAt(ContentsOrNull, index + 1)
    BY <1>1, <1>3, <2>1, <2>4, <2>5
  <2>7. index + 1 \in 1 .. Len(ContentsOrNull)
    BY <1>1, <1>2, <2>1, <2>2, SeqOfIsSeq
  <2> QED
    BY <1>2, <2>1, <2>4, <2>6, <2>7 DEF Actual!DeleteElement
<1>9. ASSUME Reverse
      PROVE  Actual!ReverseElements
  <2>1. a # NULL /\ a' = Reversed(a) /\ ~undefined /\ undefined' = undefined
    BY <1>9 DEF Reverse, Idle
  <2>2. WellFormed(a')
    BY <1>2, <2>1, ReversedWellFormed
  <2>3. ContentsOrNull' = Actual!Reverse(ContentsOrNull)
    BY <1>1, <1>2, <1>3, <2>1, <2>2, ReversedReverses
  <2> QED
    BY <1>2, <2>1, <2>3 DEF Actual!ReverseElements
<1>10. ASSUME a' = a, undefined' = undefined
       PROVE  UNCHANGED <<ContentsOrNull, undefined>>
  BY <1>10 DEF ContentsOrNull
<1>11. ASSUME \/ AddOverflows \/ AddReallocFails \/ Destroy
              \/ \E index \in Index : DeleteReallocFails(index)
       PROVE  Actual!Destroy \/ Actual!Break
  BY <1>1, <1>7, <1>11 DEF AddOverflows, AddReallocFails, Destroy, DeleteReallocFails,
                           DestroyReadsNull
<1>12. ASSUME DuplicateBegins \/ DuplicateElement \/ DuplicateElementFails
                \/ DuplicateEnds \/ DestroyCopy \/ UNCHANGED vars
       PROVE  UNCHANGED <<ContentsOrNull, undefined>>
  BY <1>10, <1>12 DEF DuplicateBegins, DuplicateElement, DuplicateElementFails,
                      DuplicateEnds, DestroyCopy, vars
<1>13. ASSUME DuplicateReallocFails
       PROVE  Actual!Break \/ UNCHANGED <<ContentsOrNull, undefined>>
  BY <1>1, <1>13 DEF DuplicateReallocFails, Actual!Break, ContentsOrNull
<1>14. \/ Actual!Create \/ Actual!AddElement \/ Actual!DeleteElement
       \/ Actual!ReverseElements \/ Actual!Destroy \/ Actual!Break
       \/ UNCHANGED <<ContentsOrNull, undefined>>
  BY <1>4, <1>5, <1>6, <1>8, <1>9, <1>11, <1>12, <1>13 DEF Next
<1> QED
  BY <1>14 DEF Actual!Next, Actual!doc_vars

\* Every behaviour of an array is one of its documentation, with two exceptions
\* that ActualSpec names: NULL is added (against dynamic_array.c 159), and once a
\* call has done what C does not define nothing is said of the array.  Until then,
\* whatever grows, shrinks or fails, the elements in use are the sequence that is
\* described.
THEOREM ImplementsDocumentation ==
    ASSUME ValidIndices, NullIsNone
    PROVE  Spec => ActualSpec
<1>1. Init => Actual!Init
  BY DEF Init, Actual!Init, ContentsOrNull
<1>2. IInv /\ [Next]_vars => [Actual!Next]_(Actual!doc_vars)
  BY NextImplements
<1> QED
  BY <1>1, <1>2, SpecIInv, PTL DEF Spec, ActualSpec, Actual!Spec

\* Whatever was inserted, deleted, reversed and copied before, an array is shown with
\* all of its elements, and within the buffer that vanessa_dynamic_array_length asks
\* for (dynamic_array.c 314-395).
THEOREM DisplayAlwaysFits ==
    ASSUME ValidIndices
    PROVE  Spec => []DisplayFits
<1>1. IInv => DisplayFits
  <2> SUFFICES ASSUME IInv, HasArray, a.count > 0, NULL \notin {e_length, e_display}
               PROVE  /\ Shows(ArrayDisplay(SeqOf(a)), SeqOf(a), {DELIMITER})
                      /\ Len(ArrayDisplay(SeqOf(a))) <= ArrayLength(SeqOf(a))
    BY DEF DisplayFits
  <2>1. WellFormed(a)
    BY DEF IInv, HasArray
  <2>2. /\ SeqOf(a) \in Seq(Elem \cup {NULL}) /\ a.count \in Nat
        /\ Len(SeqOf(a)) = a.count
    BY <2>1, SeqOfIsSeq
  <2>3. SeqOf(a) \in Seq(Elem \cup {NULL}) /\ SeqOf(a) # <<>>
    BY <2>1, <2>2
  <2>4. Displayable(Elem \cup {NULL})
    BY ArrayAssumption DEF Displayable
  <2> QED
    BY <2>3, <2>4, ArrayShown
<1> QED
  BY <1>1, SpecIInv, PTL

----------------------------------------------------------------------------
\* Split: the places where words begin, in their order

\* Two members of a set of numbers have different ranks.
LEMMA RankIsUnique ==
    ASSUME NEW S \in SUBSET Nat, IsFiniteSet(S), NEW p \in S, NEW q \in S,
           Cardinality({r \in S : r <= p}) = Cardinality({r \in S : r <= q})
    PROVE  p = q
<1> DEFINE U(x) == {r \in S : r <= x}
<1>1. \A x \in S : IsFiniteSet(U(x))
  BY FS_Subset
<1>2. ASSUME NEW x \in S, NEW y \in S, x < y,
             Cardinality(U(x)) = Cardinality(U(y))
      PROVE  FALSE
  <2>1. \A r \in S : r \in Nat
    OBVIOUS
  <2>2. \A r \in S : r <= x => r <= y
    BY <1>2, <2>1
  <2>3. y <= y /\ ~ y <= x
    BY <1>2, <2>1
  <2>4. U(x) \in SUBSET U(y) /\ y \in U(y) /\ y \notin U(x)
    BY <2>2, <2>3
  <2>5. U(x) = U(y)
    <3> HIDE DEF U
    <3> QED
      BY <1>1, <1>2, <2>4, FS_Subset
  <2> QED
    BY <2>4, <2>5
<1>3. ~ p < q /\ ~ q < p
  <2> HIDE DEF U
  <2>1. Cardinality(U(p)) = Cardinality(U(q))
    BY DEF U
  <2> QED
    BY <1>2, <2>1
<1> QED
  BY <1>3

\* What a text is made of.
TextChar == Digit \cup {DELIMITER, MINUS}

\* The words that begin in front of p.
Before(t, p) == {q \in Starts(t) : q < p}
UpTo(t, p) == {q \in Starts(t) : q <= p}

\* A text has finitely many words, at most one for each character.
LEMMA StartsFinite ==
    ASSUME NEW t \in Seq(TextChar), NEW p
    PROVE  /\ Starts(t) \in SUBSET Nat
           /\ IsFiniteSet(Starts(t))
           /\ Cardinality(Starts(t)) \in Nat /\ Cardinality(Starts(t)) <= Len(t)
           /\ IsFiniteSet(Before(t, p)) /\ Cardinality(Before(t, p)) \in Nat
           /\ IsFiniteSet(UpTo(t, p))
           /\ Cardinality(UpTo(t, p)) \in Nat
           /\ Cardinality(UpTo(t, p)) <= Cardinality(Starts(t))
<1>1. Len(t) \in Nat /\ Starts(t) \in SUBSET (1 .. Len(t))
  BY LenProperties DEF Starts
<1>2. IsFiniteSet(1 .. Len(t)) /\ Cardinality(1 .. Len(t)) = Len(t)
  <2>1. 1 \in Int /\ Len(t) \in Int
    BY <1>1
  <2>2. /\ IsFiniteSet(1 .. Len(t))
        /\ Cardinality(1 .. Len(t)) = IF 1 > Len(t) THEN 0 ELSE Len(t) - 1 + 1
    BY <2>1, FS_Interval, Zenon
  <2> QED
    BY <1>1, <2>2
<1>3. /\ IsFiniteSet(Starts(t)) /\ Cardinality(Starts(t)) <= Len(t)
      /\ Cardinality(Starts(t)) \in Nat
  BY <1>1, <1>2, FS_Subset, FS_CardinalityType
<1>4. Before(t, p) \in SUBSET Starts(t) /\ UpTo(t, p) \in SUBSET Starts(t)
  BY DEF Before, UpTo
<1> QED
  BY <1>1, <1>3, <1>4, FS_Subset, FS_CardinalityType

\* A word is one more than those in front of it.
LEMMA StartCounts ==
    ASSUME NEW t \in Seq(TextChar), NEW p \in Starts(t)
    PROVE  Cardinality(UpTo(t, p)) = Cardinality(Before(t, p)) + 1
<1>1. p \in Nat /\ \A q \in Starts(t) : q \in Nat
  BY StartsFinite
<1>2. UpTo(t, p) = Before(t, p) \cup {p} /\ p \notin Before(t, p)
  <2>1. /\ \A q \in Starts(t) : q <= p <=> q < p \/ q = p
        /\ ~ p < p
    BY <1>1
  <2> QED
    BY <2>1 DEF UpTo, Before
<1> QED
  BY <1>2, StartsFinite, FS_AddElement

\* The start with the number of a start is that start.
LEMMA StartOf ==
    ASSUME original \in Seq(TextChar), NEW p \in Starts(original)
    PROVE  Start(Cardinality(UpTo(original, p))) = p
<1> DEFINE k == Cardinality(UpTo(original, p))
           s == Start(k)
<1>1. s \in Starts(original) /\ Cardinality(UpTo(original, s)) = k
  BY DEF Start, UpTo
<1> HIDE DEF k, s
<1>2. Cardinality(UpTo(original, s)) = Cardinality(UpTo(original, p))
  BY <1>1 DEF k
<1>3. /\ Starts(original) \in SUBSET Nat /\ IsFiniteSet(Starts(original))
  BY StartsFinite
<1>4. Cardinality({r \in Starts(original) : r <= s})
        = Cardinality({r \in Starts(original) : r <= p})
  BY <1>2 DEF UpTo
<1>5. s = p
  BY <1>1, <1>3, <1>4, RankIsUnique
<1> QED
  BY <1>5 DEF k, s

\* The delimiters that are left from p on.
Cuts(t, p) == {q \in p .. Len(t) : t[q] = DELIMITER}

\* What begins after the next cut
LEMMA NextStart ==
    ASSUME NEW t \in Seq(TextChar), NEW p \in Starts(t), NEW q \in Cuts(t, p),
           \A r \in Cuts(t, p) : q <= r
    PROVE  /\ q + 1 \in Starts(t) \cup {Len(t) + 1}
           /\ Before(t, q + 1) = UpTo(t, p)
BY LenProperties DEF Starts, Cuts, Before, UpTo

\* Behind the last cut begins the last word.
LEMMA LastStart ==
    ASSUME NEW t \in Seq(TextChar), NEW p \in Starts(t), Cuts(t, p) = {}
    PROVE  UpTo(t, p) = Starts(t)
BY LenProperties DEF Starts, Cuts, UpTo

\* At the end of the text all words are in front.
LEMMA AllStarts ==
    ASSUME NEW t \in Seq(TextChar)
    PROVE  Before(t, Len(t) + 1) = Starts(t)
BY LenProperties DEF Starts, Before

\* The text when string points to p.
CutBefore(t, p) ==
    [q \in 1 .. Len(t) |-> IF q < p /\ t[q] = DELIMITER THEN NUL ELSE t[q]]

\* What the CHOOSE of Min finds
LEMMA MinIsLeast ==
    ASSUME NEW T \in SUBSET Nat, T # {}
    PROVE  SeqOps!Min(T) \in T /\ \A n \in T : SeqOps!Min(T) <= n
BY LeastNatural DEF SeqOps!Min

\* Where strchr finds the next delimiter
LEMMA Scan ==
    ASSUME original \in Seq(TextChar), string \in 1 .. Len(original) + 1,
           text = CutBefore(original, string)
    PROVE  /\ End = Len(original) + 1
           /\ Found = 0 <=> Cuts(original, string) = {}
           /\ Found # 0 => /\ Found \in Cuts(original, string)
                           /\ \A r \in Cuts(original, string) : Found <= r
           /\ SubSeq(text, string, (IF Found = 0 THEN End ELSE Found) - 1)
                 = WordFrom(original, string)
<1>1. /\ Len(original) \in Nat
      /\ \A q \in 1 .. Len(original) : original[q] \in TextChar
  BY LenProperties, ElementOfSeq
<1>2. /\ text \in Seq(TextChar \cup {NUL}) /\ Len(text) = Len(original)
      /\ \A q \in string .. Len(original) : text[q] = original[q]
  BY <1>1 DEF CutBefore
<1>3. {q \in string .. Len(text) : text[q] = NUL} = {}
  BY <1>1, <1>2, TextAssumption DEF TextChar
<1>4. End = Len(original) + 1
  BY <1>2, <1>3 DEF End, SeqOps!SelectInSubSeq
<1>5. {q \in string .. End - 1 : text[q] = DELIMITER} = Cuts(original, string)
  BY <1>1, <1>2, <1>4 DEF Cuts
<1>6. Found = IF Cuts(original, string) = {} THEN 0
              ELSE SeqOps!Min(Cuts(original, string))
  BY <1>5 DEF Found, SeqOps!SelectInSubSeq
<1>7. Cuts(original, string) \in SUBSET Nat /\ 0 \notin Cuts(original, string)
  BY <1>1 DEF Cuts
<1>8. /\ Found = 0 <=> Cuts(original, string) = {}
      /\ Found # 0 => /\ Found \in Cuts(original, string)
                      /\ \A r \in Cuts(original, string) : Found <= r
  BY <1>6, <1>7, MinIsLeast
<1> DEFINE to == IF Cuts(original, string) = {} THEN Len(original)
                 ELSE SeqOps!Min(Cuts(original, string)) - 1
<1>9. to \in 0 .. Len(original) /\ string \in Nat
  <2>1. Cuts(original, string) # {} =>
            SeqOps!Min(Cuts(original, string)) \in Cuts(original, string)
    BY <1>7, MinIsLeast
  <2>2. Cuts(original, string) \subseteq 1 .. Len(original)
    BY <1>1 DEF Cuts
  <2> QED
    BY <1>1, <2>1, <2>2
<1>10. (IF Found = 0 THEN End ELSE Found) - 1 = to
  BY <1>1, <1>4, <1>6, <1>8, <1>9
<1>11. WordFrom(original, string) = SubSeq(original, string, to)
  BY DEF WordFrom, Cuts
<1> HIDE DEF to
<1>12. SubSeq(text, string, to) = SubSeq(original, string, to)
  <2>1. /\ \A q \in string .. to : text[q] \in TextChar
        /\ \A q \in string .. to : original[q] \in TextChar
        /\ \A q \in string .. to : text[q] = original[q]
    BY <1>1, <1>2, <1>9
  <2>2. /\ SubSeq(text, string, to) \in Seq(TextChar)
        /\ SubSeq(original, string, to) \in Seq(TextChar)
        /\ Len(SubSeq(text, string, to)) = Len(SubSeq(original, string, to))
        /\ Len(SubSeq(text, string, to)) = IF string <= to THEN to - string + 1 ELSE 0
        /\ \A k \in 1 .. to - string + 1 :
              /\ SubSeq(text, string, to)[k] = text[string + k - 1]
              /\ SubSeq(original, string, to)[k] = original[string + k - 1]
    BY <1>9, <2>1, SubSeqProperties
  <2>3. \A k \in 1 .. Len(SubSeq(text, string, to)) :
            SubSeq(text, string, to)[k] = SubSeq(original, string, to)[k]
    BY <1>9, <2>1, <2>2
  <2> QED
    BY <2>2, <2>3, SeqEqual
<1> QED
  BY <1>4, <1>8, <1>10, <1>11, <1>12

----------------------------------------------------------------------------
\* The array holds all elements, in the order in which they were added.
Collected ==
    /\ a.block_size = VANESSA_DEFAULT_DYNAMIC_ARRAY_BLOCK_SIZE
    /\ a.count = Len(value)
    /\ a.held = 1 .. a.count
    /\ \A s \in Used(a) : a.vector[s] = s + 1

\* The elements are copies of the first words.
Copies == {Copied(WordFrom(original, p)) : p \in Starts(original)}

CopiedFirst ==
    /\ value \in Seq(Copies)
    /\ Len(value) <= Cardinality(Starts(original))
    /\ \A k \in 1 .. Len(value) : value[k] = Words[k]

\* Between two rounds of the loop, these are the words in front of string.
Underway ==
    /\ original # NULL /\ ~ undefined /\ result = NULL
    /\ Collected
    /\ string \in Starts(original) \cup {Len(original) + 1}
    /\ a.count = Cardinality(Before(original, string))
    /\ text = CutBefore(original, string)

\* The inductive invariant of a call: the array is well formed as in every use of
\* it, has the words that were copied, and what was returned is right.
SplitInv ==
    /\ IInv
    /\ copy = NULL /\ i = NULL
    /\ IF original = NULL THEN a = NULL /\ value = <<>>
       ELSE /\ original \in Text /\ (to_int => AllInts(original))
            /\ CopiedFirst
            /\ Len(text) = Len(original) /\ string \in 1 .. Len(text) + 1
    /\ a # NULL => Collected
    /\ pc = "create" => /\ a = NULL /\ ~ undefined /\ result = NULL
                        /\ value = <<>> /\ string = 1 /\ text = original
    /\ pc = "loop" => Underway
    /\ WordsRight
    /\ FailureContained

\* The words are those of the string as it was passed.
LEMMA SameWords ==
    ASSUME UNCHANGED <<original, to_int>>
    PROVE  /\ Words' = Words
           /\ \A k : Start(k)' = Start(k)
           /\ Copies' = Copies
BY DEF Words, Start, Copied, Copies

\* Adding an element does not change the block size.
LEMMA AddKeepsBlock ==
    ASSUME NEW x, IsArray(x), NEW e
    PROVE  /\ Grown(x).block_size = x.block_size
           /\ Stored(Grown(x), e).block_size = x.block_size
BY DEF IsArray, ArrayOf, Grown, Stored, Resized

\* What TextAssumption says of one text
LEMMA TextFacts ==
    ASSUME NEW t \in Text
    PROVE  /\ t \in Seq(TextChar) /\ Len(t) \in Nat /\ Len(t) <= SSIZE_MAX
           /\ t # NULL
           /\ Starts(t) \subseteq 1 .. Len(t)
           /\ Cardinality(Starts(t)) \in Nat
           /\ Cardinality(Starts(t)) <= SSIZE_MAX
<1>1. t \in Seq(TextChar) /\ Len(t) <= SSIZE_MAX /\ t # NULL
  BY TextAssumption DEF TextChar
<1>2. Len(t) \in Nat
  BY <1>1, LenProperties
<1>3. Starts(t) \subseteq 1 .. Len(t)
  BY <1>2 DEF Starts
<1>4. Cardinality(Starts(t)) \in Nat /\ Cardinality(Starts(t)) <= Len(t)
  BY <1>1, StartsFinite
<1> QED
  BY <1>1, <1>2, <1>3, <1>4, ArrayAssumption

\* A word that is added is the next one.
LEMMA AddNext ==
    ASSUME SplitInv, pc = "loop", string \in Starts(original),
           Add(WordFrom(original, string)), UNCHANGED <<original, to_int>>
    PROVE  /\ IInv' /\ copy' = NULL /\ i' = NULL
           /\ ~ undefined'
           /\ a'.count = Cardinality(UpTo(original, string))
           /\ CopiedFirst' /\ Collected'
<1> DEFINE n == Cardinality(UpTo(original, string))
           e == Len(value) + 1
<1>1. /\ a # NULL /\ IInv /\ WellFormed(a) /\ Collected /\ CopiedFirst /\ Underway
      /\ original \in Text /\ original \in Seq(TextChar)
  BY TextFacts DEF SplitInv, Underway, IInv, HasArray, Add, AddElement
<1>2. /\ n \in Nat /\ n <= Cardinality(Starts(original))
      /\ n = Cardinality(Before(original, string)) + 1
      /\ Cardinality(Starts(original)) \in Nat
      /\ Cardinality(Starts(original)) <= SSIZE_MAX
      /\ Cardinality(Before(original, string)) \in Nat
  BY <1>1, StartsFinite, StartCounts, TextFacts
<1>3. e = n /\ e \in 1 .. SSIZE_MAX /\ e \in Elem /\ Len(value) \in Nat
      /\ n = a.count + 1
  BY <1>1, <1>2, TextAssumption, ArrayAssumption DEF Underway, Collected
<1>4. Start(n) = string
  BY <1>1, StartOf
<1>5. /\ Words[n] = Copied(WordFrom(original, string))
      /\ Copied(WordFrom(original, string)) \in Copies
  BY <1>2, <1>4 DEF Words, Copies
<1> HIDE DEF n
<1>6. AddElement(e) /\ value' = Append(value, Words[n])
  BY <1>5 DEF Add
<1>7. IInv'
  BY <1>1, <1>3, <1>6, FillingIInv DEF Filling
<1>8. CopiedFirst'
  <2>1. /\ value' \in Seq(Copies) /\ Len(value') = n
        /\ \A k \in 1 .. Len(value) : value'[k] = value[k]
        /\ value'[n] = Words[n]
    BY <1>1, <1>3, <1>5, <1>6, AppendProperties DEF CopiedFirst
  <2>2. /\ Words' = Words /\ Copies' = Copies /\ original' = original
    BY SameWords
  <2>3. \A k \in 1 .. n : value'[k] = Words[k]
    BY <1>1, <1>3, <2>1 DEF CopiedFirst
  <2> QED
    BY <1>2, <2>1, <2>2, <2>3 DEF CopiedFirst
<1>9. /\ a' = Stored(Grown(a), e) /\ copy' = copy /\ i' = i
      /\ undefined' = undefined /\ e \notin a.held /\ a # NULL
  BY <1>6 DEF AddElement
<1>10. /\ WellFormed(a') /\ a'.count = a.count + 1
       /\ a'.held = a.held \cup {e}
       /\ a'.vector[a.count] = e
       /\ \A s \in Used(a) : a'.vector[s] = a.vector[s]
       /\ a'.block_size = a.block_size
  <2>1. e # NULL
    BY <1>3, ArrayAssumption
  <2> QED
    BY <1>1, <1>3, <1>9, <2>1, AddWellFormed, AddKeepsBlock DEF WellFormed
<1>11. Collected'
  <2>1. Len(value') = n
    BY <1>1, <1>3, <1>5, <1>6, AppendProperties DEF CopiedFirst
  <2>2. a.count \in Nat /\ a.count + 1 = n /\ e = n
    BY <1>1, <1>3, ArrayFields DEF WellFormed, Collected
  <2>3. Used(a') = Used(a) \cup {a.count}
    BY <1>10, <2>2 DEF Used
  <2>4. \A s \in Used(a') : a'.vector[s] = s + 1
    BY <1>1, <1>10, <2>2, <2>3 DEF Collected
  <2>5. a'.held = 1 .. a'.count
    BY <1>1, <1>10, <2>2 DEF Collected
  <2> QED
    BY <1>1, <1>10, <2>1, <2>2, <2>4, <2>5 DEF Collected
<1> QED
  BY <1>1, <1>3, <1>7, <1>8, <1>9, <1>10, <1>11 DEF SplitInv, Underway, n

\* Slots that hold the elements in the order of their allocation are read so.
LEMMA ReadInOrder ==
    ASSUME NEW x, x.count \in Nat, \A s \in Used(x) : x.vector[s] = s + 1,
           NEW v, NEW w, \A k \in 1 .. x.count : v[k] = w[k]
    PROVE  [k \in 1 .. x.count |-> v[GetElement(x, k - 1)]]
             = [k \in 1 .. x.count |-> w[k]]
<1>1. ASSUME NEW k \in 1 .. x.count PROVE v[GetElement(x, k - 1)] = w[k]
  <2>1. k - 1 \in Used(x) /\ k \in Nat /\ k - 1 < x.count
    BY DEF Used
  <2>2. GetElement(x, k - 1) = k
    BY <2>1 DEF GetElement
  <2> QED
    BY <2>2
<1> QED
  BY <1>1

\* The first members of a sequence, but not all, are a strict prefix of it.
LEMMA FirstIsStrictPrefix ==
    ASSUME NEW C, NEW w \in Seq(C), NEW n \in Nat, n < Len(w)
    PROVE  SeqOps!IsStrictPrefix([k \in 1 .. n |-> w[k]], w)
<1> DEFINE r == [k \in 1 .. n |-> w[k]]
<1>1. Len(w) \in Nat /\ \A k \in 1 .. Len(w) : w[k] \in C
  BY LenProperties, ElementOfSeq
<1>2. r \in [1 .. n -> C] /\ \A k \in 1 .. n : r[k] = w[k]
  BY <1>1
<1> HIDE DEF r
<1>3. r \in Seq(C) /\ Len(r) = n
  BY <1>2, FunctionIsSeq
<1>4. SubSeq(r, 1, n) = r
  BY <1>3, SubSeqFull
<1>5. /\ SubSeq(w, 1, n) \in Seq(C) /\ Len(SubSeq(w, 1, n)) = n
      /\ \A k \in 1 .. n : SubSeq(w, 1, n)[k] = w[k]
  <2>1. 1 \in Int /\ n \in Int /\ \A k \in 1 .. n : w[k] \in C
    BY <1>1
  <2>2. /\ SubSeq(w, 1, n) \in Seq(C)
        /\ Len(SubSeq(w, 1, n)) = IF 1 <= n THEN n - 1 + 1 ELSE 0
        /\ \A k \in 1 .. n - 1 + 1 : SubSeq(w, 1, n)[k] = w[1 + k - 1]
    BY <2>1, SubSeqProperties
  <2> QED
    BY <2>2
<1>6. r = SubSeq(w, 1, n)
  BY <1>2, <1>3, <1>5, SeqEqual
<1> QED
  BY <1>1, <1>3, <1>4, <1>6 DEF SeqOps!IsStrictPrefix, SeqOps!IsPrefix, r

\* There are as many words as places where one begins.
LEMMA WordsIsSeq ==
    ASSUME Cardinality(Starts(original)) \in Nat
    PROVE  \E C : Words \in Seq(C) /\ Len(Words) = Cardinality(Starts(original))
<1> DEFINE m == Cardinality(Starts(original))
           C == {Words[k] : k \in 1 .. m}
<1>1. Words \in [1 .. m -> C]
  BY DEF Words
<1> QED
  BY <1>1, FunctionIsSeq

\* What was returned when a word was not added
LEMMA AddFailsInv ==
    ASSUME SplitInv, pc = "loop", string \in Starts(original), AddFails,
           UNCHANGED <<original, to_int, string>>, Len(text') = Len(text)
    PROVE  SplitInv'
<1> DEFINE n == Cardinality(UpTo(original, string))
<1>1. /\ a # NULL /\ IInv /\ WellFormed(a) /\ Collected /\ CopiedFirst /\ Underway
      /\ original \in Text /\ original \in Seq(TextChar)
      /\ (to_int => AllInts(original))
      /\ Len(text) = Len(original) /\ string \in 1 .. Len(text) + 1
      /\ copy = NULL /\ i = NULL /\ result = NULL /\ ~ undefined
  BY TextFacts DEF SplitInv, Underway, IInv, HasArray, AddFails, AddDuplicateFails,
                   AddReallocFails
<1>2. /\ n = a.count + 1 /\ n <= Cardinality(Starts(original))
      /\ a.count \in Nat /\ Cardinality(Starts(original)) \in Nat
      /\ Start(n) = string
  BY <1>1, StartsFinite, StartCounts, StartOf, TextFacts DEF Underway
<1> HIDE DEF n
<1>3. /\ Words' = Words /\ (\A k : Start(k)' = Start(k)) /\ Copies' = Copies
      /\ original' = original /\ value' = value /\ pc' = "returned" /\ result' = NULL
      /\ copy' = NULL /\ i' = NULL /\ string' = string /\ to_int' = to_int
  BY <1>1, SameWords DEF AddFails, AddDuplicateFails, AddReallocFails
<1>4. IInv'
  BY <1>1, FillingIInv DEF AddFails, Filling
<1>5. CopiedFirst'
  BY <1>1, <1>3 DEF CopiedFirst
<1>6. ASSUME a' # NULL PROVE a' = Grown(a)
  BY <1>6 DEF AddFails, AddDuplicateFails, AddReallocFails
<1>7. /\ Grown(a).count = a.count /\ Grown(a).held = a.held
      /\ Grown(a).block_size = a.block_size
      /\ \A s \in Used(a) : Grown(a).vector[s] = a.vector[s]
  BY <1>1, GrownWellFormed, AddKeepsBlock DEF WellFormed
<1>8. a' # NULL => Collected' /\ a'.count = a.count
  BY <1>1, <1>3, <1>6, <1>7 DEF Collected, Used
<1>9. WordsRight'
  BY <1>3, TextAssumption DEF WordsRight
<1>10. ASSUME a' # NULL
       PROVE  SeqOps!IsStrictPrefix(Read', Words) /\ string = Start(a'.count + 1)
  <2>1. Read' = [k \in 1 .. a'.count |-> Words[k]]
    <3>1. /\ a'.count \in Nat /\ \A s \in Used(a') : a'.vector[s] = s + 1
          /\ \A k \in 1 .. a'.count : value'[k] = Words[k]
      BY <1>2, <1>3, <1>5, <1>8, <1>10 DEF Collected, CopiedFirst
    <3> QED
      BY <3>1, ReadInOrder DEF Read
  <2>2. a'.count < Len(Words) /\ a'.count \in Nat
    BY <1>2, <1>8, <1>10, WordsIsSeq
  <2> QED
    BY <1>2, <1>8, <1>10, <2>1, <2>2, WordsIsSeq, FirstIsStrictPrefix
<1>11. ASSUME undefined'
       PROVE  Len(Words) > VANESSA_DEFAULT_DYNAMIC_ARRAY_BLOCK_SIZE
  <2>1. MustGrow(a) /\ DestroyReadsNull(a)
    BY <1>1, <1>11 DEF AddFails, AddDuplicateFails, AddReallocFails
  <2>2. /\ a.count > 0 /\ a.count = a.allocated_size
        /\ a.block_size = VANESSA_DEFAULT_DYNAMIC_ARRAY_BLOCK_SIZE
    BY <1>1, <2>1 DEF MustGrow, DestroyReadsNull, Collected
  <2>3. a.count >= a.block_size
    BY <1>1, <2>2, AllocatedBlocks
  <2> QED
    BY <1>2, <2>2, <2>3, WordsIsSeq DEF VANESSA_DEFAULT_DYNAMIC_ARRAY_BLOCK_SIZE
<1>12. FailureContained'
  BY <1>3, <1>10, <1>11 DEF FailureContained
<1> QED
  BY <1>1, <1>3, <1>4, <1>5, <1>8, <1>9, <1>12, TextFacts DEF SplitInv

\* A call begins in the invariant.
LEMMA SplitInitInv == SplitInit => SplitInv
<1> SUFFICES ASSUME SplitInit PROVE SplitInv
  OBVIOUS
<1>1. IInv
  BY InitIInv DEF SplitInit
<1>2. ASSUME original # NULL
      PROVE  /\ original \in Text /\ CopiedFirst
             /\ Len(text) = Len(original) /\ string \in 1 .. Len(text) + 1
  <2>1. original \in Text
    BY <1>2 DEF SplitInit
  <2>2. value = <<>> /\ text = original /\ string = 1
    BY DEF SplitInit
  <2>3. value \in Seq(Copies) /\ Len(value) = 0
    BY <2>2, EmptySeq
  <2> QED
    BY <2>1, <2>2, <2>3, TextFacts DEF CopiedFirst
<1> QED
  BY <1>1, <1>2, TextAssumption DEF SplitInit, Init, SplitInv, WordsRight, FailureContained

\* The first start is at the first character, when there is one.
LEMMA FirstStart ==
    ASSUME NEW t \in Text
    PROVE  /\ 1 \in Starts(t) \cup {Len(t) + 1}
           /\ Cardinality(Before(t, 1)) = 0
           /\ CutBefore(t, 1) = t
<1>1. /\ t \in Seq(TextChar) /\ Len(t) \in Nat
      /\ t \in [1 .. Len(t) -> TextChar]
  BY TextFacts, LenProperties
<1>2. 1 \in Starts(t) \cup {Len(t) + 1}
  BY <1>1 DEF Starts
<1>3. Before(t, 1) = {}
  BY <1>1 DEF Before, Starts
<1>4. CutBefore(t, 1) = t
  BY <1>1 DEF CutBefore
<1> QED
  BY <1>2, <1>3, <1>4, FS_EmptySet

\* The steps of a call keep the invariant, one lemma for each.
LEMMA CreateInv == SplitInv /\ CreateArray => SplitInv'
<1> SUFFICES ASSUME SplitInv, CreateArray PROVE SplitInv'
  OBVIOUS
<1>1. /\ IInv /\ copy = NULL /\ i = NULL /\ original # NULL /\ original \in Text
      /\ (to_int => AllInts(original)) /\ CopiedFirst
      /\ value = <<>> /\ string = 1 /\ text = original /\ result = NULL /\ ~ undefined
  BY DEF SplitInv, CreateArray
<1>2. /\ original' = original /\ to_int' = to_int /\ text' = text /\ string' = string
      /\ value' = value /\ result' = result /\ pc' = "loop"
      /\ a' = NewArray(0) /\ copy' = copy /\ i' = i /\ undefined' = undefined
  BY DEF CreateArray, Create
<1>3. IInv'
  BY <1>1, FillingIInv, TextAssumption DEF CreateArray, Filling
<1>4. Words' = Words /\ Copies' = Copies
  BY <1>2, SameWords
<1>5. CopiedFirst'
  BY <1>1, <1>2, <1>4 DEF CopiedFirst
<1>6. Collected' /\ a'.count = 0
  BY <1>1, <1>2, EmptySeq DEF Collected, NewArray, Used
<1>7. Underway'
  BY <1>1, <1>2, <1>6, FirstStart DEF Underway
<1>8. WordsRight' /\ FailureContained'
  BY <1>1, <1>2, TextAssumption DEF WordsRight, FailureContained
<1> QED
  BY <1>1, <1>2, <1>3, <1>5, <1>6, <1>7, <1>8, TextFacts DEF SplitInv

\* The delimiter that was found is cut, and string points behind it.
LEMMA CutMoves ==
    ASSUME NEW t \in Text, NEW p \in Starts(t), NEW q \in Cuts(t, p),
           \A r \in Cuts(t, p) : q <= r
    PROVE  [CutBefore(t, p) EXCEPT ![q] = NUL] = CutBefore(t, q + 1)
<1>1. Len(t) \in Nat /\ p \in 1 .. Len(t) /\ q \in p .. Len(t) /\ t[q] = DELIMITER
  BY TextFacts DEF Cuts, Starts
<1>2. \A r \in 1 .. Len(t) : t[r] = DELIMITER /\ r < q + 1 => r < p \/ r = q
  BY <1>1 DEF Cuts
<1>3. \A r \in 1 .. Len(t) : t[r] = DELIMITER /\ (r < p \/ r = q) => r < q + 1
  BY <1>1
<1>4. \A r \in 1 .. Len(t) :
         (IF r = q THEN NUL ELSE CutBefore(t, p)[r]) = CutBefore(t, q + 1)[r]
  BY <1>1, <1>2, <1>3 DEF CutBefore
<1>5. DOMAIN CutBefore(t, p) = 1 .. Len(t) /\ DOMAIN CutBefore(t, q + 1) = 1 .. Len(t)
  BY DEF CutBefore
<1>6. CutBefore(t, q + 1) = [r \in 1 .. Len(t) |-> CutBefore(t, q + 1)[r]]
  BY DEF CutBefore
<1>7. [CutBefore(t, p) EXCEPT ![q] = NUL]
         = [r \in 1 .. Len(t) |-> IF r = q THEN NUL ELSE CutBefore(t, p)[r]]
  BY <1>5
<1> QED
  BY <1>4, <1>6, <1>7

\* A word and the cut behind it
LEMMA AddWordInv == SplitInv /\ AddWord => SplitInv'
<1> SUFFICES ASSUME SplitInv, AddWord PROVE SplitInv'
  OBVIOUS
<1>1. /\ Underway /\ original \in Text /\ original \in Seq(TextChar)
      /\ original # NULL /\ (to_int => AllInts(original))
      /\ Len(text) = Len(original) /\ string \in 1 .. Len(text) + 1
      /\ text = CutBefore(original, string)
      /\ string \in Starts(original) \cup {Len(original) + 1}
      /\ Len(original) \in Nat
  BY TextFacts DEF SplitInv, AddWord, Underway
<1>2. /\ Found \in Cuts(original, string)
      /\ \A r \in Cuts(original, string) : Found <= r
      /\ SubSeq(text, string, Found - 1) = WordFrom(original, string)
  BY <1>1, Scan DEF AddWord
<1>3. string \in Starts(original) /\ Found \in string .. Len(original)
  BY <1>1, <1>2 DEF Cuts
<1>4. /\ Add(WordFrom(original, string)) /\ UNCHANGED <<original, to_int>>
      /\ pc = "loop" /\ pc' = "loop" /\ result' = result
      /\ text' = [text EXCEPT ![Found] = NUL] /\ string' = Found + 1
  BY <1>2 DEF AddWord
<1>5. /\ IInv' /\ copy' = NULL /\ i' = NULL /\ ~ undefined'
      /\ a'.count = Cardinality(UpTo(original, string))
      /\ CopiedFirst' /\ Collected'
  BY <1>3, <1>4, AddNext
<1>6. text' = CutBefore(original, Found + 1)
  BY <1>1, <1>2, <1>3, <1>4, CutMoves
<1>7. /\ Found + 1 \in Starts(original) \cup {Len(original) + 1}
      /\ Before(original, Found + 1) = UpTo(original, string)
  BY <1>1, <1>2, <1>3, NextStart
<1>8. Underway'
  BY <1>1, <1>4, <1>5, <1>6, <1>7 DEF Underway
<1>9. /\ Len(text') = Len(original') /\ string' \in 1 .. Len(text') + 1
  BY <1>1, <1>3, <1>4 DEF CutBefore
<1>10. WordsRight' /\ FailureContained'
  BY <1>1, <1>4, TextAssumption DEF WordsRight, FailureContained, Underway
<1> QED
  BY <1>1, <1>4, <1>5, <1>8, <1>9, <1>10 DEF SplitInv

\* An array with all words reads as the text does.
LEMMA WordsRead ==
    ASSUME UNCHANGED <<original, to_int>>, CopiedFirst', Collected',
           a'.count = Cardinality(Starts(original)), a'.count \in Nat
    PROVE  Read' = Words'
<1>1. /\ \A s \in Used(a') : a'.vector[s] = s + 1
      /\ \A k \in 1 .. a'.count : value'[k] = Words'[k]
  BY DEF Collected, CopiedFirst
<1>2. [k \in 1 .. a'.count |-> value'[GetElement(a', k - 1)]]
        = [k \in 1 .. a'.count |-> Words'[k]]
  BY <1>1, ReadInOrder
<1>3. Words' = [k \in 1 .. a'.count |-> Words'[k]]
  BY DEF Words
<1> QED
  BY <1>2, <1>3 DEF Read

\* An allocation fails for a word that a delimiter ends.
LEMMA AddWordFailsInv == SplitInv /\ AddWordFails => SplitInv'
<1> SUFFICES ASSUME SplitInv, AddWordFails PROVE SplitInv'
  OBVIOUS
<1>1. /\ Underway /\ original \in Seq(TextChar) /\ Len(original) \in Nat
      /\ text = CutBefore(original, string) /\ string \in 1 .. Len(original) + 1
      /\ string \in Starts(original) \cup {Len(original) + 1}
  BY TextFacts DEF SplitInv, AddWordFails, Underway
<1>2. Found \in Cuts(original, string)
  BY <1>1, Scan DEF AddWordFails
<1>3. string \in Starts(original)
  BY <1>1, <1>2 DEF Cuts
<1>4. Len(text') = Len(text)
  BY <1>1 DEF AddWordFails, CutBefore
<1> QED
  BY <1>3, <1>4, AddFailsInv DEF AddWordFails

\* The word at the end
LEMMA AddLastWordInv == SplitInv /\ AddLastWord => SplitInv'
<1> SUFFICES ASSUME SplitInv, AddLastWord PROVE SplitInv'
  OBVIOUS
<1>1. /\ Underway /\ original \in Text /\ original \in Seq(TextChar)
      /\ original # NULL /\ (to_int => AllInts(original))
      /\ Len(text) = Len(original) /\ string \in 1 .. Len(text) + 1
      /\ text = CutBefore(original, string)
      /\ string \in Starts(original) \cup {Len(original) + 1}
      /\ Len(original) \in Nat
  BY TextFacts DEF SplitInv, AddLastWord, Underway
<1>2. /\ Cuts(original, string) = {} /\ End = Len(original) + 1
      /\ SubSeq(text, string, End - 1) = WordFrom(original, string)
  BY <1>1, Scan DEF AddLastWord
<1>3. string \in Starts(original)
  BY <1>1, <1>2 DEF AddLastWord
<1>4. /\ Add(WordFrom(original, string)) /\ UNCHANGED <<original, to_int>>
      /\ pc = "loop" /\ pc' = "returned" /\ result' = "array"
      /\ text' = text /\ string' = string
  BY <1>2 DEF AddLastWord
<1>5. /\ IInv' /\ copy' = NULL /\ i' = NULL /\ ~ undefined'
      /\ a'.count = Cardinality(UpTo(original, string))
      /\ CopiedFirst' /\ Collected'
  BY <1>3, <1>4, AddNext
<1>6. a'.count = Cardinality(Starts(original)) /\ a'.count \in Nat
  BY <1>1, <1>2, <1>3, <1>5, LastStart, StartsFinite
<1>7. Read' = Words'
  BY <1>4, <1>5, <1>6, WordsRead
<1>8. \A p \in 1 .. Len(text) :
         text[p] = IF original[p] = DELIMITER THEN NUL ELSE original[p]
  BY <1>1, <1>2 DEF Cuts, CutBefore
<1>9. WordsRight'
  BY <1>4, <1>7, <1>8 DEF WordsRight
<1>10. FailureContained'
  BY <1>4, TextAssumption DEF FailureContained
<1> QED
  BY <1>1, <1>4, <1>5, <1>9, <1>10 DEF SplitInv

\* An allocation fails for the word at the end.
LEMMA AddLastWordFailsInv == SplitInv /\ AddLastWordFails => SplitInv'
<1> SUFFICES ASSUME SplitInv, AddLastWordFails PROVE SplitInv'
  OBVIOUS
<1>1. /\ original \in Seq(TextChar) /\ Len(original) \in Nat
      /\ text = CutBefore(original, string) /\ string \in 1 .. Len(original) + 1
      /\ string \in Starts(original) \cup {Len(original) + 1}
  BY TextFacts DEF SplitInv, AddLastWordFails, Underway
<1>2. End = Len(original) + 1
  BY <1>1, Scan
<1>3. string \in Starts(original)
  BY <1>1, <1>2 DEF AddLastWordFails
<1> QED
  BY <1>3, AddFailsInv DEF AddLastWordFails

\* A text that ends with a delimiter, or is empty
LEMMA NoLastWordInv == SplitInv /\ NoLastWord => SplitInv'
<1> SUFFICES ASSUME SplitInv, NoLastWord PROVE SplitInv'
  OBVIOUS
<1>1. /\ Underway /\ original \in Text /\ original \in Seq(TextChar)
      /\ original # NULL /\ IInv /\ copy = NULL /\ i = NULL
      /\ Len(text) = Len(original) /\ string \in 1 .. Len(text) + 1
      /\ text = CutBefore(original, string)
      /\ Len(original) \in Nat /\ CopiedFirst /\ Collected
  BY TextFacts DEF SplitInv, NoLastWord, Underway
<1>2. string = Len(original) + 1
  BY <1>1, Scan DEF NoLastWord
<1>3. /\ UNCHANGED <<original, to_int, text, string, value, a, copy, i, undefined>>
      /\ pc' = "returned" /\ result' = "array"
  BY DEF NoLastWord, vars
<1>4. a.count = Cardinality(Starts(original)) /\ a.count \in Nat
  BY <1>1, <1>2, AllStarts, StartsFinite DEF Underway
<1>5. Words' = Words /\ Copies' = Copies
  BY <1>3, SameWords
<1>6. CopiedFirst' /\ Collected'
  BY <1>1, <1>3, <1>5 DEF CopiedFirst, Collected, Used
<1>7. Read' = Words'
  BY <1>3, <1>4, <1>6, WordsRead
<1>8. WordsRight'
  BY <1>1, <1>2, <1>3, <1>7 DEF WordsRight, CutBefore
<1>9. FailureContained'
  BY <1>3, TextAssumption DEF FailureContained
<1>10. IInv'
  BY <1>1, <1>3 DEF IInv, HasArray, CopyProgress, CopyEqual, CopyNoLarger
<1> QED
  BY <1>1, <1>3, <1>6, <1>8, <1>9, <1>10 DEF SplitInv

\* NULL is returned before anything was created, or nothing happens.
LEMMA RestInv ==
    ASSUME SplitInv,
           RejectNull \/ CreateFails \/ UNCHANGED split_vars
    PROVE  SplitInv'
<1>1. /\ UNCHANGED <<original, to_int, text, string, value, a, copy, i, undefined, result>>
      /\ pc' = pc \/ (pc = "create" /\ pc' = "returned")
  BY DEF RejectNull, CreateFails, split_vars, vars
<1>2. /\ Words' = Words /\ Copies' = Copies /\ Read' = Read
      /\ \A k : Start(k)' = Start(k)
  BY <1>1, SameWords DEF Read
<1>3. /\ IInv' /\ (CopiedFirst => CopiedFirst') /\ (Collected => Collected')
      /\ (Underway => Underway')
  BY <1>1, <1>2 DEF SplitInv, IInv, HasArray, CopyProgress, CopyEqual, CopyNoLarger,
                    CopiedFirst, Collected, Underway, Used
<1>4. WordsRight'
  BY <1>1, <1>2 DEF SplitInv, WordsRight
<1>5. FailureContained'
  BY <1>1, <1>2 DEF SplitInv, FailureContained
<1> QED
  BY <1>1, <1>3, <1>4, <1>5 DEF SplitInv

\* Every step of a call keeps the invariant.
LEMMA SplitNextInv == SplitInv /\ [SplitNext]_split_vars => SplitInv'
BY CreateInv, AddWordInv, AddWordFailsInv, AddLastWordInv, AddLastWordFailsInv,
   NoLastWordInv, RestInv DEF SplitNext, Proceed

\* It holds throughout every call.
LEMMA SplitInvHolds == FairSpec => []SplitInv
BY SplitInitInv, SplitNextInv, PTL DEF FairSpec

\* Every element is a copy of a word, so with to_int it is an int.
LEMMA SplitValues ==
    ASSUME SplitInv
    PROVE  /\ Len(value) <= SSIZE_MAX /\ DOMAIN value = 1 .. Len(value)
           /\ to_int => \A k \in DOMAIN value : value[k] \in CInt
<1>1. CASE original = NULL
  <2>1. value = <<>>
    BY <1>1 DEF SplitInv
  <2> QED
    BY <2>1, ArrayAssumption
<1>2. CASE original # NULL
  <2>1. /\ original \in Text /\ CopiedFirst /\ (to_int => AllInts(original))
    BY <1>2 DEF SplitInv
  <2>2. /\ Len(value) \in Nat /\ Len(value) <= SSIZE_MAX /\ DOMAIN value = 1 .. Len(value)
        /\ \A k \in 1 .. Len(value) : value[k] \in Copies
    BY <2>1, TextFacts, LenProperties, ElementOfSeq, ArrayAssumption DEF CopiedFirst
  <2> QED
    BY <2>1, <2>2 DEF Copies, Copied, AllInts
<1> QED
  BY <1>1, <1>2

\* The elements that are added fit into the array and ints are ints, for every set
\* of texts (dynamic_array.c 505-586).
THEOREM SplitsTyped == FairSpec => []SplitTypeOK
<1>1. SplitInv => SplitTypeOK
  <2> SUFFICES ASSUME SplitInv PROVE SplitTypeOK
    OBVIOUS
  <2>1. TypeOK
    BY DEF SplitInv, IInv, TypeOK, WellFormed
  <2>2. /\ original \in Text \cup {NULL}
        /\ a # NULL => string \in 1 .. Len(text) + 1
    BY DEF SplitInv
  <2> QED
    BY <2>1, <2>2, SplitValues DEF SplitTypeOK
<1> QED
  BY <1>1, SplitInvHolds, PTL

\* Every array that is returned has the words of its text, each as it was copied,
\* and the text is cut at its delimiters and nowhere else, however long it is
\* (dynamic_array.c 513-526, 561-579).
THEOREM SplitsRight == FairSpec => []WordsRight
<1>1. SplitInv => WordsRight
  BY DEF SplitInv
<1> QED
  BY <1>1, SplitInvHolds, PTL

\* Whichever allocation fails, the array that is left has exactly the words in front
\* of the one that was not added, and the loop of vanessa_dynamic_array_destroy
\* over a NULL vector needs more words than a block holds (dynamic_array.c 515-518,
\* 522-525, 138-142, 181-186).
THEOREM SplitFailuresContained == FairSpec => []FailureContained
<1>1. SplitInv => FailureContained
  BY DEF SplitInv
<1> QED
  BY <1>1, SplitInvHolds, PTL

----------------------------------------------------------------------------
\* The callbacks for ints

\* The powers of ten that fit into n
Fitting(n) == {p \in Powers : p <= n}

\* n > 9: one more fits than into n \div 10.
LEMMA TenthFits ==
    ASSUME NEW n \in Nat, n > 9, n \div 10 < Billion
    PROVE  /\ Fitting(n) = {10} \cup {10 * p : p \in Fitting(n \div 10)}
           /\ 10 \notin {10 * p : p \in Fitting(n \div 10)}
<1>1. \A p \in Powers \ {Billion} : p <= n \div 10 <=> 10 * p <= n
  BY SMT DEF Powers, Billion
<1>2. ~ Billion <= n \div 10
  BY SMT DEF Billion
<1>3. 10 <= n
  OBVIOUS
<1> QED
  BY <1>1, <1>2, <1>3, SMT DEF Fitting, Powers, Billion

\* They can be counted.
LEMMA FittingFinite ==
    ASSUME NEW n
    PROVE  IsFiniteSet(Fitting(n)) /\ Cardinality(Fitting(n)) \in Nat
<1>1. PICK top \in Int : \A p \in Powers : p \in 0 .. top
  <2>1. Billion \in Int /\ \A p \in Powers : p \in Int /\ 0 <= p /\ p <= Billion
    BY SMT DEF Powers, Billion
  <2> QED
    BY <2>1
<1>2. Fitting(n) \in SUBSET (0 .. top)
  BY <1>1 DEF Fitting
<1>3. IsFiniteSet(0 .. top)
  BY FS_Interval, 0 \in Int, Zenon
<1> QED
  BY <1>2, <1>3, FS_Subset, FS_CardinalityType

\* So printing n takes a digit more than printing n \div 10.
LEMMA TenthCounts ==
    ASSUME NEW n \in Nat, n > 9, n \div 10 < Billion
    PROVE  Cardinality(Fitting(n)) = 1 + Cardinality(Fitting(n \div 10))
<1> DEFINE F == Fitting(n \div 10)
           G == {10 * p : p \in F}
           times == [p \in F |-> 10 * p]
<1>1. IsFiniteSet(F) /\ Cardinality(F) \in Nat /\ F \in SUBSET Int
  <2>1. F \in SUBSET Int
    BY SMT DEF Fitting, Powers, Billion
  <2> QED
    BY <2>1, FittingFinite
<1>2. Fitting(n) = G \cup {10} /\ 10 \notin G
  BY TenthFits
<1> HIDE DEF F
<1>3. times \in [F -> G] /\ \A x \in G : \E p \in F : times[p] = x
  OBVIOUS
<1>4. \A p, q \in F : times[p] = times[q] => p = q
  BY <1>1
<1>5. times \in Surjection(F, G) /\ times \in Injection(F, G)
  BY <1>3, <1>4 DEF Surjection, Injection, IsInjective
<1> HIDE DEF G, times
<1>6. IsFiniteSet(G) /\ Cardinality(G) = Cardinality(F)
  BY <1>1, <1>5, FS_Surjection
<1>7. Cardinality(Fitting(n)) = Cardinality(G) + 1
  BY <1>2, <1>6, FS_AddElement
<1> QED
  BY <1>1, <1>6, <1>7 DEF F

\* What IntAssumption says of an int and its tenth
LEMMA IntFacts ==
    /\ INT_MAX \in Nat /\ INT_MAX \div 10 < Billion
    /\ \A n \in Int : n \in CInt <=> -INT_MAX - 1 <= n /\ n <= INT_MAX
    /\ \A n \in CInt : n \in Int
    /\ \A n \in CInt : n > 9 => /\ n \in Nat /\ n \div 10 \in CInt \cap Nat
                                /\ n \div 10 < n
                                /\ n \div 10 < Billion
BY IntAssumption, SMT DEF CInt, INT_MIN, Billion

\* What the loop counts
LEMMA DivisionsRounds ==
    \A n \in CInt : Divisions[n] = IF n > 9 THEN 1 + Divisions[n \div 10] ELSE 0
<1> DEFINE Rounds(f) == [n \in CInt |-> IF n > 9 THEN 1 + f[n \div 10] ELSE 0]
           g == [n \in CInt |-> Cardinality(Fitting(n))]
<1>1. ASSUME NEW n \in CInt
      PROVE  Cardinality(Fitting(n)) = IF n > 9 THEN 1 + g[n \div 10] ELSE 0
  <2>1. CASE n > 9
    BY <2>1, IntFacts, TenthCounts
  <2>2. CASE ~ n > 9
    <3>1. Fitting(n) = {}
      BY <2>2, IntFacts, SMT DEF Fitting, Powers, Billion
    <3> QED
      BY <2>2, <3>1, FS_EmptySet
  <2> QED
    BY <2>1, <2>2
<1>2. g = Rounds(g)
  BY <1>1
<1>3. Divisions = CHOOSE f : f = Rounds(f)
  BY DEF Divisions
<1> HIDE DEF g
<1>4. Divisions = Rounds(Divisions)
  <2> HIDE DEF Rounds
  <2> QED
    BY <1>2, <1>3
<1> QED
  BY <1>4

\* The rounds are the powers that fit: a least int for which they are not has a
\* tenth for which they are not.
LEMMA DivisionsCount ==
    ASSUME NEW n \in CInt, n >= 0
    PROVE  Divisions[n] = Cardinality(Fitting(n))
<1> DEFINE T == {m \in Nat : m \in CInt /\ Divisions[m] # Cardinality(Fitting(m))}
<1>1. ASSUME T # {} PROVE FALSE
  <2>1. PICK m \in T : \A k \in T : m <= k
    BY <1>1, LeastNatural
  <2>2. CASE m > 9
    <3>1. m \div 10 \notin T /\ m \div 10 \in CInt \cap Nat
      BY <2>1, <2>2, IntFacts
    <3>2. Divisions[m \div 10] = Cardinality(Fitting(m \div 10))
      BY <3>1
    <3>3. Divisions[m] = 1 + Divisions[m \div 10]
      BY <2>1, <2>2, DivisionsRounds
    <3>4. Cardinality(Fitting(m)) = 1 + Cardinality(Fitting(m \div 10))
      BY <2>1, <2>2, IntFacts, TenthCounts
    <3> QED
      BY <2>1, <3>2, <3>3, <3>4
  <2>3. CASE ~ m > 9
    <3>1. Fitting(m) = {} /\ Divisions[m] = 0
      BY <2>1, <2>3, DivisionsRounds, SMT DEF Fitting, Powers, Billion
    <3> QED
      BY <2>1, <3>1, FS_EmptySet
  <2> QED
    BY <2>2, <2>3
<1>2. n \in Nat
  BY IntFacts
<1> QED
  BY <1>1, <1>2

\* vanessa_length_int counts what is printed, but for the smallest int.
LEMMA LengthExact ==
    ASSUME NEW n \in CInt, n # INT_MIN
    PROVE  LengthInt(n) = PrintedLength(n)
<1>1. CASE n < 0
  <2>1. -n \in CInt /\ -n >= 0 /\ n \in Int
    BY <1>1, IntFacts DEF INT_MIN
  <2>2. Wrapped(-n) = -n
    <3>1. -n - INT_MIN \in 0 .. 2 * (INT_MAX + 1) - 1
      BY <2>1, IntFacts DEF INT_MIN
    <3>2. (-n - INT_MIN) % (2 * (INT_MAX + 1)) = -n - INT_MIN
      BY <3>1, IntFacts
    <3> QED
      BY <2>1, <3>2, IntFacts DEF Wrapped, INT_MIN
  <2>3. Divisions[-n] = Cardinality(Fitting(-n)) /\ Cardinality(Fitting(-n)) \in Nat
    BY <2>1, DivisionsCount, FittingFinite
  <2> QED
    BY <1>1, <2>2, <2>3 DEF LengthInt, PrintedLength, Fitting
<1>2. CASE ~ n < 0
  <2>1. n >= 0
    BY <1>2, IntFacts
  <2>2. Divisions[n] = Cardinality(Fitting(n)) /\ Cardinality(Fitting(n)) \in Nat
    BY <2>1, DivisionsCount, FittingFinite
  <2> QED
    BY <1>2, <2>2 DEF LengthInt, PrintedLength, Fitting
<1> QED
  BY <1>1, <1>2

\* A difference of two ints wraps to 0 only if it is 0.
LEMMA WrappedDifference ==
    ASSUME NEW d \in Int, -(2 * INT_MAX + 1) <= d, d <= 0
    PROVE  Wrapped(d) = 0 <=> d = 0
<1>1. INT_MAX \in Nat
  BY IntAssumption
<1>2. d - INT_MIN = d + INT_MAX + 1
  BY <1>1 DEF INT_MIN
<1>3. CASE d + INT_MAX + 1 >= 0
  <2>1. (d + INT_MAX + 1) % (2 * (INT_MAX + 1)) = d + INT_MAX + 1
    BY <1>1, <1>3
  <2> QED
    BY <1>1, <1>2, <2>1 DEF Wrapped, INT_MIN
<1>4. CASE d + INT_MAX + 1 < 0
  <2>1. (d + INT_MAX + 1) % (2 * (INT_MAX + 1)) = d + INT_MAX + 1 + 2 * (INT_MAX + 1)
    BY <1>1, <1>4
  <2> QED
    BY <1>1, <1>2, <2>1 DEF Wrapped, INT_MIN
<1> QED
  BY <1>1, <1>3, <1>4

\* vanessa_match_int takes two ints for equal exactly when they are.
LEMMA MatchExact ==
    ASSUME NEW x \in CInt, NEW y \in CInt
    PROVE  MatchInt(x, y) = 0 <=> x = y
<1>1. INT_MAX \in Nat /\ x \in Int /\ y \in Int
  BY IntAssumption DEF CInt, INT_MIN
<1>2. CASE x < y
  BY <1>1, <1>2, WrappedDifference DEF MatchInt, CInt, INT_MIN
<1>3. CASE ~ x < y
  BY <1>1, <1>3, WrappedDifference DEF MatchInt, CInt, INT_MIN
<1> QED
  BY <1>2, <1>3

\* Of every two ints that are split, the callbacks say what is printed of them
\* and whether they are equal: the rounds of vanessa_length_int are the powers of
\* ten that fit, and a difference that wraps around does not wrap to 0
\* (element_ops.c 81-117).
THEOREM IntsAlwaysExact == FairSpec => []IntsExact
<1>1. SplitInv => IntsExact
  BY SplitValues, LengthExact, MatchExact DEF IntsExact
<1> QED
  BY <1>1, SplitInvHolds, PTL
=============================================================================
