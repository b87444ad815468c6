---------------------------- MODULE QueueProofs ----------------------------
(***************************************************************************)
(* Theorems about Queue, for every set of cells and elements.              *)
(***************************************************************************)
EXTENDS Queue, SharedProofs

\* How many values an int has
IntValues == 2 * INT_MAX + 2

\* n is the number of members that size counts, however often it wrapped around.
Counts(size, n) == \E laps \in Int : n = size + laps * IntValues

QueueWellFormed(x) ==
    /\ x \in Queues
    /\ Chained(x)
    /\ LastEndsChain(x)
    /\ IsFiniteSet(x.cells)
    /\ Counts(x.size, Cardinality(x.cells))

\* The inductive invariant
IInv ==
    /\ HasQueue => QueueWellFormed(q)
    /\ popped \in Datum
    /\ destroyed \subseteq Value \cup {ValueField(c) : c \in Cell}

----------------------------------------------------------------------------
LEMMA QueueFields ==
    ASSUME NEW x \in Queues
    PROVE  /\ x.first \in Ptr /\ x.last \in Ptr
           /\ x.next \in [Cell -> Ptr] /\ x.prev \in [Cell -> Ptr]
           /\ x.value \in [Cell -> Datum] /\ x.cells \in SUBSET Cell
           /\ x.size \in INT_MIN .. INT_MAX
BY DEF Queues

\* Links from members lead to members.
LEMMA MembersStay ==
    ASSUME NEW x \in Queues, Chained(x)
    PROVE  /\ x.cells \subseteq Cell /\ NULL \notin x.cells
           /\ x.first \in x.cells \cup {NULL}
           /\ \A c \in x.cells : x.next[c] \in x.cells \cup {NULL}
           /\ \A c \in x.cells : x.prev[c] \in x.cells \cup {NULL}
<1>1. x.first \in x.cells \cup {NULL}
  BY QueueFields, ReachSelf DEF Chained, Ptr
<1>2. \A c \in x.cells : x.next[c] \in x.cells \cup {NULL}
  BY QueueFields, ReachStep DEF Chained
<1> QED
  BY <1>1, <1>2, QueueFields, ChainAssumption DEF Chained

LEMMA CountsRange ==
    ASSUME NEW n \in INT_MIN .. INT_MAX
    PROVE  /\ Incremented(n) \in INT_MIN .. INT_MAX
           /\ Decremented(n) \in INT_MIN .. INT_MAX
BY QueueAssumption DEF Incremented, Decremented, INT_MIN

\* Counting one up or down, with its wrap-around, follows the number.
LEMMA CountsFollow ==
    ASSUME NEW size \in INT_MIN .. INT_MAX, NEW n \in Int, Counts(size, n)
    PROVE  /\ Counts(Incremented(size), n + 1)
           /\ Counts(Decremented(size), n - 1)
<1>1. PICK laps \in Int : n = size + laps * IntValues
  BY DEF Counts
<1>2. /\ INT_MAX \in Nat /\ INT_MIN = - INT_MAX - 1
      /\ IntValues = 2 * INT_MAX + 2 /\ IntValues \in Int /\ size \in Int
  BY QueueAssumption DEF INT_MIN, IntValues
<1>3. /\ laps * IntValues \in Int
      /\ (laps + 1) * IntValues = laps * IntValues + IntValues
      /\ (laps - 1) * IntValues = laps * IntValues - IntValues
  <2> HIDE DEF IntValues
  <2> QED
    BY <1>2, Z3
<1>4. Counts(Incremented(size), n + 1)
  <2>1. CASE size = INT_MAX
    <3>1. n + 1 = INT_MIN + (laps + 1) * IntValues
      BY <1>1, <1>2, <1>3, <2>1
    <3> QED
      BY <3>1, <2>1 DEF Counts, Incremented
  <2>2. CASE size # INT_MAX
    <3>1. n + 1 = size + 1 + laps * IntValues
      BY <1>1, <1>2, <1>3
    <3> QED
      BY <3>1, <2>2 DEF Counts, Incremented
  <2> QED
    BY <2>1, <2>2
<1>5. Counts(Decremented(size), n - 1)
  <2>1. CASE size = INT_MIN
    <3>1. n - 1 = INT_MAX + (laps - 1) * IntValues
      BY <1>1, <1>2, <1>3, <2>1
    <3> QED
      BY <3>1, <2>1 DEF Counts, Decremented
  <2>2. CASE size # INT_MIN
    <3>1. n - 1 = size - 1 + laps * IntValues
      BY <1>1, <1>2, <1>3
    <3> QED
      BY <3>1, <2>2 DEF Counts, Decremented
  <2> QED
    BY <2>1, <2>2
<1> QED
  BY <1>4, <1>5

\* A number an int can hold is the int that counts it.
LEMMA CountsExact ==
    ASSUME NEW size \in INT_MIN .. INT_MAX, NEW n \in Nat, Counts(size, n),
           n <= INT_MAX
    PROVE  size = n
<1>1. PICK laps \in Int : n = size + laps * IntValues
  BY DEF Counts
<1>2. /\ INT_MAX \in Nat /\ INT_MIN = - INT_MAX - 1
      /\ IntValues = 2 * INT_MAX + 2 /\ IntValues \in Nat /\ size \in Int
  BY QueueAssumption DEF INT_MIN, IntValues
<1>3. /\ laps * IntValues \in Int
      /\ laps >= 1 => laps * IntValues >= IntValues
      /\ laps <= -1 => laps * IntValues <= - IntValues
      /\ laps = 0 => laps * IntValues = 0
  <2> HIDE DEF IntValues
  <2> QED
    BY <1>2, Z3
<1> QED
  BY <1>1, <1>2, <1>3

----------------------------------------------------------------------------
LEMMA NewQueueWellFormed == QueueWellFormed(NewQueue)
<1>1. NewQueue \in Queues
  BY QueueAssumption DEF NewQueue, Queues, Ptr, Datum, INT_MIN
<1>2. Chained(NewQueue) /\ LastEndsChain(NewQueue)
  BY ReachNull DEF NewQueue, Chained, LastEndsChain
<1>3. /\ IsFiniteSet(NewQueue.cells)
      /\ Cardinality(NewQueue.cells) = NewQueue.size + 0 * IntValues
  BY FS_EmptySet, QueueAssumption DEF NewQueue, IntValues
<1> QED
  BY <1>1, <1>2, <1>3 DEF QueueWellFormed, Counts

LEMMA PushedFields ==
    ASSUME NEW x \in Queues, NEW c \in Cell, NEW v \in Datum
    PROVE  LET y == Pushed(x, c, v)
           IN  /\ y \in Queues
               /\ \A d \in Cell : y.next[d] = IF d = c THEN x.first ELSE x.next[d]
               /\ \A d \in Cell : y.prev[d] = IF d = c THEN NULL
                                              ELSE IF d = x.first THEN c ELSE x.prev[d]
               /\ \A d \in Cell : y.value[d] = IF d = c THEN v ELSE x.value[d]
               /\ y.last = IF x.first = NULL THEN c ELSE x.last
               /\ y.first = c
               /\ y.cells = x.cells \cup {c}
               /\ y.size = Incremented(x.size)
<1> DEFINE y     == Pushed(x, c, v)
           next  == [d \in Cell |-> IF d = c THEN x.first ELSE x.next[d]]
           prev  == [d \in Cell |-> IF d = c THEN NULL
                                    ELSE IF d = x.first THEN c ELSE x.prev[d]]
           value == [d \in Cell |-> IF d = c THEN v ELSE x.value[d]]
           last  == IF x.first = NULL THEN c ELSE x.last
           cells == x.cells \cup {c}
<1>1. /\ x.first \in Ptr /\ x.last \in Ptr
      /\ x.next \in [Cell -> Ptr] /\ x.prev \in [Cell -> Ptr]
      /\ x.value \in [Cell -> Datum] /\ x.cells \in SUBSET Cell
      /\ x.size \in INT_MIN .. INT_MAX
      /\ Incremented(x.size) \in INT_MIN .. INT_MAX
  BY QueueFields, CountsRange
<1>2. /\ next \in [Cell -> Ptr] /\ prev \in [Cell -> Ptr]
      /\ value \in [Cell -> Datum] /\ last \in Ptr /\ c \in Ptr
      /\ cells \in SUBSET Cell
  BY <1>1 DEF Ptr
<1>3. y \in Queues
  BY <1>1, <1>2 DEF Pushed, Queues
<1>4. /\ y.next = next /\ y.prev = prev /\ y.value = value /\ y.last = last
      /\ y.first = c /\ y.cells = cells
      /\ y.size = Incremented(x.size)
  BY DEF Pushed, Queues
<1> HIDE DEF y
<1>5. /\ y \in Queues
      /\ \A d \in Cell : y.next[d] = IF d = c THEN x.first ELSE x.next[d]
      /\ \A d \in Cell : y.prev[d] = IF d = c THEN NULL
                                     ELSE IF d = x.first THEN c ELSE x.prev[d]
      /\ \A d \in Cell : y.value[d] = IF d = c THEN v ELSE x.value[d]
      /\ y.last = last /\ y.first = c /\ y.cells = cells
      /\ y.size = Incremented(x.size)
  BY <1>3, <1>4
<1> QED
  BY <1>5 DEF y

LEMMA PushedWellFormed ==
    ASSUME NEW x, QueueWellFormed(x), NEW c \in Cell \ x.cells, NEW v \in Datum
    PROVE  QueueWellFormed(Pushed(x, c, v))
<1> DEFINE y == Pushed(x, c, v)
<1>1. x \in Queues /\ Chained(x) /\ LastEndsChain(x)
  BY DEF QueueWellFormed
<1>2. /\ x.first \in Ptr /\ x.last \in Ptr
      /\ x.next \in [Cell -> Ptr] /\ x.prev \in [Cell -> Ptr]
      /\ x.value \in [Cell -> Datum] /\ x.cells \in SUBSET Cell
      /\ x.size \in INT_MIN .. INT_MAX
      /\ Incremented(x.size) \in INT_MIN .. INT_MAX
  BY <1>1, QueueFields, CountsRange
<1>3. /\ y \in Queues
      /\ \A d \in Cell : y.next[d] = IF d = c THEN x.first ELSE x.next[d]
      /\ \A d \in Cell : y.prev[d] = IF d = c THEN NULL
                                     ELSE IF d = x.first THEN c ELSE x.prev[d]
      /\ y.last = IF x.first = NULL THEN c ELSE x.last
      /\ y.first = c
      /\ y.cells = x.cells \cup {c}
      /\ y.size = Incremented(x.size)
  BY <1>1, PushedFields
<1> HIDE DEF y
<1>4. /\ x.cells \subseteq Cell /\ NULL \notin x.cells /\ c \notin x.cells
      /\ x.first \in x.cells \cup {NULL} /\ c # NULL
      /\ \A d \in x.cells : x.next[d] \in x.cells \cup {NULL}
      /\ \A d \in x.cells : x.prev[d] \in x.cells \cup {NULL}
      /\ x.first = NULL <=> x.cells = {}
  BY <1>1, MembersStay, ChainAssumption DEF Chained
<1>5. Reach(y.next, y.first) = y.cells
  <2> DEFINE R == Reach(y.next, y.first)
             S == {d \in x.cells : d \in R}
  <2>1. R \subseteq y.cells
    BY <1>2, <1>3, <1>4, ReachStays
  <2>2. c \in R /\ \A d \in R : y.next[d] # NULL => y.next[d] \in R
    BY <1>3, QueueFields, ReachSelf, ReachStep
  <2> HIDE DEF R
  <2>3. x.first # NULL => x.first \in S
    BY <1>3, <1>4, <2>2
  <2>4. \A d \in S : x.next[d] # NULL => x.next[d] \in S
    BY <1>3, <1>4, <2>2
  <2>5. S \in SUBSET Cell
    BY <1>4
  <2>6. x.cells \subseteq S
    <3> HIDE DEF S
    <3> QED
      BY <2>3, <2>4, <2>5, <1>1, ReachStays DEF Chained
  <2> QED
    BY <2>1, <2>2, <2>6, <1>3 DEF R
<1>6. \A d \in Cell \ y.cells : y.next[d] = NULL /\ y.prev[d] = NULL
  <2> SUFFICES ASSUME NEW d \in Cell \ y.cells
               PROVE  y.next[d] = NULL /\ y.prev[d] = NULL
    OBVIOUS
  <2>1. d \in Cell /\ d \notin x.cells /\ d # c /\ d # NULL
    BY <1>3, ChainAssumption
  <2>2. x.next[d] = NULL /\ x.prev[d] = NULL
    BY <2>1, <1>1 DEF Chained
  <2> QED
    BY <2>1, <2>2, <1>3, <1>4
<1>7. ASSUME NEW d \in y.cells
      PROVE  /\ y.next[d] # NULL => y.prev[y.next[d]] = d
             /\ y.prev[d] # NULL => y.prev[d] \in y.cells /\ y.next[y.prev[d]] = d
             /\ y.prev[d] = NULL <=> d = y.first
             /\ y.next[d] = NULL <=> d = y.last
  <2>1. CASE d = c
    <3>1. y.next[c] = x.first /\ y.prev[c] = NULL /\ c \in Cell
      BY <1>3
    <3>2. x.first # NULL => y.prev[x.first] = c /\ y.last # c
      BY <1>1, <1>3, <1>4 DEF Chained
    <3>3. x.first = NULL => y.last = c
      BY <1>3
    <3> QED
      BY <2>1, <3>1, <3>2, <3>3, <1>3
  <2>2. CASE d # c
    <3>1. d \in x.cells /\ d \in Cell
      BY <2>2, <1>3, <1>4
    <3>2. /\ x.next[d] # NULL => x.prev[x.next[d]] = d
          /\ x.prev[d] # NULL => x.prev[d] \in x.cells /\ x.next[x.prev[d]] = d
          /\ x.prev[d] = NULL <=> d = x.first
          /\ x.next[d] = NULL <=> d = x.last
      BY <3>1, <1>1 DEF Chained, LastEndsChain
    <3>3. /\ y.next[d] = x.next[d]
          /\ y.prev[d] = IF d = x.first THEN c ELSE x.prev[d]
          /\ x.first # NULL /\ y.last = x.last
      BY <2>2, <3>1, <1>3, <1>4
    <3>4. y.next[d] # NULL => y.prev[y.next[d]] = d
      <4> HAVE y.next[d] # NULL
      <4>1. x.next[d] \in x.cells /\ x.prev[x.next[d]] = d /\ x.next[d] # c
        BY <3>1, <3>2, <3>3, <1>4
      <4>2. x.next[d] # x.first
        BY <4>1, <3>1, <1>1, <1>4 DEF Chained
      <4> QED
        BY <4>1, <4>2, <3>3, <1>3, <1>4
    <3>5. y.prev[d] # NULL => y.prev[d] \in y.cells /\ y.next[y.prev[d]] = d
      BY <2>2, <3>1, <3>2, <3>3, <1>3, <1>4
    <3> QED
      BY <2>2, <3>2, <3>3, <3>4, <3>5, <1>3, <1>4
  <2> QED
    BY <2>1, <2>2
<1>8. y.last \in y.cells
  BY <1>1, <1>3, <1>4 DEF Chained, LastEndsChain
<1>9. Chained(y) /\ LastEndsChain(y)
  BY <1>3, <1>4, <1>5, <1>6, <1>7, <1>8, ChainAssumption DEF Chained, LastEndsChain
<1>10. IsFiniteSet(y.cells) /\ Counts(y.size, Cardinality(y.cells))
  <2>1. /\ IsFiniteSet(x.cells) /\ Cardinality(x.cells) \in Nat
        /\ Counts(x.size, Cardinality(x.cells))
    BY FS_CardinalityType DEF QueueWellFormed
  <2>2. /\ IsFiniteSet(x.cells \cup {c})
        /\ Cardinality(x.cells \cup {c}) = Cardinality(x.cells) + 1
    BY <2>1, FS_AddElement
  <2> QED
    BY <2>1, <2>2, <1>2, <1>3, CountsFollow
<1> QED
  BY <1>3, <1>9, <1>10 DEF QueueWellFormed, y

LEMMA WithoutLastFields ==
    ASSUME NEW x \in Queues, x.last \in Cell, x.prev[x.last] \in Ptr
    PROVE  LET y   == WithoutLast(x)
               old == x.last
               new == x.prev[x.last]
           IN  /\ y \in Queues
               /\ \A d \in Cell : y.next[d] = IF d = old \/ d = new THEN NULL ELSE x.next[d]
               /\ \A d \in Cell : y.prev[d] = IF d = old THEN NULL ELSE x.prev[d]
               /\ \A d \in Cell : y.value[d] = IF d = old THEN NULL ELSE x.value[d]
               /\ y.last = new
               /\ y.first = IF new = NULL THEN NULL ELSE x.first
               /\ y.cells = x.cells \ {old}
               /\ y.size = Decremented(x.size)
<1> DEFINE y   == WithoutLast(x)
           old == x.last
           new == x.prev[x.last]
<1>1. /\ x.first \in Ptr
      /\ x.next \in [Cell -> Ptr] /\ x.prev \in [Cell -> Ptr]
      /\ x.value \in [Cell -> Datum] /\ x.cells \in SUBSET Cell
      /\ x.size \in INT_MIN .. INT_MAX
      /\ Decremented(x.size) \in INT_MIN .. INT_MAX
      /\ new \in Ptr
  BY QueueFields, CountsRange
<1> HIDE DEF old, new
<1> DEFINE next  == [d \in Cell |-> IF d = old \/ d = new THEN NULL ELSE x.next[d]]
           prev  == [d \in Cell |-> IF d = old THEN NULL ELSE x.prev[d]]
           value == [d \in Cell |-> IF d = old THEN NULL ELSE x.value[d]]
           first == IF new = NULL THEN NULL ELSE x.first
           cells == x.cells \ {old}
<1>2. /\ next \in [Cell -> Ptr] /\ prev \in [Cell -> Ptr]
      /\ value \in [Cell -> Datum] /\ first \in Ptr
      /\ cells \in SUBSET Cell
  BY <1>1 DEF Ptr, Datum
<1>3. y \in Queues
  BY <1>1, <1>2 DEF WithoutLast, Queues, old, new
<1>4. /\ y.next = next /\ y.prev = prev /\ y.value = value /\ y.last = new
      /\ y.first = first /\ y.cells = cells
      /\ y.size = Decremented(x.size)
  BY DEF WithoutLast, Queues, old, new
<1> HIDE DEF y
<1>5. /\ y \in Queues
      /\ \A d \in Cell : y.next[d] = IF d = old \/ d = new THEN NULL ELSE x.next[d]
      /\ \A d \in Cell : y.prev[d] = IF d = old THEN NULL ELSE x.prev[d]
      /\ \A d \in Cell : y.value[d] = IF d = old THEN NULL ELSE x.value[d]
      /\ y.last = new /\ y.first = first /\ y.cells = cells
      /\ y.size = Decremented(x.size)
  BY <1>3, <1>4
<1> QED
  BY <1>5 DEF y, old, new

LEMMA WithoutLastWellFormed ==
    ASSUME NEW x, QueueWellFormed(x), x.last # NULL
    PROVE  QueueWellFormed(WithoutLast(x))
<1> DEFINE y   == WithoutLast(x)
           old == x.last
           new == x.prev[x.last]
<1>1. x \in Queues /\ Chained(x) /\ LastEndsChain(x)
  BY DEF QueueWellFormed
<1>2. /\ x.first \in Ptr /\ x.last \in Ptr
      /\ x.next \in [Cell -> Ptr] /\ x.prev \in [Cell -> Ptr]
      /\ x.value \in [Cell -> Datum] /\ x.cells \in SUBSET Cell
      /\ x.size \in INT_MIN .. INT_MAX
      /\ Decremented(x.size) \in INT_MIN .. INT_MAX
  BY <1>1, QueueFields, CountsRange
<1>3. /\ x.cells \subseteq Cell /\ NULL \notin x.cells
      /\ x.first \in x.cells \cup {NULL}
      /\ \A d \in x.cells : x.next[d] \in x.cells \cup {NULL}
      /\ \A d \in x.cells : x.prev[d] \in x.cells \cup {NULL}
      /\ x.first = NULL <=> x.cells = {}
      /\ old \in x.cells /\ new \in x.cells \cup {NULL} /\ new \in Ptr
  BY <1>1, <1>2, MembersStay DEF Chained, LastEndsChain, Ptr
<1>4. /\ y \in Queues
      /\ \A d \in Cell : y.next[d] = IF d = old \/ d = new THEN NULL ELSE x.next[d]
      /\ \A d \in Cell : y.prev[d] = IF d = old THEN NULL ELSE x.prev[d]
      /\ y.last = new
      /\ y.first = IF new = NULL THEN NULL ELSE x.first
      /\ y.cells = x.cells \ {old}
      /\ y.size = Decremented(x.size)
  <2>1. old \in Cell /\ new \in Ptr
    BY <1>3
  <2> QED
    BY <1>1, <2>1, WithoutLastFields
<1> HIDE DEF y
\* The new last member is the one before the old one, and is not it.
<1>5. /\ x.next[old] = NULL
      /\ \A d \in x.cells : x.next[d] = NULL => d = old
      /\ new # NULL => x.next[new] = old
      /\ new = NULL <=> old = x.first
      /\ new # old
  BY <1>1, <1>3 DEF Chained, LastEndsChain
<1>6. IsFiniteSet(y.cells) /\ Counts(y.size, Cardinality(y.cells))
  <2>1. /\ IsFiniteSet(x.cells) /\ Cardinality(x.cells) \in Nat
        /\ Counts(x.size, Cardinality(x.cells))
    BY FS_CardinalityType DEF QueueWellFormed
  <2>2. /\ IsFiniteSet(x.cells \ {old})
        /\ Cardinality(x.cells \ {old}) = Cardinality(x.cells) - 1
    BY <2>1, <1>3, FS_RemoveElement
  <2> QED
    BY <2>1, <2>2, <1>2, <1>4, CountsFollow
<1> HIDE DEF old, new
<1>7. ASSUME NEW d \in x.cells
      PROVE  /\ d \in Cell
             /\ x.next[d] # NULL => x.prev[x.next[d]] = d
             /\ x.prev[d] # NULL => x.prev[d] \in x.cells /\ x.next[x.prev[d]] = d
             /\ x.prev[d] = NULL <=> d = x.first
             /\ x.next[d] = old => d = new
             /\ d # old => x.next[d] # NULL
  BY <1>1, <1>3, <1>5 DEF Chained, LastEndsChain, old, new
<1>8. CASE new = NULL
  <2>1. x.first = old /\ x.cells = {old}
    <3>1. \A d \in {old} : x.next[d] # NULL => x.next[d] \in {old}
      BY <1>5
    <3>2. {old} \in SUBSET Cell /\ x.first \in {old}
      BY <1>3, <1>5, <1>8
    <3>3. Reach(x.next, x.first) \subseteq {old}
      BY <3>1, <3>2, ReachStays
    <3> QED
      BY <1>1, <1>3, <3>2, <3>3 DEF Chained
  <2>2. y.cells = {} /\ y.first = NULL /\ y.last = NULL
    BY <1>4, <1>8, <2>1
  <2>3. \A d \in Cell : y.next[d] = NULL /\ y.prev[d] = NULL
    <3> TAKE d \in Cell
    <3>1. d # old => d \in Cell \ x.cells
      BY <2>1
    <3> QED
      BY <1>1, <1>4, <3>1 DEF Chained
  <2>4. Chained(y) /\ LastEndsChain(y)
    BY <2>2, <2>3, ReachNull DEF Chained, LastEndsChain
  <2> QED
    BY <2>4, <1>4, <1>6 DEF QueueWellFormed, y
<1>9. CASE new # NULL
  <2>1. /\ y.first = x.first /\ y.first # NULL /\ y.first # old
        /\ y.first \in y.cells /\ new \in y.cells /\ y.last = new
    BY <1>3, <1>4, <1>5, <1>9
  <2>2. Reach(y.next, y.first) = y.cells
    <3> DEFINE R == Reach(y.next, y.first)
               S == R \cup {old}
    <3>1. \A d \in y.cells : y.next[d] # NULL => y.next[d] \in y.cells
      BY <1>3, <1>4, <1>7
    <3>2. R \subseteq y.cells
      BY <1>3, <1>4, <2>1, <3>1, ReachStays
    <3>3. y.first \in R /\ \A d \in R : y.next[d] # NULL => y.next[d] \in R
      BY <1>3, <1>4, <2>1, QueueFields, ReachSelf, ReachStep
    <3> HIDE DEF R
    <3>4. \A d \in S : x.next[d] # NULL => x.next[d] \in S
      <4> SUFFICES ASSUME NEW d \in S, x.next[d] # NULL
                   PROVE  x.next[d] \in S
        OBVIOUS
      <4>1. d \in R /\ d \in x.cells /\ d \in Cell
        BY <1>3, <1>4, <1>5, <3>2
      <4>2. CASE d = new
        BY <4>2, <1>5, <1>9
      <4>3. CASE d # new
        BY <4>1, <4>3, <1>4, <3>2, <3>3
      <4> QED
        BY <4>2, <4>3
    <3>5. S \in SUBSET Cell /\ x.first \in S
      BY <1>3, <1>4, <2>1, <3>2, <3>3
    <3>6. x.cells \subseteq S
      <4> HIDE DEF S
      <4> QED
        BY <3>4, <3>5, <1>1, ReachStays DEF Chained
    <3> QED
      BY <3>2, <3>6, <1>4 DEF R
  <2>3. \A d \in Cell \ y.cells : y.next[d] = NULL /\ y.prev[d] = NULL
    <3> SUFFICES ASSUME NEW d \in Cell \ y.cells
                 PROVE  y.next[d] = NULL /\ y.prev[d] = NULL
      OBVIOUS
    <3>1. d # old => d \in Cell \ x.cells
      BY <1>4
    <3>2. d # old => x.next[d] = NULL /\ x.prev[d] = NULL
      BY <3>1, <1>1 DEF Chained
    <3> QED
      BY <3>2, <1>4
  <2>4. ASSUME NEW d \in y.cells
        PROVE  /\ y.next[d] # NULL => y.prev[y.next[d]] = d
               /\ y.prev[d] # NULL => y.prev[d] \in y.cells /\ y.next[y.prev[d]] = d
               /\ y.prev[d] = NULL <=> d = y.first
               /\ y.next[d] = NULL <=> d = y.last
    <3>1. d \in x.cells /\ d # old /\ d \in Cell
      BY <1>3, <1>4
    <3>2. y.prev[d] = x.prev[d] /\ y.next[d] = IF d = new THEN NULL ELSE x.next[d]
      BY <3>1, <1>4
    <3>3. y.next[d] # NULL => y.prev[y.next[d]] = d
      <4> HAVE y.next[d] # NULL
      <4>1. /\ d # new /\ x.next[d] \in x.cells /\ x.next[d] # old
            /\ x.prev[x.next[d]] = d
        BY <3>1, <3>2, <1>3, <1>7
      <4> QED
        BY <4>1, <3>2, <1>3, <1>4
    <3>4. y.prev[d] # NULL => y.prev[d] \in y.cells /\ y.next[y.prev[d]] = d
      <4> HAVE y.prev[d] # NULL
      <4>1. x.prev[d] \in x.cells /\ x.next[x.prev[d]] = d
        BY <3>1, <3>2, <1>7
      <4>2. x.prev[d] # old
        BY <4>1, <3>1, <1>3, <1>5
      <4>3. x.prev[d] # new
        BY <4>1, <3>1, <1>5, <1>9
      <4> QED
        BY <4>1, <4>2, <4>3, <3>2, <1>3, <1>4
    <3>5. y.prev[d] = NULL <=> d = y.first
      BY <3>1, <3>2, <2>1, <1>7
    <3>6. y.next[d] = NULL <=> d = y.last
      BY <3>1, <3>2, <2>1, <1>7
    <3> QED
      BY <3>3, <3>4, <3>5, <3>6
  <2>5. Chained(y)
    BY <2>1, <2>2, <2>3, <2>4 DEF Chained
  <2>6. LastEndsChain(y)
    BY <2>1, <2>4, <1>9 DEF LastEndsChain
  <2> QED
    BY <2>5, <2>6, <1>4, <1>6 DEF QueueWellFormed, y
<1> QED
  BY <1>8, <1>9

----------------------------------------------------------------------------
LEMMA InitIInv == Init => IInv
BY DEF Init, IInv, HasQueue, Datum

LEMMA NextIInv == IInv /\ [Next]_vars => IInv'
<1> SUFFICES ASSUME IInv, [Next]_vars
             PROVE  IInv'
  OBVIOUS
<1>1. CASE Create
  BY <1>1, NewQueueWellFormed DEF Create, IInv
<1>2. ASSUME NEW v \in Datum, Push(v) PROVE IInv'
  <2>1. PICK c \in Cell \ q.cells : q' = Pushed(q, c, v)
    BY <1>2 DEF Push
  <2>2. QueueWellFormed(q')
    BY <1>2, <2>1, PushedWellFormed DEF Push, IInv, HasQueue
  <2> QED
    BY <1>2, <2>2 DEF Push, IInv
<1>3. q # NULL => Given(q) \subseteq {ValueField(c) : c \in Cell}
  BY ReachIsCells DEF Given
<1>4. CASE PushFails
  BY <1>3, <1>4 DEF PushFails, IInv, HasQueue
<1>5. CASE Pop
  <2>1. QueueWellFormed(q) /\ q.last # NULL /\ q' = WithoutLast(q)
    BY <1>5 DEF Pop, IInv, HasQueue
  <2>2. QueueWellFormed(q')
    BY <2>1, WithoutLastWellFormed
  <2>3. q.value[q.last] \in Datum
    BY <2>1, QueueFields DEF QueueWellFormed, Ptr
  <2> QED
    BY <1>5, <2>2, <2>3 DEF Pop, IInv
<1>6. CASE Destroy
  BY <1>3, <1>6 DEF Destroy, IInv, HasQueue
<1>7. CASE UNCHANGED vars
  BY <1>7 DEF vars, IInv, HasQueue
<1> QED
  BY <1>1, <1>2, <1>4, <1>5, <1>6, <1>7 DEF Next

LEMMA Invariant == Spec => []IInv
<1>1. IInv /\ [Next]_vars => IInv'
  BY NextIInv
<1> QED
  BY <1>1, InitIInv, PTL DEF Spec

\* The state has its types after any sequence of calls.
THEOREM TypeCorrect == Spec => []TypeOK
<1>1. IInv => TypeOK
  BY DEF IInv, TypeOK, QueueWellFormed
<1> QED
  BY <1>1, Invariant, PTL

\* A queue is always one chain from first to last that holds exactly the members
\* that are allocated (queue.c 130-138, 169-175).
THEOREM ChainSafe == Spec => []ChainIntact
<1>1. IInv => ChainIntact
  BY DEF IInv, ChainIntact, QueueWellFormed
<1> QED
  BY <1>1, Invariant, PTL

\* vanessa_queue_length is exact whenever an int can hold the number of members,
\* however many there have been before (queue.c 141, 178, 266).
THEOREM LengthAlwaysExact == Spec => []LengthExact
<1>1. IInv => LengthExact
  <2> SUFFICES ASSUME QueueWellFormed(q), Cardinality(q.cells) <= INT_MAX
               PROVE  q.size = Cardinality(q.cells)
    BY DEF IInv, LengthExact, Length
  <2>1. Cardinality(q.cells) \in Nat /\ q.size \in INT_MIN .. INT_MAX
    BY FS_CardinalityType, QueueFields DEF QueueWellFormed
  <2> QED
    BY <2>1, CountsExact DEF QueueWellFormed
<1> QED
  BY <1>1, Invariant, PTL

----------------------------------------------------------------------------
\* The queue implements its documentation: first in, first out.

\* NULL is neither a queue nor a sequence.
NullIsNone == NULL \notin Queues /\ NULL \notin Seq(Datum)

\* The queue has a walk: an invariant of its own, next to IInv.
Walked == HasQueue => \E o : IsWalk(q, o)

LEMMA QueueContents ==
    ASSUME NEW x, QueueWellFormed(x), NEW o, IsWalk(x, o)
    PROVE  LET n == Cardinality(x.cells)
           IN  /\ n \in Nat
               /\ Contents(x) \in Seq(Datum)
               /\ Len(Contents(x)) = n
               /\ \A k \in 1 .. n : Contents(x)[k] = x.value[o[k]]
<1>1. /\ Chained(x) /\ IsFiniteSet(x.cells)
      /\ \A c \in x.cells : x.value[c] \in Datum
  BY QueueFields DEF QueueWellFormed
<1> QED
  BY <1>1, ContentsIsSeq

LEMMA NewContents == IsWalk(NewQueue, <<>>) /\ Contents(NewQueue) = <<>>
<1>1. NewQueue.cells = {} /\ NewQueue.first = NULL /\ Cardinality({}) = 0
  BY FS_EmptySet DEF NewQueue
<1>2. <<>> \in [1 .. 0 -> {}] /\ DOMAIN <<>> = {}
  OBVIOUS
<1>3. IsWalk(NewQueue, <<>>)
  BY <1>1, <1>2 DEF IsWalk
<1>4. Contents(NewQueue) \in Seq(Datum) /\ Len(Contents(NewQueue)) = 0
  BY <1>1, <1>3, NewQueueWellFormed, QueueContents
<1> QED
  BY <1>3, <1>4, EmptySeq

\* A push puts the value in front.
LEMMA PushedContents ==
    ASSUME NEW x, QueueWellFormed(x), NEW o, IsWalk(x, o),
           NEW c \in Cell \ x.cells, NEW v \in Datum
    PROVE  LET y == Pushed(x, c, v)
           IN  /\ \E p : IsWalk(y, p)
               /\ Contents(y) = <<v>> \o Contents(x)
<1> DEFINE y == Pushed(x, c, v)
           n == Cardinality(x.cells)
           s == Contents(x)
           b == <<v>>
           t == b \o s
<1>1. /\ x \in Queues /\ Chained(x) /\ IsFiniteSet(x.cells)
      /\ QueueWellFormed(y)
  BY PushedWellFormed DEF QueueWellFormed
<1>2. /\ n \in Nat /\ s \in Seq(Datum) /\ Len(s) = n
      /\ \A k \in 1 .. n : s[k] = x.value[o[k]]
      /\ \A k \in 1 .. n : o[k] \in x.cells
      /\ x.cells \subseteq Cell
  BY <1>1, QueueContents, WalkFields
<1>3. /\ y.cells = x.cells \cup {c} /\ y.first = c
      /\ \A d \in Cell : y.next[d] = IF d = c THEN x.first ELSE x.next[d]
      /\ \A d \in Cell : y.value[d] = IF d = c THEN v ELSE x.value[d]
  BY <1>1, PushedFields
<1> HIDE DEF y, s
<1>4. PICK i \in 0 .. n : i = 0
  BY <1>2
<1>5. /\ Cardinality(y.cells) = n + 1
      /\ \E p : /\ IsWalk(y, p)
               /\ \A k \in 1 .. n + 1 : p[k] = IF k = 1 THEN c ELSE o[k - 1]
  <2>1. y.first = IF i = 0 THEN c ELSE x.first
    BY <1>3, <1>4
  <2>2. y.next[c] = IF i = 0 THEN x.first ELSE x.next[o[i]]
    BY <1>3, <1>4
  <2>3. \A d \in x.cells :
           y.next[d] = IF i # 0 /\ d = o[i] THEN c ELSE x.next[d]
    BY <1>2, <1>3, <1>4
  <2>4. IsInserted(x, o, y, c, i)
    BY <1>2, <1>3, <2>1, <2>2, <2>3 DEF IsInserted
  <2>5. /\ Cardinality(y.cells) = n + 1
        /\ \E p : /\ IsWalk(y, p)
                 /\ \A k \in 1 .. n + 1 :
                       p[k] = IF k <= i THEN o[k]
                              ELSE IF k = i + 1 THEN c ELSE o[k - 1]
    BY <1>1, <2>4, InsertedWalk
  <2> HIDE DEF n
  <2> QED
    BY <1>2, <1>4, <2>5
<1> HIDE DEF n
<1>6. PICK p : /\ IsWalk(y, p)
                /\ \A k \in 1 .. n + 1 : p[k] = IF k = 1 THEN c ELSE o[k - 1]
  BY <1>5
<1>7. /\ Contents(y) \in Seq(Datum) /\ Len(Contents(y)) = n + 1
      /\ \A k \in 1 .. n + 1 : Contents(y)[k] = y.value[p[k]]
  BY <1>1, <1>5, <1>6, QueueContents DEF n
<1>8. b \in Seq(Datum) /\ Len(b) = 1 /\ b[1] = v
  OBVIOUS
<1> HIDE DEF b
<1>9. s \in Seq(Datum) /\ b \in Seq(Datum)
  BY <1>2, <1>8
<1>10. /\ t \in Seq(Datum) /\ Len(t) = Len(b) + Len(s)
      /\ \A k \in 1 .. Len(b) + Len(s) :
            t[k] = IF k <= Len(b) THEN b[k] ELSE s[k - Len(b)]
  BY <1>9, ConcatProperties, Zenon
<1> HIDE DEF t
<1>11. Len(t) = n + 1
  BY <1>2, <1>8, <1>10
<1>12. ASSUME NEW k \in 1 .. n + 1
       PROVE  Contents(y)[k] = t[k]
  <2>1. CASE k = 1
    <3>1. t[1] = v
      BY <1>2, <1>8, <1>10
    <3> QED
      BY <1>3, <1>7, <1>6, <2>1, <3>1
  <2>2. CASE k # 1
    <3>1. k - 1 \in 1 .. n
      BY <1>2, <2>2
    <3>2. t[k] = x.value[o[k - 1]]
      BY <1>2, <1>8, <1>10, <2>2, <3>1
    <3>3. p[k] = o[k - 1] /\ o[k - 1] \in Cell /\ o[k - 1] # c
      BY <1>2, <1>6, <2>2, <3>1
    <3> QED
      BY <1>3, <1>7, <3>2, <3>3
  <2> QED
    BY <2>1, <2>2
<1>13. Contents(y) = t
  BY <1>7, <1>10, <1>11, <1>12, SeqEqual
<1> QED
  BY <1>6, <1>13 DEF t, s, y, b

\* A pop takes the value behind the last member.
LEMMA WithoutLastContents ==
    ASSUME NEW x, QueueWellFormed(x), NEW o, IsWalk(x, o), x.last # NULL
    PROVE  LET y == WithoutLast(x)
           IN  /\ \E p : IsWalk(y, p)
               /\ Contents(x) # <<>>
               /\ x.value[x.last] = Contents(x)[Len(Contents(x))]
               /\ Contents(y) = SubSeq(Contents(x), 1, Len(Contents(x)) - 1)
<1> DEFINE y == WithoutLast(x)
           n == Cardinality(x.cells)
           s == Contents(x)
           t == SubSeq(s, 1, n - 1)
           new == x.prev[x.last]
<1>1. /\ x \in Queues /\ Chained(x) /\ LastEndsChain(x) /\ IsFiniteSet(x.cells)
      /\ QueueWellFormed(y)
  BY WithoutLastWellFormed DEF QueueWellFormed
<1>2. /\ n \in Nat /\ s \in Seq(Datum) /\ Len(s) = n
      /\ \A k \in 1 .. n : s[k] = x.value[o[k]]
      /\ DOMAIN o = 1 .. n
      /\ n = 0 <=> x.cells = {}
      /\ \A k \in 1 .. n : /\ o[k] \in x.cells
                           /\ k < n => x.next[o[k]] = o[k + 1]
                           /\ k = n => x.next[o[k]] = NULL
      /\ x.cells # {} => x.first = o[1]
      /\ x.cells \subseteq Cell /\ NULL \notin x.cells
  BY <1>1, QueueContents, WalkFields
<1>3. /\ x.last \in x.cells /\ x.next[x.last] = NULL
      /\ x.cells # {}
      /\ x.last \in Cell /\ new \in Ptr
      /\ \A c \in x.cells : x.next[c] = NULL => c = x.last
  <2>1. x.last \in x.cells
    BY <1>1 DEF Chained
  <2>2. x.last \in Cell /\ new \in Ptr
    BY <1>1, <1>2, <2>1, QueueFields
  <2> QED
    BY <1>1, <2>1, <2>2 DEF LastEndsChain
<1>4. /\ y.cells = x.cells \ {x.last}
      /\ y.first = IF new = NULL THEN NULL ELSE x.first
      /\ \A d \in Cell : y.next[d] = IF d = x.last \/ d = new THEN NULL ELSE x.next[d]
      /\ \A d \in Cell : y.value[d] = IF d = x.last THEN NULL ELSE x.value[d]
  BY <1>1, <1>3, WithoutLastFields
<1>5. /\ new = NULL <=> x.last = x.first
      /\ new # NULL => x.next[new] = x.last
      /\ \A c \in x.cells : x.next[c] = x.last => c = new
  <2>1. /\ new # NULL => x.next[new] = x.last
        /\ new = NULL <=> x.last = x.first
    BY <1>1, <1>3 DEF Chained
  <2>2. \A c \in x.cells : x.next[c] = x.last => c = new
    BY <1>1, <1>2, <1>3 DEF Chained
  <2> QED
    BY <2>1, <2>2
<1>6. \A j, k \in 1 .. n : o[j] = o[k] => j = k
  BY <1>1, <1>2, WalkIsOneToOne
<1> HIDE DEF y, s, new
<1>7. PICK i \in 1 .. n : i = n /\ o[i] = x.last /\ i \in Nat
  <2> HIDE DEF n
  <2>1. n \in 1 .. n
    BY <1>2, <1>3
  <2> QED
    BY <1>2, <1>3, <2>1
<1>8. i = 1 <=> x.last = x.first
  <2> HIDE DEF n
  <2>1. 1 \in 1 .. n
    BY <1>2, <1>3
  <2> QED
    BY <1>2, <1>3, <1>6, <1>7, <2>1
<1>9. /\ Cardinality(y.cells) = n - 1
      /\ \E p : /\ IsWalk(y, p)
               /\ \A k \in 1 .. n - 1 : p[k] = o[k]
  <2>1. y.cells = x.cells \ {o[i]}
    BY <1>4, <1>7
  <2>2. y.first = IF i = 1 THEN x.next[o[i]] ELSE x.first
    BY <1>3, <1>4, <1>5, <1>7, <1>8
  <2>3. \A c \in y.cells :
           y.next[c] = IF x.next[c] = o[i] THEN x.next[o[i]] ELSE x.next[c]
    BY <1>2, <1>3, <1>4, <1>5, <1>7
  <2>4. IsRemoved(x, o, y, i)
    BY <1>1, <1>2, <2>1, <2>2, <2>3 DEF IsRemoved
  <2>5. /\ Cardinality(y.cells) = n - 1
        /\ \E p : /\ IsWalk(y, p)
                 /\ \A k \in 1 .. n - 1 : p[k] = IF k < i THEN o[k] ELSE o[k + 1]
    BY <1>1, <2>4, RemovedWalk
  <2> HIDE DEF n
  <2> QED
    BY <1>2, <1>7, <2>5
<1> HIDE DEF n
<1>10. PICK p : IsWalk(y, p) /\ \A k \in 1 .. n - 1 : p[k] = o[k]
  BY <1>9
<1>11. /\ Contents(y) \in Seq(Datum) /\ Len(Contents(y)) = n - 1
       /\ \A k \in 1 .. n - 1 : Contents(y)[k] = y.value[p[k]]
  BY <1>1, <1>9, <1>10, QueueContents DEF n
<1>12. /\ t \in Seq(Datum) /\ Len(t) = n - 1
       /\ \A k \in 1 .. n - 1 : t[k] = s[k]
  <2>1. n - 1 \in Int /\ \A k \in 1 .. n - 1 : s[k] \in Datum
    BY <1>2, ElementOfSeq
  <2> QED
    BY <1>2, <1>3, <2>1, SubSeqProperties
<1> HIDE DEF t
<1>13. ASSUME NEW k \in 1 .. n - 1
       PROVE  Contents(y)[k] = t[k]
  <2>1. k \in 1 .. n /\ k # i
    BY <1>2, <1>7
  <2>2. o[k] # x.last /\ o[k] \in Cell
    BY <1>2, <1>6, <1>7, <2>1
  <2>3. y.value[o[k]] = x.value[o[k]]
    BY <1>4, <2>2
  <2>4. Contents(y)[k] = y.value[o[k]]
    BY <1>10, <1>11
  <2>5. t[k] = x.value[o[k]]
    BY <1>2, <1>12, <2>1
  <2> QED
    BY <2>3, <2>4, <2>5
<1>14. Contents(y) = t
  BY <1>11, <1>12, <1>13, SeqEqual
<1>15. s # <<>> /\ x.value[x.last] = s[n]
  BY <1>2, <1>3, <1>7
<1> QED
  BY <1>2, <1>10, <1>14, <1>15 DEF t, s, y

LEMMA InitImplements == Init /\ NullIsNone => Documented!Init /\ Walked
BY DEF Init, Documented!Init, ContentsOrNull, Walked, HasQueue

LEMMA NextImplements ==
    NullIsNone /\ IInv /\ Walked /\ [Next]_vars
        => Walked' /\ [Documented!Next]_<<ContentsOrNull, popped>>
<1> SUFFICES ASSUME NullIsNone, IInv, Walked, [Next]_vars
             PROVE  Walked' /\ [Documented!Next]_<<ContentsOrNull, popped>>
  OBVIOUS
<1>1. NULL \notin Queues /\ NULL \notin Seq(Datum)
  BY DEF NullIsNone
<1>2. ASSUME q # NULL
      PROVE  /\ QueueWellFormed(q) /\ \E o : IsWalk(q, o)
             /\ Contents(q) \in Seq(Datum) /\ ContentsOrNull = Contents(q)
             /\ ContentsOrNull # NULL
  <2>1. QueueWellFormed(q) /\ \E o : IsWalk(q, o)
    BY <1>2 DEF IInv, Walked, HasQueue
  <2> QED
    BY <1>1, <1>2, <2>1, QueueContents DEF ContentsOrNull
<1>3. CASE Create
  <2>1. q' = NewQueue /\ q' # NULL
    BY <1>1, <1>3, NewQueueWellFormed DEF Create, QueueWellFormed
  <2>2. Walked' /\ ContentsOrNull' = <<>>
    BY <2>1, NewContents DEF Walked, HasQueue, ContentsOrNull
  <2>3. Documented!Create
    BY <1>3, <2>2 DEF Create, Documented!Create, ContentsOrNull
  <2> QED
    BY <2>2, <2>3 DEF Documented!Next
<1>4. ASSUME NEW v \in Datum, Push(v)
      PROVE  Walked' /\ Documented!Next
  <2>1. PICK c \in Cell \ q.cells : q' = Pushed(q, c, v)
    BY <1>4 DEF Push
  <2>2. q # NULL
    BY <1>4 DEF Push
  <2>3. PICK o : IsWalk(q, o)
    BY <1>2, <2>2
  <2>4. (\E p : IsWalk(q', p)) /\ Contents(q') = <<v>> \o Contents(q)
    BY <1>2, <2>1, <2>2, <2>3, PushedContents
  <2>5. q' # NULL
    BY <1>1, <1>2, <2>1, <2>2, PushedWellFormed DEF QueueWellFormed
  <2>6. Documented!Push(v)
    BY <1>2, <1>4, <2>2, <2>4, <2>5 DEF Push, Documented!Push, ContentsOrNull
  <2> QED
    BY <2>4, <2>6 DEF Walked, Documented!Next, Datum
<1>5. ASSUME q # NULL, q' = NULL, UNCHANGED popped
      PROVE  Walked' /\ Documented!Next
  <2>1. Documented!Destroy
    BY <1>2, <1>5 DEF Documented!Destroy, ContentsOrNull
  <2> QED
    BY <1>5, <2>1 DEF Walked, HasQueue, Documented!Next
<1>6. CASE Pop
  <2>1. q # NULL /\ q.last # NULL /\ q' = WithoutLast(q) /\ popped' = q.value[q.last]
    BY <1>6 DEF Pop
  <2>2. PICK o : IsWalk(q, o)
    BY <1>2, <2>1
  <2>3. /\ \E p : IsWalk(q', p)
        /\ Contents(q) # <<>>
        /\ q.value[q.last] = Contents(q)[Len(Contents(q))]
        /\ Contents(q') = SubSeq(Contents(q), 1, Len(Contents(q)) - 1)
    BY <1>2, <2>1, <2>2, WithoutLastContents
  <2>4. q' # NULL
    BY <1>1, <1>2, <2>1, WithoutLastWellFormed DEF QueueWellFormed
  <2>5. Documented!Pop
    BY <1>2, <2>1, <2>3, <2>4
       DEF Documented!Pop, Documented!Last, Documented!Front, ContentsOrNull
  <2> QED
    BY <2>3, <2>5 DEF Walked, Documented!Next
<1>7. CASE UNCHANGED vars
  BY <1>7 DEF vars, Walked, HasQueue, ContentsOrNull
<1> QED
  BY <1>3, <1>4, <1>5, <1>6, <1>7 DEF Next, PushFails, Destroy

\* The queue is first in, first out, whatever the sequence of calls
\* (queue.c 112-184).
THEOREM ImplementsDocumentation ==
    ASSUME NullIsNone
    PROVE  Spec => DocumentedSpec
<1>1. Init => Documented!Init /\ Walked
  BY InitImplements
<1>2. IInv /\ Walked /\ [Next]_vars
         => Walked' /\ [Documented!Next]_<<ContentsOrNull, popped>>
  BY NextImplements
<1> QED
  BY <1>1, <1>2, Invariant, PTL DEF Spec, DocumentedSpec, Documented!Spec
=============================================================================
