--------------------------- MODULE ListOpsProofs ---------------------------
(***************************************************************************)
(* Lemmas about the list operators of ListOps, for every set of cells,     *)
(* values and comparison functions: creating, inserting, looking up,       *)
(* moving to the front and removing keep a list well-formed.               *)
(***************************************************************************)
EXTENDS ListOps, SharedProofs

\* What every list of the library satisfies between two calls
WellFormed(l) ==
    /\ IsList(l)
    /\ Chained(l)
    /\ RecentsLive(l)
    /\ l.norecent # REORDER => LastEndsChain(l)

----------------------------------------------------------------------------
\* Lists.

LEMMA StoredNoRecentType ==
    ASSUME NEW n \in NoRecentArg
    PROVE  /\ StoredNoRecent(n) \in Int
           /\ StoredNoRecent(StoredNoRecent(n)) = StoredNoRecent(n)
BY ListAssumption, ChainAssumption DEF StoredNoRecent, REORDER

LEMMA ListFields ==
    ASSUME NEW l, IsList(l)
    PROVE  /\ l.norecent \in Int /\ l.recent_offset \in Nat
           /\ l.recent \in [0 .. l.norecent - 1 -> Ptr]
           /\ l.first \in Ptr /\ l.last \in Ptr
           /\ l.next \in [Cell -> Ptr] /\ l.prev \in [Cell -> Ptr]
           /\ l.value \in [Cell -> Datum]
           /\ l.cells \in SUBSET Cell
           /\ l.e_match \in E_match /\ l.e_sort \in E_sort
BY StoredNoRecentType DEF IsList, ListOf

\* The cells are all that a walk from first visits, and next never leaves them.
LEMMA ChainStays ==
    ASSUME NEW l, IsList(l), Chained(l)
    PROVE  /\ l.first \in l.cells \cup {NULL}
           /\ \A c \in l.cells : l.next[c] \in l.cells \cup {NULL}
           /\ \A c \in l.cells : l.prev[c] \in l.cells \cup {NULL}
           /\ Reach(l.prev, l.last) \subseteq l.cells
<1>1. l.first \in l.cells \cup {NULL}
  BY ListFields, ReachSelf DEF Chained, Ptr
<1>2. \A c \in l.cells : l.next[c] # NULL => l.next[c] \in l.cells
  BY ListFields, ReachStep DEF Chained
<1>3. \A c \in l.cells : l.prev[c] # NULL => l.prev[c] \in l.cells
  BY DEF Chained
<1>4. Reach(l.prev, l.last) \subseteq l.cells
  <2>1. l.cells \in SUBSET Cell /\ (l.last # NULL => l.last \in l.cells)
    BY ListFields DEF Chained
  <2> QED
    BY <2>1, <1>3, ReachStays
<1> QED
  BY <1>1, <1>2, <1>3, <1>4

\* To show that a walk from first visits a set of cells it is enough that it
\* does so cell by cell along the chain.
LEMMA ChainInduction ==
    ASSUME NEW l, IsList(l), Chained(l), NEW S \in SUBSET l.cells,
           l.first # NULL => l.first \in S,
           \A c \in S : l.next[c] # NULL => l.next[c] \in S
    PROVE  S = l.cells
<1>1. S \in SUBSET Cell
  BY ListFields
<1>2. Reach(l.next, l.first) \subseteq S
  BY <1>1, ReachStays
<1> QED
  BY <1>2 DEF Chained

\* No cell follows itself.
LEMMA NoSelfLink ==
    ASSUME NEW l, IsList(l), Chained(l), NEW e \in l.cells
    PROVE  l.next[e] # e /\ l.prev[e] # e
<1>1. l.prev[e] # e
  <2> SUFFICES ASSUME l.prev[e] = e PROVE FALSE
    OBVIOUS
  <2> DEFINE S == l.cells \ {e}
  <2>1. e # NULL /\ l.first # e
    BY ListFields, ListAssumption, ChainAssumption DEF Chained
  <2>2. l.first # NULL => l.first \in S
    BY <2>1, ChainStays
  <2>3. \A c \in S : l.next[c] # NULL => l.next[c] \in S
    BY ChainStays DEF Chained
  <2>4. S = l.cells
    <3> S \in SUBSET l.cells
      OBVIOUS
    <3> HIDE DEF S
    <3> QED
      BY <2>2, <2>3, ChainInduction
  <2> QED
    BY <2>4
<1>2. l.next[e] # e
  BY <1>1, ListFields, ListAssumption, ChainAssumption DEF Chained
<1> QED
  BY <1>1, <1>2

\* Every cell leads back to the first one.
LEMMA BackToFirst ==
    ASSUME NEW l, IsList(l), Chained(l), NEW c \in l.cells
    PROVE  l.first \in Reach(l.prev, c)
<1> DEFINE S == {d \in l.cells : l.first \in Reach(l.prev, d)}
<1>1. l.first # NULL => l.first \in S
  BY ChainStays, ReachSelf, ListFields
<1>2. \A d \in S : l.next[d] # NULL => l.next[d] \in S
  <2> SUFFICES ASSUME NEW d \in S, l.next[d] # NULL
               PROVE  l.next[d] \in S
    OBVIOUS
  <2>1. l.next[d] \in l.cells /\ l.next[d] \in Cell /\ l.prev[l.next[d]] = d
    BY ChainStays, ListFields DEF Chained
  <2>2. Reach(l.prev, l.next[d]) = {l.next[d]} \cup Reach(l.prev, d)
    BY <2>1, ReachUnfold, ListFields
  <2> QED
    BY <2>1, <2>2
<1>3. S = l.cells
  <2> S \in SUBSET l.cells
    OBVIOUS
  <2> HIDE DEF S
  <2> QED
    BY <1>1, <1>2, ChainInduction
<1> QED
  BY <1>3

\* A walk back along prev does not return to the cell it comes from.
LEMMA BackIsAcyclic ==
    ASSUME NEW l, IsList(l), Chained(l), NEW x \in l.cells
    PROVE  x \notin Reach(l.prev, l.prev[x])
<1> SUFFICES ASSUME x \in Reach(l.prev, l.prev[x]) PROVE FALSE
  OBVIOUS
<1> DEFINE S == {y \in l.cells : x \in Reach(l.prev, y)}
<1>1. l.prev[x] # NULL
  BY ReachNull
<1>2. l.prev[x] \in S
  BY <1>1, ChainStays
<1>3. \A y \in S : l.prev[y] # NULL => l.prev[y] \in S
  <2> SUFFICES ASSUME NEW y \in S, l.prev[y] # NULL
               PROVE  l.prev[y] \in S
    OBVIOUS
  <2>1. CASE y = x
    BY <2>1, <1>2
  <2>2. CASE y # x
    <3>1. Reach(l.prev, y) = {y} \cup Reach(l.prev, l.prev[y])
      BY ReachUnfold, ListFields
    <3> QED
      BY <3>1, <2>2, ChainStays
  <2> QED
    BY <2>1, <2>2
<1>4. Reach(l.prev, l.prev[x]) \subseteq S
  <2>1. S \in SUBSET Cell
    BY ListFields
  <2> HIDE DEF S
  <2> QED
    BY <2>1, <1>2, <1>3, ReachStays
<1>5. l.first \in S
  BY <1>2, <1>4, BackToFirst
<1>6. Reach(l.prev, l.first) = {l.first} \cup Reach(l.prev, l.prev[l.first])
  BY <1>5, ReachUnfold, ListFields
<1>7. l.prev[l.first] = NULL
  BY <1>5 DEF Chained
<1>8. x = l.first
  BY <1>5, <1>6, <1>7, ReachNull
<1> QED
  BY <1>1, <1>7, <1>8

\* When last ends the chain, the walk from it along prev visits every cell.
LEMMA BackFromLast ==
    ASSUME NEW l, IsList(l), Chained(l), LastEndsChain(l)
    PROVE  Reach(l.prev, l.last) = l.cells
<1> DEFINE T == {c \in l.cells : l.last \in Reach(l.next, c)}
           X == l.cells \ Reach(l.prev, l.last)
<1>1. CASE l.cells = {}
  BY <1>1, ChainStays
<1>2. CASE l.cells # {}
  <2>1. l.last \in l.cells /\ l.last \in Cell /\ l.next[l.last] = NULL
    BY <1>2, ListFields DEF LastEndsChain, Chained
  <2>2. l.first # NULL => l.first \in T
    BY <2>1, ChainStays DEF Chained
  <2>3. \A c \in T : l.next[c] # NULL => l.next[c] \in T
    <3> SUFFICES ASSUME NEW c \in T, l.next[c] # NULL
                 PROVE  l.next[c] \in T
      OBVIOUS
    <3>1. Reach(l.next, c) = {c} \cup Reach(l.next, l.next[c])
      BY ReachUnfold, ListFields
    <3> QED
      BY <3>1, <2>1, ChainStays
  <2>4. T = l.cells
    <3> T \in SUBSET l.cells
      OBVIOUS
    <3> HIDE DEF T
    <3> QED
      BY <2>2, <2>3, ChainInduction
  <2>5. \A c \in X : l.next[c] # NULL => l.next[c] \in X
    <3> SUFFICES ASSUME NEW c \in X, l.next[c] # NULL,
                        l.next[c] \in Reach(l.prev, l.last)
                 PROVE  FALSE
      BY ChainStays
    <3>1. l.prev[l.next[c]] = c /\ c # NULL
      BY ListFields, ListAssumption, ChainAssumption DEF Chained
    <3>2. c \in Reach(l.prev, l.last)
      BY <3>1, ReachStep, ListFields
    <3> QED
      BY <3>2
  <2>6. X = {}
    <3> SUFFICES ASSUME NEW x \in X PROVE FALSE
      OBVIOUS
    <3>1. X \in SUBSET Cell
      BY ListFields
    <3>2. Reach(l.next, x) \subseteq X
      <4> HIDE DEF X
      <4> QED
        BY <3>1, <2>5, ReachStays
    <3>3. l.last \in Reach(l.next, x)
      BY <2>4
    <3>4. l.last \in Reach(l.prev, l.last)
      BY <2>1, ReachSelf
    <3> QED
      BY <3>2, <3>3, <3>4
  <2> QED
    BY <2>6, ChainStays
<1> QED
  BY <1>1, <1>2

----------------------------------------------------------------------------
\* vanessa_list_create gives a well-formed list.
LEMMA NewListWellFormed ==
    ASSUME NEW n \in NoRecentArg, NEW match \in E_match, NEW sort \in E_sort
    PROVE  WellFormed(NewList(n, match, sort))
<1> DEFINE x == NewList(n, match, sort)
<1>1. x \in ListOf(StoredNoRecent(n))
  BY StoredNoRecentType DEF NewList, ListOf, Ptr, Datum
<1>2. IsList(x)
  BY <1>1 DEF IsList
<1>3. Chained(x)
  BY ReachNull DEF NewList, Chained
<1>4. RecentsLive(x)
  BY DEF NewList, RecentsLive
<1>5. LastEndsChain(x)
  BY DEF NewList, LastEndsChain
<1> QED
  BY <1>2, <1>3, <1>4, <1>5 DEF WellFormed

\* So does the list that vanessa_list_duplicate creates from a list's fields.
LEMMA CopyHeaderWellFormed ==
    ASSUME NEW l, IsList(l)
    PROVE  /\ WellFormed(NewList(l.norecent, l.e_match, l.e_sort))
           /\ NewList(l.norecent, l.e_match, l.e_sort).cells = {}
           /\ NewList(l.norecent, l.e_match, l.e_sort).norecent = l.norecent
<1>1. PICK n \in NoRecentArg : l \in ListOf(StoredNoRecent(n))
  BY DEF IsList
<1>2. l.norecent = StoredNoRecent(n) /\ l.e_match \in E_match /\ l.e_sort \in E_sort
  BY <1>1 DEF ListOf
<1>3. NewList(l.norecent, l.e_match, l.e_sort) = NewList(n, l.e_match, l.e_sort)
  BY <1>2, StoredNoRecentType DEF NewList
<1>4. WellFormed(NewList(n, l.e_match, l.e_sort))
  BY <1>2, NewListWellFormed
<1> QED
  BY <1>2, <1>3, <1>4 DEF NewList

----------------------------------------------------------------------------
\* Linking a new cell in after p, at the front when p is NULL.

LEMMA LinkAfterFields ==
    ASSUME NEW l, IsList(l), NEW e, NEW p, NEW v
    PROVE  LET succ == IF p = NULL THEN l.first ELSE l.next[p]
               x == LinkAfter(l, e, p, v)
           IN  /\ \A c \in Cell : x.next[c] = IF c = e THEN succ
                                     ELSE IF c = p THEN e ELSE l.next[c]
               /\ \A c \in Cell : x.prev[c] = IF c = e THEN p
                                     ELSE IF c = succ THEN e ELSE l.prev[c]
               /\ \A c \in Cell : x.value[c] = IF c = e THEN v ELSE l.value[c]
               /\ x.first = IF p = NULL THEN e ELSE l.first
               /\ x.last = IF p = l.last THEN e ELSE l.last
               /\ x.cells = l.cells \cup {e}
               /\ x.norecent = l.norecent /\ x.recent = l.recent
               /\ x.recent_offset = l.recent_offset
               /\ x.e_match = l.e_match /\ x.e_sort = l.e_sort
BY DEF LinkAfter, IsList, ListOf

LEMMA LinkAfterType ==
    ASSUME NEW l, IsList(l), Chained(l), NEW e \in Cell,
           NEW p \in l.cells \cup {NULL}, NEW v \in Datum
    PROVE  IsList(LinkAfter(l, e, p, v))
<1>1. PICK n \in NoRecentArg : l \in ListOf(StoredNoRecent(n))
  BY DEF IsList
<1> DEFINE succ == IF p = NULL THEN l.first ELSE l.next[p]
<1>2. succ \in Ptr /\ p \in Ptr /\ e \in Ptr
  BY ListFields DEF Ptr
<1> HIDE DEF succ
<1>3. [c \in Cell |-> IF c = e THEN succ ELSE IF c = p THEN e ELSE l.next[c]]
         \in [Cell -> Ptr]
  BY <1>2, ListFields
<1>4. [c \in Cell |-> IF c = e THEN p ELSE IF c = succ THEN e ELSE l.prev[c]]
         \in [Cell -> Ptr]
  BY <1>2, ListFields
<1>5. [c \in Cell |-> IF c = e THEN v ELSE l.value[c]] \in [Cell -> Datum]
  BY ListFields
<1>6. l.cells \cup {e} \in SUBSET Cell
  BY ListFields
<1>7. LinkAfter(l, e, p, v) \in ListOf(StoredNoRecent(n))
  BY <1>1, <1>2, <1>3, <1>4, <1>5, <1>6 DEF LinkAfter, ListOf, succ
<1> QED
  BY <1>7 DEF IsList

LEMMA LinkAfterChained ==
    ASSUME NEW l, IsList(l), Chained(l), NEW e \in Cell \ l.cells,
           NEW p \in l.cells \cup {NULL}, NEW v \in Datum
    PROVE  Chained(LinkAfter(l, e, p, v))
<1> DEFINE succ == IF p = NULL THEN l.first ELSE l.next[p]
           x == LinkAfter(l, e, p, v)
<1>1. /\ \A c \in Cell : x.next[c] = IF c = e THEN succ
                                     ELSE IF c = p THEN e ELSE l.next[c]
      /\ \A c \in Cell : x.prev[c] = IF c = e THEN p
                                     ELSE IF c = succ THEN e ELSE l.prev[c]
      /\ x.first = IF p = NULL THEN e ELSE l.first
      /\ x.last = IF p = l.last THEN e ELSE l.last
      /\ x.cells = l.cells \cup {e}
  BY LinkAfterFields
<1>2. IsList(x)
  BY LinkAfterType
<1>3. /\ e \in Cell /\ l.cells \subseteq Cell /\ NULL \notin Cell
      /\ e # NULL /\ NULL \notin l.cells
      /\ l.first \in l.cells \cup {NULL}
      /\ succ \in l.cells \cup {NULL}
      /\ \A c \in l.cells : l.next[c] \in l.cells \cup {NULL}
      /\ \A c \in l.cells : l.prev[c] \in l.cells \cup {NULL}
  BY ListFields, ChainStays, ListAssumption, ChainAssumption
<1>4. succ # NULL => l.prev[succ] = p
  BY <1>3, ChainStays DEF Chained
<1> HIDE DEF succ, x
<1>5. Reach(x.next, x.first) = x.cells
  <2> DEFINE R == Reach(x.next, x.first)
             S == {c \in l.cells : c \in R}
  <2>1. R \subseteq x.cells
    <3>1. x.cells \in SUBSET Cell /\ (x.first # NULL => x.first \in x.cells)
      BY <1>1, <1>3, ChainStays
    <3>2. \A c \in x.cells : x.next[c] # NULL => x.next[c] \in x.cells
      BY <1>1, <1>3
    <3> QED
      BY <3>1, <3>2, ReachStays
  <2>2. \A c \in R : x.next[c] # NULL => x.next[c] \in R
    BY <1>2, ListFields, ReachStep
  <2>3. x.first \in R
    BY <1>1, <1>3, ReachSelf, ChainStays DEF Chained
  <2> HIDE DEF R
  <2>4. l.first # NULL => l.first \in S
    BY <1>1, <1>3, <2>2, <2>3, ChainStays DEF succ
  <2>5. \A c \in S : l.next[c] # NULL => l.next[c] \in S
    BY <1>1, <1>3, <2>2 DEF succ
  <2>6. S = l.cells
    <3> S \in SUBSET l.cells
      OBVIOUS
    <3> HIDE DEF S
    <3> QED
      BY <2>4, <2>5, ChainInduction
  <2>7. e \in R
    BY <1>1, <1>3, <2>2, <2>3, <2>6
  <2> QED
    BY <2>1, <2>6, <2>7, <1>1 DEF R
<1>6. x.first = NULL <=> x.cells = {}
  BY <1>1, <1>3, ChainStays DEF Chained
<1>7. x.last \in x.cells \cup {NULL}
  BY <1>1 DEF Chained
<1>8. \A c \in Cell \ x.cells : x.next[c] = NULL /\ x.prev[c] = NULL
  <2> SUFFICES ASSUME NEW c \in Cell \ x.cells
               PROVE  x.next[c] = NULL /\ x.prev[c] = NULL
    OBVIOUS
  <2>1. c \in Cell /\ c \notin l.cells /\ c # NULL
    BY <1>1, <1>3
  <2>2. l.next[c] = NULL /\ l.prev[c] = NULL
    BY <2>1 DEF Chained
  <2> QED
    BY <2>1, <2>2, <1>1, <1>3
<1>9. ASSUME NEW c \in x.cells
      PROVE  /\ x.next[c] # NULL => x.prev[x.next[c]] = c
             /\ x.prev[c] # NULL => x.prev[c] \in x.cells /\ x.next[x.prev[c]] = c
             /\ x.prev[c] = NULL <=> c = x.first
  <2>1. CASE c = e
    BY <2>1, <1>1, <1>3, <1>4
  <2>2. CASE c # e
    <3>1. c \in l.cells /\ c \in Cell
      BY <2>2, <1>1, <1>3
    <3>2. x.next[c] # NULL => x.prev[x.next[c]] = c
      BY <3>1, <2>2, <1>1, <1>3, <1>4 DEF Chained
    <3>3. x.prev[c] # NULL => x.prev[c] \in x.cells /\ x.next[x.prev[c]] = c
      <4>1. CASE c = succ
        BY <4>1, <3>1, <2>2, <1>1, <1>3
      <4>2. CASE c # succ
        <5>1. l.prev[c] # NULL => l.prev[c] \in l.cells /\ l.next[l.prev[c]] = c
          BY <3>1 DEF Chained
        <5>2. l.prev[c] # NULL => l.prev[c] # p
          BY <5>1, <4>2 DEF succ
        <5> QED
          BY <5>1, <5>2, <4>2, <3>1, <2>2, <1>1, <1>3
      <4> QED
        BY <4>1, <4>2
    <3>4. x.prev[c] = NULL <=> c = x.first
      BY <3>1, <2>2, <1>1, <1>3, <1>4 DEF Chained, succ
    <3> QED
      BY <3>2, <3>3, <3>4
  <2> QED
    BY <2>1, <2>2
<1> QED
  BY <1>5, <1>6, <1>7, <1>8, <1>9 DEF Chained, x

LEMMA LinkAfterEnds ==
    ASSUME NEW l, IsList(l), Chained(l), LastEndsChain(l),
           NEW e \in Cell \ l.cells, NEW p \in l.cells \cup {NULL}, NEW v \in Datum
    PROVE  LastEndsChain(LinkAfter(l, e, p, v))
<1> DEFINE succ == IF p = NULL THEN l.first ELSE l.next[p]
           x == LinkAfter(l, e, p, v)
<1>1. /\ \A c \in Cell : x.next[c] = IF c = e THEN succ
                                     ELSE IF c = p THEN e ELSE l.next[c]
      /\ x.last = IF p = l.last THEN e ELSE l.last
      /\ x.cells = l.cells \cup {e}
  BY LinkAfterFields
<1>2. e \in Cell /\ e # NULL /\ l.cells \subseteq Cell /\ NULL \notin l.cells
  BY ListFields, ListAssumption, ChainAssumption
<1>3. succ = NULL <=> p = l.last
  BY <1>2, ChainStays DEF LastEndsChain, Chained
<1> HIDE DEF succ, x
<1>4. x.last = NULL <=> x.cells = {}
  BY <1>1, <1>2 DEF LastEndsChain
<1>5. \A c \in x.cells : x.next[c] = NULL <=> c = x.last
  <2> SUFFICES ASSUME NEW c \in x.cells
               PROVE  x.next[c] = NULL <=> c = x.last
    OBVIOUS
  <2>1. CASE c = e
    BY <2>1, <1>1, <1>2, <1>3 DEF Chained
  <2>2. CASE c # e
    <3>1. c \in l.cells /\ c \in Cell /\ (l.next[c] = NULL <=> c = l.last)
      BY <2>2, <1>1, <1>2 DEF LastEndsChain
    <3> QED
      BY <3>1, <2>2, <1>1, <1>2
  <2> QED
    BY <2>1, <2>2
<1> QED
  BY <1>4, <1>5 DEF LastEndsChain, x

----------------------------------------------------------------------------
\* Moving a cell that is not the first one to the front.

LEMMA MoveToFrontFields ==
    ASSUME NEW l, IsList(l), NEW e
    PROVE  LET x == MoveToFront(l, e)
           IN  /\ \A c \in Cell : x.next[c] = IF c = e THEN l.first
                                     ELSE IF c = l.prev[e] THEN l.next[e]
                                     ELSE l.next[c]
               /\ \A c \in Cell : x.prev[c] = IF c = e THEN NULL
                                     ELSE IF c = l.first THEN e
                                     ELSE IF c = l.next[e] THEN l.prev[e]
                                     ELSE l.prev[c]
               /\ x.first = e
               /\ x.last = IF l.last = e THEN l.first ELSE l.last
               /\ x.cells = l.cells /\ x.value = l.value
               /\ x.norecent = l.norecent /\ x.recent = l.recent
               /\ x.recent_offset = l.recent_offset
               /\ x.e_match = l.e_match /\ x.e_sort = l.e_sort
BY DEF MoveToFront, IsList, ListOf

LEMMA MoveToFrontType ==
    ASSUME NEW l, IsList(l), Chained(l), NEW e \in l.cells
    PROVE  IsList(MoveToFront(l, e))
<1>1. PICK n \in NoRecentArg : l \in ListOf(StoredNoRecent(n))
  BY DEF IsList
<1>2. e \in Ptr /\ NULL \in Ptr /\ l.first \in Ptr /\ l.next[e] \in Ptr /\ l.prev[e] \in Ptr
  BY ListFields DEF Ptr
<1>3. [c \in Cell |-> IF c = e THEN l.first ELSE IF c = l.prev[e] THEN l.next[e]
                      ELSE l.next[c]] \in [Cell -> Ptr]
  BY <1>2, ListFields
<1>4. [c \in Cell |-> IF c = e THEN NULL ELSE IF c = l.first THEN e
                      ELSE IF c = l.next[e] THEN l.prev[e] ELSE l.prev[c]]
         \in [Cell -> Ptr]
  BY <1>2, ListFields
<1>5. MoveToFront(l, e) \in ListOf(StoredNoRecent(n))
  BY <1>1, <1>2, <1>3, <1>4 DEF MoveToFront, ListOf
<1> QED
  BY <1>5 DEF IsList

LEMMA MoveToFrontChained ==
    ASSUME NEW l, IsList(l), Chained(l), NEW e \in l.cells, e # l.first
    PROVE  Chained(MoveToFront(l, e))
<1> DEFINE x == MoveToFront(l, e)
           p == l.prev[e]
           q == l.next[e]
<1>1. /\ \A c \in Cell : x.next[c] = IF c = e THEN l.first
                                     ELSE IF c = p THEN q ELSE l.next[c]
      /\ \A c \in Cell : x.prev[c] = IF c = e THEN NULL
                                     ELSE IF c = l.first THEN e
                                     ELSE IF c = q THEN p ELSE l.prev[c]
      /\ x.first = e
      /\ x.last = IF l.last = e THEN l.first ELSE l.last
      /\ x.cells = l.cells
  BY MoveToFrontFields
<1>2. IsList(x)
  BY MoveToFrontType
<1>3. /\ l.cells \subseteq Cell /\ NULL \notin l.cells /\ NULL \notin Cell
      /\ l.first \in l.cells
      /\ p \in l.cells /\ l.next[p] = e
      /\ q \in l.cells \cup {NULL} /\ (q # NULL => l.prev[q] = e)
      /\ p # e /\ q # e /\ q # l.first
      /\ \A c \in l.cells : l.next[c] \in l.cells \cup {NULL}
      /\ \A c \in l.cells : l.prev[c] \in l.cells \cup {NULL}
  BY ListFields, ChainStays, ListAssumption, ChainAssumption, NoSelfLink DEF Chained
<1> HIDE DEF x, p, q
<1>5. Reach(x.next, x.first) = x.cells
  <2> DEFINE R == Reach(x.next, x.first)
             S == {c \in l.cells : c \in R /\ (c = e => q = NULL \/ q \in R)}
  <2>1. R \subseteq x.cells
    <3>1. x.cells \in SUBSET Cell /\ (x.first # NULL => x.first \in x.cells)
      BY <1>1, <1>3
    <3>2. \A c \in x.cells : x.next[c] # NULL => x.next[c] \in x.cells
      BY <1>1, <1>3
    <3> QED
      BY <3>1, <3>2, ReachStays
  <2>2. \A c \in R : x.next[c] # NULL => x.next[c] \in R
    BY <1>2, ListFields, ReachStep
  <2>3. e \in R
    BY <1>1, <1>3, ReachSelf
  <2> HIDE DEF R
  <2>4. l.first # NULL => l.first \in S
    BY <1>1, <1>3, <2>2, <2>3
  <2>5. \A c \in S : l.next[c] # NULL => l.next[c] \in S
    <3> SUFFICES ASSUME NEW c \in S, l.next[c] # NULL
                 PROVE  l.next[c] \in S
      OBVIOUS
    <3>1. CASE c = e
      BY <3>1, <1>3 DEF q
    <3>2. CASE c # e /\ l.next[c] = e
      <4>1. c = p /\ x.next[c] = q
        BY <3>2, <1>1, <1>3 DEF p, Chained
      <4> QED
        BY <4>1, <3>2, <2>2, <2>3
    <3>3. CASE c # e /\ l.next[c] # e
      <4>1. x.next[c] = l.next[c]
        BY <3>3, <1>1, <1>3
      <4> QED
        BY <4>1, <3>3, <1>3, <2>2
    <3> QED
      BY <3>1, <3>2, <3>3
  <2>6. S = l.cells
    <3> S \in SUBSET l.cells
      OBVIOUS
    <3> HIDE DEF S
    <3> QED
      BY <2>4, <2>5, ChainInduction
  <2> QED
    BY <2>1, <2>6, <1>1 DEF R
<1>6. x.first = NULL <=> x.cells = {}
  BY <1>1, <1>3
<1>7. x.last \in x.cells \cup {NULL}
  BY <1>1, <1>3 DEF Chained
<1>8. \A c \in Cell \ x.cells : x.next[c] = NULL /\ x.prev[c] = NULL
  <2> SUFFICES ASSUME NEW c \in Cell \ x.cells
               PROVE  x.next[c] = NULL /\ x.prev[c] = NULL
    OBVIOUS
  <2>1. c \in Cell /\ c \notin l.cells /\ c # NULL
    BY <1>1, <1>3
  <2>2. l.next[c] = NULL /\ l.prev[c] = NULL
    BY <2>1 DEF Chained
  <2> QED
    BY <2>1, <2>2, <1>1, <1>3
<1>9. ASSUME NEW c \in x.cells
      PROVE  /\ x.next[c] # NULL => x.prev[x.next[c]] = c
             /\ x.prev[c] # NULL => x.prev[c] \in x.cells /\ x.next[x.prev[c]] = c
             /\ x.prev[c] = NULL <=> c = x.first
  <2>1. c \in l.cells /\ c \in Cell
    BY <1>1, <1>3
  <2>2. x.next[c] # NULL => x.prev[x.next[c]] = c
    <3>1. CASE c = e
      BY <3>1, <2>1, <1>1, <1>3
    <3>2. CASE c = p
      BY <3>2, <2>1, <1>1, <1>3
    <3>3. CASE c # e /\ c # p /\ l.next[c] # NULL
      <4>1. l.next[c] \in l.cells /\ l.prev[l.next[c]] = c
        BY <3>3, <2>1, <1>3 DEF Chained
      <4>2. l.next[c] # l.first /\ l.next[c] # e /\ l.next[c] # q
        BY <4>1, <3>3, <2>1, <1>3 DEF Chained, p
      <4> QED
        BY <4>1, <4>2, <3>3, <2>1, <1>1, <1>3
    <3> QED
      BY <3>1, <3>2, <3>3, <2>1, <1>1
  <2>3. x.prev[c] # NULL => x.prev[c] \in x.cells /\ x.next[x.prev[c]] = c
    <3>1. CASE c = e \/ c = l.first \/ c = q
      BY <3>1, <2>1, <1>1, <1>3
    <3>2. CASE ~(c = e \/ c = l.first \/ c = q)
      <4>1. l.prev[c] \in l.cells /\ l.next[l.prev[c]] = c
        BY <3>2, <2>1, <1>3 DEF Chained
      <4>2. l.prev[c] # e /\ l.prev[c] # p
        BY <4>1, <3>2, <1>3 DEF q
      <4> QED
        BY <4>1, <4>2, <3>2, <2>1, <1>1, <1>3
    <3> QED
      BY <3>1, <3>2
  <2>4. x.prev[c] = NULL <=> c = x.first
    BY <2>1, <1>1, <1>3 DEF Chained
  <2> QED
    BY <2>2, <2>3, <2>4
<1> QED
  BY <1>5, <1>6, <1>7, <1>8, <1>9 DEF Chained, x

----------------------------------------------------------------------------
\* Unlinking and freeing a cell.

LEMMA UnlinkFields ==
    ASSUME NEW l, IsList(l), NEW e
    PROVE  LET x == Unlink(l, e)
           IN  /\ \A c \in Cell : x.next[c] = IF c = e THEN NULL
                                     ELSE IF c = l.prev[e] THEN l.next[e]
                                     ELSE l.next[c]
               /\ \A c \in Cell : x.prev[c] = IF c = e THEN NULL
                                     ELSE IF c = l.next[e] THEN l.prev[e]
                                     ELSE l.prev[c]
               /\ \A c \in Cell : x.value[c] = IF c = e THEN NULL ELSE l.value[c]
               /\ \A i \in 0 .. l.norecent - 1 :
                     x.recent[i] = IF l.recent[i] = e THEN NULL ELSE l.recent[i]
               /\ x.first = IF l.first = e THEN l.next[e] ELSE l.first
               /\ x.last = IF l.last = e THEN l.prev[e] ELSE l.last
               /\ x.cells = l.cells \ {e}
               /\ x.norecent = l.norecent
               /\ x.recent_offset = l.recent_offset
               /\ x.e_match = l.e_match /\ x.e_sort = l.e_sort
BY DEF Unlink, IsList, ListOf

LEMMA UnlinkType ==
    ASSUME NEW l, IsList(l), NEW e \in l.cells
    PROVE  IsList(Unlink(l, e))
<1>1. PICK n \in NoRecentArg : l \in ListOf(StoredNoRecent(n))
  BY DEF IsList
<1>2. /\ NULL \in Ptr /\ l.next[e] \in Ptr /\ l.prev[e] \in Ptr
      /\ NULL \in Datum /\ l.norecent = StoredNoRecent(n)
      /\ l.cells \ {e} \in SUBSET Cell
  BY <1>1, ListFields DEF Ptr, Datum, ListOf
<1>3. [c \in Cell |-> IF c = e THEN NULL ELSE IF c = l.prev[e] THEN l.next[e]
                      ELSE l.next[c]] \in [Cell -> Ptr]
  BY <1>2, ListFields
<1>4. [c \in Cell |-> IF c = e THEN NULL ELSE IF c = l.next[e] THEN l.prev[e]
                      ELSE l.prev[c]] \in [Cell -> Ptr]
  BY <1>2, ListFields
<1>5. [c \in Cell |-> IF c = e THEN NULL ELSE l.value[c]] \in [Cell -> Datum]
  BY <1>2, ListFields
<1>6. [i \in 0 .. l.norecent - 1 |-> IF l.recent[i] = e THEN NULL ELSE l.recent[i]]
         \in [0 .. StoredNoRecent(n) - 1 -> Ptr]
  BY <1>2, ListFields
<1>7. Unlink(l, e) \in ListOf(StoredNoRecent(n))
  BY <1>1, <1>2, <1>3, <1>4, <1>5, <1>6 DEF Unlink, ListOf
<1> QED
  BY <1>7 DEF IsList

LEMMA UnlinkChained ==
    ASSUME NEW l, IsList(l), Chained(l), NEW e \in l.cells
    PROVE  Chained(Unlink(l, e))
<1> DEFINE x == Unlink(l, e)
           p == l.prev[e]
           q == l.next[e]
<1>1. /\ \A c \in Cell : x.next[c] = IF c = e THEN NULL
                                     ELSE IF c = p THEN q ELSE l.next[c]
      /\ \A c \in Cell : x.prev[c] = IF c = e THEN NULL
                                     ELSE IF c = q THEN p ELSE l.prev[c]
      /\ x.first = IF l.first = e THEN q ELSE l.first
      /\ x.last = IF l.last = e THEN p ELSE l.last
      /\ x.cells = l.cells \ {e}
  BY UnlinkFields
<1>2. IsList(x)
  BY UnlinkType
<1>3. /\ l.cells \subseteq Cell /\ NULL \notin l.cells /\ NULL \notin Cell
      /\ l.first \in l.cells
      /\ p \in l.cells \cup {NULL} /\ (p # NULL => l.next[p] = e)
      /\ q \in l.cells \cup {NULL} /\ (q # NULL => l.prev[q] = e)
      /\ p = NULL <=> e = l.first
      /\ p # e /\ q # e
      /\ \A c \in l.cells : l.next[c] \in l.cells \cup {NULL}
      /\ \A c \in l.cells : l.prev[c] \in l.cells \cup {NULL}
  BY ListFields, ChainStays, ListAssumption, ChainAssumption, NoSelfLink DEF Chained
<1>4. \A c \in l.cells : (l.next[c] = e => c = p) /\ (l.prev[c] = e => c = q)
  <2>1. \A c \in l.cells : /\ l.next[c] # NULL => l.prev[l.next[c]] = c
                           /\ l.prev[c] # NULL => l.next[l.prev[c]] = c
    BY DEF Chained
  <2> QED
    BY <2>1, <1>3
<1> HIDE DEF x, p, q
<1>5. Reach(x.next, x.first) = x.cells
  <2> DEFINE R == Reach(x.next, x.first)
             S == {c \in l.cells : /\ c # e => c \in R
                                   /\ c = e => q = NULL \/ q \in R}
  <2>1. R \subseteq x.cells
    <3>1. x.cells \in SUBSET Cell /\ (x.first # NULL => x.first \in x.cells)
      BY <1>1, <1>3
    <3>2. \A c \in x.cells : x.next[c] # NULL => x.next[c] \in x.cells
      BY <1>1, <1>3, <1>4
    <3> QED
      BY <3>1, <3>2, ReachStays
  <2>2. \A c \in R : x.next[c] # NULL => x.next[c] \in R
    BY <1>2, ListFields, ReachStep
  <2>3. x.first # NULL => x.first \in R
    BY <1>1, <1>3, ReachSelf
  <2> HIDE DEF R
  <2>4. l.first # NULL => l.first \in S
    BY <1>1, <1>3, <2>3
  <2>5. \A c \in S : l.next[c] # NULL => l.next[c] \in S
    <3> SUFFICES ASSUME NEW c \in S, l.next[c] # NULL
                 PROVE  l.next[c] \in S
      OBVIOUS
    <3>1. CASE c = e
      BY <3>1, <1>3 DEF q
    <3>2. CASE c # e /\ l.next[c] = e
      <4>1. c = p /\ x.next[c] = q
        BY <3>2, <1>1, <1>3, <1>4
      <4> QED
        BY <4>1, <3>2, <2>2
    <3>3. CASE c # e /\ l.next[c] # e
      <4>1. x.next[c] = l.next[c]
        BY <3>3, <1>1, <1>3
      <4> QED
        BY <4>1, <3>3, <1>3, <2>2
    <3> QED
      BY <3>1, <3>2, <3>3
  <2>6. S = l.cells
    <3> S \in SUBSET l.cells
      OBVIOUS
    <3> HIDE DEF S
    <3> QED
      BY <2>4, <2>5, ChainInduction
  <2> QED
    BY <2>1, <2>6, <1>1 DEF R
<1>6. x.first = NULL <=> x.cells = {}
  <2>1. x.first # NULL => x.first \in x.cells
    BY <1>1, <1>3
  <2>2. x.first = NULL => x.cells = {}
    BY <1>5, ReachNull
  <2> QED
    BY <2>1, <2>2
<1>7. x.last \in x.cells \cup {NULL}
  BY <1>1, <1>3 DEF Chained
<1>8. \A c \in Cell \ x.cells : x.next[c] = NULL /\ x.prev[c] = NULL
  <2> SUFFICES ASSUME NEW c \in Cell \ x.cells, c # e
               PROVE  x.next[c] = NULL /\ x.prev[c] = NULL
    BY <1>1, <1>3
  <2>1. c \in Cell /\ c \notin l.cells /\ c # NULL
    BY <1>1, <1>3
  <2>2. l.next[c] = NULL /\ l.prev[c] = NULL
    BY <2>1 DEF Chained
  <2> QED
    BY <2>1, <2>2, <1>1, <1>3
<1>9. ASSUME NEW c \in x.cells
      PROVE  /\ x.next[c] # NULL => x.prev[x.next[c]] = c
             /\ x.prev[c] # NULL => x.prev[c] \in x.cells /\ x.next[x.prev[c]] = c
             /\ x.prev[c] = NULL <=> c = x.first
  <2>1. c \in l.cells /\ c \in Cell /\ c # e
    BY <1>1, <1>3
  <2>2. x.next[c] # NULL => x.prev[x.next[c]] = c
    <3>1. CASE c = p
      BY <3>1, <2>1, <1>1, <1>3
    <3>2. CASE c # p /\ l.next[c] # NULL
      <4>1. l.next[c] \in l.cells /\ l.prev[l.next[c]] = c
        BY <3>2, <2>1, <1>3 DEF Chained
      <4>2. l.next[c] # e /\ l.next[c] # q
        BY <4>1, <3>2, <2>1, <1>3, <1>4
      <4> QED
        BY <4>1, <4>2, <3>2, <2>1, <1>1, <1>3
    <3> QED
      BY <3>1, <3>2, <2>1, <1>1
  <2>3. x.prev[c] # NULL => x.prev[c] \in x.cells /\ x.next[x.prev[c]] = c
    <3>1. CASE c = q
      BY <3>1, <2>1, <1>1, <1>3
    <3>2. CASE c # q /\ l.prev[c] # NULL
      <4>1. l.prev[c] \in l.cells /\ l.next[l.prev[c]] = c
        BY <3>2, <2>1, <1>3 DEF Chained
      <4>2. l.prev[c] # e /\ l.prev[c] # p
        BY <4>1, <3>2, <2>1, <1>3, <1>4
      <4> QED
        BY <4>1, <4>2, <3>2, <2>1, <1>1, <1>3
    <3> QED
      BY <3>1, <3>2, <2>1, <1>1
  <2>4. x.prev[c] = NULL <=> c = x.first
    <3>1. l.prev[c] = NULL <=> c = l.first
      BY <2>1 DEF Chained
    <3>2. c = q => l.prev[c] = e /\ e # NULL
      BY <1>3, <2>1
    <3> QED
      BY <3>1, <3>2, <2>1, <1>1, <1>3
  <2> QED
    BY <2>2, <2>3, <2>4
<1> QED
  BY <1>5, <1>6, <1>7, <1>8, <1>9 DEF Chained, x

LEMMA UnlinkEnds ==
    ASSUME NEW l, IsList(l), Chained(l), LastEndsChain(l), NEW e \in l.cells
    PROVE  LastEndsChain(Unlink(l, e))
<1> DEFINE x == Unlink(l, e)
           p == l.prev[e]
           q == l.next[e]
<1>1. /\ \A c \in Cell : x.next[c] = IF c = e THEN NULL
                                     ELSE IF c = p THEN q ELSE l.next[c]
      /\ x.first = IF l.first = e THEN q ELSE l.first
      /\ x.last = IF l.last = e THEN p ELSE l.last
      /\ x.cells = l.cells \ {e}
  BY UnlinkFields
<1>2. /\ l.cells \subseteq Cell /\ NULL \notin l.cells
      /\ p \in l.cells \cup {NULL} /\ (p # NULL => l.next[p] = e)
      /\ p = NULL <=> e = l.first
      /\ p # e
      /\ q = NULL <=> e = l.last
      /\ l.last \in l.cells
  BY ListFields, ChainStays, ListAssumption, ChainAssumption, NoSelfLink DEF Chained, LastEndsChain
<1>3. Chained(x)
  BY UnlinkChained
<1>4. \A c \in l.cells : (l.next[c] = NULL <=> c = l.last) /\ (l.next[c] = e => c = p)
  <2>1. \A c \in l.cells : l.next[c] # NULL => l.prev[l.next[c]] = c
    BY DEF Chained
  <2>2. \A c \in l.cells : l.next[c] = NULL <=> c = l.last
    BY DEF LastEndsChain
  <2> QED
    BY <2>1, <2>2, <1>2
<1> HIDE DEF x, p, q
<1>5. x.last = NULL <=> x.cells = {}
  <2>1. x.first = NULL <=> x.cells = {}
    BY <1>3 DEF Chained
  <2>2. CASE l.last = e
    BY <2>1, <2>2, <1>1, <1>2
  <2>3. CASE l.last # e
    BY <2>3, <1>1, <1>2
  <2> QED
    BY <2>2, <2>3
<1>6. \A c \in x.cells : x.next[c] = NULL <=> c = x.last
  BY <1>1, <1>2, <1>4
<1> QED
  BY <1>5, <1>6 DEF LastEndsChain, x

----------------------------------------------------------------------------
\* The functions of the API.

\* A new cell, which no slot of the recent array holds, takes a slot.
LEMMA RememberRecentWellFormed ==
    ASSUME NEW l, IsList(l), Chained(l), NEW e \in l.cells,
           RecentsLive(l), \A i \in 0 .. l.norecent - 1 : l.recent[i] # e
    PROVE  LET x == RememberRecent(l, e)
           IN  /\ IsList(x) /\ Chained(x) /\ RecentsLive(x)
               /\ x.cells = l.cells /\ x.value = l.value /\ x.next = l.next
               /\ x.prev = l.prev /\ x.norecent = l.norecent
               /\ x.first = l.first /\ x.last = l.last
               /\ x.e_match = l.e_match /\ x.e_sort = l.e_sort
<1>1. PICK n \in NoRecentArg : l \in ListOf(StoredNoRecent(n))
  BY DEF IsList
<1>2. CASE ~ l.norecent > 0
  BY <1>2 DEF RememberRecent
<1>3. CASE l.norecent > 0
  <2> DEFINE o == (l.recent_offset + 1) % l.norecent
             r == [i \in 0 .. l.norecent - 1 |-> IF i = o THEN e ELSE l.recent[i]]
             x == RememberRecent(l, e)
  <2>1. o \in 0 .. l.norecent - 1
    BY <1>3, ListFields
  <2> HIDE DEF o
  <2>2. x = [l EXCEPT !.recent_offset = o, !.recent = r]
    BY <1>3 DEF RememberRecent, o
  <2>3. l.norecent = StoredNoRecent(n) /\ e \in Ptr
    BY <1>1, ListFields DEF ListOf, Ptr
  <2>4. r \in [0 .. StoredNoRecent(n) - 1 -> Ptr] /\ o \in Nat
    BY <2>1, <2>3, ListFields
  <2> HIDE DEF r, x
  <2>5. x \in ListOf(StoredNoRecent(n))
    BY <1>1, <2>2, <2>4 DEF ListOf
  <2>6. /\ x.cells = l.cells /\ x.value = l.value /\ x.next = l.next
        /\ x.prev = l.prev /\ x.norecent = l.norecent
        /\ x.first = l.first /\ x.last = l.last
        /\ x.e_match = l.e_match /\ x.e_sort = l.e_sort
        /\ x.recent = r
    BY <1>1, <2>2 DEF ListOf
  <2>7. IsList(x)
    BY <2>5 DEF IsList
  <2>8. Chained(x)
    BY <2>6 DEF Chained
  <2>9. RecentsLive(x)
    BY <2>6 DEF RecentsLive, r
  <2> QED
    BY <2>6, <2>7, <2>8, <2>9 DEF x
<1> QED
  BY <1>2, <1>3

LEMMA InsertionPointType ==
    ASSUME NEW l, IsList(l), Chained(l), NEW v
    PROVE  InsertionPoint(l, v) \in l.cells \cup {NULL}
BY FirstOnWalkType, ChainStays DEF InsertionPoint

LEMMA AddWellFormed ==
    ASSUME NEW l, WellFormed(l), NEW e \in Cell \ l.cells, NEW v \in Datum
    PROVE  /\ WellFormed(Add(l, e, v))
           /\ Add(l, e, v).cells = l.cells \cup {e}
           /\ Add(l, e, v).norecent = l.norecent
           /\ Add(l, e, v).e_match = l.e_match /\ Add(l, e, v).e_sort = l.e_sort
           /\ \A c \in Cell : Add(l, e, v).value[c] = IF c = e THEN v ELSE l.value[c]
<1> DEFINE p == InsertionPoint(l, v)
           y == LinkAfter(l, e, p, v)
           x == RememberRecent(y, e)
<1>1. IsList(l) /\ Chained(l) /\ RecentsLive(l)
  BY DEF WellFormed
<1>2. p \in l.cells \cup {NULL}
  BY <1>1, InsertionPointType
<1> HIDE DEF p
<1>3. IsList(y) /\ Chained(y)
  BY <1>1, <1>2, LinkAfterType, LinkAfterChained
<1>4. l.norecent # REORDER => LastEndsChain(y)
  BY <1>1, <1>2, LinkAfterEnds DEF WellFormed
<1>5. /\ y.cells = l.cells \cup {e} /\ y.norecent = l.norecent
      /\ y.recent = l.recent
      /\ y.e_match = l.e_match /\ y.e_sort = l.e_sort
      /\ \A c \in Cell : y.value[c] = IF c = e THEN v ELSE l.value[c]
  BY <1>1, LinkAfterFields
<1> HIDE DEF y
<1>6. RecentsLive(y) /\ \A i \in 0 .. y.norecent - 1 : y.recent[i] # e
  BY <1>1, <1>5, ListAssumption, ChainAssumption DEF RecentsLive
<1>7. /\ IsList(x) /\ Chained(x) /\ RecentsLive(x)
      /\ x.cells = y.cells /\ x.value = y.value /\ x.next = y.next
      /\ x.norecent = y.norecent /\ x.last = y.last
      /\ x.e_match = y.e_match /\ x.e_sort = y.e_sort
  BY <1>3, <1>5, <1>6, RememberRecentWellFormed
<1>8. x = Add(l, e, v)
  BY DEF Add, p, y
<1> HIDE DEF x
<1>9. l.norecent # REORDER => LastEndsChain(x)
  BY <1>4, <1>7 DEF LastEndsChain
<1>10. WellFormed(x)
  BY <1>5, <1>7, <1>9 DEF WellFormed
<1> QED
  BY <1>5, <1>7, <1>8, <1>10

\* A lookup answers with a cell of the list or NULL, and the cell's value
\* matches.
LEMMA FoundType ==
    ASSUME NEW l, WellFormed(l), NEW k
    PROVE  /\ Found(l, k) \in l.cells \cup {NULL}
           /\ Found(l, k) # NULL => Matches(l, l.value[Found(l, k)], k)
<1>1. IsList(l) /\ Chained(l) /\ RecentsLive(l)
  BY DEF WellFormed
<1> DEFINE i == CHOOSE j \in RecentHit(l, k) : TRUE
           C == {c \in Cell : Matches(l, l.value[c], k)}
<1>2. CASE k = NULL
  BY <1>2 DEF Found
<1>3. CASE k # NULL /\ RecentHit(l, k) # {}
  <2>1. Found(l, k) = l.recent[i]
    BY <1>3 DEF Found
  <2>2. i \in RecentHit(l, k)
    BY <1>3
  <2> HIDE DEF i
  <2> QED
    BY <2>1, <2>2, <1>1 DEF RecentHit, RecentsLive
<1>4. CASE k # NULL /\ RecentHit(l, k) = {}
  <2>1. Found(l, k) = FirstOnWalk(l.next, l.first, C)
    BY <1>4 DEF Found
  <2>2. Found(l, k) \in (C \cap Reach(l.next, l.first)) \cup {NULL}
    BY <2>1, FirstOnWalkType
  <2> QED
    BY <2>2, <1>1 DEF Chained
<1> QED
  BY <1>2, <1>3, <1>4

\* The chain is searched when the recent array has no match, so that every
\* match is found.
LEMMA LookupIsExact ==
    ASSUME NEW l, WellFormed(l), NEW k, k # NULL
    PROVE  LookupExact(l, k)
<1> DEFINE C == {c \in Cell : Matches(l, l.value[c], k)}
<1>1. IsList(l) /\ Chained(l)
  BY DEF WellFormed
<1>2. ASSUME NEW c \in l.cells, Matches(l, l.value[c], k), Found(l, k) = NULL
      PROVE  FALSE
  <2>1. RecentHit(l, k) = {}
    <3> SUFFICES ASSUME RecentHit(l, k) # {} PROVE FALSE
      OBVIOUS
    <3> DEFINE i == CHOOSE j \in RecentHit(l, k) : TRUE
    <3>1. i \in RecentHit(l, k) /\ Found(l, k) = l.recent[i]
      BY DEF Found
    <3> HIDE DEF i
    <3> QED
      BY <3>1, <1>2 DEF RecentHit
  <2>2. Found(l, k) = FirstOnWalk(l.next, l.first, C)
    BY <2>1 DEF Found
  <2>3. c \in C \cap Reach(l.next, l.first)
    BY <1>1, <1>2, ListFields DEF Chained
  <2> HIDE DEF C
  <2>4. FirstOnWalk(l.next, l.first, C) \in C \cap Reach(l.next, l.first)
    BY <2>3, <1>1, ListFields, FirstOnWalkFinds
  <2> QED
    BY <2>2, <2>4, <1>2, ReachIsCells, ListAssumption, ChainAssumption
<1> QED
  BY <1>2, FoundType, ListAssumption, ChainAssumption, ListFields, <1>1 DEF LookupExact

LEMMA GetWellFormed ==
    ASSUME NEW l, WellFormed(l), NEW k
    PROVE  /\ WellFormed(Get(l, k))
           /\ Get(l, k).cells = l.cells /\ Get(l, k).value = l.value
           /\ Get(l, k).norecent = l.norecent
           /\ Get(l, k).e_match = l.e_match /\ Get(l, k).e_sort = l.e_sort
           /\ l.norecent # REORDER => Get(l, k) = l
<1> DEFINE e == Found(l, k)
           x == MoveToFront(l, e)
<1>1. CASE ~(e # NULL /\ l.norecent = REORDER /\ e # l.first)
  BY <1>1 DEF Get
<1>2. CASE e # NULL /\ l.norecent = REORDER /\ e # l.first
  <2>1. Get(l, k) = x
    BY <1>2 DEF Get
  <2>2. e \in l.cells /\ e # l.first
    BY <1>2, FoundType
  <2> HIDE DEF e
  <2>3. IsList(x) /\ Chained(x)
    BY <2>2, MoveToFrontType, MoveToFrontChained DEF WellFormed
  <2>4. /\ x.cells = l.cells /\ x.norecent = l.norecent
        /\ x.recent = l.recent /\ x.value = l.value
        /\ x.e_match = l.e_match /\ x.e_sort = l.e_sort
    BY MoveToFrontFields DEF WellFormed
  <2> HIDE DEF x
  <2>5. RecentsLive(x)
    BY <2>4 DEF RecentsLive, WellFormed
  <2> QED
    BY <2>1, <2>3, <2>4, <2>5, <1>2 DEF WellFormed
<1> QED
  BY <1>1, <1>2

LEMMA UnlinkWellFormed ==
    ASSUME NEW l, WellFormed(l), NEW e \in l.cells
    PROVE  WellFormed(Unlink(l, e))
<1> DEFINE x == Unlink(l, e)
<1>1. IsList(x) /\ Chained(x)
  BY UnlinkType, UnlinkChained DEF WellFormed
<1>2. l.norecent # REORDER => LastEndsChain(x)
  BY UnlinkEnds DEF WellFormed
<1>3. /\ x.cells = l.cells \ {e} /\ x.norecent = l.norecent
      /\ \A i \in 0 .. l.norecent - 1 :
            x.recent[i] = IF l.recent[i] = e THEN NULL ELSE l.recent[i]
  BY UnlinkFields DEF WellFormed
<1> HIDE DEF x
<1>4. RecentsLive(x)
  BY <1>3 DEF RecentsLive, WellFormed
<1> QED
  BY <1>1, <1>2, <1>3, <1>4 DEF WellFormed, x

LEMMA RemoveWellFormed ==
    ASSUME NEW l, WellFormed(l), NEW k
    PROVE  /\ WellFormed(Remove(l, k))
           /\ Remove(l, k).norecent = l.norecent
           /\ Remove(l, k).e_match = l.e_match /\ Remove(l, k).e_sort = l.e_sort
           /\ Remove(l, k).cells \subseteq l.cells
           /\ \A c \in Remove(l, k).cells : Remove(l, k).value[c] = l.value[c]
<1> DEFINE e == Found(l, k)
           g == Get(l, k)
<1>1. /\ WellFormed(g) /\ g.cells = l.cells /\ g.norecent = l.norecent
      /\ g.value = l.value
      /\ g.e_match = l.e_match /\ g.e_sort = l.e_sort
  BY GetWellFormed
<1>2. CASE e = NULL
  BY <1>2 DEF Remove
<1>3. CASE e # NULL
  <2>1. Remove(l, k) = Unlink(g, e)
    BY <1>3 DEF Remove
  <2>2. e \in g.cells
    BY <1>1, <1>3, FoundType
  <2> HIDE DEF e, g
  <2>3. /\ Unlink(g, e).norecent = g.norecent
        /\ Unlink(g, e).e_match = g.e_match /\ Unlink(g, e).e_sort = g.e_sort
        /\ Unlink(g, e).cells = g.cells \ {e}
        /\ \A c \in Cell : Unlink(g, e).value[c] = IF c = e THEN NULL ELSE g.value[c]
    BY <1>1, UnlinkFields DEF WellFormed
  <2>4. g.cells \subseteq Cell
    BY <1>1, ListFields DEF WellFormed
  <2> QED
    BY <2>1, <2>2, <2>3, <2>4, <1>1, UnlinkWellFormed
<1> QED
  BY <1>2, <1>3

----------------------------------------------------------------------------
\* Order.

\* The insertion point is right: v is not before the cell p it follows, and
\* before the cell that followed p.
LEMMA InsertionPointIsRight ==
    ASSUME NEW l, WellFormed(l), l.norecent # REORDER, l.e_sort # NULL,
           IsOrder(l.e_sort), NEW v \in Datum
    PROVE  LET p == InsertionPoint(l, v)
               succ == IF p = NULL THEN l.first ELSE l.next[p]
           IN  /\ p # NULL => l.e_sort[l.value[p], v] <= 0
               /\ succ # NULL => l.e_sort[v, l.value[succ]] <= 0
<1> DEFINE C == {c \in Cell : l.e_sort[v, l.value[c]] >= 0}
           p == FirstOnWalk(l.prev, l.last, C)
           hits == C \cap Reach(l.prev, l.last)
           succ == IF p = NULL THEN l.first ELSE l.next[p]
<1>1. IsList(l) /\ Chained(l) /\ LastEndsChain(l)
  BY DEF WellFormed
<1>2. p = InsertionPoint(l, v)
  BY DEF InsertionPoint
<1>3. hits = C \cap l.cells
  BY <1>1, BackFromLast
<1>4. hits # {} => p \in hits /\ hits \subseteq Reach(l.prev, p)
  <2> HIDE DEF C
  <2> QED
    BY <1>1, ListFields, FirstOnWalkFinds
<1>5. hits = {} => p = NULL
  <2>1. p \in hits \cup {NULL}
    BY FirstOnWalkType
  <2> HIDE DEF hits, p
  <2> QED
    BY <2>1
<1>6. \A c \in l.cells : l.e_sort[v, l.value[c]] \in Int /\ l.value[c] \in Datum
  <2>1. l.e_sort \in Comparison
    BY <1>1, ListFields, ListAssumption, ChainAssumption
  <2> QED
    BY <2>1, <1>1, ListFields DEF Comparison
<1> HIDE DEF p
<1>7. p # NULL => l.e_sort[l.value[p], v] <= 0
  <2> HAVE p # NULL
  <2>1. p \in l.cells /\ l.e_sort[v, l.value[p]] >= 0
    BY <1>3, <1>4, <1>5
  <2>2. l.value[p] \in Datum
    BY <2>1, <1>6
  <2> QED
    BY <2>1, <2>2 DEF IsOrder
<1>8. succ # NULL => succ \in l.cells /\ succ \notin hits
  <2> HAVE succ # NULL
  <2>1. CASE p = NULL
    <3>1. hits = {}
      BY <2>1, <1>4, <1>1, ListFields, ListAssumption, ChainAssumption
    <3>2. succ \in l.cells
      BY <2>1, <1>1, ChainStays
    <3> QED
      BY <3>1, <3>2
  <2>2. CASE p # NULL
    <3>1. p \in l.cells /\ hits \subseteq Reach(l.prev, p)
      BY <2>2, <1>3, <1>4, <1>5
    <3>2. succ \in l.cells /\ l.prev[succ] = p
      BY <2>2, <3>1, <1>1, ChainStays DEF Chained
    <3>3. succ \notin Reach(l.prev, p)
      BY <3>2, <1>1, BackIsAcyclic
    <3> QED
      BY <3>1, <3>2, <3>3
  <2> QED
    BY <2>1, <2>2
<1>9. succ # NULL => l.e_sort[v, l.value[succ]] <= 0
  <2> HAVE succ # NULL
  <2>1. succ \in l.cells /\ ~ l.e_sort[v, l.value[succ]] >= 0
    BY <1>1, <1>3, <1>8, ListFields
  <2>2. l.e_sort[v, l.value[succ]] \in Int
    BY <2>1, <1>6
  <2> DEFINE order == l.e_sort[v, l.value[succ]]
  <2> HIDE DEF order
  <2>3. order \in Int /\ ~ order >= 0
    BY <2>1, <2>2 DEF order
  <2>4. order <= 0
    BY <2>3
  <2> QED
    BY <2>4 DEF order
<1> QED
  BY <1>2, <1>7, <1>9

LEMMA AddKeepsOrder ==
    ASSUME NEW l, WellFormed(l), l.norecent # REORDER, l.e_sort # NULL,
           IsOrder(l.e_sort), SortedBy(l, l.e_sort),
           NEW e \in Cell \ l.cells, NEW v \in Datum
    PROVE  SortedBy(Add(l, e, v), l.e_sort)
<1> DEFINE p == InsertionPoint(l, v)
           succ == IF p = NULL THEN l.first ELSE l.next[p]
           y == LinkAfter(l, e, p, v)
           x == Add(l, e, v)
           R(a, b) == l.e_sort[a, b] <= 0
<1>1. IsList(l) /\ Chained(l) /\ RecentsLive(l)
  BY DEF WellFormed
<1>2. p \in l.cells \cup {NULL}
  BY <1>1, InsertionPointType
<1>3. /\ p # NULL => R(l.value[p], v)
      /\ succ # NULL => R(v, l.value[succ])
  BY InsertionPointIsRight
<1>4. \A c \in l.cells : l.next[c] # NULL => R(l.value[c], l.value[l.next[c]])
  BY DEF SortedBy
<1> HIDE DEF p, R
<1>5. /\ \A c \in Cell : y.next[c] = IF c = e THEN succ
                                     ELSE IF c = p THEN e ELSE l.next[c]
      /\ \A c \in Cell : y.value[c] = IF c = e THEN v ELSE l.value[c]
      /\ y.cells = l.cells \cup {e}
  BY <1>1, LinkAfterFields
<1>6. x.next = y.next /\ x.value = y.value /\ x.cells = y.cells
  <2> x = RememberRecent(y, e)
    BY DEF Add, p
  <2>1. IsList(y)
    BY <1>1, <1>2, LinkAfterType
  <2> HIDE DEF y, x
  <2> QED
    BY <2>1 DEF RememberRecent, IsList, ListOf
<1>7. succ \in l.cells \cup {NULL}
  BY <1>1, <1>2, ChainStays
<1>8. /\ l.cells \subseteq Cell /\ e \in Cell /\ e \notin l.cells /\ NULL \notin Cell
      /\ \A c \in l.cells : l.next[c] \in l.cells \cup {NULL}
  BY <1>1, ListFields, ChainStays, ListAssumption, ChainAssumption
<1> HIDE DEF y, x, succ
<1>9. ASSUME NEW c \in x.cells, x.next[c] # NULL
      PROVE  R(x.value[c], x.value[x.next[c]])
  <2>1. CASE c = e
    BY <2>1, <1>9, <1>3, <1>5, <1>6, <1>7, <1>8
  <2>2. CASE c # e /\ c = p
    <3>1. x.next[c] = e /\ x.value[c] = l.value[p] /\ x.value[e] = v /\ p # NULL
      BY <2>2, <1>5, <1>6, <1>8
    <3> QED
      BY <3>1, <1>3
  <2>3. CASE c # e /\ c # p
    <3>1. c \in l.cells /\ x.next[c] = l.next[c] /\ x.value[c] = l.value[c]
      BY <2>3, <1>5, <1>6, <1>8
    <3>2. l.next[c] \in l.cells /\ x.value[l.next[c]] = l.value[l.next[c]]
      BY <3>1, <1>9, <1>5, <1>6, <1>8
    <3> QED
      BY <3>1, <3>2, <1>4, <1>9
  <2> QED
    BY <2>1, <2>2, <2>3
<1> QED
  BY <1>9 DEF SortedBy, R, x

LEMMA UnlinkKeepsOrder ==
    ASSUME NEW l, WellFormed(l), l.e_sort # NULL,
           IsOrder(l.e_sort), SortedBy(l, l.e_sort), NEW e \in l.cells
    PROVE  SortedBy(Unlink(l, e), l.e_sort)
<1> DEFINE p == l.prev[e]
           q == l.next[e]
           x == Unlink(l, e)
           R(a, b) == l.e_sort[a, b] <= 0
<1>1. IsList(l) /\ Chained(l)
  BY DEF WellFormed
<1>2. \A c \in l.cells : l.next[c] # NULL => R(l.value[c], l.value[l.next[c]])
  BY DEF SortedBy
<1>3. \A a, b, c \in Datum : R(a, b) /\ R(b, c) => R(a, c)
  BY DEF IsOrder
<1>4. /\ \A c \in Cell : x.next[c] = IF c = e THEN NULL
                                     ELSE IF c = p THEN q ELSE l.next[c]
      /\ \A c \in Cell : x.value[c] = IF c = e THEN NULL ELSE l.value[c]
      /\ x.cells = l.cells \ {e}
  BY <1>1, UnlinkFields
<1>5. /\ l.cells \subseteq Cell /\ NULL \notin Cell /\ e \in Cell
      /\ q \in l.cells \cup {NULL} /\ q # e
      /\ p # NULL => p \in l.cells /\ l.next[p] = e
      /\ \A c \in l.cells : l.next[c] \in l.cells \cup {NULL}
      /\ \A c \in l.cells : l.next[c] = e => c = p
      /\ \A c \in l.cells : l.value[c] \in Datum
  BY <1>1, ListFields, ChainStays, ListAssumption, ChainAssumption, NoSelfLink DEF Chained
<1>6. q # NULL => R(l.value[e], l.value[q])
  BY <1>2
<1> HIDE DEF p, q, x, R
<1>7. ASSUME NEW c \in x.cells, x.next[c] # NULL
      PROVE  R(x.value[c], x.value[x.next[c]])
  <2>1. c \in l.cells /\ c # e /\ x.value[c] = l.value[c]
    BY <1>4, <1>5
  <2>2. CASE c = p
    <3>1. x.next[c] = q /\ q \in l.cells /\ x.value[q] = l.value[q]
      BY <2>1, <2>2, <1>4, <1>5, <1>7
    <3>2. R(l.value[p], l.value[e])
      BY <2>1, <2>2, <1>2, <1>5
    <3> QED
      BY <2>1, <2>2, <3>1, <3>2, <1>3, <1>5, <1>6
  <2>3. CASE c # p
    <3>1. x.next[c] = l.next[c] /\ l.next[c] \in l.cells /\ l.next[c] # e
      BY <2>1, <2>3, <1>4, <1>5, <1>7
    <3> QED
      BY <2>1, <3>1, <1>2, <1>4, <1>5
  <2> QED
    BY <2>2, <2>3
<1> QED
  BY <1>7 DEF SortedBy, R, x
----------------------------------------------------------------------------
\* What the operators do to the sequence of values that a walk shows.

Walkable(l) == IsFiniteSet(l.cells) /\ \E o : IsWalk(l, o)

\* A finite chain has a walk: a cell's place in it is the number of cells from it
\* back to the first.
LEMMA WalkExists ==
    ASSUME NEW l, IsList(l), Chained(l), LastEndsChain(l), IsFiniteSet(l.cells)
    PROVE  Walkable(l)
<1> DEFINE n == Cardinality(l.cells)
           rank == [c \in l.cells |-> Cardinality(Reach(l.prev, c))]
<1>1. /\ l.cells \subseteq Cell /\ NULL \notin l.cells
      /\ l.prev \in [Cell -> Ptr] /\ l.next \in [Cell -> Ptr] /\ n \in Nat
      /\ \A c \in l.cells : l.prev[c] \in l.cells \cup {NULL}
      /\ \A c \in l.cells : l.next[c] \in l.cells \cup {NULL}
      /\ l.first = NULL <=> l.cells = {}
      /\ l.first \in l.cells \cup {NULL}
      /\ \A c \in l.cells : /\ l.next[c] # NULL => l.prev[l.next[c]] = c
                            /\ l.prev[c] # NULL => l.next[l.prev[c]] = c
                            /\ l.prev[c] = NULL <=> c = l.first
                            /\ l.next[c] = NULL <=> c = l.last
  BY ListFields, ChainStays, ChainAssumption, FS_CardinalityType DEF Chained, LastEndsChain
<1>2. ASSUME NEW c \in l.cells
      PROVE  /\ Reach(l.prev, c) \subseteq l.cells /\ IsFiniteSet(Reach(l.prev, c))
             /\ rank[c] \in 1 .. n
             /\ l.prev[c] = NULL => rank[c] = 1
             /\ l.next[c] = NULL => rank[c] = n
             /\ l.next[c] # NULL => rank[l.next[c]] = rank[c] + 1
  <2>1. \A d \in l.cells : Reach(l.prev, d) \subseteq l.cells
    <3> TAKE d \in l.cells
    <3>1. d \in l.cells /\ \A e \in l.cells : l.prev[e] # NULL => l.prev[e] \in l.cells
      BY <1>1
    <3> QED
      BY <1>1, <3>1, ReachStays
  <2>2. \A d \in l.cells : /\ IsFiniteSet(Reach(l.prev, d))
                          /\ Cardinality(Reach(l.prev, d)) \in Nat
                          /\ Cardinality(Reach(l.prev, d)) <= n
    BY <2>1, FS_Subset, FS_CardinalityType
  <2>3. rank[c] # 0
    <3>1. c \in Reach(l.prev, c)
      BY <1>1, ReachSelf
    <3> QED
      BY <2>2, <3>1, FS_EmptySet
  <2>4. l.prev[c] = NULL => rank[c] = 1
    <3> HAVE l.prev[c] = NULL
    <3>1. Reach(l.prev, c) = {c}
      BY <1>1, ReachUnfold, ReachNull
    <3> QED
      BY <3>1, FS_Singleton
  <2>5. l.next[c] = NULL => rank[c] = n
    <3> HAVE l.next[c] = NULL
    <3>1. c = l.last
      BY <1>1
    <3>2. Reach(l.prev, c) = l.cells
      BY <3>1, BackFromLast
    <3> QED
      BY <3>2
  <2>6. l.next[c] # NULL => rank[l.next[c]] = rank[c] + 1
    <3> HAVE l.next[c] # NULL
    <3> DEFINE d == l.next[c]
    <3>1. d \in l.cells /\ d \in Cell /\ l.prev[d] = c
      BY <1>1
    <3>2. Reach(l.prev, d) = Reach(l.prev, c) \cup {d} /\ d \notin Reach(l.prev, c)
      BY <1>1, <3>1, ReachUnfold, BackIsAcyclic
    <3>3. Cardinality(Reach(l.prev, c) \cup {d}) = Cardinality(Reach(l.prev, c)) + 1
      BY <2>2, <3>2, FS_AddElement
    <3> HIDE DEF d
    <3>4. rank[d] = rank[c] + 1
      BY <3>1, <3>2, <3>3
    <3> QED
      BY <3>4 DEF d
  <2> QED
    BY <2>1, <2>2, <2>3, <2>4, <2>5, <2>6
<1>3. ASSUME NEW k \in 1 .. n PROVE \E c \in l.cells : rank[c] = k
  <2> DEFINE G == {j \in Nat : j = 0 \/ \E c \in l.cells : rank[c] = j}
  <2> HIDE DEF rank, n
  <2>1. 0 \in G
    OBVIOUS
  <2>2. ASSUME NEW j \in 1 .. n, j - 1 \in G PROVE j \in G
    <3>1. CASE j = 1
      <4>1. l.cells # {}
        BY <1>1, <3>1, FS_EmptySet DEF n
      <4>2. l.first \in l.cells /\ l.prev[l.first] = NULL
        BY <1>1, <4>1
      <4> QED
        BY <1>2, <3>1, <4>2
    <3>2. CASE j # 1
      <4>1. PICK c \in l.cells : rank[c] = j - 1
        BY <2>2, <3>2
      <4>2. l.next[c] # NULL
        BY <1>1, <1>2, <4>1
      <4>3. l.next[c] \in l.cells /\ rank[l.next[c]] = j
        BY <1>1, <1>2, <4>1, <4>2
      <4> QED
        BY <4>3
    <3> QED
      BY <3>1, <3>2
  <2>3. \A j \in 0 .. n : j \in G
    <3> HIDE DEF G
    <3> QED
      BY <1>1, <2>1, <2>2, UpToInduction
  <2>4. k \in 0 .. n /\ k # 0
    BY <1>1
  <2> QED
    BY <2>3, <2>4
<1>4. ASSUME NEW c \in l.cells, NEW d \in l.cells, rank[c] = rank[d] PROVE c = d
  <2>1. rank \in Surjection(l.cells, 1 .. n)
    <3>1. rank \in [l.cells -> 1 .. n]
      BY <1>2
    <3> HIDE DEF rank, n
    <3> QED
      BY <1>3, <3>1 DEF Surjection
  <2>2. Cardinality(1 .. n) = n
    <3>1. Cardinality(1 .. n) = IF 1 > n THEN 0 ELSE n - 1 + 1
      BY <1>1, 1 \in Int, n \in Int, FS_Interval, Zenon
    <3> QED
      BY <1>1, <3>1
  <2>3. rank \in Injection(l.cells, 1 .. n)
    <3> HIDE DEF rank
    <3> QED
      BY <2>1, <2>2, FS_SurjSameCardinalityImpliesInj
  <2> HIDE DEF rank
  <2> QED
    BY <1>4, <2>3 DEF Injection, IsInjective
<1> DEFINE o == [k \in 1 .. n |-> CHOOSE c \in l.cells : rank[c] = k]
<1> HIDE DEF rank, n
<1>5. \A k \in 1 .. n : o[k] \in l.cells /\ rank[o[k]] = k
  BY <1>3
<1>6. o \in [1 .. n -> l.cells]
  BY <1>5
<1>7. l.first = IF l.cells = {} THEN NULL ELSE o[1]
  <2> SUFFICES ASSUME l.cells # {} PROVE l.first = o[1]
    BY <1>1
  <2>1. l.first \in l.cells /\ rank[l.first] = 1 /\ 1 \in 1 .. n
    BY <1>1, <1>2
  <2> HIDE DEF o
  <2> QED
    BY <1>4, <1>5, <2>1
<1>8. ASSUME NEW k \in 1 .. n
      PROVE  l.next[o[k]] = IF k + 1 \in 1 .. n THEN o[k + 1] ELSE NULL
  <2>1. o[k] \in l.cells /\ rank[o[k]] = k
    BY <1>5
  <2> HIDE DEF o
  <2>2. CASE l.next[o[k]] = NULL
    BY <1>1, <1>2, <2>1, <2>2
  <2>3. CASE l.next[o[k]] # NULL
    <3>1. l.next[o[k]] \in l.cells /\ rank[l.next[o[k]]] = k + 1
      BY <1>1, <1>2, <2>1, <2>3
    <3>2. k + 1 \in 1 .. n
      BY <1>2, <3>1
    <3> QED
      BY <1>4, <1>5, <3>1, <3>2
  <2> QED
    BY <2>2, <2>3
<1>9. IsWalk(l, o)
  <2>1. DOMAIN o = 1 .. n
    BY <1>6
  <2> HIDE DEF o
  <2> QED
    BY <1>6, <1>7, <1>8, <2>1 DEF IsWalk, n
<1> HIDE DEF o
<1> QED
  BY <1>9 DEF Walkable

LEMMA WithPlaces ==
    ASSUME NEW s \in Seq(Datum), NEW v \in Datum, NEW i \in 0 .. Len(s)
    PROVE  /\ With(s, i + 1, v) \in Seq(Datum)
           /\ Len(With(s, i + 1, v)) = Len(s) + 1
           /\ \A k \in 1 .. Len(s) + 1 :
                 With(s, i + 1, v)[k] =
                    IF k <= i THEN s[k] ELSE IF k = i + 1 THEN v ELSE s[k - 1]
BY InsertedSeq, SMTT(30)

LEMMA WithoutPlaces ==
    ASSUME NEW s \in Seq(Datum), NEW i \in 1 .. Len(s)
    PROVE  /\ Without(s, i) \in Seq(Datum)
           /\ Len(Without(s, i)) = Len(s) - 1
           /\ \A k \in 1 .. Len(s) - 1 :
                 Without(s, i)[k] = IF k < i THEN s[k] ELSE s[k + 1]
BY RemovedSeq, Zenon

LEMMA WithoutHead ==
    ASSUME NEW b \in Seq(Datum), NEW r \in Seq(Datum), Len(b) = 1
    PROVE  Without(b \o r, 1) = r
<1> DEFINE t == b \o r
           u == Without(t, 1)
<1>1. /\ t \in Seq(Datum) /\ Len(t) = Len(b) + Len(r)
      /\ \A k \in 1 .. Len(b) + Len(r) :
            t[k] = IF k <= Len(b) THEN b[k] ELSE r[k - Len(b)]
  BY ConcatProperties, Zenon
<1> HIDE DEF t
<1>2. Len(r) \in Nat /\ Len(t) = Len(r) + 1 /\ 1 \in 1 .. Len(t)
  BY <1>1, LenProperties
<1>3. /\ u \in Seq(Datum) /\ Len(u) = Len(r)
      /\ \A k \in 1 .. Len(r) : u[k] = t[k + 1]
  <2>1. /\ u \in Seq(Datum) /\ Len(u) = Len(t) - 1
        /\ \A k \in 1 .. Len(t) - 1 : u[k] = IF k < 1 THEN t[k] ELSE t[k + 1]
    BY <1>1, <1>2, WithoutPlaces
  <2> HIDE DEF u
  <2>2. Len(t) - 1 = Len(r)
    BY <1>2
  <2> QED
    BY <2>1, <2>2
<1> HIDE DEF u
<1>4. ASSUME NEW k \in 1 .. Len(r)
      PROVE  u[k] = r[k]
  <2>1. k + 1 \in 1 .. Len(b) + Len(r) /\ ~ (k + 1 <= Len(b)) /\ (k + 1) - Len(b) = k
    BY <1>2
  <2> QED
    BY <1>1, <1>3, <2>1
<1>5. u = r
  BY <1>3, <1>4, SeqEqual
<1> QED
  BY <1>5 DEF u, t

LEMMA ListContents ==
    ASSUME NEW l, IsList(l), Chained(l), IsFiniteSet(l.cells), NEW o, IsWalk(l, o)
    PROVE  LET n == Cardinality(l.cells)
           IN  /\ n \in Nat
               /\ Contents(l) \in Seq(Datum)
               /\ Len(Contents(l)) = n
               /\ \A k \in 1 .. n : Contents(l)[k] = l.value[o[k]]
               /\ DOMAIN o = 1 .. n
               /\ \A k \in 1 .. n : o[k] \in l.cells
               /\ \A j, k \in 1 .. n : o[j] = o[k] => j = k
               /\ \A c \in l.cells : \E k \in 1 .. n : o[k] = c
               /\ l.cells # {} => l.first = o[1] /\ 1 \in 1 .. n
               /\ n = 0 <=> l.cells = {}
               /\ l.cells \subseteq Cell /\ NULL \notin l.cells
<1> DEFINE n == Cardinality(l.cells)
<1>1. \A c \in l.cells : l.value[c] \in Datum
  BY ListFields
<1>2. /\ n \in Nat
      /\ Contents(l) \in Seq(Datum)
      /\ Len(Contents(l)) = n
      /\ \A k \in 1 .. n : Contents(l)[k] = l.value[o[k]]
  BY <1>1, ContentsIsSeq
<1>3. /\ DOMAIN o = 1 .. n
      /\ n = 0 <=> l.cells = {}
      /\ \A k \in 1 .. n : o[k] \in l.cells
      /\ l.cells # {} => l.first = o[1]
      /\ l.cells \subseteq Cell /\ NULL \notin l.cells
  BY WalkFields
<1>4. \A j, k \in 1 .. n : o[j] = o[k] => j = k
  BY <1>3, WalkIsOneToOne
<1>5. \A c \in l.cells : \E k \in 1 .. n : o[k] = c
  <2> SUFFICES ASSUME NEW c \in l.cells
               PROVE  \E k \in DOMAIN o : o[k] = c
    BY <1>3
  <2> QED
    BY WalkIsOnto
<1>6. l.cells # {} => 1 \in 1 .. n
  <2> HIDE DEF n
  <2> QED
    BY <1>2, <1>3
<1> QED
  BY <1>2, <1>3, <1>4, <1>5, <1>6

\* A list with the same chain and the same values shows the same.
LEMMA SameContents ==
    ASSUME NEW l, Chained(l), Walkable(l), NEW x,
           x.cells = l.cells, x.first = l.first, x.next = l.next, x.value = l.value,
           Chained(x)
    PROVE  Walkable(x) /\ Contents(x) = Contents(l)
<1>1. PICK o : IsWalk(l, o)
  BY DEF Walkable
<1>2. IsWalk(x, o)
  BY <1>1 DEF IsWalk
<1>3. Contents(x) = [k \in 1 .. Cardinality(x.cells) |-> x.value[o[k]]]
  BY <1>2, WalkIsUnique DEF Walkable
<1>4. Contents(l) = [k \in 1 .. Cardinality(l.cells) |-> l.value[o[k]]]
  BY <1>1, WalkIsUnique DEF Walkable
<1> QED
  BY <1>2, <1>3, <1>4 DEF Walkable

LEMMA NewListContents ==
    ASSUME NEW n \in NoRecentArg, NEW match \in E_match, NEW sort \in E_sort
    PROVE  Walkable(NewList(n, match, sort)) /\ Contents(NewList(n, match, sort)) = <<>>
<1> DEFINE x == NewList(n, match, sort)
<1>1. x.cells = {} /\ x.first = NULL /\ Cardinality({}) = 0 /\ IsFiniteSet({})
  BY FS_EmptySet DEF NewList
<1>2. IsList(x) /\ Chained(x)
  BY NewListWellFormed DEF WellFormed
<1> HIDE DEF x
<1>3. <<>> \in [1 .. 0 -> {}] /\ DOMAIN <<>> = {}
  OBVIOUS
<1>4. IsWalk(x, <<>>)
  BY <1>1, <1>3 DEF IsWalk
<1>5. Contents(x) \in Seq(Datum) /\ Len(Contents(x)) = 0
  <2>1. PICK o : IsWalk(x, o)
    BY <1>4
  <2>2. /\ Contents(x) \in Seq(Datum)
        /\ Len(Contents(x)) = Cardinality(x.cells)
    <3>1. IsFiniteSet(x.cells)
      BY <1>1
    <3> QED
      BY <1>2, <2>1, <3>1, ListContents
  <2> QED
    BY <1>1, <2>2
<1>6. Contents(x) = <<>>
  BY ONLY <1>5, EmptySeq
<1>7. Walkable(x)
  BY ONLY <1>1, <1>4 DEF Walkable
<1> QED
  BY <1>6, <1>7 DEF x

LEMMA LinkAfterContents ==
    ASSUME NEW l, IsList(l), Chained(l), IsFiniteSet(l.cells), NEW o, IsWalk(l, o),
           NEW e \in Cell \ l.cells, NEW v \in Datum, NEW p \in l.cells \cup {NULL},
           NEW i \in 0 .. Cardinality(l.cells), i = 0 <=> p = NULL, i # 0 => o[i] = p
    PROVE  LET x == LinkAfter(l, e, p, v)
           IN  Walkable(x) /\ Contents(x) = With(Contents(l), i + 1, v)
<1> DEFINE x == LinkAfter(l, e, p, v)
           n == Cardinality(l.cells)
           s == Contents(l)
           t == With(s, i + 1, v)
<1>1. IsList(x) /\ Chained(x)
  BY LinkAfterType, LinkAfterChained
<1>2. /\ n \in Nat /\ s \in Seq(Datum) /\ Len(s) = n
      /\ \A k \in 1 .. n : s[k] = l.value[o[k]]
      /\ \A k \in 1 .. n : o[k] \in l.cells
      /\ l.cells \subseteq Cell /\ NULL \notin l.cells
  BY ListContents
<1>3. /\ \A c \in Cell : x.next[c] = IF c = e THEN (IF p = NULL THEN l.first ELSE l.next[p])
                                     ELSE IF c = p THEN e ELSE l.next[c]
      /\ \A c \in Cell : x.value[c] = IF c = e THEN v ELSE l.value[c]
      /\ x.first = IF p = NULL THEN e ELSE l.first
      /\ x.cells = l.cells \cup {e}
  BY LinkAfterFields
<1> HIDE DEF x, s, t
<1>4. IsInserted(l, o, x, e, i)
  <2>1. x.first = IF i = 0 THEN e ELSE l.first
    BY <1>3
  <2>2. x.next[e] = IF i = 0 THEN l.first ELSE l.next[o[i]]
    BY <1>3
  <2>3. \A c \in l.cells : x.next[c] = IF i # 0 /\ c = o[i] THEN e ELSE l.next[c]
    BY <1>2, <1>3
  <2> QED
    BY <1>3, <2>1, <2>2, <2>3 DEF IsInserted
<1>5. /\ IsFiniteSet(x.cells) /\ Cardinality(x.cells) = n + 1
      /\ \E w : /\ IsWalk(x, w)
               /\ \A k \in 1 .. n + 1 :
                     w[k] = IF k <= i THEN o[k] ELSE IF k = i + 1 THEN e ELSE o[k - 1]
  BY ONLY Chained(l), IsFiniteSet(l.cells), IsWalk(l, o), <1>4, InsertedWalk, SMTT(30)
<1>6. i \in 0 .. n
  OBVIOUS
<1> HIDE DEF n
<1>7. PICK w : /\ IsWalk(x, w)
               /\ \A k \in 1 .. n + 1 :
                     w[k] = IF k <= i THEN o[k] ELSE IF k = i + 1 THEN e ELSE o[k - 1]
  BY <1>5
<1>8. /\ Contents(x) \in Seq(Datum) /\ Len(Contents(x)) = n + 1
      /\ \A k \in 1 .. n + 1 : Contents(x)[k] = x.value[w[k]]
  BY <1>1, <1>5, <1>7, ListContents
<1>9. /\ t \in Seq(Datum) /\ Len(t) = n + 1
      /\ \A k \in 1 .. n + 1 :
            t[k] = IF k <= i THEN s[k] ELSE IF k = i + 1 THEN v ELSE s[k - 1]
  <2>1. i \in 0 .. Len(s)
    BY <1>2, <1>6
  <2> QED
    BY <1>2, <2>1, WithPlaces DEF t
<1>10. ASSUME NEW k \in 1 .. n + 1
       PROVE  Contents(x)[k] = t[k]
  <2>1. CASE k <= i
    <3>1. k \in 1 .. n
      BY <1>2, <1>6, <2>1
    <3>2. o[k] \in Cell /\ o[k] # e
      BY <1>2, <3>1
    <3>3. w[k] = o[k] /\ t[k] = s[k] /\ s[k] = l.value[o[k]]
      BY <1>2, <1>7, <1>9, <2>1, <3>1
    <3> QED
      BY <1>3, <1>8, <3>2, <3>3
  <2>2. CASE k = i + 1
    <3>1. ~ (k <= i)
      BY <1>6, <2>2
    <3>2. w[k] = e /\ t[k] = v
      BY <1>7, <1>9, <2>2, <3>1
    <3> QED
      BY <1>3, <1>8, <3>2
  <2>3. CASE ~ (k <= i) /\ k # i + 1
    <3>1. k - 1 \in 1 .. n
      BY <1>2, <1>6, <2>3
    <3>2. o[k - 1] \in Cell /\ o[k - 1] # e
      BY <1>2, <3>1
    <3>3. w[k] = o[k - 1] /\ t[k] = s[k - 1] /\ s[k - 1] = l.value[o[k - 1]]
      BY <1>2, <1>7, <1>9, <2>3, <3>1
    <3> QED
      BY <1>3, <1>8, <3>2, <3>3
  <2> QED
    BY <2>1, <2>2, <2>3
<1>11. Contents(x) = t
  BY <1>8, <1>9, <1>10, SeqEqual
<1> QED
  BY <1>5, <1>7, <1>11 DEF Walkable, t, s, x

LEMMA UnlinkContents ==
    ASSUME NEW l, IsList(l), Chained(l), IsFiniteSet(l.cells), NEW o, IsWalk(l, o),
           NEW i \in 1 .. Cardinality(l.cells)
    PROVE  LET x == Unlink(l, o[i])
           IN  Walkable(x) /\ Contents(x) = Without(Contents(l), i)
<1> DEFINE e == o[i]
           x == Unlink(l, e)
           n == Cardinality(l.cells)
           s == Contents(l)
           t == Without(s, i)
<1>1. /\ n \in Nat /\ s \in Seq(Datum) /\ Len(s) = n
      /\ \A k \in 1 .. n : s[k] = l.value[o[k]]
      /\ \A k \in 1 .. n : o[k] \in l.cells
      /\ \A j, k \in 1 .. n : o[j] = o[k] => j = k
      /\ l.cells # {} => l.first = o[1] /\ 1 \in 1 .. n
      /\ l.cells \subseteq Cell /\ NULL \notin l.cells
  BY ListContents
<1>2. e \in l.cells /\ e \in Cell
  BY <1>1
<1>3. IsList(x) /\ Chained(x)
  BY <1>2, UnlinkType, UnlinkChained
<1>4. /\ \A c \in Cell : x.next[c] = IF c = e THEN NULL
                                     ELSE IF c = l.prev[e] THEN l.next[e] ELSE l.next[c]
      /\ \A c \in Cell : x.value[c] = IF c = e THEN NULL ELSE l.value[c]
      /\ x.first = IF l.first = e THEN l.next[e] ELSE l.first
      /\ x.cells = l.cells \ {e}
  BY UnlinkFields
<1> HIDE DEF x, s, t
<1>5. IsRemoved(l, o, x, i)
  <2>1. i = 1 <=> l.first = e
    BY <1>1, <1>2
  <2>2. \A c \in l.cells : c = l.prev[e] <=> l.next[c] = e
    BY <1>1, <1>2 DEF Chained
  <2>3. \A c \in x.cells : x.next[c] = IF l.next[c] = e THEN l.next[e] ELSE l.next[c]
    BY <1>1, <1>4, <2>2
  <2> QED
    BY <1>4, <2>1, <2>3 DEF IsRemoved
<1>6. /\ IsFiniteSet(x.cells) /\ Cardinality(x.cells) = n - 1
      /\ \E w : /\ IsWalk(x, w)
               /\ \A k \in 1 .. n - 1 : w[k] = IF k < i THEN o[k] ELSE o[k + 1]
  BY <1>5, RemovedWalk
<1>7. i \in 1 .. n
  OBVIOUS
<1> HIDE DEF n
<1>8. PICK w : /\ IsWalk(x, w)
               /\ \A k \in 1 .. n - 1 : w[k] = IF k < i THEN o[k] ELSE o[k + 1]
  BY <1>6
<1>9. /\ Contents(x) \in Seq(Datum) /\ Len(Contents(x)) = n - 1
      /\ \A k \in 1 .. n - 1 : Contents(x)[k] = x.value[w[k]]
  BY <1>3, <1>6, <1>8, ListContents
<1>10. /\ t \in Seq(Datum) /\ Len(t) = n - 1
       /\ \A k \in 1 .. n - 1 : t[k] = IF k < i THEN s[k] ELSE s[k + 1]
  <2>1. i \in 1 .. Len(s)
    BY <1>1, <1>7
  <2> QED
    BY <1>1, <2>1, WithoutPlaces DEF t
<1>11. ASSUME NEW k \in 1 .. n - 1
       PROVE  Contents(x)[k] = t[k]
  <2> DEFINE j == IF k < i THEN k ELSE k + 1
  <2>1. j \in 1 .. n /\ j # i
    BY <1>1, <1>7
  <2>2. w[k] = o[j] /\ t[k] = s[j]
    BY <1>8, <1>10
  <2> HIDE DEF j
  <2>3. o[j] \in Cell /\ o[j] # e /\ s[j] = l.value[o[j]]
    BY <1>1, <1>7, <2>1
  <2> QED
    BY <1>4, <1>9, <2>2, <2>3
<1>12. Contents(x) = t
  BY <1>9, <1>10, <1>11, SeqEqual
<1> QED
  BY <1>6, <1>8, <1>12 DEF Walkable, t, s, x
LEMMA MoveToFrontContents ==
    ASSUME NEW l, IsList(l), Chained(l), IsFiniteSet(l.cells), NEW o, IsWalk(l, o),
           NEW i \in 1 .. Cardinality(l.cells), o[i] # l.first
    PROVE  LET x == MoveToFront(l, o[i])
           IN  /\ Walkable(x)
               /\ Contents(x) = <<Contents(l)[i]>> \o Without(Contents(l), i)
<1> DEFINE e == o[i]
           x == MoveToFront(l, e)
           n == Cardinality(l.cells)
           s == Contents(l)
           b == <<s[i]>>
           r == Without(s, i)
           t == b \o r
<1>1. /\ n \in Nat /\ s \in Seq(Datum) /\ Len(s) = n
      /\ \A k \in 1 .. n : s[k] = l.value[o[k]]
      /\ \A k \in 1 .. n : o[k] \in l.cells
      /\ l.cells # {} => l.first = o[1] /\ 1 \in 1 .. n
      /\ n = 0 <=> l.cells = {}
      /\ l.cells \subseteq Cell /\ NULL \notin l.cells
  BY ListContents
<1>2. e \in l.cells /\ e \in Cell
  BY <1>1
<1>3. IsList(x) /\ Chained(x)
  BY <1>2, MoveToFrontType, MoveToFrontChained
<1>4. /\ \A c \in Cell : x.next[c] = IF c = e THEN l.first
                                     ELSE IF c = l.prev[e] THEN l.next[e] ELSE l.next[c]
      /\ x.first = e /\ x.cells = l.cells /\ x.value = l.value
  BY MoveToFrontFields
<1> HIDE DEF x, s
<1>5. i \in 2 .. n
  <2>1. i # 1
    BY <1>1, <1>2
  <2> QED
    BY <2>1
<1>6. IsMoved(l, o, x, i)
  <2>1. \A c \in l.cells : c = l.prev[e] <=> l.next[c] = e
    BY <1>1, <1>2 DEF Chained
  <2>2. \A c \in l.cells \ {e} : x.next[c] = IF l.next[c] = e THEN l.next[e] ELSE l.next[c]
    BY <1>1, <1>4, <2>1
  <2> QED
    BY <1>2, <1>4, <1>5, <2>2 DEF IsMoved
<1>7. \E w : /\ IsWalk(x, w)
             /\ \A k \in 1 .. n :
                   w[k] = IF k = 1 THEN o[i] ELSE IF k <= i THEN o[k - 1] ELSE o[k]
  BY <1>6, MovedWalk
<1>8. Cardinality(x.cells) = n /\ IsFiniteSet(x.cells)
  BY <1>4
<1> HIDE DEF n
<1>9. PICK w : /\ IsWalk(x, w)
               /\ \A k \in 1 .. n :
                     w[k] = IF k = 1 THEN o[i] ELSE IF k <= i THEN o[k - 1] ELSE o[k]
  BY <1>7
<1>10. /\ Contents(x) \in Seq(Datum) /\ Len(Contents(x)) = n
       /\ \A k \in 1 .. n : Contents(x)[k] = x.value[w[k]]
  BY <1>3, <1>8, <1>9, ListContents
<1>11. /\ r \in Seq(Datum) /\ Len(r) = n - 1
       /\ \A k \in 1 .. n - 1 : r[k] = IF k < i THEN s[k] ELSE s[k + 1]
  <2>1. i \in 1 .. Len(s)
    BY <1>1, <1>5
  <2> QED
    BY <1>1, <2>1, WithoutPlaces
<1>12. b \in Seq(Datum) /\ Len(b) = 1 /\ b[1] = s[i]
  <2>1. s[i] \in Datum
    BY <1>1, <1>5, ElementOfSeq
  <2> QED
    BY <2>1
<1> HIDE DEF b, r
<1>13. r \in Seq(Datum) /\ b \in Seq(Datum)
  BY <1>11, <1>12
<1>14. /\ t \in Seq(Datum) /\ Len(t) = Len(b) + Len(r)
       /\ \A k \in 1 .. Len(b) + Len(r) :
             t[k] = IF k <= Len(b) THEN b[k] ELSE r[k - Len(b)]
  BY <1>13, ConcatProperties, Zenon
<1> HIDE DEF t
<1>15. Len(t) = n
  BY <1>1, <1>11, <1>12, <1>14
<1>16. ASSUME NEW k \in 1 .. n
       PROVE  Contents(x)[k] = t[k]
  <2> DEFINE j == IF k = 1 THEN i ELSE IF k <= i THEN k - 1 ELSE k
  <2>1. j \in 1 .. n
    BY <1>1, <1>5
  <2>2. w[k] = o[j]
    BY <1>9
  <2>3. t[k] = s[j]
    <3>1. CASE k = 1
      BY <1>11, <1>12, <1>14, <3>1
    <3>2. CASE k # 1
      <4>1. k - 1 \in 1 .. n - 1 /\ ~ (k <= 1) /\ (k - 1) + 1 = k
        BY <1>1, <3>2
      <4>2. t[k] = r[k - 1]
        BY <1>11, <1>12, <1>14, <4>1
      <4>3. k - 1 < i <=> k <= i
        BY <1>5
      <4> QED
        BY <1>11, <3>2, <4>1, <4>2, <4>3
    <3> QED
      BY <3>1, <3>2
  <2> HIDE DEF j
  <2>4. s[j] = l.value[o[j]]
    BY <1>1, <2>1
  <2> QED
    BY <1>4, <1>10, <2>2, <2>3, <2>4
<1>17. Contents(x) = t
  BY <1>10, <1>14, <1>15, <1>16, SeqEqual
<1> QED
  BY <1>8, <1>9, <1>17 DEF Walkable, t, b, r, s, x

\* An addition puts v somewhere: behind the first value when nothing is sorted.
LEMMA AddContents ==
    ASSUME NEW l, WellFormed(l), Walkable(l), NEW e \in Cell \ l.cells, NEW v \in Datum
    PROVE  LET x == Add(l, e, v)
               s == Contents(l)
           IN  /\ Walkable(x)
               /\ \E i \in 0 .. Len(s) :
                     /\ Contents(x) = With(s, i + 1, v)
                     /\ l.e_sort = NULL => i = IF Len(s) = 0 THEN 0 ELSE 1
<1> DEFINE p == InsertionPoint(l, v)
           y == LinkAfter(l, e, p, v)
           x == Add(l, e, v)
           n == Cardinality(l.cells)
           s == Contents(l)
<1>1. IsList(l) /\ Chained(l) /\ RecentsLive(l) /\ IsFiniteSet(l.cells)
  BY DEF WellFormed, Walkable
<1>2. PICK o : IsWalk(l, o)
  BY DEF Walkable
<1>3. /\ n \in Nat /\ Len(s) = n
      /\ \A k \in 1 .. n : o[k] \in l.cells
      /\ \A c \in l.cells : \E k \in 1 .. n : o[k] = c
      /\ l.cells # {} => l.first = o[1] /\ 1 \in 1 .. n
      /\ n = 0 <=> l.cells = {}
      /\ NULL \notin l.cells
  BY <1>1, <1>2, ListContents
<1>4. p \in l.cells \cup {NULL}
  BY <1>1, InsertionPointType
<1>5. l.e_sort = NULL => p = l.first
  BY DEF InsertionPoint
<1>6. x = RememberRecent(y, e)
  BY DEF Add
<1>7. l.cells = {} => l.first = NULL
  BY <1>1 DEF Chained
<1> HIDE DEF p, x, s
<1>8. PICK i \in 0 .. n : /\ i = 0 <=> p = NULL
                          /\ i # 0 => o[i] = p
                          /\ l.e_sort = NULL => i = IF n = 0 THEN 0 ELSE 1
  <2> HIDE DEF n
  <2>1. CASE p = NULL
    <3>1. l.e_sort = NULL => n = 0
      BY <1>3, <1>5, <2>1
    <3> QED
      BY <1>3, <2>1, <3>1
  <2>2. CASE p # NULL /\ l.e_sort = NULL
    <3>1. l.cells # {} /\ o[1] = p /\ 1 \in 0 .. n /\ n # 0
      BY <1>3, <1>5, <1>7, <2>2
    <3> QED
      BY <2>2, <3>1
  <2>3. CASE p # NULL /\ l.e_sort # NULL
    <3>1. PICK k \in 1 .. n : o[k] = p
      BY <1>3, <1>4, <2>3
    <3>2. k \in 0 .. n /\ k # 0
      OBVIOUS
    <3> QED
      BY <2>3, <3>1, <3>2
  <2> QED
    BY <2>1, <2>2, <2>3
<1>9. Walkable(y) /\ Contents(y) = With(s, i + 1, v)
  BY <1>1, <1>2, <1>4, <1>8, LinkAfterContents DEF s
<1>10. /\ IsList(y) /\ Chained(y) /\ RecentsLive(y) /\ e \in y.cells
       /\ \A j \in 0 .. y.norecent - 1 : y.recent[j] # e
  <2>1. IsList(y) /\ Chained(y)
    BY <1>1, <1>4, LinkAfterType, LinkAfterChained
  <2>2. /\ y.cells = l.cells \cup {e} /\ y.norecent = l.norecent
        /\ y.recent = l.recent
    BY <1>1, LinkAfterFields
  <2>3. e # NULL
    BY ChainAssumption
  <2> HIDE DEF y
  <2> QED
    BY <1>1, <2>1, <2>2, <2>3 DEF RecentsLive
<1> HIDE DEF y
<1>11. /\ Chained(x) /\ x.cells = y.cells /\ x.value = y.value /\ x.next = y.next
       /\ x.first = y.first
  BY <1>6, <1>10, RememberRecentWellFormed
<1>12. Walkable(x) /\ Contents(x) = Contents(y)
  BY <1>9, <1>10, <1>11, SameContents
<1> HIDE DEF n
<1> QED
  BY <1>3, <1>8, <1>9, <1>12 DEF x, s
\* A lookup leaves the values as they are or moves one that matches to the front.
LEMMA GetContents ==
    ASSUME NEW l, WellFormed(l), Walkable(l), NEW k
    PROVE  LET x == Get(l, k)
               s == Contents(l)
           IN  /\ Walkable(x)
               /\ \/ x = l
                  \/ /\ l.norecent = REORDER /\ k # NULL
                     /\ \E i \in 1 .. Len(s) :
                           /\ Matches(l, s[i], k)
                           /\ Contents(x) = <<s[i]>> \o Without(s, i)
<1> DEFINE e == Found(l, k)
           n == Cardinality(l.cells)
           s == Contents(l)
<1>1. IsList(l) /\ Chained(l) /\ IsFiniteSet(l.cells)
  BY DEF WellFormed, Walkable
<1>2. PICK o : IsWalk(l, o)
  BY DEF Walkable
<1>3. /\ n \in Nat /\ Len(s) = n
      /\ \A j \in 1 .. n : s[j] = l.value[o[j]]
      /\ \A c \in l.cells : \E j \in 1 .. n : o[j] = c
  BY <1>1, <1>2, ListContents
<1>4. CASE ~ (e # NULL /\ l.norecent = REORDER /\ e # l.first)
  BY <1>4 DEF Get
<1>5. CASE e # NULL /\ l.norecent = REORDER /\ e # l.first
  <2>1. Get(l, k) = MoveToFront(l, e)
    BY <1>5 DEF Get
  <2>2. e \in l.cells /\ Matches(l, l.value[e], k)
    BY <1>5, FoundType
  <2>3. k # NULL
    BY <1>5 DEF Found
  <2>4. PICK i \in 1 .. n : o[i] = e
    BY <1>3, <2>2
  <2>5. /\ Walkable(MoveToFront(l, e))
        /\ Contents(MoveToFront(l, e)) = <<s[i]>> \o Without(s, i)
    BY <1>1, <1>2, <1>5, <2>4, MoveToFrontContents
  <2>6. s[i] = l.value[e]
    BY <1>3, <2>4
  <2> HIDE DEF e, s
  <2> QED
    BY <1>3, <1>5, <2>1, <2>2, <2>3, <2>5, <2>6 DEF s
<1> QED
  BY <1>4, <1>5

\* A removal takes out one value that matches, wherever the lookup moved it.
LEMMA RemoveContents ==
    ASSUME NEW l, WellFormed(l), Walkable(l), NEW k
    PROVE  LET x == Remove(l, k)
               s == Contents(l)
           IN  /\ Walkable(x)
               /\ \/ x = l
                  \/ /\ k # NULL
                     /\ \E i \in 1 .. Len(s) : /\ Matches(l, s[i], k)
                                               /\ Contents(x) = Without(s, i)
<1> DEFINE e == Found(l, k)
           g == Get(l, k)
           n == Cardinality(l.cells)
           s == Contents(l)
<1>1. IsList(l) /\ Chained(l) /\ IsFiniteSet(l.cells)
  BY DEF WellFormed, Walkable
<1>2. PICK o : IsWalk(l, o)
  BY DEF Walkable
<1>3. /\ n \in Nat /\ s \in Seq(Datum) /\ Len(s) = n
      /\ \A j \in 1 .. n : s[j] = l.value[o[j]]
      /\ \A c \in l.cells : \E j \in 1 .. n : o[j] = c
  BY <1>1, <1>2, ListContents
<1>4. CASE e = NULL
  BY <1>4 DEF Remove
<1>5. CASE e # NULL
  <2>1. Remove(l, k) = Unlink(g, e) /\ k # NULL
    BY <1>5 DEF Remove, Found
  <2>2. e \in l.cells /\ Matches(l, l.value[e], k)
    BY <1>5, FoundType
  <2>3. PICK i \in 1 .. n : o[i] = e
    BY <1>3, <2>2
  <2>4. s[i] = l.value[e]
    BY <1>3, <2>3
  <2>5. /\ IsList(g) /\ Chained(g) /\ g.cells = l.cells
    BY GetWellFormed DEF WellFormed
  <2>6. Walkable(Unlink(g, e)) /\ Contents(Unlink(g, e)) = Without(s, i)
    <3>1. CASE l.norecent = REORDER /\ e # l.first
      <4> DEFINE r == Without(s, i)
                 b == <<s[i]>>
      <4>1. g = MoveToFront(l, e)
        BY <1>5, <3>1 DEF Get
      <4>2. PICK w : IsWalk(g, w) /\ w[1] = e
        <5>1. Walkable(g)
          BY <1>1, <1>2, <2>3, <3>1, <4>1, MoveToFrontContents
        <5>2. g.first = e /\ g.cells # {}
          BY <1>1, <2>2, <2>5, <4>1, MoveToFrontFields
        <5> HIDE DEF e, g
        <5> QED
          BY <2>5, <5>1, <5>2, ListContents DEF Walkable
      <4>3. Contents(g) = b \o r
        BY <1>1, <1>2, <2>3, <3>1, <4>1, MoveToFrontContents
      <4>4. 1 \in 1 .. Cardinality(g.cells)
        <5>1. i \in 1 .. n
          OBVIOUS
        <5> HIDE DEF n
        <5>2. 1 \in 1 .. n
          BY <1>3, <5>1
        <5> QED
          BY <2>5, <5>2 DEF n
      <4>5. /\ Walkable(Unlink(g, e))
            /\ Contents(Unlink(g, e)) = Without(Contents(g), 1)
        <5> HIDE DEF g
        <5> QED
          BY <1>1, <2>5, <4>2, <4>4, UnlinkContents
      <4>6. i \in 1 .. Len(s) /\ s[i] \in Datum
        <5>1. i \in 1 .. Len(s)
          BY <1>3
        <5> QED
          BY <1>3, <5>1, ElementOfSeq
      <4> HIDE DEF s
      <4>7. r \in Seq(Datum) /\ Len(r) = Len(s) - 1
        BY <1>3, <4>6, WithoutPlaces
      <4>8. b \in Seq(Datum) /\ Len(b) = 1
        BY <4>6
      <4> HIDE DEF b, r
      <4>9. Without(b \o r, 1) = r
        BY <4>7, <4>8, WithoutHead
      <4> QED
        BY <4>3, <4>5, <4>9 DEF r
    <3>2. CASE ~ (l.norecent = REORDER /\ e # l.first)
      <4>1. g = l
        BY <3>2 DEF Get
      <4> QED
        BY <1>1, <1>2, <2>3, <4>1, UnlinkContents
    <3> QED
      BY <3>1, <3>2
  <2>7. i \in 1 .. Len(s)
    BY <1>3
  <2> HIDE DEF e, s, g
  <2> QED
    BY <2>1, <2>2, <2>4, <2>6, <2>7 DEF s
<1> QED
  BY <1>4, <1>5
\* A chain is sorted when the values that it shows are.
LEMMA SortedContents ==
    ASSUME NEW l, IsList(l), Chained(l), Walkable(l), NEW cmp
    PROVE  SortedBy(l, cmp) <=>
              \A i \in 1 .. Len(Contents(l)) - 1 :
                 cmp[Contents(l)[i], Contents(l)[i + 1]] <= 0
<1> DEFINE n == Cardinality(l.cells)
           s == Contents(l)
           R(a, b) == cmp[a, b] <= 0
<1>1. IsFiniteSet(l.cells)
  BY DEF Walkable
<1>2. PICK o : IsWalk(l, o)
  BY DEF Walkable
<1>3. /\ n \in Nat /\ Len(s) = n
      /\ \A k \in 1 .. n : s[k] = l.value[o[k]]
      /\ \A c \in l.cells : \E k \in 1 .. n : o[k] = c
      /\ NULL \notin l.cells
  BY <1>1, <1>2, ListContents
<1>4. \A k \in 1 .. n : /\ o[k] \in l.cells
                        /\ k < n => l.next[o[k]] = o[k + 1]
                        /\ k = n => l.next[o[k]] = NULL
  BY <1>1, <1>2, WalkFields
<1> HIDE DEF n, s, R
<1>5. ASSUME \A c \in l.cells : l.next[c] # NULL => R(l.value[c], l.value[l.next[c]]),
             NEW i \in 1 .. n - 1
      PROVE  R(s[i], s[i + 1])
  <2>1. i \in 1 .. n /\ i + 1 \in 1 .. n /\ i < n
    BY <1>3
  <2>2. /\ l.next[o[i]] = o[i + 1] /\ o[i] \in l.cells /\ o[i + 1] \in l.cells
        /\ s[i] = l.value[o[i]] /\ s[i + 1] = l.value[o[i + 1]]
    BY <1>3, <1>4, <2>1
  <2> QED
    BY <1>3, <1>5, <2>2
<1>6. ASSUME \A i \in 1 .. n - 1 : R(s[i], s[i + 1]),
             NEW c \in l.cells, l.next[c] # NULL
      PROVE  R(l.value[c], l.value[l.next[c]])
  <2>1. PICK k \in 1 .. n : o[k] = c
    BY <1>3
  <2>2. k \in 1 .. n - 1 /\ k + 1 \in 1 .. n /\ k < n
    BY <1>3, <1>4, <1>6, <2>1
  <2>3. /\ l.next[c] = o[k + 1]
        /\ s[k] = l.value[c] /\ s[k + 1] = l.value[o[k + 1]]
    BY <1>3, <1>4, <2>1, <2>2
  <2> QED
    BY <1>6, <2>2, <2>3
<1> QED
  BY <1>3, <1>5, <1>6 DEF SortedBy, R, s
=============================================================================
