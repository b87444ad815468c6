----------------------------- MODULE ListProofs -----------------------------
(***************************************************************************)
(* Theorems about List, for every set of cells and values, every           *)
(* comparison function and every norecent.                                 *)
(***************************************************************************)
EXTENDS ListDoc, ListOpsProofs

\* While vanessa_list_duplicate runs, the cells still to be copied are those a
\* walk from at along prev visits, and none of them is in the copy yet; what is
\* in the copy is as in the list.
CopyProgress ==
    /\ at # NULL => HasCopy /\ at \in l.cells /\ ~undefined
    /\ HasCopy =>
          /\ HasList
          /\ copy.norecent = l.norecent
          /\ copy.cells \subseteq l.cells
          /\ \A c \in copy.cells : copy.value[c] = l.value[c]
          /\ copy.cells \cap Reach(l.prev, at) = {}
          /\ l.norecent # REORDER => copy.cells \cup Reach(l.prev, at) = l.cells

\* The inductive invariant
IInv ==
    /\ HasList => WellFormed(l)
    /\ HasCopy => WellFormed(copy)
    /\ at \in Ptr
    /\ lost \subseteq {"cells", "recent"}
    /\ undefined \in BOOLEAN
    /\ CopyProgress
    /\ SortedInOrder
    /\ CellsFreed

\* Destroying a well-formed list with an e_destroy leaves no cell behind.
LEMMA DestroyFreesCells ==
    ASSUME NEW x, WellFormed(x)
    PROVE  /\ LostByDestroy(x) \subseteq {"cells", "recent"}
           /\ e_destroy # NULL => "cells" \notin LostByDestroy(x)
<1>1. x.cells \subseteq Reach(x.next, x.first)
  BY DEF WellFormed, Chained
<1> QED
  BY <1>1 DEF LostByDestroy, FreedByDestroy

LEMMA WellFormedIsNoPointer ==
    ASSUME NEW x, WellFormed(x)
    PROVE  x # NULL /\ x # FREED
BY PointerAssumption DEF WellFormed

LEMMA InitIInv == Init => IInv
BY DEF Init, IInv, HasList, HasCopy, CopyProgress, SortedInOrder, CellsFreed, Ptr

\* A call on the list alone, between two duplications
LEMMA ListCallIInv ==
    ASSUME IInv, Idle, UNCHANGED <<copy, at, lost, undefined>>,
           l' # NULL => WellFormed(l'),
           SortedInOrder'
    PROVE  IInv'
BY DEF IInv, Idle, HasList, HasCopy, CopyProgress, CellsFreed

\* A call that destroys the list
LEMMA ListGoneIInv ==
    ASSUME IInv, Idle, HasList, l' = NULL, UNCHANGED <<copy, at, undefined>>,
           lost' = lost \cup LostByDestroy(l)
    PROVE  IInv'
<1>1. WellFormed(l)
  BY DEF IInv
<1>2. /\ lost' \subseteq {"cells", "recent"}
      /\ CellsFreed'
  BY <1>1, DestroyFreesCells DEF IInv, CellsFreed
<1> QED
  BY <1>2 DEF IInv, Idle, HasList, HasCopy, CopyProgress, SortedInOrder

LEMMA DuplicateBeginsIInv == IInv /\ DuplicateBegins => IInv'
<1> SUFFICES ASSUME IInv, DuplicateBegins
             PROVE  IInv'
  OBVIOUS
<1>1. /\ l # NULL /\ l' = l /\ lost' = lost /\ at' = l.last
      /\ ~undefined /\ undefined' = undefined
  BY DEF DuplicateBegins, Idle
<1>2. WellFormed(l)
  BY <1>1 DEF IInv, HasList
<1>3. IsList(l) /\ Chained(l)
  BY <1>2 DEF WellFormed
<1>4. copy' = NewList(l.norecent, l.e_match, l.e_sort)
  BY DEF DuplicateBegins
<1>5. WellFormed(copy') /\ copy'.cells = {} /\ copy'.norecent = l.norecent
  BY <1>3, <1>4, CopyHeaderWellFormed
<1>6. copy' # NULL /\ copy' # FREED
  BY <1>5, WellFormedIsNoPointer
<1>7. l.last \in l.cells \cup {NULL} /\ l.last \in Ptr
  BY <1>3, ListFields DEF Chained
<1>8. l.norecent # REORDER => Reach(l.prev, l.last) = l.cells
  BY <1>2, <1>3, BackFromLast DEF WellFormed
<1>9. CopyProgress'
  BY <1>1, <1>5, <1>6, <1>7, <1>8 DEF CopyProgress, HasCopy, HasList
<1> QED
  BY <1>1, <1>5, <1>7, <1>9 DEF IInv, HasList, HasCopy, SortedInOrder, CellsFreed

LEMMA DuplicateElementIInv == IInv /\ DuplicateElement => IInv'
<1> SUFFICES ASSUME IInv, DuplicateElement
             PROVE  IInv'
  OBVIOUS
<1>1. /\ l' = l /\ lost' = lost /\ undefined' = undefined
      /\ at # NULL /\ at' = l.prev[at]
      /\ copy' = Add(copy, at, l.value[at])
  BY DEF DuplicateElement
<1>2. HasCopy /\ HasList /\ at \in l.cells /\ ~undefined
  BY <1>1 DEF IInv, CopyProgress
<1>3. WellFormed(l) /\ WellFormed(copy) /\ IsList(l) /\ Chained(l)
  BY <1>2 DEF IInv, WellFormed
<1>4. /\ copy.norecent = l.norecent
      /\ copy.cells \subseteq l.cells
      /\ \A c \in copy.cells : copy.value[c] = l.value[c]
      /\ copy.cells \cap Reach(l.prev, at) = {}
      /\ l.norecent # REORDER => copy.cells \cup Reach(l.prev, at) = l.cells
  BY <1>2 DEF IInv, CopyProgress
<1>5. /\ at \in Cell /\ l.value[at] \in Datum
      /\ l.prev[at] \in l.cells \cup {NULL} /\ l.prev[at] \in Ptr
      /\ l.cells \subseteq Cell
  BY <1>2, <1>3, ListFields, ChainStays
<1>6. Reach(l.prev, at) = {at} \cup Reach(l.prev, l.prev[at])
  BY <1>3, <1>5, ListFields, ReachUnfold
<1>7. at \notin Reach(l.prev, l.prev[at])
  BY <1>2, <1>3, BackIsAcyclic
<1>8. at \in Cell \ copy.cells
  BY <1>4, <1>5, <1>6
<1>9. /\ WellFormed(copy')
      /\ copy'.cells = copy.cells \cup {at}
      /\ copy'.norecent = copy.norecent
      /\ \A c \in Cell : copy'.value[c] = IF c = at THEN l.value[at] ELSE copy.value[c]
  BY <1>1, <1>3, <1>5, <1>8, AddWellFormed
<1>10. copy' # NULL /\ copy' # FREED
  BY <1>9, WellFormedIsNoPointer
<1>11. CopyProgress'
  <2>1. at' # NULL => HasCopy' /\ at' \in l'.cells /\ ~undefined'
    BY <1>1, <1>2, <1>5, <1>10 DEF HasCopy
  <2>2. HasList' /\ copy'.norecent = l'.norecent
    BY <1>1, <1>2, <1>4, <1>9 DEF HasList
  <2>3. copy'.cells \subseteq l'.cells
    BY <1>1, <1>2, <1>4, <1>9
  <2>4. \A c \in copy'.cells : copy'.value[c] = l'.value[c]
    BY <1>1, <1>4, <1>5, <1>9
  <2>5. copy'.cells \cap Reach(l'.prev, at') = {}
    BY <1>1, <1>4, <1>6, <1>7, <1>9
  <2>6. l'.norecent # REORDER => copy'.cells \cup Reach(l'.prev, at') = l'.cells
    BY <1>1, <1>4, <1>6, <1>9
  <2> QED
    BY <2>1, <2>2, <2>3, <2>4, <2>5, <2>6 DEF CopyProgress
<1> QED
  BY <1>1, <1>5, <1>9, <1>11 DEF IInv, HasList, HasCopy, SortedInOrder, CellsFreed

LEMMA NextIInv == IInv /\ [Next]_vars => IInv'
<1> SUFFICES ASSUME IInv, [Next]_vars
             PROVE  IInv'
  OBVIOUS
<1>1. ASSUME NEW n \in NoRecentArg, NEW match \in E_match, NEW sort \in E_sort,
             Create(n, match, sort)
      PROVE  IInv'
  <2>1. WellFormed(l')
    BY <1>1, NewListWellFormed DEF Create
  <2>2. SortedInOrder'
    BY <1>1 DEF Create, NewList, SortedInOrder, SortedBy
  <2> QED
    BY <1>1, <2>1, <2>2, ListCallIInv DEF Create
<1>2. ASSUME NEW v \in Datum, AddElement(v)
      PROVE  IInv'
  <2>1. PICK e \in Cell \ l.cells : l' = Add(l, e, v)
    BY <1>2 DEF AddElement
  <2>2. WellFormed(l) /\ l # NULL
    BY <1>2 DEF AddElement, IInv, HasList
  <2>3. /\ WellFormed(l')
        /\ l'.norecent = l.norecent /\ l'.e_sort = l.e_sort
    BY <2>1, <2>2, AddWellFormed
  <2>4. SortedInOrder'
    <3> SUFFICES ASSUME l.norecent # REORDER, l.e_sort # NULL, IsOrder(l.e_sort)
                 PROVE  SortedBy(l', l.e_sort)
      BY <2>3 DEF SortedInOrder
    <3>1. SortedBy(l, l.e_sort)
      BY <2>2 DEF IInv, SortedInOrder, HasList
    <3> QED
      BY <2>1, <2>2, <3>1, AddKeepsOrder
  <2> QED
    BY <1>2, <2>3, <2>4, ListCallIInv DEF AddElement
<1>3. CASE AddElementFails
  BY <1>3, ListGoneIInv DEF AddElementFails, HasList
<1>4. ASSUME NEW k \in Datum, GetElement(k)
      PROVE  IInv'
  <2>1. WellFormed(l) /\ l # NULL /\ l' = Get(l, k)
    BY <1>4 DEF GetElement, IInv, HasList
  <2>2. /\ WellFormed(l') /\ l'.norecent = l.norecent
        /\ l.norecent # REORDER => l' = l
    BY <2>1, GetWellFormed
  <2>3. SortedInOrder'
    BY <2>1, <2>2 DEF SortedInOrder, IInv, HasList
  <2> QED
    BY <1>4, <2>2, <2>3, ListCallIInv DEF GetElement
<1>5. ASSUME NEW k \in Datum, RemoveElement(k)
      PROVE  IInv'
  <2>1. WellFormed(l) /\ l # NULL /\ l' = Remove(l, k)
    BY <1>5 DEF RemoveElement, IInv, HasList
  <2>2. /\ WellFormed(l')
        /\ l'.norecent = l.norecent /\ l'.e_sort = l.e_sort
    BY <2>1, RemoveWellFormed
  <2>3. SortedInOrder'
    <3> SUFFICES ASSUME l.norecent # REORDER, l.e_sort # NULL, IsOrder(l.e_sort)
                 PROVE  SortedBy(l', l.e_sort)
      BY <2>2 DEF SortedInOrder
    <3>1. SortedBy(l, l.e_sort)
      BY <2>1 DEF IInv, SortedInOrder, HasList
    <3>2. Get(l, k) = l /\ Found(l, k) \in l.cells \cup {NULL}
      BY <2>1, GetWellFormed, FoundType
    <3>3. CASE Found(l, k) = NULL
      BY <3>3, <3>1, <2>1 DEF Remove
    <3>4. CASE Found(l, k) # NULL
      BY <3>4, <3>1, <3>2, <2>1, UnlinkKeepsOrder DEF Remove
    <3> QED
      BY <3>3, <3>4
  <2> QED
    BY <1>5, <2>2, <2>3, ListCallIInv DEF RemoveElement
<1>6. CASE Destroy
  BY <1>6, ListGoneIInv DEF Destroy, HasList
<1>7. CASE DuplicateBegins
  BY <1>7, DuplicateBeginsIInv
<1>8. CASE DuplicateElement
  BY <1>8, DuplicateElementIInv
<1>9. CASE DuplicateElementFails
  <2>1. WellFormed(copy)
    BY <1>9 DEF DuplicateElementFails, IInv, CopyProgress
  <2>2. lost' \subseteq {"cells", "recent"} /\ CellsFreed'
    BY <1>9, <2>1, DestroyFreesCells DEF DuplicateElementFails, IInv, CellsFreed, CopyProgress
  <2> QED
    BY <1>9, <2>2 DEF DuplicateElementFails, IInv, HasList, HasCopy, CopyProgress,
                      SortedInOrder, Ptr
<1>10. CASE DestroyCopy
  <2>1. WellFormed(copy)
    BY <1>10 DEF DestroyCopy, IInv, HasCopy
  <2>2. lost' \subseteq {"cells", "recent"} /\ CellsFreed'
    BY <1>10, <2>1, DestroyFreesCells DEF DestroyCopy, IInv, CellsFreed
  <2> QED
    BY <1>10, <2>2 DEF DestroyCopy, IInv, HasList, HasCopy, CopyProgress,
                       SortedInOrder
<1>11. CASE DestroyFreed
  BY <1>11 DEF DestroyFreed, IInv, HasList, HasCopy, CopyProgress, SortedInOrder,
               CellsFreed
<1>12. CASE UNCHANGED vars
  BY <1>12 DEF vars, IInv, HasList, HasCopy, CopyProgress, SortedInOrder, CellsFreed
<1> QED
  BY <1>1, <1>2, <1>3, <1>4, <1>5, <1>6, <1>7, <1>8, <1>9, <1>10, <1>11, <1>12 DEF Next

LEMMA SpecIInv == Spec => []IInv
BY InitIInv, NextIInv, PTL DEF Spec

----------------------------------------------------------------------------
\* In every state, list and copy are vanessa_list_t of the right shape.
THEOREM TypeCorrect == Spec => []TypeOK
<1>1. IInv => TypeOK
  BY DEF IInv, TypeOK, WellFormed
<1> QED
  BY <1>1, SpecIInv, PTL

\* Whatever is added, looked up, moved and removed, the chain stays doubly
\* linked and complete, with and without VANESSA_LIST_REORDER; without it, last is
\* its end.
THEOREM ChainSafe == Spec => []ChainIntact
<1>1. IInv => ChainIntact
  BY DEF IInv, ChainIntact, WellFormed
<1> QED
  BY <1>1, SpecIInv, PTL

\* The recent array never points to a freed cell.
THEOREM RecentSafe == Spec => []RecentIsLive
<1>1. IInv => RecentIsLive
  BY DEF IInv, RecentIsLive, WellFormed
<1> QED
  BY <1>1, SpecIInv, PTL

\* For every comparison that is an order, sorted lists stay sorted.
THEOREM OrderSafe == Spec => []SortedInOrder
<1>1. IInv => SortedInOrder
  BY DEF IInv
<1> QED
  BY <1>1, SpecIInv, PTL

\* A lookup misses no element and invents none.
THEOREM LookupSafe == Spec => []LookupFinds
<1>1. IInv => LookupFinds
  <2> SUFFICES ASSUME WellFormed(l), NEW k \in Datum \ {NULL}
               PROVE  LookupExact(l, k)
    BY DEF IInv, LookupFinds
  <2> QED
    BY LookupIsExact
<1> QED
  BY <1>1, SpecIInv, PTL

\* Without VANESSA_LIST_REORDER a duplicate has every element of the list.
THEOREM CopySafe == Spec => []CopyComplete
<1>1. IInv => CopyComplete
  BY ReachNull DEF IInv, CopyProgress, CopyComplete, HasCopy
<1> QED
  BY <1>1, SpecIInv, PTL

\* With an e_destroy no cell of a list or of its duplicate is lost, however the calls
\* are ordered and whichever of them fails, until a duplication goes on adding to the
\* duplicate that a failed round has destroyed: what that does is not defined.
THEOREM FreeSafe == Spec => []CellsFreed
<1>1. IInv => CellsFreed
  BY DEF IInv
<1> QED
  BY <1>1, SpecIInv, PTL

LEMMA NextAdvances ==
    IInv /\ [Next]_vars
        => [at # NULL => Reach(l'.prev, at') \subseteq Reach(l.prev, at) \ {at}]_vars
<1> SUFFICES ASSUME IInv, Next, at # NULL
             PROVE  Reach(l'.prev, at') \subseteq Reach(l.prev, at) \ {at}
  OBVIOUS
<1>1. /\ at \in l.cells /\ at \in Cell /\ IsList(l) /\ Chained(l)
      /\ l.prev \in [Cell -> Ptr]
  BY ListFields DEF IInv, CopyProgress, HasCopy, HasList, WellFormed
<1>2. CASE DuplicateElement
  <2>1. l' = l /\ at' = l.prev[at]
    BY <1>2 DEF DuplicateElement
  <2>2. Reach(l.prev, at) = {at} \cup Reach(l.prev, l.prev[at])
    BY <1>1, ReachUnfold
  <2>3. at \notin Reach(l.prev, l.prev[at])
    BY <1>1, BackIsAcyclic
  <2> QED
    BY <2>1, <2>2, <2>3
<1>3. CASE DuplicateElementFails
  BY <1>3, ReachNull DEF DuplicateElementFails
<1>4. CASE DestroyFreed
  BY <1>4 DEF DestroyFreed, IInv, CopyProgress, HasCopy
<1> QED
  BY <1>2, <1>3, <1>4 DEF Next, Create, AddElement, AddElementFails, GetElement, Idle,
     RemoveElement, Destroy, DuplicateBegins, DestroyCopy

\* Every round of a duplication leaves fewer cells to visit, for every list, so
\* that with finitely many cells it ends.
THEOREM DuplicationAdvances == Spec => DuplicateAdvances
<1>1. IInv /\ [Next]_vars
        => [at # NULL => Reach(l'.prev, at') \subseteq Reach(l.prev, at) \ {at}]_vars
  BY NextAdvances
<1> QED
  BY <1>1, SpecIInv, PTL DEF Spec, DuplicateAdvances
----------------------------------------------------------------------------
\* What is displayed is what a walk along the chain shows, and there is one.
Walked == HasList => Walkable(l)

LEMMA NextWalked == IInv /\ Walked /\ [Next]_vars => Walked'
<1> SUFFICES ASSUME IInv, Walked, [Next]_vars, l' # NULL, l' # l
             PROVE  Walkable(l')
  BY DEF Walked, HasList
<1>1. ASSUME NEW n \in NoRecentArg, NEW match \in E_match, NEW sort \in E_sort,
             Create(n, match, sort)
      PROVE  Walkable(l')
  BY <1>1, NewListContents DEF Create
<1>2. l # NULL => WellFormed(l) /\ Walkable(l)
  BY DEF IInv, Walked, HasList
<1>3. ASSUME NEW v \in Datum, AddElement(v) PROVE Walkable(l')
  <2>1. PICK e \in Cell \ l.cells : l' = Add(l, e, v)
    BY <1>3 DEF AddElement
  <2> QED
    BY <1>2, <1>3, <2>1, AddContents DEF AddElement
<1>4. ASSUME NEW k \in Datum, GetElement(k) PROVE Walkable(l')
  BY <1>2, <1>4, GetContents DEF GetElement
<1>5. ASSUME NEW k \in Datum, RemoveElement(k) PROVE Walkable(l')
  BY <1>2, <1>5, RemoveContents DEF RemoveElement
<1>6. ~ (\/ AddElementFails \/ Destroy \/ DuplicateBegins \/ DuplicateElement
         \/ DuplicateElementFails \/ DestroyCopy \/ DestroyFreed \/ UNCHANGED vars)
  BY DEF AddElementFails, Destroy, DuplicateBegins, DuplicateElement,
         DuplicateElementFails, DestroyCopy, DestroyFreed, vars
<1> QED
  BY <1>1, <1>3, <1>4, <1>5, <1>6 DEF Next

\* Whatever was added, moved and removed before, a list is shown with all of its
\* values, in the buffer that vanessa_list_length asks for (list.c 284-364).
THEOREM DisplayAlwaysExact == Spec => []DisplayExact
<1>1. Init => Walked
  BY DEF Init, Walked, HasList
<1>2. IInv /\ Walked /\ [Next]_vars => Walked'
  BY NextWalked
<1>3. IInv /\ Walked => DisplayExact
  <2> SUFFICES ASSUME WellFormed(l), Walkable(l), NULL \notin {e_length, e_display},
                      LastLength(Contents(l)) # 0
               PROVE  /\ Shows(ListDisplay(Contents(l)), Contents(l), {DELIMITER})
                      /\ Len(ListDisplay(Contents(l))) = ListLength(Contents(l))
    BY DEF IInv, Walked, DisplayExact
  <2>1. Contents(l) \in Seq(Datum)
    BY ListContents DEF WellFormed, Walkable
  <2>2. Displayable(Datum)
    BY PointerAssumption DEF Displayable, Datum
  <2> QED
    BY <2>1, <2>2, ListShown
<1> QED
  BY <1>1, <1>2, <1>3, SpecIInv, PTL DEF Spec

----------------------------------------------------------------------------
\* The list implements its documentation.

\* NULL is no sequence of values, and the sort callbacks compare like an order.
NullIsNone == NULL \notin Seq(Datum)
SortsAreOrders == \A cmp \in E_sort \ {NULL} : IsOrder(cmp)

LEMMA FrontOrSecond ==
    ASSUME NEW m \in Nat
    PROVE  Actual!Min({2, m + 1}) = IF m = 0 THEN 1 ELSE 2
<1>1. CASE m = 0
  <2>1. \A x \in {2, m + 1} : (\A y \in {2, m + 1} : x <= y) <=> x = 1
    BY <1>1
  <2> QED
    BY <1>1, <2>1 DEF Actual!Min
<1>2. CASE m # 0
  <2>1. \A x \in {2, m + 1} : (\A y \in {2, m + 1} : x <= y) <=> x = 2
    BY <1>2
  <2> QED
    BY <1>2, <2>1 DEF Actual!Min
<1> QED
  BY <1>1, <1>2

LEMMA AddImplements ==
    ASSUME NullIsNone, SortsAreOrders, IInv, Walked, NEW v \in Datum, AddElement(v)
    PROVE  Walked' /\ Actual!AddElement(v)
<1> DEFINE s == Contents(l)
           t == Contents(l')
<1>1. /\ l # NULL /\ WellFormed(l) /\ Walkable(l) /\ IsList(l) /\ Chained(l)
      /\ ~undefined /\ undefined' = undefined
  BY DEF AddElement, Idle, IInv, Walked, HasList, WellFormed
<1>2. PICK e \in Cell \ l.cells : l' = Add(l, e, v)
  BY DEF AddElement
<1>3. /\ WellFormed(l') /\ l'.norecent = l.norecent
      /\ l'.e_match = l.e_match /\ l'.e_sort = l.e_sort
  BY <1>1, <1>2, AddWellFormed
<1>4. /\ Walkable(l')
      /\ \E i \in 0 .. Len(s) :
            /\ t = With(s, i + 1, v)
            /\ l.e_sort = NULL => i = IF Len(s) = 0 THEN 0 ELSE 1
  BY <1>1, <1>2, AddContents
<1>5. PICK i \in 0 .. Len(s) : /\ t = With(s, i + 1, v)
                               /\ l.e_sort = NULL => i = IF Len(s) = 0 THEN 0 ELSE 1
  BY <1>4
<1>6. l' # NULL
  BY <1>3, WellFormedIsNoPointer
<1>7. s \in Seq(Datum) /\ Len(s) \in Nat
  BY <1>1, ListContents DEF Walkable
<1>8. ASSUME l.e_sort # NULL, l.norecent # REORDER,
             \A k \in 1 .. Len(s) - 1 : l.e_sort[s[k], s[k + 1]] <= 0
      PROVE  \A k \in 1 .. Len(t) - 1 : l.e_sort[t[k], t[k + 1]] <= 0
  <2>1. IsOrder(l.e_sort)
    BY <1>1, <1>8, ListFields DEF SortsAreOrders
  <2>2. SortedBy(l, l.e_sort)
    BY <1>1, <1>8, SortedContents
  <2>3. SortedBy(l', l.e_sort)
    BY <1>1, <1>2, <1>8, <2>1, <2>2, AddKeepsOrder
  <2> QED
    BY <1>3, <1>4, <2>3, SortedContents DEF WellFormed
<1>9. ContentsOrNull = s /\ ContentsOrNull' = t /\ s # NULL
  BY <1>1, <1>6, <1>7 DEF ContentsOrNull, NullIsNone
<1>10. /\ ModeOrNull' = ModeOrNull
       /\ ModeOrNull.e_sort = l.e_sort
       /\ ModeOrNull.reorder <=> l.norecent = REORDER
  BY <1>1, <1>3, <1>6 DEF ModeOrNull
<1> HIDE DEF s, t
<1>11. i + 1 \in 1 .. Len(s) + 1 /\ t = Actual!InsertAt(s, i + 1, v)
  BY <1>5, <1>7 DEF Actual!InsertAt, With
<1>12. IF ModeOrNull.e_sort = NULL
         THEN i + 1 = Actual!Min({2, Len(s) + 1})
         ELSE Actual!InOrder(s) /\ (ModeOrNull.reorder => FALSE) => Actual!InOrder(t)
  <2>1. CASE l.e_sort = NULL
    BY <1>5, <1>7, <1>10, <2>1, FrontOrSecond
  <2>2. CASE l.e_sort # NULL
    BY <1>8, <1>10, <2>2 DEF Actual!InOrder
  <2> QED
    BY <2>1, <2>2
<1>13. Actual!AddElement(v)
  BY <1>1, <1>9, <1>10, <1>11, <1>12 DEF Actual!AddElement
<1> QED
  BY <1>4, <1>6, <1>13 DEF Walked, t

LEMMA GetImplements ==
    ASSUME NullIsNone, IInv, Walked, NEW k \in Datum, GetElement(k)
    PROVE  Walked' /\ [Actual!Next]_(Actual!doc_vars)
<1> DEFINE s == Contents(l)
<1>1. /\ l # NULL /\ WellFormed(l) /\ Walkable(l) /\ l' = Get(l, k)
      /\ ~undefined /\ undefined' = undefined
  BY DEF GetElement, Idle, IInv, Walked, HasList
<1>2. /\ WellFormed(l') /\ l'.norecent = l.norecent
      /\ l'.e_match = l.e_match /\ l'.e_sort = l.e_sort
  BY <1>1, GetWellFormed
<1>3. /\ Walkable(l')
      /\ \/ l' = l
         \/ /\ l.norecent = REORDER /\ k # NULL
            /\ \E i \in 1 .. Len(s) :
                  /\ Matches(l, s[i], k)
                  /\ Contents(l') = <<s[i]>> \o Without(s, i)
  BY <1>1, GetContents
<1>4. l' # NULL
  BY <1>2, WellFormedIsNoPointer
<1>5. CASE l' = l
  BY <1>1, <1>3, <1>5 DEF ContentsOrNull, ModeOrNull, Walked, Actual!doc_vars
<1>6. CASE l' # l
  <2>1. PICK i \in 1 .. Len(s) : /\ Matches(l, s[i], k)
                                 /\ Contents(l') = <<s[i]>> \o Without(s, i)
    BY <1>3, <1>6
  <2>2. l.norecent = REORDER /\ k \in Value
    BY <1>3, <1>6 DEF Datum
  <2>3. /\ ContentsOrNull = s /\ s # NULL
        /\ ContentsOrNull' = <<s[i]>> \o Actual!RemoveAt(s, i)
    BY <1>1, <1>4, <2>1, ListContents
       DEF ContentsOrNull, NullIsNone, Walkable, WellFormed, Actual!RemoveAt, Without
  <2>4. ModeOrNull' = ModeOrNull /\ ModeOrNull.reorder
    BY <1>1, <1>2, <1>4, <2>2 DEF ModeOrNull
  <2>5. i \in Actual!Hits(k)
    BY <1>1, <2>1, <2>3 DEF Actual!Hits, Actual!Matching, Matches, ModeOrNull
  <2> HIDE DEF s
  <2>6. Actual!GetElement(k)
    BY <1>1, <2>3, <2>4, <2>5 DEF Actual!GetElement
  <2> QED
    BY <1>3, <2>2, <2>6 DEF Actual!Next, Walked
<1> QED
  BY <1>5, <1>6

LEMMA RemoveImplements ==
    ASSUME NullIsNone, IInv, Walked, NEW k \in Datum, RemoveElement(k)
    PROVE  Walked' /\ [Actual!Next]_(Actual!doc_vars)
<1> DEFINE s == Contents(l)
<1>1. /\ l # NULL /\ WellFormed(l) /\ Walkable(l) /\ l' = Remove(l, k)
      /\ ~undefined /\ undefined' = undefined
  BY DEF RemoveElement, Idle, IInv, Walked, HasList
<1>2. /\ WellFormed(l') /\ l'.norecent = l.norecent
      /\ l'.e_match = l.e_match /\ l'.e_sort = l.e_sort
  BY <1>1, RemoveWellFormed
<1>3. /\ Walkable(l')
      /\ \/ l' = l
         \/ /\ k # NULL
            /\ \E i \in 1 .. Len(s) : /\ Matches(l, s[i], k)
                                      /\ Contents(l') = Without(s, i)
  BY <1>1, RemoveContents
<1>4. l' # NULL
  BY <1>2, WellFormedIsNoPointer
<1>5. CASE l' = l
  BY <1>1, <1>3, <1>5 DEF ContentsOrNull, ModeOrNull, Walked, Actual!doc_vars
<1>6. CASE l' # l
  <2>1. PICK i \in 1 .. Len(s) : /\ Matches(l, s[i], k)
                                 /\ Contents(l') = Without(s, i)
    BY <1>3, <1>6
  <2>2. k \in Value
    BY <1>3, <1>6 DEF Datum
  <2>3. /\ ContentsOrNull = s /\ s # NULL
        /\ ContentsOrNull' = Actual!RemoveAt(s, i)
    BY <1>1, <1>4, <2>1, ListContents
       DEF ContentsOrNull, NullIsNone, Walkable, WellFormed, Actual!RemoveAt, Without
  <2>4. ModeOrNull' = ModeOrNull
    BY <1>1, <1>2, <1>4 DEF ModeOrNull
  <2>5. i \in Actual!Hits(k)
    BY <1>1, <2>1, <2>3 DEF Actual!Hits, Actual!Matching, Matches, ModeOrNull
  <2> HIDE DEF s
  <2>6. Actual!RemoveElement(k)
    BY <1>1, <2>3, <2>4, <2>5 DEF Actual!RemoveElement
  <2> QED
    BY <1>3, <2>2, <2>6 DEF Actual!Next, Walked
<1> QED
  BY <1>5, <1>6

LEMMA CreateImplements ==
    ASSUME NullIsNone, NEW n \in NoRecentArg, NEW match \in E_match, NEW sort \in E_sort,
           Create(n, match, sort)
    PROVE  Walked' /\ Actual!Create
<1>1. /\ l = NULL /\ l' = NewList(n, match, sort)
      /\ ~undefined /\ undefined' = undefined
  BY DEF Create, Idle
<1>2. l' # NULL
  BY <1>1, NewListWellFormed, WellFormedIsNoPointer
<1>3. Walkable(l') /\ Contents(l') = <<>>
  BY <1>1, NewListContents
<1>4. /\ l'.norecent = StoredNoRecent(n)
      /\ l'.e_match = match /\ l'.e_sort = sort
  BY <1>1 DEF NewList
<1>5. StoredNoRecent(n) = REORDER <=> n = REORDER
  BY ListAssumption DEF StoredNoRecent, REORDER
<1>6. ModeOrNull' = [reorder |-> n = REORDER, e_match |-> match, e_sort |-> sort]
  BY <1>1, <1>2, <1>4, <1>5 DEF ModeOrNull
<1>7. ContentsOrNull = NULL /\ ContentsOrNull' = <<>>
  BY <1>1, <1>2, <1>3 DEF ContentsOrNull
<1> QED
  BY <1>1, <1>3, <1>6, <1>7 DEF Actual!Create, Walked

LEMMA NextImplements ==
    NullIsNone /\ SortsAreOrders /\ IInv /\ Walked /\ [Next]_vars
        => Walked' /\ [Actual!Next]_(Actual!doc_vars)
<1> SUFFICES ASSUME NullIsNone, SortsAreOrders, IInv, Walked, [Next]_vars
             PROVE  Walked' /\ [Actual!Next]_(Actual!doc_vars)
  OBVIOUS
<1>1. ASSUME NEW n \in NoRecentArg, NEW match \in E_match, NEW sort \in E_sort,
             Create(n, match, sort)
      PROVE  Walked' /\ [Actual!Next]_(Actual!doc_vars)
  BY <1>1, CreateImplements DEF Actual!Next
<1>2. ASSUME NEW v \in Datum, AddElement(v)
      PROVE  Walked' /\ [Actual!Next]_(Actual!doc_vars)
  BY <1>2, AddImplements DEF Actual!Next, Datum
<1>3. ASSUME NEW k \in Datum, GetElement(k)
      PROVE  Walked' /\ [Actual!Next]_(Actual!doc_vars)
  BY <1>3, GetImplements
<1>4. ASSUME NEW k \in Datum, RemoveElement(k)
      PROVE  Walked' /\ [Actual!Next]_(Actual!doc_vars)
  BY <1>4, RemoveImplements
<1>5. ASSUME l # NULL, l' = NULL, ~undefined, undefined' = undefined
      PROVE  Walked' /\ [Actual!Next]_(Actual!doc_vars)
  <2>1. l # NULL => Contents(l) # NULL
    BY ListContents DEF IInv, Walked, HasList, Walkable, WellFormed, NullIsNone
  <2>2. Actual!Destroy
    BY <1>5, <2>1 DEF Actual!Destroy, ContentsOrNull, ModeOrNull
  <2> QED
    BY <1>5, <2>2 DEF Walked, HasList, Actual!Next
<1>6. ASSUME UNCHANGED <<l, undefined>>
      PROVE  Walked' /\ [Actual!Next]_(Actual!doc_vars)
  BY <1>6 DEF Walked, HasList, ContentsOrNull, ModeOrNull, Actual!doc_vars
<1>7. ASSUME UNCHANGED l, ~undefined, undefined'
      PROVE  Walked' /\ [Actual!Next]_(Actual!doc_vars)
  <2>1. Actual!Break
    BY <1>7 DEF Actual!Break, ContentsOrNull, ModeOrNull, IInv
  <2> QED
    BY <1>7, <2>1 DEF Walked, HasList, Actual!Next
<1>8. CASE AddElementFails \/ Destroy
  BY <1>5, <1>8 DEF AddElementFails, Destroy, Idle
<1>9. CASE DuplicateElementFails
  <2>1. l' = l /\ undefined' \in BOOLEAN /\ undefined \in BOOLEAN
    BY <1>9 DEF DuplicateElementFails, IInv
  <2>2. ~undefined
    BY <1>9 DEF DuplicateElementFails, IInv, CopyProgress
  <2> QED
    BY <1>6, <1>7, <2>1, <2>2
<1>10. CASE DestroyFreed
  BY <1>7, <1>10 DEF DestroyFreed
<1> QED
  BY <1>1, <1>2, <1>3, <1>4, <1>6, <1>8, <1>9, <1>10
     DEF Next, vars, DuplicateBegins, DuplicateElement, DestroyCopy

\* Whatever is called and whatever fails, the list is the sequence of values that
\* its documentation describes, with the four exceptions that ActualSpec names: the
\* place of unsorted insertion, the order of lists that lookups rearrange, NULL,
\* which is inserted, and failed duplications that are not defined (list.c 183-611).
THEOREM ImplementsDocumentation ==
    ASSUME NullIsNone, SortsAreOrders
    PROVE  Spec => ActualSpec
<1>1. Init => Actual!Init /\ Walked
  BY DEF Init, Actual!Init, Walked, HasList, ContentsOrNull, ModeOrNull
<1>2. IInv /\ Walked /\ [Next]_vars
         => Walked' /\ [Actual!Next]_(Actual!doc_vars)
  BY NextImplements
<1> QED
  BY <1>1, <1>2, SpecIInv, PTL DEF Spec, ActualSpec, Actual!Spec
=============================================================================
