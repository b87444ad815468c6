--------------------------- MODULE KeyValueProofs ---------------------------
(* Every invariant of the run KeyValue, for every set of structures and     *)
(* objects.                                                                 *)
EXTENDS KeyValue, TLAPS

\* While a structure shows an object that another one destroys, destroying the
\* latter leaves the former dangling: an object with an owner is shown once.
ShownOnce ==
    \A k, j \in Kv, f, g \in Field :
        /\ Destroys(k, f)
        /\ kv[j] # NULL
        /\ kv[j][g].obj = kv[k][f].obj
        => j = k /\ g = f

\* What is lost is not the program's.
LostForGood == mine \cap lost = {}

IInv == TypeOK /\ LostForGood /\ ShownOnce /\ OwnedOnce /\ NeverDangling /\ AllAccounted

----------------------------------------------------------------------------
\* The parts of a structure, one by one.
LEMMA FieldCases ==
    ASSUME NEW x \in KeyValues, NEW f \in Field
    PROVE  /\ x[f] \in Parts
           /\ x[f].obj \in Obj \cup {NULL}
           /\ x[f].destroy \in BOOLEAN
           /\ x[f].dup \in BOOLEAN
  BY DEF KeyValues, Field, Parts

\* What a structure owns is what its parts destroy.
LEMMA OwnsExactly ==
    ASSUME NEW x \in KeyValues
    PROVE  /\ Owns(x) \subseteq Obj
           /\ \A o : o \in Owns(x) <=>
                     /\ o # NULL
                     /\ \E f \in Field : x[f].destroy /\ x[f].obj = o
  BY FieldCases DEF Owns, Field

LEMMA UnassignedIsEmpty ==
    /\ Unassigned \in KeyValues
    /\ \A f \in Field : Unassigned[f].obj = NULL /\ ~ Unassigned[f].destroy
  BY DEF Unassigned, NullPart, KeyValues, Parts, Field

LEMMA MakeIInv ==
    ASSUME IInv, NEW o \in Obj, Make(o)
    PROVE  IInv'
  <1> USE KeyValueAssumption, FieldCases, OwnsExactly, UnassignedIsEmpty
  <1>1. TypeOK'
    BY DEF IInv, Make, TypeOK
  <1>2. ShownOnce'
    BY DEF IInv, Make, TypeOK, ShownOnce, NeverDangling, OwnedOnce, Destroys
  <1>3. OwnedOnce'
    BY DEF IInv, Make, TypeOK, ShownOnce, OwnedOnce, NeverDangling, Destroys
  <1>4. NeverDangling'
    BY DEF IInv, Make, TypeOK, ShownOnce, NeverDangling, Destroys
  <1>5. AllAccounted'
    BY DEF IInv, Make, TypeOK, ShownOnce, AllAccounted, OwnedOnce, Destroys
  <1>6. LostForGood'
    BY DEF IInv, Make, TypeOK, LostForGood, OwnedOnce, Destroys
  <1> QED
    BY <1>1, <1>2, <1>3, <1>4, <1>5, <1>6 DEF IInv

LEMMA UnmakeIInv ==
    ASSUME IInv, NEW o \in Obj, Unmake(o)
    PROVE  IInv'
  <1> USE KeyValueAssumption, FieldCases, OwnsExactly, UnassignedIsEmpty
  <1>1. TypeOK'
    BY DEF IInv, Unmake, RefersTo, TypeOK, LostForGood
  <1>2. ShownOnce'
    BY DEF IInv, Unmake, RefersTo, TypeOK, ShownOnce, NeverDangling, OwnedOnce, Destroys
  <1>3. OwnedOnce'
    BY DEF IInv, Unmake, RefersTo, TypeOK, ShownOnce, OwnedOnce, NeverDangling, Destroys
  <1>4. NeverDangling'
    BY DEF IInv, Unmake, RefersTo, TypeOK, ShownOnce, NeverDangling, Destroys
  <1>5. AllAccounted'
    BY DEF IInv, Unmake, RefersTo, TypeOK, ShownOnce, AllAccounted, OwnedOnce, Destroys
  <1>6. LostForGood'
    BY DEF IInv, Unmake, RefersTo, TypeOK, LostForGood, OwnedOnce, Destroys
  <1> QED
    BY <1>1, <1>2, <1>3, <1>4, <1>5, <1>6 DEF IInv

LEMMA CreateIInv ==
    ASSUME IInv, NEW k \in Kv, Create(k)
    PROVE  IInv'
  <1> USE KeyValueAssumption, FieldCases, OwnsExactly, UnassignedIsEmpty
  <1>1. TypeOK'
    BY DEF IInv, Create, TypeOK
  <1>2. ShownOnce'
    BY DEF IInv, Create, TypeOK, ShownOnce, NeverDangling, OwnedOnce, Destroys
  <1>3. OwnedOnce'
    BY DEF IInv, Create, TypeOK, ShownOnce, OwnedOnce, NeverDangling, Destroys
  <1>4. NeverDangling'
    BY DEF IInv, Create, TypeOK, ShownOnce, NeverDangling, Destroys
  <1>5. AllAccounted'
    BY DEF IInv, Create, TypeOK, ShownOnce, AllAccounted, OwnedOnce, Destroys
  <1>6. LostForGood'
    BY DEF IInv, Create, TypeOK, LostForGood, OwnedOnce, Destroys
  <1> QED
    BY <1>1, <1>2, <1>3, <1>4, <1>5, <1>6 DEF IInv

LEMMA AssignIInv ==
    ASSUME IInv, NEW k \in Kv, NEW x \in KeyValues, Assign(k, x)
    PROVE  IInv'
  <1> USE KeyValueAssumption, FieldCases, OwnsExactly, UnassignedIsEmpty
  <1>1. TypeOK'
    BY DEF IInv, Assign, RefersTo, TypeOK, OwnedOnce, NeverDangling, Destroys
  <1>a. \A j \in Kv : kv'[j] = IF j = k THEN x ELSE kv[j]
    BY DEF IInv, TypeOK, Assign
  <1>b. \A f \in Field : x[f].obj \in mine \cup {NULL}
    BY DEF Assign
  <1>2. ShownOnce'
    <2> SUFFICES ASSUME NEW m \in Kv, NEW j \in Kv, NEW f \in Field, NEW g \in Field,
                        Destroys(m, f)', kv'[j] # NULL, kv'[j][g].obj = kv'[m][f].obj
                 PROVE  j = m /\ g = f
      BY DEF ShownOnce
    <2>1. CASE m = k /\ j = k
      <3>1. x[f].obj \in Owns(x)
        BY <2>1, <1>a DEF Destroys
      <3>2. x[g].obj = x[f].obj
        BY <2>1, <1>a
      <3> QED
        BY <2>1, <3>1, <3>2 DEF Assign, Field
    <2>2. CASE m = k /\ j # k
      <3>1. x[f].obj \in Owns(x)
        BY <2>2, <1>a DEF Destroys
      <3>2. RefersTo(kv[j], x[f].obj)
        BY <2>2, <1>a DEF RefersTo
      <3> QED
        BY <2>2, <3>1, <3>2 DEF Assign
    <2>3. CASE m # k /\ j = k
      <3>1. Destroys(m, f) /\ x[g].obj = kv[m][f].obj
        BY <2>3, <1>a DEF Destroys
      <3> QED
        BY <3>1, <1>b DEF IInv, OwnedOnce, Destroys
    <2>4. CASE m # k /\ j # k
      BY <2>4, <1>a DEF IInv, ShownOnce, Destroys
    <2> QED
      BY <2>1, <2>2, <2>3, <2>4
  <1>3. OwnedOnce'
    <2>a. ASSUME NEW m \in Kv, NEW f \in Field, Destroys(m, f)',
                 NEW j \in Kv, NEW g \in Field, Destroys(j, g)',
                 kv'[j][g].obj = kv'[m][f].obj
          PROVE  j = m /\ g = f
      <3>1. kv'[j] # NULL
        BY <2>a DEF Destroys
      <3> QED
        BY <2>a, <3>1, <1>2 DEF ShownOnce
    <2> SUFFICES ASSUME NEW m \in Kv, NEW f \in Field, Destroys(m, f)'
                 PROVE  kv'[m][f].obj \notin mine' \cup lost'
      BY <2>a DEF OwnedOnce
    <2>1. CASE m = k
      <3>1. x[f].obj \in Owns(x) /\ x[f].obj \in mine /\ kv'[m][f].obj = x[f].obj
        BY <2>1, <1>a, <1>b DEF Destroys
      <3>2. x[f].obj \notin lost
        BY <3>1 DEF IInv, LostForGood
      <3>3. x[f].obj \notin Owns(kv[k])
        BY <3>1 DEF IInv, TypeOK, Assign, OwnedOnce, Destroys
      <3> QED
        BY <3>1, <3>2, <3>3 DEF Assign
    <2>2. CASE m # k
      <3>1. Destroys(m, f) /\ kv'[m][f].obj = kv[m][f].obj
        BY <2>2, <1>a DEF Destroys
      <3>2. kv[m][f].obj \notin mine \cup lost
        BY <3>1 DEF IInv, OwnedOnce
      <3>3. kv[m][f].obj \notin Owns(kv[k])
        BY <2>2, <3>1 DEF IInv, TypeOK, Assign, ShownOnce
      <3> QED
        BY <3>1, <3>2, <3>3 DEF Assign
    <2> QED
      BY <2>1, <2>2
  <1>4. NeverDangling'
    BY DEF IInv, Assign, RefersTo, TypeOK, ShownOnce, NeverDangling, Destroys
  <1>5. AllAccounted'
    BY DEF IInv, Assign, RefersTo, TypeOK, ShownOnce, AllAccounted, OwnedOnce, Destroys
  <1>6. LostForGood'
    BY DEF IInv, Assign, RefersTo, TypeOK, OwnedOnce, NeverDangling, Destroys, LostForGood
  <1> QED
    BY <1>1, <1>2, <1>3, <1>4, <1>5, <1>6 DEF IInv

LEMMA UnassignIInv ==
    ASSUME IInv, NEW k \in Kv, Unassign(k)
    PROVE  IInv'
  <1> USE KeyValueAssumption, FieldCases, OwnsExactly, UnassignedIsEmpty
  <1>1. TypeOK'
    BY DEF IInv, Unassign, TypeOK, OwnedOnce, NeverDangling, Destroys
  <1>2. ShownOnce'
    BY DEF IInv, Unassign, TypeOK, ShownOnce, NeverDangling, OwnedOnce, Destroys
  <1>3. OwnedOnce'
    BY DEF IInv, Unassign, TypeOK, ShownOnce, OwnedOnce, NeverDangling, Destroys
  <1>4. NeverDangling'
    BY DEF IInv, Unassign, TypeOK, ShownOnce, NeverDangling, Destroys
  <1>5. AllAccounted'
    BY DEF IInv, Unassign, TypeOK, ShownOnce, AllAccounted, OwnedOnce, Destroys
  <1>6. LostForGood'
    BY DEF IInv, Unassign, TypeOK, OwnedOnce, NeverDangling, Destroys, LostForGood
  <1> QED
    BY <1>1, <1>2, <1>3, <1>4, <1>5, <1>6 DEF IInv

LEMMA DestroyIInv ==
    ASSUME IInv, NEW k \in Kv, Destroy(k)
    PROVE  IInv'
  <1> USE KeyValueAssumption, FieldCases, OwnsExactly, UnassignedIsEmpty
  <1>1. TypeOK'
    BY DEF IInv, Destroy, Destroyed, TypeOK, OwnedOnce, NeverDangling, Destroys
  <1>2. ShownOnce'
    BY DEF IInv, Destroy, Destroyed, TypeOK, ShownOnce, NeverDangling, OwnedOnce, Destroys
  <1>3. OwnedOnce'
    BY DEF IInv, Destroy, Destroyed, TypeOK, ShownOnce, OwnedOnce, NeverDangling, Destroys
  <1>4. NeverDangling'
    BY DEF IInv, Destroy, Destroyed, TypeOK, ShownOnce, NeverDangling, Destroys
  <1>5. AllAccounted'
    BY DEF IInv, Destroy, Destroyed, TypeOK, ShownOnce, AllAccounted, OwnedOnce, Destroys
  <1>6. LostForGood'
    BY DEF IInv, Destroy, Destroyed, TypeOK, OwnedOnce, NeverDangling, Destroys, LostForGood
  <1> QED
    BY <1>1, <1>2, <1>3, <1>4, <1>5, <1>6 DEF IInv

LEMMA DuplicateIInv ==
    ASSUME IInv, NEW k \in Kv, NEW c \in Kv, Duplicate(k, c)
    PROVE  IInv'
  <1>1. PICK o \in Copies(kv[k].key), p \in Copies(kv[k].value) :
            /\ o = p => o = NULL
            /\ kv' = [kv EXCEPT ![c] = [key   |-> Copied(kv[k].key, o),
                                        value |-> Copied(kv[k].value, p)]]
            /\ mine' = mine \cup (({o, p} \ {NULL}) \
                          Owns([key   |-> Copied(kv[k].key, o),
                                value |-> Copied(kv[k].value, p)]))
            /\ heap' = heap \cup ({o, p} \ {NULL})
    BY DEF Duplicate
  <1> USE KeyValueAssumption, FieldCases, OwnsExactly
  <1> DEFINE cp == [key   |-> Copied(kv[k].key, o), value |-> Copied(kv[k].value, p)]
             new == {o, p} \ {NULL}
  <1>2. /\ kv \in [Kv -> KeyValues \cup {NULL}] /\ kv[k] \in KeyValues
        /\ kv[c] = NULL /\ c # k
        /\ new \cap heap = {} /\ new \subseteq Obj
        /\ \A f \in Field : kv[k][f].destroy => kv[k][f].dup
    BY <1>1 DEF IInv, TypeOK, Duplicate, Copies
  <1>3. cp \in KeyValues
    BY <1>2, <1>1 DEF Copied, Copies, KeyValues, Parts
  \* A part of the copy shows a new object, nothing, or what it does not destroy.
  <1>4. ASSUME NEW f \in Field
        PROVE  /\ cp[f].obj \in new \cup {NULL} \/
                     (cp[f].obj = kv[k][f].obj /\ ~ cp[f].destroy /\ ~ kv[k][f].destroy)
    <2>1. CASE f = "key"
      BY <2>1, <1>1, <1>2 DEF Copied, Copies, Field
    <2>2. CASE f = "value"
      BY <2>2, <1>1, <1>2 DEF Copied, Copies, Field
    <2> QED
      BY <2>1, <2>2 DEF Field
  <1>5. cp.key.obj = cp.value.obj =>
            cp.key.obj = NULL \/ (~ cp.key.destroy /\ ~ cp.value.destroy)
    BY <1>1, <1>2 DEF Copied, Copies, IInv, NeverDangling, ShownOnce, Destroys, Field
  <1>6. \A j \in Kv : kv'[j] = IF j = c THEN cp ELSE kv[j]
    BY <1>1, <1>2
  <1>7. mine' = mine \cup (new \ Owns(cp)) /\ heap' = heap \cup new /\ lost' = lost
    BY <1>1 DEF Duplicate
  <1>8. new \subseteq {cp.key.obj, cp.value.obj}
    BY <1>1, <1>2 DEF Copied, Copies
  <1> HIDE DEF cp, new
  <1>11. TypeOK'
    BY <1>1, <1>2, <1>3, <1>7, <1>6 DEF IInv, TypeOK, cp
  <1>12. LostForGood'
    BY <1>2, <1>7 DEF IInv, TypeOK, LostForGood
  <1>13. ShownOnce'
    <2> SUFFICES ASSUME NEW m \in Kv, NEW j \in Kv, NEW f \in Field, NEW g \in Field,
                        Destroys(m, f)', kv'[j] # NULL, kv'[j][g].obj = kv'[m][f].obj
                 PROVE  j = m /\ g = f
      BY DEF ShownOnce
    <2>1. CASE m = c /\ j = c
      BY <2>1, <1>4, <1>5, <1>6 DEF Destroys, Field
    <2>2. CASE m = c /\ j # c
      <3>1. cp[f].obj \in new /\ kv[j] # NULL /\ kv[j][g].obj \notin heap \cup {NULL}
        BY <2>2, <1>2, <1>4, <1>6 DEF Destroys
      <3> QED
        BY <3>1 DEF IInv, NeverDangling
    <2>3. CASE m # c /\ j = c
      <3>1. Destroys(m, f) /\ cp[g].obj = kv[m][f].obj /\ kv[m][f].obj \in heap
        BY <2>3, <1>6 DEF Destroys, IInv, NeverDangling
      <3>2. cp[g].obj = kv[k][g].obj /\ ~ kv[k][g].destroy
        BY <3>1, <1>2, <1>4 DEF Destroys
      <3>3. kv[k] # NULL /\ kv[k][g].obj = kv[m][f].obj
        BY <3>1, <3>2, <1>2
      <3>4. m = k /\ f = g
        BY <3>1, <3>3 DEF IInv, ShownOnce
      <3> QED
        BY <3>1, <3>2, <3>4 DEF Destroys
    <2>4. CASE m # c /\ j # c
      BY <2>4, <1>6 DEF IInv, ShownOnce, Destroys
    <2> QED
      BY <2>1, <2>2, <2>3, <2>4
  <1>14. OwnedOnce'
    <2>a. ASSUME NEW m \in Kv, NEW f \in Field, Destroys(m, f)',
                 NEW j \in Kv, NEW g \in Field, Destroys(j, g)',
                 kv'[j][g].obj = kv'[m][f].obj
          PROVE  j = m /\ g = f
      <3>1. kv'[j] # NULL
        BY <2>a DEF Destroys
      <3> QED
        BY <2>a, <3>1, <1>13 DEF ShownOnce
    <2> SUFFICES ASSUME NEW m \in Kv, NEW f \in Field, Destroys(m, f)'
                 PROVE  kv'[m][f].obj \notin mine' \cup lost'
      BY <2>a DEF OwnedOnce
    <2>1. CASE m = c
      <3>1. cp[f].obj \in new /\ cp[f].obj \in Owns(cp) /\ kv'[m][f].obj = cp[f].obj
        BY <2>1, <1>3, <1>4, <1>6 DEF Destroys
      <3> QED
        BY <3>1, <1>2, <1>7 DEF IInv, TypeOK
    <2>2. CASE m # c
      <3>1. Destroys(m, f) /\ kv'[m][f].obj = kv[m][f].obj
        BY <2>2, <1>6 DEF Destroys
      <3>2. kv[m][f].obj \in heap
        BY <3>1 DEF IInv, NeverDangling, Destroys
      <3> QED
        BY <3>1, <3>2, <1>2, <1>7 DEF IInv, OwnedOnce
    <2> QED
      BY <2>1, <2>2
  <1>15. NeverDangling'
    BY <1>2, <1>4, <1>6, <1>7 DEF IInv, NeverDangling
  <1>16. AllAccounted'
    <2> SUFFICES ASSUME NEW q \in heap', q \notin mine' \cup lost'
                 PROVE  \E m \in Kv, f \in Field : Destroys(m, f)' /\ kv'[m][f].obj = q
      BY DEF AllAccounted
    <2>1. CASE q \in heap
      <3>1. PICK m \in Kv, f \in Field : Destroys(m, f) /\ kv[m][f].obj = q
        BY <2>1, <1>7 DEF IInv, AllAccounted
      <3>2. m # c
        BY <3>1, <1>2 DEF Destroys
      <3> QED
        BY <3>1, <3>2, <1>6 DEF Destroys
    <2>2. CASE q \in new
      <3>1. PICK f \in Field : cp[f].destroy /\ cp[f].obj = q /\ q # NULL
        BY <2>2, <1>3, <1>7
      <3>2. cp # NULL
        BY <1>3
      <3> QED
        BY <3>1, <3>2, <1>6 DEF Destroys
    <2> QED
      BY <2>1, <2>2, <1>7
  <1> QED
    BY <1>11, <1>12, <1>13, <1>14, <1>15, <1>16 DEF IInv

----------------------------------------------------------------------------
LEMMA InitIInv == Init => IInv
  BY DEF Init, IInv, TypeOK, LostForGood, ShownOnce, OwnedOnce, NeverDangling,
         AllAccounted, Destroys

LEMMA NextIInv == IInv /\ [Next]_vars => IInv'
  <1> SUFFICES ASSUME IInv, [Next]_vars
               PROVE  IInv'
    OBVIOUS
  <1>1. CASE Next
    BY <1>1, MakeIInv, UnmakeIInv, CreateIInv, AssignIInv, UnassignIInv, DestroyIInv,
       DuplicateIInv DEF Next
  <1>2. CASE UNCHANGED vars
    BY <1>2 DEF vars, IInv, TypeOK, LostForGood, ShownOnce, OwnedOnce, NeverDangling,
                AllAccounted, Destroys
  <1> QED
    BY <1>1, <1>2

LEMMA AlwaysIInv == Spec => []IInv
  BY InitIInv, NextIInv, PTL DEF Spec

\* Every structure is a vanessa_key_value_t, and nothing is destroyed that the
\* program still has to destroy or has lost (key_value.c 30-37, 81-90).
THEOREM TypeCorrect == Spec => []TypeOK
  <1>1. IInv => TypeOK
    BY DEF IInv
  <1> QED
    BY <1>1, AlwaysIInv, PTL

\* No object is destroyed by two structures, also not by a structure and its
\* duplicate, whichever duplication of a key or value failed (key_value.c 113-120).
THEOREM OwnersAreUnique == Spec => []OwnedOnce
  <1>1. IInv => OwnedOnce
    BY DEF IInv
  <1> QED
    BY <1>1, AlwaysIInv, PTL

\* No structure shows an object that has been destroyed (key_value.c 204-225).
THEOREM NothingDangles == Spec => []NeverDangling
  <1>1. IInv => NeverDangling
    BY DEF IInv
  <1> QED
    BY <1>1, AlwaysIInv, PTL

\* Every allocated object has an owner, or was overwritten by assign
\* (key_value.c 158-163).
THEOREM ObjectsAccounted == Spec => []AllAccounted
  <1>1. IInv => AllAccounted
    BY DEF IInv
  <1> QED
    BY <1>1, AlwaysIInv, PTL
=============================================================================
