------------------------------ MODULE KeyValue ------------------------------
(***************************************************************************)
(* key_value.c: a program with a few vanessa_key_value_t's, and the        *)
(* objects that their keys and values point to.  A key and a value are     *)
(* treated alike: each is a part, an object with its two callbacks.        *)
(*                                                                         *)
(* What can go wrong is who destroys an object.  The program owns those it *)
(* has made; assign with a destroy function hands them over, and unassign  *)
(* gives them back.                                                        *)
(***************************************************************************)
EXTENDS Integers

CONSTANTS
    Kv,           \* the structures there is memory for
    Obj,          \* the objects there is memory for
    NULL

VARIABLES
    kv,           \* the structures, NULL for one that is not allocated
    heap,         \* the objects that are allocated
    mine,         \* the objects that the program has to destroy
    lost          \* the objects that nobody will destroy any more

vars == <<kv, heap, mine, lost>>

\* destroy and dup say whether the callback is not NULL.
Parts == [obj : Obj \cup {NULL}, destroy : BOOLEAN, dup : BOOLEAN]

KeyValues == [key : Parts, value : Parts]

ASSUME KeyValueAssumption == NULL \notin Obj \cup KeyValues

Field == {"key", "value"}

NullPart == [obj |-> NULL, destroy |-> FALSE, dup |-> FALSE]

Unassigned == [key |-> NullPart, value |-> NullPart]

\* The objects that x destroys with it
Owns(x) == {x[f].obj : f \in {g \in Field : x[g].destroy}} \ {NULL}

\* Mutant: the callbacks are not asked for.
DestroyedAlways(x) == {x[f].obj : f \in Field} \ {NULL}

\* Mutant: the value is forgotten.
DestroyedKey(x) == IF x.key.destroy THEN {x.key.obj} \ {NULL} ELSE {}

\* The objects that vanessa_key_value_destroy gives to the callbacks.  A callback
\* may also be given NULL, which changes nothing.
Destroyed(x) == Owns(x)

\* Mutant: the copy of a part points to the same object, whatever dup is.
CopiedPointer(p, o) == p

\* cp's part for p of kv, when dup returns o, which is NULL when it fails.
Copied(p, o) ==
    IF p.dup /\ p.obj # NULL THEN [p EXCEPT !.obj = o] ELSE p

\* The results of dup for p
Copies(p) == IF p.dup /\ p.obj # NULL THEN (Obj \ heap) \cup {NULL} ELSE {NULL}

RefersTo(x, o) == x # NULL /\ \E f \in Field : x[f].obj = o

----------------------------------------------------------------------------
Init ==
    /\ kv = [k \in Kv |-> NULL]
    /\ heap = {}
    /\ mine = {}
    /\ lost = {}

\* The program makes an object,
Make(o) ==
    /\ o \notin heap
    /\ heap' = heap \cup {o}
    /\ mine' = mine \cup {o}
    /\ UNCHANGED <<kv, lost>>

\* and destroys one it owns, when no structure shows it any more.
Unmake(o) ==
    /\ o \in mine
    /\ \A k \in Kv : ~ RefersTo(kv[k], o)
    /\ heap' = heap \ {o}
    /\ mine' = mine \ {o}
    /\ UNCHANGED <<kv, lost>>

Create(k) ==
    /\ kv[k] = NULL
    /\ kv' = [kv EXCEPT ![k] = Unassigned]
    /\ UNCHANGED <<heap, mine, lost>>

\* vanessa_key_value_assign(x.key, x.value) with what the program owns, each object
\* handed over at most once, and not while another structure shows it.  What
\* the structure owned before is overwritten.
Assign(k, x) ==
    /\ kv[k] # NULL
    /\ \A f \in Field : x[f].obj \in mine \cup {NULL}
    /\ x.key.obj = x.value.obj => Owns(x) = {}
    /\ \A o \in Owns(x), j \in Kv \ {k} : ~ RefersTo(kv[j], o)
    /\ kv' = [kv EXCEPT ![k] = x]
    /\ mine' = mine \ Owns(x)
    /\ lost' = lost \cup Owns(kv[k])
    /\ UNCHANGED heap

\* The program has its objects back.
Unassign(k) ==
    /\ kv[k] # NULL
    /\ kv' = [kv EXCEPT ![k] = Unassigned]
    /\ mine' = mine \cup Owns(kv[k])
    /\ UNCHANGED <<heap, lost>>

\* The program duplicates only what destroys no object it cannot duplicate: the
\* duplicate would destroy the same one.  A copy that the structure does not
\* destroy is the program's.
Duplicate(k, c) ==
    /\ kv[k] # NULL
    /\ kv[c] = NULL
    /\ \A f \in Field : kv[k][f].destroy => kv[k][f].dup
    /\ \E o \in Copies(kv[k].key), p \in Copies(kv[k].value) :
          /\ o = p => o = NULL
          /\ LET cp == [key   |-> Copied(kv[k].key, o),
                        value |-> Copied(kv[k].value, p)]
             IN  /\ kv' = [kv EXCEPT ![c] = cp]
                 /\ mine' = mine \cup (({o, p} \ {NULL}) \ Owns(cp))
          /\ heap' = heap \cup ({o, p} \ {NULL})
    /\ UNCHANGED lost

Destroy(k) ==
    /\ kv[k] # NULL
    /\ heap' = heap \ Destroyed(kv[k])
    /\ kv' = [kv EXCEPT ![k] = NULL]
    /\ UNCHANGED <<mine, lost>>

Next ==
    \/ \E o \in Obj : Make(o) \/ Unmake(o)
    \/ \E k \in Kv : Create(k) \/ Unassign(k) \/ Destroy(k)
    \/ \E k \in Kv, x \in KeyValues : Assign(k, x)
    \/ \E k \in Kv, c \in Kv : Duplicate(k, c)

Spec == Init /\ [][Next]_vars

----------------------------------------------------------------------------
\* The fields of every structure are set, and no object is destroyed that
\* somebody else still has to destroy (key_value.c 30-37, 81-90).
TypeOK ==
    /\ kv \in [Kv -> KeyValues \cup {NULL}]
    /\ heap \in SUBSET Obj
    /\ mine \in SUBSET heap
    /\ lost \in SUBSET heap

\* Destroying structure k destroys the object of its part f.
Destroys(k, f) == kv[k] # NULL /\ kv[k][f].destroy /\ kv[k][f].obj # NULL

\* An object has one owner: no two parts destroy the same one, in one structure
\* or in a structure and its duplicate, and the program destroys none of them
\* (key_value.c 81-90, 113-120).
OwnedOnce ==
    \A k \in Kv, f \in Field :
        Destroys(k, f) =>
            /\ kv[k][f].obj \notin mine \cup lost
            /\ \A j \in Kv, g \in Field :
                  Destroys(j, g) /\ kv[j][g].obj = kv[k][f].obj => j = k /\ g = f

\* What vanessa_key_value_get_key and _get_value return is allocated, also for
\* structures that share an object which none of them destroys (key_value.c
\* 204-225).
NeverDangling ==
    \A k \in Kv, f \in Field : kv[k] # NULL => kv[k][f].obj \in heap \cup {NULL}

\* An object that is allocated has somebody to destroy it, unless assign has
\* overwritten it (key_value.c 158-163): destroy, duplicate, also where it fails,
\* and unassign leave nothing behind.
AllAccounted ==
    \A o \in heap \ (mine \cup lost) :
        \E k \in Kv, f \in Field : Destroys(k, f) /\ kv[k][f].obj = o
=============================================================================
