--------------------------- MODULE MCDynamicArray ---------------------------
(* Instances of DynamicArray for TLC.                                       *)
EXTENDS DynamicArray

\* The text of every element has two characters.
MCLength == [e \in Elem |-> 2]
=============================================================================
