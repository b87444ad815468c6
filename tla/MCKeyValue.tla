----------------------------- MODULE MCKeyValue -----------------------------
(* Instances of KeyValue for TLC: structures and objects are alike.         *)
EXTENDS KeyValue, TLC

Symmetry == Permutations(Kv) \cup Permutations(Obj)
=============================================================================
