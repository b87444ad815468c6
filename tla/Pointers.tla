------------------------------ MODULE Pointers ------------------------------
(***************************************************************************)
(* What every module with pointers has in common.                          *)
(***************************************************************************)
CONSTANT NULL     \* the null pointer
=============================================================================
