------------------------------ MODULE MCQueue ------------------------------
(* Instances of Queue for TLC, and what its documentation says of destroying. *)
EXTENDS Queue, TLC

Symmetry == Permutations(Cell)

\* "queue and all elements in the vanessa_queue are destroyed" (queue.c 232-233):
\* what the callback is given are elements.
ElementsDestroyed == destroyed \subseteq Value
=============================================================================
