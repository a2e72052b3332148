-------------------------- MODULE MCPrintDelivery --------------------------
(* Model-checking instances of PrintDelivery. *)
EXTENDS PrintDelivery, TLC

\* Dispatches and gather's coroutines are interchangeable.
Symmetry == Permutations(Dispatches) \cup Permutations(Tasks)
=============================================================================
