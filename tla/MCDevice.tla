------------------------------ MODULE MCDevice ------------------------------
(***************************************************************************)
(* Two processes on one machine; what is generated is interchangeable.     *)
(***************************************************************************)
EXTENDS Device, TLC

CONSTANT old

Symmetry == Permutations(Processes) \cup Permutations(Pairs \ {old})
              \cup Permutations(Prints) \cup Permutations(Values)
=============================================================================
