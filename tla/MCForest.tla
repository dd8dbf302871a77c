------------------------------ MODULE MCForest ------------------------------
(* Small forests for TLC. *)
EXTENDS Forest, TLC

CONSTANT Odd    \* nodes with a value of their own

OddValue == [n \in Nodes |-> IF n \in Odd THEN "odd" ELSE "even"]

Symmetry == Permutations(Odd) \cup Permutations(Nodes \ Odd) \cup Permutations(Forests)
=============================================================================
