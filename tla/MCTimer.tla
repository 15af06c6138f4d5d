------------------------------ MODULE MCTimer ------------------------------
(* Timer with interchangeable nodes.                                       *)
EXTENDS Timer, TLC

Symmetry == Permutations(Nodes)
=============================================================================
