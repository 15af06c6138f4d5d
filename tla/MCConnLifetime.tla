--------------------------- MODULE MCConnLifetime ---------------------------
(* ConnLifetime on small instances: model values and their symmetry.       *)
EXTENDS ConnLifetime, TLC

(* Connections, descriptors and loops are interchangeable for safety.      *)
Symmetry == Permutations(Conns) \cup Permutations(Fds) \cup Permutations(Loops)
=============================================================================
