-------------------------- MODULE MCPriorityQueue --------------------------
(* Six keys: the smallest heap in which the last node may belong above the  *)
(* parent of the place it is moved to.  Keys are interchangeable.           *)
EXTENDS PriorityQueue, TLC

CONSTANTS k1, k2, k3, k4, k5, k6

MCKeys == {k1, k2, k3, k4, k5, k6}
MCPriorities == {-1, 0, 1}
MCSymmetry == Permutations(MCKeys)
=============================================================================
