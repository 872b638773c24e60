--------------------------- MODULE MC_HazardAlloc ---------------------------
(* HazardAlloc on small instances.  Threads are interchangeable, and so    *)
(* are nodes.                                                              *)
EXTENDS HazardAlloc, TLC

Symmetry == Permutations(Threads) \cup Permutations(Nodes)
=============================================================================
