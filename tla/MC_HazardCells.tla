--------------------------- MODULE MC_HazardCells ---------------------------
(* HazardCells on small instances.  Threads are interchangeable, and so    *)
(* are nodes.                                                              *)
EXTENDS HazardCells, TLC

Symmetry == Permutations(Threads) \cup Permutations(Nodes)
=============================================================================
