----------------------------- MODULE MC_MSQueue -----------------------------
(* MSQueue on small instances.  Threads, values and the nodes other than   *)
(* the dummy are interchangeable.                                          *)
EXTENDS MSQueueInv, TLC

Symmetry == Permutations(Threads) \cup Permutations(Values)
              \cup Permutations(Nodes \ {Dummy})
=============================================================================
