---------------------------- MODULE MC_MSQueueHP ----------------------------
(* MSQueueHP on small instances.  Threads, values and the nodes other than *)
(* the first dummy are interchangeable.                                    *)
EXTENDS MSQueueHP, TLC

Symmetry == Permutations(Threads) \cup Permutations(Values)
              \cup Permutations(Nodes \ {Dummy})
=============================================================================
