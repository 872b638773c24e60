--------------------------- MODULE HazardProgress ---------------------------
(***************************************************************************)
(* Which garbage goes away.  The threads in Running keep running, close    *)
(* the guards they open and keep calling drain(), as tests/reclaim_test.cpp*)
(* does between its phases; the others may stop for ever anywhere, inside  *)
(* a guard, a scan or their exit.                                          *)
(***************************************************************************)
EXTENDS HazardCells

CONSTANT Running    \* the threads that keep being scheduled

ASSUME RunningAssumption == Running \subseteq Threads

(* Strong fairness where another call of the same thread can intervene.    *)
Fairness ==
  \A t \in Running : /\ WF_vars(ThreadStep(t))
                     /\ SF_vars(CloseGuard(t))
                     /\ SF_vars(AskDrain(t))

FairSpec == Spec /\ Fairness

\* The nodes that have been retired and not deleted.
Garbage == orphans \cup Bagged

\* What the hazard slots of a stalled thread name.
Named == {slot[rec[t]][s] : t \in {u \in Threads \ Running : rec[u] # 0},
                            s \in Slots}

\* The nodes only a stalled thread itself could retire or free.
Kept == UNION {bag[t] \cup {mine[t]} : t \in Threads \ Running}

(* Every unlinked node is retired and deleted in the end, unless a stalled *)
(* thread names it in a hazard slot or still has it itself.                *)
Reclaimed ==
  \A m \in Nodes : (m \in Garbage \cup Unlinked)
                     ~> (m \notin heap \/ m \in Named \cup Kept)

(* What the header says of a stalled thread, "pins only what its own K     *)
(* slots name": every retired node that no slot of a stalled thread names  *)
(* is deleted in the end.                                                  *)
StalledPinsSlotsOnly ==
  \A m \in Nodes : (m \in Garbage) ~> (m \notin heap \/ m \in Named)
=============================================================================
