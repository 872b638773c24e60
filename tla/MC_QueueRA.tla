----------------------------- MODULE MC_QueueRA -----------------------------
(* QueueRA with two producers and two consumers, in four settings.        *)
EXTENDS QueueRA, TLC

CONSTANTS p1, p2, c1, c2

Setup(k1, k2, cs, bound) ==
  [K |-> p1 :> k1 @@ p2 :> k2, consumers |-> cs, hp |-> bound > 0,
   writes |-> bound]

MCSetups == {
  Setup(1, 1, {c1, c2}, 0),  \* queue_suite<bug_none, 2, 2, 1>
  Setup(2, 0, {c1, c2}, 0),  \* two values whose order must be kept
  Setup(1, 1, {c1}, 2),      \* over hazard pointers, an operation each
  Setup(2, 0, {c1}, 4)}      \* and until everything is consumed
=============================================================================
