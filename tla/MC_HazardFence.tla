--------------------------- MODULE MC_HazardFence ---------------------------
(* HazardFence with two protectors and two retirers, in three settings.    *)
EXTENDS HazardFence, TLC

CONSTANTS r1, r2

Plan(opens, deq, leave, n1, drain) ==
  [rounds |-> opens, dequeuers |-> deq, leavers |-> leave,
   unlinks |-> r1 :> n1 @@ r2 :> 0, drainers |-> drain]

MCPlans == {
  Plan(<<2, 0>>, {1}, {}, 2, {}),   \* two dequeues against two unlinks
  Plan(<<1, 1>>, {}, {1}, 1, {}),   \* a record that changes hands
  Plan(<<1, 0>>, {}, {}, 1, {r2})}  \* an orphan that another thread adopts
=============================================================================
