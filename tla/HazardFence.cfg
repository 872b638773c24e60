CONSTANTS
  NProtectors = 2
  r1 = r1
  r2 = r2
  Retirers = {r1, r2}
  Plans <- MCPlans
SPECIFICATION Spec
CHECK_DEADLOCK FALSE
INVARIANTS UseSafe FreeHappensAfter StoresInOrder
