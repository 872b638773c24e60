SPECIFICATION Spec
CONSTANTS
  ThreadCounts = {1, 2, 3, 4}
  Ratios <- MCRatios
  Ops = 2
  UMod = 16
INVARIANTS StartLine AllCounted
PROPERTIES TrialEnds
CHECK_DEADLOCK FALSE
