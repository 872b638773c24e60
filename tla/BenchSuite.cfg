SPECIFICATION Spec
CONSTANTS
  W = 4
  Tokens = {0, 1, 2, 17}
  MaxTokens = 2
  Counts = {0, 1, 2, 3, 4, 5}
  Queues = {"ms", "other"}
INVARIANTS OneRowPerRep NearestRank
CHECK_DEADLOCK FALSE
