SPECIFICATION HPSpec
CONSTANTS
  Threads = {t1, t2}
  Values = {v1, v2}
  Nodes = {d, a, b}
  Dummy = d
  Null = Null
  NoValue = NoValue
  K = 2
  MaxRecords = 2
  ScanMin = 1
  ScanFactor = 0
  MaxRetired = 3
SYMMETRY Symmetry
INVARIANTS HPTypeOK StillCorrect UseAllocated NodesAccounted
PROPERTIES FreedUnused Linearizable
CHECK_DEADLOCK FALSE
