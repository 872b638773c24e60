SPECIFICATION AllocSpec
CONSTANTS
  Threads = {t1, t2}
  Nodes = {a, b}
  Null = Null
  K = 2
  MaxRecords = 2
  ScanMin = 1
  ScanFactor = 2
  Cells = {c1}
  MaxRetired = 2
  MaxFaults = 2
SYMMETRY Symmetry
INVARIANTS MemorySafe
CHECK_DEADLOCK FALSE
