SPECIFICATION FairSpec
CONSTANTS
  Threads = {t1, t2}
  Running = {t1}
  Nodes = {a, b}
  Null = Null
  K = 1
  MaxRecords = 3
  ScanMin = 1
  ScanFactor = 2
  Cells = {c1}
  MaxRetired = 2
PROPERTIES Reclaimed
CHECK_DEADLOCK FALSE
