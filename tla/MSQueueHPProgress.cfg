SPECIFICATION FairSpec
CONSTANTS
  Threads = {t1, t2}
  Running = {t1}
  Values = {v1}
  Nodes = {d, a, b}
  Dummy = d
  Null = Null
  NoValue = NoValue
  K = 2
  MaxRecords = 2
  ScanMin = 1
  ScanFactor = 0
  MaxRetired = 2
PROPERTIES RunningCallsReturn
CHECK_DEADLOCK FALSE
