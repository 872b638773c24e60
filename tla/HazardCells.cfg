SPECIFICATION Spec
CONSTANTS
  Threads = {t1, t2, t3}
  Nodes = {a, b}
  Null = Null
  K = 1
  MaxRecords = 4
  ScanMin = 1
  ScanFactor = 2
  Cells = {c1}
  MaxRetired = 2
SYMMETRY Symmetry
INVARIANTS TypeOK NoUseAfterFree OneOwner BooksBalance
INVARIANTS RecordsExclusive RecordsBounded BagBounded
CHECK_DEADLOCK FALSE
