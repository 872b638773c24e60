SPECIFICATION Spec
CONSTANTS
  Threads = {t1, t2, t3}
  Values = {v1, v2}
  Nodes = {d, a, b, c}
  Dummy = d
  Null = Null
  NoValue = NoValue
SYMMETRY Symmetry
INVARIANTS TypeOK ListInv DerefSafe QuiescedTail DtorInv IInv
PROPERTIES LinkedOnce Linearizable
CHECK_DEADLOCK FALSE
