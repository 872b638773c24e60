SPECIFICATION Spec
CONSTANTS
  Threads = {t1, t2, t3}
  Values = {v1, v2}
  None = None
  Moved = Moved
  Capacity = 2
INVARIANTS TypeOK MutualExclusion
PROPERTIES OpsReturn Linearizable
