CONSTANTS
  p1 = p1
  p2 = p2
  c1 = c1
  c2 = c2
  Producers = {p1, p2}
  Consumers = {c1, c2}
  Setups <- MCSetups
  Dummy = dummy
  Null = Null
SPECIFICATION Spec
CHECK_DEADLOCK FALSE
INVARIANTS Published ExactlyOnceInOrder Drained UseSafe
