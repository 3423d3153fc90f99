SPECIFICATION Spec
CONSTANTS
  a1 = a1
  a2 = a2
  o1 = o1
  Attempts = {a1, a2}
  Others = {o1}
  None = None
  Documents = 3
  Limit = 2
  Window = 3
  Second = 2
  Ttl = 3
  MaxDelay = 1
  MaxTime = 6
INVARIANTS RateIsBounded ImportedOnce ImportedInOrder
SYMMETRY Alike
CHECK_DEADLOCK FALSE
