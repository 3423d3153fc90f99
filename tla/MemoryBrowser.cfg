SPECIFICATION Spec
CONSTANTS
  p1 = p1
  p2 = p2
  Paths = {p1, p2}
  First = p1
  Places = 2
  None = None
  MaxPieces = 2
  MaxClicks = 3
  MaxOutside = 2
INVARIANTS ViewIsOneDocument ShownIsOwn AppendedOnce SavingIsAwaited
PROPERTIES NoBlindOverwrite RetryIsNoConflict
