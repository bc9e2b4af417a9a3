CONSTANTS
  c1 = c1
  c2 = c2
  p1 = p1
  Null = Null
  Callers = {c1, c2}
  Pre = {p1}
  NumCaches = 3
  Chunks = 1
  Ids = {1, 2, 3, 4, 5, 6}
  MaxTip = 3
  MaxFaults = 1
SPECIFICATION Spec
INVARIANTS ServesComplete InUseIsCached
PROPERTIES SemaphoreReturns
CHECK_DEADLOCK TRUE
