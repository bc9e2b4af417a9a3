CONSTANTS
  i1 = i1
  Null = Null
  Idle = {i1}
  BaseDiff = 2
  MinDiff = 1
  MaxDiff = 3
  MaxDelta = 2
  TargetTime = 1
  TMin = 1
  TMax = 1
  RetargetTime = 1
  BufferSize = 1
  Asked = {3}
  NetworkDiffs = {2, 4}
  MaxAge = 3
  MaxEvents = 3
SPECIFICATION FairSpec
PROPERTIES IdleNeverRaises
CHECK_DEADLOCK TRUE
