SPECIFICATION FairSpec
CONSTANTS
  Shares = {1, 2, 3}
  Candidates = {2}
  BufferCount = 2
  RetryCount = 1
  BreakAfter = 2
  MaxOutages = 2
  MaxLosses = 1
INVARIANTS
  TypeOK
  NoSilentLoss
  NoDuplicates
  BlockWithShare
PROPERTIES
  EventuallyRecorded
CHECK_DEADLOCK FALSE
