SPECIFICATION RecoverySpec
CONSTANTS
  MaxLines = 4
  BufferSize = 2
  MaxFailures = 0
  MaxRuns = 1
INVARIANTS
  CountIsRight
CHECK_DEADLOCK FALSE
