SPECIFICATION RecoverySpec
CONSTANTS
  MaxLines = 5
  BufferSize = 2
  MaxFailures = 2
  MaxRuns = 2
INVARIANTS
  NothingDropped
  CleanRunImportsOnce
  ImportedOnce
CHECK_DEADLOCK FALSE
