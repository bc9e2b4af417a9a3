SPECIFICATION FairSpec
CONSTANTS
  c1 = c1
  a = a
  b = b
  Clients = {c1}
  Branches = {a, b}
  MaxHeight = 2
  MaxActiveJobs = 2
  IdLimit = 4
  NoJob = NoJob
  Failed = Failed
  MaxMoves = 1
  MaxErrors = 1
  MaxBreaks = 1
  MaxQueue = 1
INVARIANTS
  TypeOK
  ActiveJobs
  NoJobOutlivesItsBlock
PROPERTIES
  EventuallyCurrent
CHECK_DEADLOCK FALSE
