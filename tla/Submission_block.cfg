SPECIFICATION Spec
CONSTANTS
  Clients = {c1, c2}
  b1 = b1
  b1Capitals = b1Capitals
  b1Zero = b1Zero
  s1 = s1
  b2 = b2
  junk = junk
  x1 = x1
  x2 = x2
  Contents = {b1, b1Capitals, b1Zero, s1, b2, junk}
  Keys = {b1, b1Zero, s1, b2, junk}
  Headers = {b1, s1, b2, junk}
  ExtraNonces = {x1, x2}
  KeyOf <- MCKeyOf
  HeaderOf <- MCHeaderOf
  JobOf <- MCJobOf
  NonceOf <- MCNonceOf
  GradeOf <- MCGradeOf
  MaxJobs = 2
  CheckThreshold = 1
  InvalidPercent = 60
  BanningEnabled = TRUE
  MaxRequests = 2
  MaxFaults = 0
  MaxBreaks = 1
INVARIANTS
  AcceptedBlockIsRecorded
CHECK_DEADLOCK FALSE
