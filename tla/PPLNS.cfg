SPECIFICATION FairSpec
CONSTANTS
  NumShares = 5
  Shares <- MCShares
  Miners = {"m1", "m2"}
  Miner <- MCMiner
  Score <- MCScore
  Created <- MCCreated
  Blocks = {1, 2}
  NoBlock = 0
  BlockCreated <- MCBlockCreated
  Window = 3
  RewardPerScore = 1
  PageSize = 2
  MaxFaults = 1
INVARIANTS
  MatchesReference
  SkipsOnlyTies
  Proportional
PROPERTIES
  DeletionSparesLaterBlocks
  WalkTerminates
CHECK_DEADLOCK FALSE
