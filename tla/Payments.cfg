SPECIFICATION FairSpec
CONSTANTS
  NumBlocks = 2
  BlockReward <- MCBlockReward
  Miners = {"m1", "m2"}
  Recipients <- MCRecipients
  Percentage <- MCPercentage
  PoolAddress = "pool"
  MinimumPayment = 1
  Unit = 4
  WalletEncrypted = TRUE
  HasPassword = TRUE
  RetryCount = 1
  MaxFaults = 2
INVARIANTS
  TypeOK
  CreditedOnce
  MemoryIsCurrent
  BooksBalance
  RoundingDrift
  NoMoneyFromNothing
PROPERTIES
  ImplementsLedger
  EventuallySettled
  EventuallyPaid
