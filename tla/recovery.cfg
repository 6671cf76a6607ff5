SPECIFICATION FairSpec
CONSTANTS
  MaxSlot = 3
  MaxForks = 1
  NumProviders = 2
  NumEmergency = 1
  NumRetries = 2
  StartSlot = 1
  BatchSize = 2
  UpsertWorks = TRUE
  MaxFaults = 1
  MaxRuns = 2
INVARIANTS TypeOK CheckedBlocksFresh StaleOnlyIfLost
PROPERTY RecoveryReturns
CHECK_DEADLOCK FALSE
