SPECIFICATION Spec
CONSTANTS
  MaxSlot = 3
  Count <- OneBlock
  StartSlot = 1
  BatchSize = 2
  MaxReorgs = 2
  MaxQueued = 2
  MaxFaults = 2
  Faults <- AllFaults
  Orphans = FALSE
  Gaps = FALSE
  UpsertWorks = TRUE
INVARIANTS ProducedFormOneChain StorageFollowsProducer StaleOnlyIfMissed
