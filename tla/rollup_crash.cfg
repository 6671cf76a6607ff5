SPECIFICATION FairSpec
CONSTANTS
  MaxSlot = 4
  Count <- OneBlock
  StartSlot = 1
  BatchSize = 2
  MaxReorgs = 0
  MaxQueued = 1
  MaxFaults = 2
  Faults <- AllFaults
  Orphans = FALSE
  Gaps = FALSE
  UpsertWorks = TRUE
INVARIANTS TypeOK RegisteredAsBuilt OneBlockPerNumber StorageFollowsProducer NoSlotLost ReceiptsStored
PROPERTIES FinalityNeverReverted EverySlotProduced
