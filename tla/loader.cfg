SPECIFICATION FairSpec
CONSTANTS
  MaxSlot = 3
  MaxForks = 1
  StartSlot = 1
  BatchSize = 2
  MaxLag = 0
  MaxFaults = 2
  FaultPoints <- AllPoints
  UpsertWorks = FALSE
INVARIANTS TypeOK NoGaps
PROPERTY EverySlotLoaded
