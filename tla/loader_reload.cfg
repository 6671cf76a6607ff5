SPECIFICATION Spec
CONSTANTS
  MaxSlot = 3
  MaxForks = 1
  StartSlot = 1
  BatchSize = 2
  MaxLag = 0
  MaxFaults = 0
  FaultPoints <- AllPoints
  UpsertWorks = FALSE
INVARIANT ChangedBlocksReloaded
