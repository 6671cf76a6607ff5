SPECIFICATION Spec
CONSTANTS
  MaxSlot = 4
  Count <- MixedBlocks
  StartSlot = 1
  BatchSize = 2
  MaxReorgs = 0
  MaxQueued = 1
  MaxFaults = 0
  Faults <- NoFaults
  Orphans = TRUE
  Gaps = TRUE
  UpsertWorks = FALSE
INVARIANTS ProducedFormOneChain NoSlotLost FinalizedOnFinalBranch
