SPECIFICATION Spec
CONSTANTS
  MaxSlot = 4
  MaxForks = 1
  StartSlot = 1
  BatchSize = 2
  MaxLag = 1
  MaxFaults = 1
  FaultPoints <- AllPoints
  UpsertWorks = TRUE
INVARIANT FinalizedRowsFresh
PROPERTY RowsOnlyGrow
