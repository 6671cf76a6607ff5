SPECIFICATION Spec
CONSTANTS
  MaxSlot = 2
  Deposits = {7}
  Outcomes <- SomeOutcomes
  Orders <- SomeOrders
  Cuts = {4}
  MaxTxs = 3
INVARIANTS ReportedAsExecuted BlocksPartitionSlot HashesUnique
CHECK_DEADLOCK FALSE
