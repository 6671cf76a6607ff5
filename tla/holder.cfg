SPECIFICATION FairSpec
CONSTANTS
  Tasks = {t1, t2, t3}
  N = 2
  MaxUses = 2
INVARIANTS TypeOK BitsAreOwned
PROPERTIES ImplementsPool EveryRequestServed
CHECK_DEADLOCK FALSE
