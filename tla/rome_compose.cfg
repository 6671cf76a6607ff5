SPECIFICATION FairSpec
CONSTANTS
  c1 = c1
  c2 = c2
  c3 = c3
  Tasks = {t1, t2}
  ChainIds = {c1, c2, c3}
  Rollups = {c1, c2}
  NumItems = 3
  Jobs <- CrossJobs
  BatchLimit = 2
  MaxChunks = 3
  MaxIterations = 2
  MaxCalls = 1
  TableParts = 2
  MaxLate = 1
PROPERTIES ImplementsPool EveryTaskEnds
CHECK_DEADLOCK FALSE
