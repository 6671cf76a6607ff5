SPECIFICATION Spec
CONSTANTS
  c1 = c1
  c2 = c2
  c3 = c3
  Tasks = {t1, t2}
  ChainIds = {c1}
  Rollups = {c1}
  NumItems = 1
  Jobs <- AllShapes
  BatchLimit = 2
  MaxChunks = 3
  MaxIterations = 2
  MaxCalls = 2
  TableParts = 2
  MaxLate = 1
INVARIANTS TypeOK OkMeansExecuted PanicMeansExecuted HolderWholeWhenExecuted TableReadyWhenUsed
SYMMETRY TaskSymmetry
CHECK_DEADLOCK FALSE
