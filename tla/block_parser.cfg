SPECIFICATION Spec
CONSTANTS
  hb = hb
  hs = hs
  hd = hd
  r1 = r1
  r2 = r2
  Hashes = {hb, hs, hd}
  NumChunks = 2
  Results = {r1, r2}
  Chain = c1
  OtherChain = c2
  Contents <- BlockContents
  MaxSlot = 7
  Prior <- ChunksBefore
  SkippedSlots = {1, 3, 4}
  StartSlot = 2
  MaxParseBehind = 2
  MaxSlotHistory = 1
  BatchSize = 1
  MaxUpdates = 1
  MaxQueued = 1
  MaxRestarts = 1
INVARIANTS TypeOK ParsedAsStored StopsOnlyWithoutData
CHECK_DEADLOCK FALSE
