SPECIFICATION Spec
CONSTANTS
  Threads = {t1, t2}
  Blocks <- MCBlocks
  Usable <- MCUsable
  CacheMaxBins = 2
  MaxFreeSpace = 128
  WordBits = 16
  Requests = {1, 33, 64}
  Counts = {2}
INVARIANTS CachesSound BlocksServe AssertionsHold
PROPERTIES OldestGoFirst
