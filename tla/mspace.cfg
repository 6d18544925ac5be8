SPECIFICATION MCSpec
CONSTANTS
  WordBits = 14
  IntBits = 14
  PageSize = 32
  Granularity = 256
  MStateSize = 48
  CallocMask = 127
  SMALLBIN_SHIFT = 3
  NSMALLBINS = 8
  TREEBIN_SHIFT = 6
  NTREEBINS = 8
  Width = 8
  Threads = {t1, t2}
  Requests = {20, 40, 88, 130, 150}
  Alignments = {64}
  Batches <- Batch
  Pads = {0, 16383}
  Memory = 4
  Bases <- MCBases
  TrimThreshold = 200
  ReleaseRate = 2
  MaxLive = 3
INVARIANTS MallocStateOK MemoryAccounted BlocksLongEnough BestFit SizesFit BinsAgree
PROPERTIES SystemAskedLast ImplementsHeap
CHECK_DEADLOCK FALSE
