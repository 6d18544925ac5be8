SPECIFICATION Spec
CONSTANTS
  WordBits = 16
  IntBits = 16
  PageSize = 32
  Granularity = 32
  MStateSize = 48
  CallocMask = 255
  SMALLBIN_SHIFT = 3
  NSMALLBINS = 8
  TREEBIN_SHIFT = 6
  NTREEBINS = 8
  Threads = {t1}
  Requests = {30, 60, 180, 65410}
  Alignments = {64}
  Memory = 17
  Pages <- MCPages
  MmapThreshold = 64
  MaxLive = 2
INVARIANTS MappingsAccounted BlocksFit
