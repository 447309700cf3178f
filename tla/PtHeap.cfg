SPECIFICATION Spec
CONSTANTS
  NULL = NULL
  PageSize = 8
  BrkLimit = 70
  MmapFloor = 72
  MmapTop = 120
  MinLargeSize = 10
  LargeWidth = 4
  NBINS = 8
  MAX_FAST_SIZE = 7
  TCACHE_MAX_BINS = 2
  MmapAsMorecoreSize = 16
  TcacheBytes = 3
  ConsolidationThreshold = 16
  MmapThresholdMax = 40
  WordMod = 512
  FirstBrk = 8
  Histories <- MCHistories
  MaxCalls = 3
  Params <- MCParams
  Sizes <- MCSizes
  FewSizes <- MCFewSizes
  Alignments <- MCAlignments
  Settings <- MCSettings
  Pads = {0}
  ForeignSizes = {2, 8}
CHECK_DEADLOCK FALSE
INVARIANTS
  ChunksAreSound
  ChunksTileMemory
  ChunksInOnePlace
  GrowsOnlyWhenFull
  CallsKeepTheirPromise
  TrimSparesObjects
  StatisticsAddUp
PROPERTIES
  KeepsContract
