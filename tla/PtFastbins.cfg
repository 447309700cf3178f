SPECIFICATION FairSpec
CONSTANTS
  s1 = s1
  s2 = s2
  s3 = s3
  l1 = l1
  Threads = {t1, t2}
  NoThread = NoThread
  Chunks = {s1, s2, s3, l1}
  NFASTBINS = 2
  Index <- MCIndex
  NULL = NULL
  Garbage = Garbage
  tcache_count = 1
  Starts <- MCStarts
  MaxCalls = 2
CHECK_DEADLOCK FALSE
INVARIANT EveryChunkOnce
PROPERTIES
  CallsReturn
  BinsAreStacks
