SPECIFICATION Spec
CONSTANTS
  Threads = {t1}
  Files = {f1}
  Fds <- OneFd
  Values <- ZeroOnly
  Junk = Junk
  BLOCK_SIZE = 3
  CACHE_CAPACITY = 1
  FileSize = 1
  Counts = {1}
  Positions = {0, 2}
  Liberties <- BeyondEnd
  Faults <- NoFaults
  NoThread = NoThread
  NoFile = NoFile
  NoFd = NoFd
  NoBlock = NoBlock
  NoCall = NoCall
  Wild = Wild
INVARIANT ReadsFileData
