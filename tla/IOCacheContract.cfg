SPECIFICATION FairSpec
CONSTANTS
  Threads = {t1, t2}
  Files = {f1}
  Fds <- OneFd
  Values <- ZeroOne
  Junk = Junk
  BLOCK_SIZE = 2
  CACHE_CAPACITY = 1
  FileSize = 3
  Counts = {1, 3}
  Positions = {0, 1, 2, 3, 4}
  Liberties <- CarefulClients
  Faults <- SafeFaults
  NoThread = NoThread
  NoFile = NoFile
  NoFd = NoFd
  NoBlock = NoBlock
  NoCall = NoCall
  Wild = Wild
INVARIANTS
  NoOrphans
PROPERTIES
  SyncReachesDisk
  ContractSpec
  LockReleased
