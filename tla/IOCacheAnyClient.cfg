SPECIFICATION Spec
CONSTANTS
  Threads = {t1, t2}
  Files = {f1}
  Fds <- TwoFds
  Values <- ZeroOnly
  Junk = Junk
  BLOCK_SIZE = 2
  CACHE_CAPACITY = 2
  FileSize = 3
  Counts = {2}
  Positions = {0, 2}
  Liberties <- AnyClient
  Faults <- AllFaults
  NoThread = NoThread
  NoFile = NoFile
  NoFd = NoFd
  NoBlock = NoBlock
  NoCall = NoCall
  Wild = Wild
SYMMETRY ThreadSymmetry
INVARIANTS
  NoDuplicates
  SizeCounts
