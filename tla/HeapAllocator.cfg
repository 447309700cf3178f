SPECIFICATION FairSpec
CONSTANTS
  Header = 1
  BLOCK_MIN_CAPACITY = 2
  PageSize = 4
  REGION_MIN_SIZE = 8
  AddrLimit = 28
  SizeMod = 64
  HEAP_START = 12
  InitSizes <- MCInitSizes
  Queries <- MCQueries
  ForeignPages <- MCForeignPages
INVARIANTS
  NoOverlap
  BlocksFillRegions
  UsedIffHeld
  AllReachable
  GrowOnlyWhenExhausted
  TermReleasesRegions
PROPERTIES
  ContractSpec
  CallReturns
