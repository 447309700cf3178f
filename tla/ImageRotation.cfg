SPECIFICATION FairSpec
CONSTANTS
  Pixels <- MCPixels
  Filler = Filler
  BYTES_COUNT = 3
  SizeMod = 128
  Sources <- MCSources
  Angles <- MCAngles
  Faults <- AllFaults
  NoImage = NoImage
  NoFile = NoFile
  Opened = Opened
  Forever = Forever
INVARIANTS
  OutputIsTurned
  OutputReadsBack
  InBounds
  ArraysFreed
PROPERTY
  Terminates
CHECK_DEADLOCK FALSE
