SPECIFICATION Spec
CONSTANTS
  Pixels <- MCPixels
  Filler = Filler
  BYTES_COUNT = 3
  SizeMod = 128
  Sources <- FourWide
  Angles <- ListedAngles
  Faults <- NoFaults
  NoImage = NoImage
  NoFile = NoFile
  Opened = Opened
  Forever = Forever
INVARIANT InBounds
CHECK_DEADLOCK FALSE
