SPECIFICATION FairSpec
CONSTANTS
  Names <- MCNames
  Target = code
  code = code
  data = data
  Unreadable = Unreadable
  NoPage = NoPage
  OwnPage = OwnPage
  NoSection = NoSection
  PageSize = 2
  LastPage = 4
  WordMod = 16
  Files <- MCFiles
  Own <- MCOwn
CHECK_DEADLOCK FALSE
INVARIANTS
  SegmentsLoaded
  SharedPagesAreRefused
  EntersTheSection
PROPERTIES
  Decides
