SPECIFICATION AsmFairSpec
CONSTANTS
  SIZE = 4
  WORD = 2
  Words <- MCWords
  Typed <- MCTyped
  NUL = "nul"
  SPACE = "space"
  TAB = "tab"
  NEWLINE = "newline"
  ReturnAddress = 1
  Bytes = {"a", "b", "space", "newline", "nul"}
CHECK_DEADLOCK FALSE
INVARIANT KeyIsWhatWasTyped
PROPERTY AnswersFirstWord
