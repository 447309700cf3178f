SPECIFICATION ShellFairSpec
CONSTANTS
  Directories = {"home", "tmp"}
  Home = "home"
  Words <- MCWords
  Lines <- MCLines
  Blank = "_"
  Codes = {0, 1}
  Killed = Killed
  NoDirectory = "none"
  EXIT_FAILURE = 1
  MaxLines = 3
  Mishaps = {"vfork", "removal", "entry", "sigchld"}
INVARIANTS
  ChildIsReaped
  NamesShownOnce
  ReportsTellTheEnd
PROPERTY
  CommandsComeBack
CHECK_DEADLOCK FALSE
