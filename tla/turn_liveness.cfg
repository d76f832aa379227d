SPECIFICATION FairSpec
CONSTANTS
  ChanCap = 1
  MaxRetries = 1
  MaxCalls = 1
  MaxResponses = 2
  MaxLaunches = 2
  StripImages = FALSE
  SmallWindow = FALSE
  TaskPanics = TRUE
  Keys = {"esc"}
  DiskFails = TRUE
  DrawFails = TRUE
INVARIANT NoTaskLeftBehind
PROPERTY TurnEnds
CHECK_DEADLOCK FALSE
