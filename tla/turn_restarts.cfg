SPECIFICATION Spec
CONSTANTS
  ChanCap = 1
  MaxRetries = 0
  MaxCalls = 1
  MaxResponses = 2
  MaxLaunches = 3
  StripImages = TRUE
  SmallWindow = FALSE
  TaskPanics = FALSE
  Keys = {"f1", "ctrl_d"}
  DiskFails = FALSE
  DrawFails = FALSE
INVARIANT ImagesSeenOnce
PROPERTY PrefixStable
CHECK_DEADLOCK FALSE
