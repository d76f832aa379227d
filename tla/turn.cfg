SPECIFICATION Spec
CONSTANTS
  ChanCap = 2
  MaxRetries = 1
  MaxCalls = 2
  MaxResponses = 2
  MaxLaunches = 2
  StripImages = FALSE
  SmallWindow = FALSE
  TaskPanics = TRUE
  Keys = {"esc"}
  DiskFails = TRUE
  DrawFails = FALSE
INVARIANTS HistoryInSync LastWord CallsAnswered PlanFresh
PROPERTIES EscReachesTask ImplementsConversation
CHECK_DEADLOCK FALSE
