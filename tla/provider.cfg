SPECIFICATION Spec
CONSTANTS
    Kinds <- MCKinds
    MaxLen = 4
    Scripts <- MCScripts
    ChunkCap = 4
    Statuses = {400, 413, 429, 504}
    Phrases = {"too long", "billing", "context_length_exceeded"}
    NoResult = NoResult
    UserFiles <- MCUserFiles
    Servers <- MCServers
    Absent = Absent
    Other = Other
    WindowMax = 40000
    Pending = Pending
    Failed = Failed
    Torn = Torn
    MaxStarts = 2
INVARIANTS ReasoningInPlace Unsplit FailureSurfaces ConfigAgrees
PROPERTY GuardExact
CHECK_DEADLOCK FALSE
