SPECIFICATION FairSpec
CONSTANTS
    MaxOutLines = 1  PipeCap = 1  OutCap = 1
    Letters = {"b"}
    Calls <- MCCalls
    NoOutcome = NoOutcome
    ReadFiles <- MCReadFiles  MaxLines = 3  MaxBytes = 3  Limits = {1, 2, 5}
    Ops = {o1, o2, o3}
    Files = {"f"}
    Spellings = {"./f"}
    FileOf <- MCFileOf
    Interval = 2
INVARIANTS CleanEnd EditsAtOnce UntouchedLinesKept NothingSkipped OneWriterPerFile
PROPERTIES CancelEnds
CHECK_DEADLOCK FALSE
