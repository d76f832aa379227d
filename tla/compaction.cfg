SPECIFICATION Spec
CONSTANTS
    MinSmart = 2  MaxSmart = 4  KeepRecent = 2  MinKeep = 2
    ItemCap = 2  Window = 3
    RecentBlocks = 1  MaxBlocks = 3  BriefBudget = 4  ToolCap = 1  BriefMax = 8
    Asks <- MCAsks  Says <- MCSays  Calls <- MCCalls
    Sizes = {1, 6}
    Keeps <- MCKeeps
    MaxId = 8  MaxCompactions = 3  MaxVersions = 1
INVARIANT CutSound
PROPERTIES SkillsOnce BriefCarried
CHECK_DEADLOCK FALSE
