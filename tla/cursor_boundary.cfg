SPECIFICATION Spec
CONSTANTS
    Keyboards <- MCKeyboards
    Pastes <- MCPastes
    Widths = {3}
    MaxQuery = 1
    MaxRows = 2
    Page = 2
    Files <- MCFiles
    SkillNames <- MCSkillNames
    Commands <- MCCommands
    Models = 2
    NoText = NoText
CHECK_DEADLOCK FALSE
INVARIANT CursorOnBoundary
