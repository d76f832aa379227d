SPECIFICATION Spec
CONSTANTS
  Labels = {"a", "b", "g", "h", "l", "s1", "s2", "x"}
  Tools = {"read", "write"}
  Installs <- MCInstalls
  ScriptSets <- MCScriptSets
  Unknown = "x"
  MaxTurns = 2
  MaxCalls = 2
  MaxEdits = 1
INVARIANTS RegistriesExact HooksHeard ActivePersisted
CHECK_DEADLOCK FALSE
