SPECIFICATION FairSpec
CONSTANTS
  None = None
  Sessions = {s1, s2}
  s1 = s1
  s2 = s2
  Skills = {k1}
  k1 = k1
  Inputs = {k1, "text", "init"}
  MaxTurns = 3
  MaxCompactions = 2
  MaxQuits = 1
  DiskFails = TRUE
INVARIANTS SkillsInStep 
 
