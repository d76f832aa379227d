SPECIFICATION Spec
CONSTANTS
  None = None
  Sessions = {s1, s2}
  s1 = s1
  s2 = s2
  Skills = {k1}
  k1 = k1
  Inputs = {k1, "text"}
  MaxTurns = 3
  MaxCompactions = 3
  MaxQuits = 1
  DiskFails = FALSE
INVARIANTS PlanForThisStore TaskOnScreen NoOrphan GuardFits
SYMMETRY AnySession
