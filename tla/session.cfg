SPECIFICATION Spec
CONSTANTS
  s1 = s1
  s2 = s2
  Sessions = {s1, s2}
  MaxEntries = 4
  MaxFaults = 2
  Torn = {"part", "line"}
SYMMETRY AnySession
INVARIANTS CopiesAgree LossBounded SummaryUsable
PROPERTY SummaryPlusTail
