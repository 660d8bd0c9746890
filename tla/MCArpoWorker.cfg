SPECIFICATION Spec
CONSTANTS
  Groups = {g1, g2}
  Size = 2
  InitialRollouts = 1
  MaxTurns = 2
  LogprobCases = {TRUE}
INVARIANTS
  SessionsOwned
PROPERTIES
  BatchEnds
