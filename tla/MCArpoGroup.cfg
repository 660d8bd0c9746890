SPECIFICATION Spec
CONSTANTS
  Groups = {g1}
  Size = 3
  InitialRollouts = 1
  MaxTurns = 3
  LogprobCases = {TRUE, FALSE}
INVARIANTS
  SlotsConserved NeverLoses LineageValid PrefixesAgree InitialEntropyKept
PROPERTIES
  ImplementsBudget
