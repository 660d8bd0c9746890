SPECIFICATION Spec
CONSTANTS
  a = a
  b = b
  c = c
  Calls <- MCCalls
  Limit = 4
  Increment = 3
  MaxCalls = 2
  Bound <- MCBound
  Bills = {0, 2, 3}
INVARIANTS
  AtMostOnce LedgerCovers IncrementKept HistoryIntact
