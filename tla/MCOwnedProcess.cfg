SPECIFICATION Spec
CONSTANTS
  Last = 3
  Stubborn <- MCStubborn
  Hung <- MCHung
INVARIANTS StopMeansGone
PROPERTIES GroupsEnd
CHECK_DEADLOCK FALSE
