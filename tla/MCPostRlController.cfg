SPECIFICATION Spec
CONSTANTS
  sft = sft
  e2 = e2
  e3 = e3
  Slots <- MCSlots
  Queue <- MCQueue
  ExportOrder <- MCOrder
  Trained = {e2, e3}
  Late = e3
  BackedUp = {e3}
  MaxInterrupts = 1
  MaxStarts = 2
INVARIANTS
  OutcomeHonest NothingLeftRunning
PROPERTIES
  ControllerEnds
CHECK_DEADLOCK FALSE
