SPECIFICATION Spec
CONSTANTS
  PromptLimit = 3
  ResponseLimit = 4
  ContextLimit = 6
  PerTurn = 2
  InitialLengths = {1, 3, 4}
  MaxAssistantTurns = 2
  MaxUserTurns = 2
  MaxCalls = 2
  MaxObservation = 2
INVARIANTS
  WithinBudget OutputAligned CallsAnswered SameConversation LastTurnHandled SessionOwned
PROPERTIES
  Terminates
