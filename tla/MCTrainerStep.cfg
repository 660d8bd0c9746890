SPECIFICATION OuterSpec
CONSTANTS
  total_training_steps = 5
  save_freq = 2
  consecutive_steps = 2
  mode = "halt"
  MaxStarts = 3
INVARIANTS MemoryShared GuardExact
CHECK_DEADLOCK FALSE
