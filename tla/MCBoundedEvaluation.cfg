SPECIFICATION Spec
CONSTANTS
  base = base
  sft1 = sft1
  t = t
  u = u
  Arms <- MCArms
  Tasks = {t, u}
  Requests <- MCRequests
  max_attempts_per_cell = 3
  max_additional_trajectories = 3
  MaxInterrupts = 1
INVARIANTS NoReplay RetryScope EndHonest
PROPERTIES BoundedEnds
CHECK_DEADLOCK FALSE
