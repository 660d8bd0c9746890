SPECIFICATION Spec
CONSTANTS
  Interval = 3
  Goals = {3, 6}
  MaxRuns = 3
INVARIANT
  RestoredRecorded
