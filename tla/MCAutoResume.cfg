CONSTANTS
  Ranks = {r0, r1}
  Rank0 = r0
  Keep = 2
  SaveFreq = 1
  TotalSteps = 2
  MaxCrashes = 1
SPECIFICATION Spec
INVARIANTS ResumesIfAvailable
CHECK_DEADLOCK FALSE
