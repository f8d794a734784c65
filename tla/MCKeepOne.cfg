CONSTANTS
  Ranks = {r0, r1}
  Rank0 = r0
  Keep = 1
  SaveFreq = 1
  TotalSteps = 4
  MaxCrashes = 2
SPECIFICATION Spec
INVARIANTS Resumable SameIterator KeepsAtMost
CHECK_DEADLOCK FALSE
