CONSTANTS
  Async = FALSE
  Ahead = 2
  ActorKeep = 1
  CriticKeep = 3
  SaveFreq = 2
  TotalSteps = 5
  MaxCrashes = 2
SPECIFICATION Spec
INVARIANTS OnlyTornFails
CHECK_DEADLOCK FALSE
