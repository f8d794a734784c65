CONSTANTS
  Async = TRUE
  Ahead = 2
  ActorKeep = 2
  CriticKeep = 3
  SaveFreq = 1
  TotalSteps = 4
  MaxCrashes = 2
SPECIFICATION Spec
INVARIANTS AtomicTracker
CHECK_DEADLOCK FALSE
