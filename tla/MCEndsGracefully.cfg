CONSTANTS
  EpochLen = 4
  TotalEpochs = 1
  TotalSteps = 4
  CriticWarmup = 2
  SaveFreq = 1
  TestFreq = 2
  MaxCrashes = 2
SPECIFICATION Spec
INVARIANTS EndsGracefully
CHECK_DEADLOCK FALSE
