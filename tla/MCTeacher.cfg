CONSTANTS
  EpochLen = 2
  TotalEpochs = 3
  TotalSteps = 5
  CriticWarmup = 2
  SaveFreq = 3
  TestFreq = 2
  ProfileSteps = {2, 3, 5}
  Continuous = TRUE
  Esi = TRUE
  MaxCrashes = 2
SPECIFICATION Spec
INVARIANTS TeacherSurvivesResume
CHECK_DEADLOCK FALSE
