CONSTANTS
  TotalSamples = 3
  PendingCapacity = 9
  MaxConcurrent = 1
  PartialRollout = TRUE
  MaxFailures = 0
  Required = 1
  TriggerStep = 1
  TestFreq = 2
  StaleNum = 1
  StaleDen = 1
SPECIFICATION FairSpec
PROPERTIES
  RolloutRecovers
