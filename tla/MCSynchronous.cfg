CONSTANTS
  TotalSamples = 5
  PendingCapacity = 2
  MaxConcurrent = 1
  PartialRollout = FALSE
  MaxFailures = 0
  Required = 1
  TriggerStep = 2
  TestFreq = 2
  StaleNum = 0
  StaleDen = 1
SPECIFICATION FairSpec
INVARIANTS
  OnPolicy
  NothingLost
  QuiescentTransfer
PROPERTIES
  Termination
