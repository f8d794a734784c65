CONSTANTS
  TotalSamples = 3
  PendingCapacity = 1
  MaxConcurrent = 1
  PartialRollout = FALSE
  MaxFailures = 1
  Required = 1
  TriggerStep = 1
  TestFreq = 2
  StaleNum = 1
  StaleDen = 1
SPECIFICATION FairSpec
INVARIANTS
  EndOfStream
PROPERTIES
  Termination
