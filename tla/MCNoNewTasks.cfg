CONSTANTS
  TotalSamples = 4
  PendingCapacity = 9
  MaxConcurrent = 2
  PartialRollout = FALSE
  MaxFailures = 0
  Required = 1
  TriggerStep = 1
  TestFreq = 2
  StaleNum = 1
  StaleDen = 1
SPECIFICATION Spec
ACTION_CONSTRAINT PromptLoop
INVARIANTS
  QuiescentTransfer
