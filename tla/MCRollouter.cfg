CONSTANTS
  TotalSamples = 3
  PendingCapacity = 2
  MaxRequired = 3
  MaxConcurrent = 2
  PartialRollout = TRUE
  MaxFailures = 1
  MaxVersion = 1
SPECIFICATION Spec
INVARIANTS
  TypeOK
  ActiveBound
  NoLostWakeup
  NoDoubleSubmit
PROPERTIES
  GatherOnlyShrinks
