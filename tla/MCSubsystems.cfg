SPECIFICATION Spec
INVARIANTS
  TypeOK
  CheckpointsKept
  DataOnce
  FitResumes
  OneStepOffPolicy
  ResponsesWhole
  VersionsKnown
  SamplesTrained
  BatchInOrder
  BuffersStay
  EngineHoldsActor
  RewardsServed
PROPERTIES
  NeverLosesASave
  Transfers
  Completes
CHECK_DEADLOCK FALSE
