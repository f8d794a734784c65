CONSTANTS
  Replicas = {{1}, {2}}
  Resumed = {0, 1}
  MaxVersion = 2
SPECIFICATION Spec
INVARIANT AlwaysGeneratesWithActor
CHECK_DEADLOCK FALSE
