CONSTANTS
  Requests = {1, 2, 3}
  NumReplicas = 2
  MaxAttempts = 2
  MaxRetries = 2
  Malformed = {3}
  MaxFaults = 2
SPECIFICATION Spec
INVARIANTS RejectedOnce CountsReleased
CHECK_DEADLOCK FALSE
