SPECIFICATION StoreSpec
CONSTANTS
  ApiStatuses = {}
  Steps = {p}
  NumArtifacts = 1
  MaxAttempts = 3
  MaxChain = 50
  MaxCalls = 2
  MaxFaults = 0
INVARIANT CompensatedIsDeleted
CHECK_DEADLOCK FALSE
