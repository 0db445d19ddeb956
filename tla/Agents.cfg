CONSTANTS
  Job = {j1}
  MaxDeliver = 3
  RequestTimeout = 12
  ClientTimeout = 30
  Headroom = 1
  TaskTimeouts = {5, 40}
  Losable = {"publish", "delivery", "ack", "reply", "expired"}
  MaxLosses = 2
  MaxCrashes = 2
  Agent = {k1, k2}
  Endpoint = {e1, e2}
  NoEndpoint = NoEndpoint
  ConfigEndpoint = ConfigEndpoint
  NoClient = NoClient
  MaxWorkflows = 2
SPECIFICATION AgentsSpec
INVARIANTS
  TypeOK
  OneDeliveryRuns
  FailureMeansCrash
  RegTypeOK
  ModeAgrees
  DegradedAreStale
  NoDispatchToDegraded
  ClientTracksRegistry
PROPERTIES
  KeepsPromise
  JobSurvivesCrashes
  EveryCallEnds
  ShutdownIsFinal
  StaleAgentReturns
CHECK_DEADLOCK FALSE
