CONSTANTS
  Session = {s1}
  Task = {t1, t2}
  k1 = k1
  k2 = k2
  Kio = {k1, k2}
  NoSession = NoSession
  NoTask = NoTask
  NoKio = NoKio
  Popped = Popped
  Requests <- OnePipeline
  Reroutes <- NoReroutes
  Fallback = FALSE
  MaxRetries = 1
  Cancels = FALSE
  Impatient = FALSE
  Failing = {"schedule"}
  LostReplies = FALSE
  MaxFaults = 1
  MaxRestarts = 0
SPECIFICATION Spec
PROPERTY FailureIsCompensated
CHECK_DEADLOCK FALSE
