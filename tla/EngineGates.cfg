CONSTANTS
  Session = {s1}
  Task = {t1, t2}
  k1 = k1
  k2 = k2
  Kio = {k1, k2}
  NoSession = NoSession
  NoTask = NoTask
  NoKio = NoKio
  Popped = Popped
  Requests <- AllRequests
  Reroutes <- AllReroutes
  Fallback = TRUE
  MaxRetries = 1
  Cancels = FALSE
  Impatient = FALSE
  Failing = {"schedule", "execute", "register_artifact", "update_progress", "create_hitl_checkpoint", "update_status"}
  LostReplies = FALSE
  MaxFaults = 3
  MaxRestarts = 0
SPECIFICATION Spec
INVARIANTS
  TypeOK
  NobodyForgotten
PROPERTIES
  KeepsPromise
  EveryRunSettles
CHECK_DEADLOCK FALSE
