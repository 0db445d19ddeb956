CONSTANTS
  Session = {s1}
  Task = {t1, t2, t3}
  k1 = k1
  k2 = k2
  Kio = {k1, k2}
  NoSession = NoSession
  NoTask = NoTask
  NoKio = NoKio
  Popped = Popped
  Requests <- PlannedOrGated
  Reroutes <- OneReroute
  Fallback = TRUE
  MaxRetries = 1
  Cancels = TRUE
  Impatient = TRUE
  Failing = {"create_session", "schedule", "execute", "register_artifact", "update_progress", "create_hitl_checkpoint", "update_status", "resolve_checkpoint"}
  LostReplies = TRUE
  MaxFaults = 1
  MaxRestarts = 1
SPECIFICATION Spec
INVARIANTS
  LiveRunsOnce
  NoPhantomWork
  PendingIsReal
  WaitingHasQuestion
PROPERTY GateNeedsAnswer
SYMMETRY Symmetric
CHECK_DEADLOCK FALSE
