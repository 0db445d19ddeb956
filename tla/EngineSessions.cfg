CONSTANTS
  Session = {s1, s2, s3}
  Task = {t1, t2, t3}
  k1 = k1
  k2 = k2
  Kio = {k1, k2}
  NoSession = NoSession
  NoTask = NoTask
  NoKio = NoKio
  Popped = Popped
  Requests <- OnePrompt
  Reroutes <- NoReroutes
  Fallback = TRUE
  MaxRetries = 1
  Cancels = FALSE
  Impatient = FALSE
  Failing = {"schedule", "execute", "register_artifact", "update_progress", "create_hitl_checkpoint", "update_status"}
  LostReplies = FALSE
  MaxFaults = 2
  MaxRestarts = 0
SPECIFICATION Spec
INVARIANTS
  WorkflowsCounted
SYMMETRY Symmetric
CHECK_DEADLOCK FALSE
