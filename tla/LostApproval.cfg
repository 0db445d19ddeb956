CONSTANTS
  Session = {s1}
  Task = {t1, t2}
  k1 = k1
  k2 = k2
  Kio = {k1, k2}
  NoSession = NoSession
  NoTask = NoTask
  NoKio = NoKio
  Popped = Popped
  Requests <- OnePipeline
  Reroutes <- NoReroutes
  Fallback = TRUE
  MaxRetries = 1
  Cancels = FALSE
  Impatient = TRUE
  Failing = {}
  LostReplies = FALSE
  MaxFaults = 0
  MaxRestarts = 0
SPECIFICATION Spec
PROPERTY AnswerResumes
CHECK_DEADLOCK FALSE
