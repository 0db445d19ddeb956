CONSTANTS
  Job = {j1}
  MaxDeliver = 3
  RequestTimeout = 12
  ClientTimeout = 30
  Headroom = 1
  TaskTimeouts = {}
  Losable = {"reply"}
  MaxLosses = 1
  MaxCrashes = 0
SPECIFICATION Spec
PROPERTY LostReplyFails
CHECK_DEADLOCK FALSE
