CONSTANTS
  Job = {j1}
  MaxDeliver = 3
  RequestTimeout = 12
  ClientTimeout = 30
  Headroom = 1
  TaskTimeouts = {}
  Losable = {}
  MaxLosses = 0
  MaxCrashes = 0
SPECIFICATION Spec
INVARIANT HeadroomSuffices
CHECK_DEADLOCK FALSE
