SPECIFICATION Spec
CONSTANTS
  get1 = get1
  Requests = {get1}
  Replayable = {get1}
  Grace = TRUE
  MaxSessions = 2
INVARIANTS GoneCancelled
CHECK_DEADLOCK FALSE
