CONSTANTS
  MaxMsgs = 1
  Protocols = {"listed"}
  Grace = FALSE
  Limit = FALSE
SPECIFICATION Spec
INVARIANT CodePassed
CHECK_DEADLOCK FALSE
