CONSTANTS
  MaxMsgs = 1
  Protocols = {"listed"}
  Grace = FALSE
  Limit = TRUE
SPECIFICATION Spec
PROPERTY EndsTogether
CHECK_DEADLOCK FALSE
