CONSTANTS
  MaxMsgs = 2
  Protocols = {"listed", "unlisted"}
  Grace = TRUE
  Limit = FALSE
SPECIFICATION Spec
INVARIANTS RelayInv OneAnswer CloseIsComplete
PROPERTIES UpgradeAnswered EndsTogether
CHECK_DEADLOCK FALSE
