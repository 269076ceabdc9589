CONSTANTS
  MaxChunks = 2
  MaxData = 2
  MaxSays = 2
  Compress = TRUE
SPECIFICATION Spec
INVARIANTS ChannelInv BodyFaithful NothingLeft
PROPERTIES FirstWordStands
CHECK_DEADLOCK FALSE
