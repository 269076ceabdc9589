SPECIFICATION FairSpec
CONSTANTS
  get1 = get1
  post1 = post1
  Requests = {get1, post1}
  Replayable = {get1}
  Grace = TRUE
  MaxSessions = 3
INVARIANTS IInv ChannelsReleased SentOnce EndForwarded
PROPERTIES OneHead Answered
CHECK_DEADLOCK FALSE
