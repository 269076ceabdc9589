SPECIFICATION FairSpec
CONSTANTS
  Connections = 2
  ServerMax = 16
  MaxAttach = 2
  MaxRetries = 1
  MaxSockets = 4
  MaxIds = 3
  FaultKinds = {"hello timeout", "session overflow", "dial", "break", "attach timeout", "connect timeout", "overflow"}
  MaxFaults = 1
  Generations = 3
PROPERTIES Recovers KeepsComingBack CloseDeregisters
CHECK_DEADLOCK FALSE
