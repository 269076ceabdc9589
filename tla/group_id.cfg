SPECIFICATION Spec
CONSTANTS
  Connections = 2
  ServerMax = 16
  MaxAttach = 3
  MaxRetries = 3
  MaxSockets = 5
  MaxIds = 3
  FaultKinds = {"break"}
  MaxFaults = 1
  Generations = 3
PROPERTIES IdReused
CHECK_DEADLOCK FALSE
