SPECIFICATION Spec
CONSTANTS
  Connections = 3
  ServerMax = 2
  MaxAttach = 3
  MaxRetries = 1
  MaxSockets = 4
  MaxIds = 3
  FaultKinds = {"hello timeout", "session overflow", "dial", "break", "attach timeout", "connect timeout", "overflow"}
  MaxFaults = 2
  Generations = 3
INVARIANTS SessionsExclusive LegBudget OneSession GenerationInv
CHECK_DEADLOCK FALSE
