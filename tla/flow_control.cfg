SPECIFICATION Spec
CONSTANTS
  p1 = p1
  p2 = p2
  NumLegs = 2
  Producers = {p1, p2}
  High = 2
  Low = 1
  AckEvery = 2
  Windows = {3}
  MaxWire = 1
  MaxBuf = 3
  MaxFlight = 4
  MaxLosses = 1
INVARIANTS WaitersInv
PROPERTIES NoStall
CHECK_DEADLOCK FALSE
