SPECIFICATION Spec
CONSTANTS
  c1 = c1
  c2 = c2
  l1 = l1
  l2 = l2
  Channels = {c1, c2}
  Legs = {l1, l2}
  Primary = l1
  Side = "server"
  MaxFrames = 3
  MaxParked = 1
INVARIANTS IInv HandedInOrder BufferAccounted HoleInFlight
SYMMETRY ChannelSymmetry
PROPERTIES ImplementsOrdered
