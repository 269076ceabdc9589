SPECIFICATION Spec
CONSTANTS
  c1 = c1
  l1 = l1
  l2 = l2
  Channels = {c1}
  Legs = {l1, l2}
  Primary = l1
  Side = "server"
  MaxFrames = 3
  MaxParked = 2
INVARIANTS NothingWithheld
