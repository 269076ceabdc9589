SPECIFICATION FairSpec
CONSTANTS
  c1 = c1
  l1 = l1
  l2 = l2
  l3 = l3
  Channels = {c1}
  Legs = {l1, l2, l3}
  Primary = l1
  Side = "client"
  MaxFrames = 4
  MaxParked = 2
INVARIANTS NoOldSeq
PROPERTIES ImplementsOrdered EveryFrameArrives
