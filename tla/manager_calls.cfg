SPECIFICATION FairSpec
CONSTANTS
  Enables = {e1, e2, e3}
  Disables = {d1, d2}
  None = None
  e1 = e1
  e2 = e2
  e3 = e3
  d1 = d1
  d2 = d2
INVARIANTS ManagerInv LastCallWins ToldTrue
PROPERTIES EnableEnds DisableKills
CHECK_DEADLOCK FALSE
