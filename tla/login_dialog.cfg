SPECIFICATION Spec
INVARIANTS ErrorOfThisDialog
CONSTANTS
  l1 = l1
  l2 = l2
  t1 = t1
  t2 = t2
  None = None
  Logins = {l1, l2}
  Tunnels = {t1, t2}
  TTL = 2
  MaxTime = 0
  MaxLosses = 0
CHECK_DEADLOCK FALSE
