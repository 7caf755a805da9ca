SPECIFICATION Spec
CONSTANTS
  root = root
  d1 = d1
  d2 = d2
  n1 = n1
  n2 = n2
  mid = mid
  c1 = c1
  Cancels <- NoCancel
  Mids = {mid}
  Volumes <- MCVolumes
  Nics <- MCNics
  Root = root
  RootDot = TRUE
  Faults = {}
CHECK_DEADLOCK FALSE
INVARIANT NeverManagedByBoth
