SPECIFICATION PairSpec
CONSTANTS
  root = root
  d1 = d1
  n1 = n1
  n2 = n2
  c1 = c1
  m1 = m1
  m2 = m2
  Mids = {m1, m2}
  Volumes <- MCVolumes
  Nics <- MCNics
  Root = root
  RootDot = TRUE
  Faults <- AnyFault
  Cancels1 <- OneCancel
  Cancels2 <- NoCancel
SYMMETRY Symmetry
CONSTRAINT CancelTakesCutover
CHECK_DEADLOCK FALSE
INVARIANTS
  PairTypeOK
  OneAtATime
  CompletedStands
  BothRolledBack
  NeverTwoServers
  HandedOver
PROPERTY OwnerActs
