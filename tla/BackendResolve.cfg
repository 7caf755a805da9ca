SPECIFICATION Spec
CONSTANTS
  files = files
  bulk = bulk
  netapp = netapp
  qnap = qnap
  e1 = e1
  e2 = e2
  root = root
  Categories <- MCCategories
  Backends <- MCBackends
  Exports <- MCExports
  Volumes <- OneVolume
  Root = root
  Blueprints <- MCBlueprints
  PoolLists <- MCPoolLists
CHECK_DEADLOCK FALSE
INVARIANT ResolvedIsShared
