SPECIFICATION FairSpec
CONSTANTS
  root = root
  d1 = d1
  d2 = d2
  n1 = n1
  n2 = n2
  mid = mid
  c1 = c1
  Cancels <- OneCancel
  Mids = {mid}
  Volumes <- MCVolumes
  Nics <- MCNics
  Root = root
  RootDot = TRUE
  Faults <- AnyFault
CHECK_DEADLOCK FALSE
INVARIANTS
  TypeOK
  SingleHost
  HandoverOrder
  CheckpointsHappened
  LossOnlyInReverse
  ReverseOnlyWithoutSource
  CompletedMeansMoved
  RolledBackHasSource
  StagedPortsReleased
  CancelLeavesSourceAlone
  OnlyCancelsForget
PROPERTIES
  ContractHolds
  EveryStepNearer
  RunEnds
