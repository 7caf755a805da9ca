SPECIFICATION FairSpec
CONSTANTS
  Attempts = 6
  Faults <- AnyFault
CHECK_DEADLOCK FALSE
INVARIANT TypeOK
PROPERTIES
  ReleasesVolume
  UnmanageEnds
