SPECIFICATION FairSpec
CONSTANTS
  c1 = c1
  c2 = c2
  q1 = q1
  q2 = q2
  Cancels <- TwoCancels
  Reauths <- NoRequest
  Raises = {}
  MaxCrashes = 0
CHECK_DEADLOCK FALSE
PROPERTIES
  CutoverNeverAborted
  EventuallySettled
