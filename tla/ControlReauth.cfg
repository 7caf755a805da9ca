SPECIFICATION Spec
CONSTANTS
  c1 = c1
  c2 = c2
  q1 = q1
  q2 = q2
  Cancels <- OneCancel
  Reauths <- TwoReauths
  Raises <- AnyRaise
  MaxCrashes = 1
CONSTRAINT TwoRunsAtMost
SYMMETRY ReauthSymmetry
CHECK_DEADLOCK FALSE
INVARIANTS
  TypeOK
  OneDriver
  CheckpointsExact
  TokenGoesWithRun
PROPERTIES
  RunsGoOn
