SPECIFICATION Spec
CONSTANTS
  c1 = c1
  c2 = c2
  q1 = q1
  q2 = q2
  Cancels <- OneCancel
  Reauths <- NoRequest
  Raises <- Errors
  MaxCrashes = 0
CHECK_DEADLOCK FALSE
INVARIANT RollbackSeesCheckpoints
