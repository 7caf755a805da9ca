SPECIFICATION Spec
CONSTANTS
  root = root
  data = data
  e1 = e1
  e2 = e2
  nic = nic
  f1 = f1
  f2 = f2
  None = None
  Volumes = {root, data}
  Exports = {e1, e2}
  Nics = {nic}
  Flavors = {f1, f2}
  VMs <- MCVMs
  Destinations <- MCDestinations
  Bodies <- MCBodies
  Faults <- AnyFault
  MaxChanges = 1
CHECK_DEADLOCK FALSE
INVARIANTS
  TypeOK
  ListedIsUsable
  RegistrationAllOrNothing
  PassedMeansRead
  PassedPlanWorks
  IncompleteOnlyIfChanged
