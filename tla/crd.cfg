CONSTANTS
  Clusters = {c1, c2}
  NoExistCluster = NoExistCluster
  EmptyName = EmptyName
  NotFound = NotFound
  PatientUsers = TRUE
  MaxLag = 3
  MaxDisturbances = 7
SPECIFICATION MCSpec
INVARIANTS TypeOK NoDuplicates
PROPERTIES KeepsOthers EventuallyInstalled
CHECK_DEADLOCK FALSE
