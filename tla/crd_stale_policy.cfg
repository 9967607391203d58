CONSTANTS
  Clusters = {c1}
  NoExistCluster = NoExistCluster
  EmptyName = EmptyName
  NotFound = NotFound
  PatientUsers = FALSE
  MaxLag = 3
  MaxDisturbances = 6
SPECIFICATION MCSpec
PROPERTIES EventuallyInstalled
CHECK_DEADLOCK FALSE
