CONSTANTS
  Clusters = {c1}
  NoExistCluster = NoExistCluster
  EmptyName = EmptyName
  NotFound = NotFound
  PatientUsers = TRUE
  MaxLag = 3
  MaxDisturbances = 6
SPECIFICATION MCSpec
PROPERTIES EventuallyUninstalled
CHECK_DEADLOCK FALSE
