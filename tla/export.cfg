SPECIFICATION MCSpec
CONSTANTS
  Services = {"web"}
  MCIs = {"ing"}
  MCIServed = {TRUE}
  ExposureTypes = {"CrossCluster", "LoadBalancer"}
  LoadBalancer = "LoadBalancer"
  Clusters = {"member1", "member2"}
  Bindings <- MCBindings
  NotFound = NotFound
  MaxUID = 2
  MaxLag = 2
  Assumes = {"outputsCached", "garbageCollected", "recreationSeen"}
  MaxDisturbances = 6
INVARIANTS TypeOK ExportNotForgotten PolicyNotForgotten WithdrawalNotForgotten
PROPERTIES EventuallyPropagated EventuallyWithdrawn
CHECK_DEADLOCK FALSE
