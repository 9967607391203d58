CONSTANTS
  Names = {"ing"}
  MCI <- MCMCI
  Services = {"web", "api"}
  ServiceRefs <- MCServiceRefs
  Rules <- MCRules
  Clusters = {"member1"}
  Bindings <- MCBindings
  NotFound = NotFound
  RetrySteps = 2
  MaxLag = 2
  Assumes = {"ownWritesCached", "recreationSeen"}
SPECIFICATION Spec
INVARIANTS TypeOK LocationsNotForgotten
