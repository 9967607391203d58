CONSTANTS
  n1 = n1  k1 = k1  k2 = k2  s1 = s1  s2 = s2
  Names <- OneName
  Classes <- OneClass
  NilClass = NilClass
  MCIClasses <- NoClass
  ProviderClassName = "ours"
  OtherController = "other"
  InitIngClasses <- OursDefault
  IngClassChanges = FALSE
  Cfgs = {"cfg1", "cfg2"}
  OthersHold = FALSE
  Services <- OneService
  ServiceRefs <- MCServiceRefs
  Secrets = {}
  SecretRefs <- NoRefs
  Versions = {}
  Slices = {}
  SliceLabel <- MCSliceLabel
  NoLabel = NoLabel
  Clusters = {"member1"}
  Statuses = {"empty", "addr1"}
  EmptyStatus = "empty"
  NilStatus = NilStatus
  NotFound = NotFound
  NoLB = NoLB
  ProviderStatus = {"addr1"}
  RetrySteps = 2
  MaxLag = 2
  Paced = FALSE
  Bindings <- MCBindings
  Assumes = {"ownWritesCached", "recreationSeen"}
  MaxDisturbances = 3
SPECIFICATION BothSpec
PROPERTIES MCIControllerAlone LocationsAlone EventuallyLocated EventuallyPublished
CHECK_DEADLOCK FALSE
