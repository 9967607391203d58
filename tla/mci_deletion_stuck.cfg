CONSTANTS
  n1 = n1  k1 = k1  k2 = k2  s1 = s1  s2 = s2
  Names <- OneName
  Classes <- TwoClasses
  NilClass = NilClass
  MCIClasses <- AnyClass
  ProviderClassName = "ours"
  OtherController = "other"
  InitIngClasses <- OursAndOthers
  IngClassChanges = FALSE
  Cfgs = {"cfg1"}
  OthersHold = FALSE
  Services = {}
  ServiceRefs <- NoRefs
  Secrets = {}
  SecretRefs <- NoRefs
  Versions = {"v1"}
  Slices = {}
  SliceLabel <- MCSliceLabel
  NoLabel = NoLabel
  Clusters = {}
  Statuses = {"empty", "addr1"}
  EmptyStatus = "empty"
  NilStatus = NilStatus
  NotFound = NotFound
  NoLB = NoLB
  ProviderStatus = {"addr1"}
  RetrySteps = 2
  MaxLag = 2
  Paced = TRUE
  MaxDisturbances = 3
SPECIFICATION MCSpec
PROPERTIES DeletionCompletes
CHECK_DEADLOCK FALSE
