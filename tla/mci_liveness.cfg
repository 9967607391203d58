CONSTANTS
  n1 = n1  k1 = k1  k2 = k2  s1 = s1  s2 = s2
  Names <- OneName
  Classes <- TwoClasses
  NilClass = NilClass
  MCIClasses <- OnlyOurs
  ProviderClassName = "ours"
  OtherController = "other"
  InitIngClasses <- OursAndOthers
  IngClassChanges = FALSE
  Cfgs = {"cfg1", "cfg2"}
  OthersHold = FALSE
  Services <- OneService
  ServiceRefs <- MCServiceRefs
  Secrets = {"sec1"}
  SecretRefs <- MCSecretRefs
  Versions = {"v1"}
  Slices <- OneSlice
  SliceLabel <- MCSliceLabel
  NoLabel = NoLabel
  Clusters = {"member1"}
  Statuses = {"empty", "addr1"}
  EmptyStatus = "empty"
  NilStatus = NilStatus
  NotFound = NotFound
  NoLB = NoLB
  ProviderStatus = {"addr1"}
  RetrySteps = 2
  MaxLag = 2
  Paced = TRUE
  MaxDisturbances = 5
SPECIFICATION MCSpec
PROPERTIES EventuallyProvisioned EventuallyPublished EventuallyReleased EventuallyBlocked
CHECK_DEADLOCK FALSE
