CONSTANTS
  n1 = n1  s1 = s1  s2 = s2  s3 = s3
  Names <- OneName
  LoadBalancer = "LoadBalancer"
  ExposureTypes = {"LoadBalancer"}
  Cfgs = {"cfg1", "cfg2"}
  Held = {FALSE}
  Statuses = {"empty", "addr1"}
  EmptyStatus = "empty"
  NilStatus = NilStatus
  NotFound = NotFound
  NoLB = NoLB
  NoLabel = NoLabel
  SvcSpecs = {"svc1"}
  Slices <- ThreeSlices
  SliceLabel <- MCSliceLabel
  Contents = {"eps1"}
  ProviderStatus <- FixedStatus
  RetrySteps = 2
  MaxLag = 2
  MaxDisturbances = 4
SPECIFICATION MCSpec
PROPERTIES DeletionCompletes
CHECK_DEADLOCK FALSE
