CONSTANTS
  n1 = n1  k1 = k1  k2 = k2  s1 = s1  s2 = s2
  Names <- OneName
  Classes <- OneClass
  NilClass = NilClass
  MCIClasses <- AnyClass
  ProviderClassName = "ours"
  OtherController = "other"
  InitIngClasses <- OursDefault
  IngClassChanges = TRUE
  Cfgs = {"cfg2"}
  OthersHold = TRUE
  Services <- OneService
  ServiceRefs <- MCServiceRefs
  Secrets = {}
  SecretRefs <- NoRefs
  Versions = {"v1"}
  Slices <- OneSlice
  SliceLabel <- MCSliceLabel
  NoLabel = NoLabel
  Clusters = {"member1"}
  Statuses = {"empty", "addr1"}
  EmptyStatus = "empty"
  NilStatus = NilStatus
  NotFound = NotFound
  NoLB = NoLB
  ProviderStatus <- AddrOrNil
  RetrySteps = 2
  MaxLag = 2
  Paced = FALSE
SPECIFICATION Spec
INVARIANTS TypeOK IInv NoOrphanedLB ProviderCallsFit
PROPERTIES ImplementsLifecycle ForeignFinalizersSurvive
CONSTRAINT OneConcern
