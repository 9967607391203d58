CONSTANTS
  Names <- MCNames
  Providers = {"fake", "other"}
  MaxRegistrations = 2
  Clouds <- MCClouds
  NoProvider = NoProvider
  FactoryError = FactoryError
  MaxFaults = 2
  Services = {1, 2}
  Secrets = {1, 2}
  ResourceBackend = ResourceBackend
  NilBackend = NilBackend
  NilHTTP = NilHTTP
  Panic = Panic
  MaxFlags = 3
  MaxRules = 3
  MaxPaths = 2
SPECIFICATION Spec
INVARIANTS NoPartialStart FirstChoiceWins IndexesExact
PROPERTY EventuallyRuns
CHECK_DEADLOCK FALSE
