SPECIFICATION Spec
CONSTANTS
  v1 = v1
  v2 = v2
  v3 = v3
  TraitConcurrency <- MCTraitConcurrency
  Instances = {v1, v2}
  EvictionConcurrency = 1
  HvTraits <- MCNoTraits
  InitStatuses = {"ACTIVE"}
  Faults = {"get_error"}
  MaxFaults = 1
INVARIANT ConcurrencyLimit
CHECK_DEADLOCK FALSE
