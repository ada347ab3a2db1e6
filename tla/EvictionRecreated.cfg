SPECIFICATION Spec
CONSTANTS
  v1 = v1
  v2 = v2
  v3 = v3
  TraitConcurrency <- MCTraitConcurrency
  Instances = {v1}
  EvictionConcurrency = 1
  HvTraits <- MCNoTraits
  InitStatuses = {"UNBORN"}
  Faults = {"place", "leave", "recreate_in_pass"}
  MaxFaults = 2
INVARIANT SucceededMeansEmpty
CHECK_DEADLOCK FALSE
