SPECIFICATION Spec
CONSTANTS
  v1 = v1
  v2 = v2
  v3 = v3
  TraitConcurrency <- MCTraitConcurrency
  Instances = {v1, v2, v3}
  EvictionConcurrency = 5
  HvTraits <- MCGpuTraits
  InitStatuses = {"ACTIVE", "SHUTOFF", "RESCUE", "UNBORN"}
  Faults = {"api_error", "save_error", "crash", "migration_fails", "post_migration_error", "user_delete", "power_toggle", "place", "leave", "vanish"}
  MaxFaults = 2
SYMMETRY Symmetry
INVARIANTS TypeOK SucceededMeansEmpty ConcurrencyLimit FailureIsOutstanding IndInv
PROPERTIES FailureIsSticky ImplementsDrain
CHECK_DEADLOCK FALSE
