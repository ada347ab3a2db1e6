SPECIFICATION FairSpec
CONSTANTS
  v1 = v1
  v2 = v2
  v3 = v3
  TraitConcurrency <- MCTraitConcurrency
  Instances = {v1, v2}
  EvictionConcurrency = 0
  HvTraits <- MCNoTraits
  InitStatuses = {"ACTIVE", "SHUTOFF", "RESCUE"}
  Faults = {"get_error", "api_error", "save_error", "crash", "migration_fails", "user_delete", "power_toggle", "leave", "vanish"}
  MaxFaults = 2
PROPERTIES EvictionTerminates OthersLeave ResizeIsConfirmed
CHECK_DEADLOCK FALSE
