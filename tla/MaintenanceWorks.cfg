SPECIFICATION FairSpec
CONSTANTS
  v1 = v1
  v2 = v2
  VMs = {v1, v2}
  Modes = {"unset", "manual", "termination"}
  Faults = {"change_mode", "service_error", "list_error", "abort_error", "create_error", "get_error", "arrive", "eviction_fails"}
  MaxFaults = 3
INVARIANTS TypeOK EvictedMeansEmpty
PROPERTIES NoEvictionBeforeSettled ServiceComesBack EvictionIsCleanedUp
CHECK_DEADLOCK FALSE
