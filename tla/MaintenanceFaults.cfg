SPECIFICATION FairSpec
CONSTANTS
  v1 = v1
  v2 = v2
  VMs = {v1}
  Modes = {"unset", "manual", "auto", "ha", "termination"}
  Faults = {"change_mode", "service_error", "delete_error", "list_error", "abort_error", "create_error", "get_error", "apply_error", "crash", "arrive", "eviction_fails", "stale_read"}
  MaxFaults = 3
INVARIANT RestIsEarned
PROPERTY DrainCompletes
CHECK_DEADLOCK FALSE
