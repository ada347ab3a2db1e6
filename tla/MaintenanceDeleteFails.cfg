SPECIFICATION FairSpec
CONSTANTS
  v1 = v1
  v2 = v2
  VMs = {v1}
  Modes = {"unset", "manual"}
  Faults = {"change_mode", "delete_error"}
  MaxFaults = 3
PROPERTY EvictionIsCleanedUp
CHECK_DEADLOCK FALSE
