SPECIFICATION Spec
CONSTANTS
  Endings = {"condition"}
  Faults = {"placement_error"}
  MaxFaults = 1
INVARIANT OffboardedMeansCleanedUp
CHECK_DEADLOCK FALSE
