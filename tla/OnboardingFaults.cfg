SPECIFICATION Spec
CONSTANTS
  Specs <- MCSpecs
  Traits = {"CUSTOM_T"}
  SkipTests = TRUE
  Faults <- MCFaults
  MaxFaults = 3
INVARIANTS NoServerLeftBehind RestIsInSync
CHECK_DEADLOCK FALSE
