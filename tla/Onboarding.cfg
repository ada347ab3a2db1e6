SPECIFICATION FairSpec
CONSTANTS
  Specs <- MCSpecs
  Traits = {"CUSTOM_T"}
  SkipTests = FALSE
  Faults = {"compute_error", "smoke_error", "apply_error", "list_error", "remove_error", "patch_error", "traits_error", "crash", "server_fails", "timeout", "stray", "sweep_error", "neighbour", "change_aggregates", "lifecycle_off", "terminate"}
  MaxFaults = 3
INVARIANTS TypeOK NoServerLeftBehind VolumesAreSafe OrphansAreSwept SucceededMeansHandedOver HostIsNeverOpen TraitsBeforeAggregates
PROPERTY OnboardingSucceeds
CHECK_DEADLOCK FALSE
