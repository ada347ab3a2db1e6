SPECIFICATION FairSpec
CONSTANTS
  Endings <- MCEndings
  Faults <- MCFaults
  MaxFaults = 1
INVARIANTS TypeOK OffboardedMeansGone ReleasedMeansGone
PROPERTIES AgentsOutliveServers NodeIsReleased
CHECK_DEADLOCK FALSE
