SPECIFICATION FairSpec
CONSTANTS
  BaseNode <- MCBaseNode
  Unmap <- MCUnmap
  GlobalUnicast <- MCGlobalUnicast
  Include = {"cable", "veth"}
  Exclude = {"veth"}
  Groups <- MCGroups
  Faults = {"api_error", "crash"}
  MaxFaults = 1
  MaxEdits = 2
INVARIANTS TypeOK ReadyIsCurrent TaintIsObserved CertificateIsCurrent
PROPERTIES NoUpdateIsLost SpecFollowsNode TerminationShows
CHECK_DEADLOCK FALSE
