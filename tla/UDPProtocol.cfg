SPECIFICATION FairSpec
CONSTANTS
  Ids = {c1, c2, c3}
  SamePorts = {c3}
  FlowSize = 2
  Timeout = 2
  RefreshRate = 2
  IPv6 = FALSE
  Rejecting = {c1}
  Steady = {c2, c3}
  Gap = 1
INVARIANTS ObjectsConserved 
PROPERTY SilentDropped
