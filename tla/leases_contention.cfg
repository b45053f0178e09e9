SPECIFICATION FairSpec
CONSTANTS
  n1 = n1
  n2 = n2
  n3 = n3
  NoNode = NoNode
  NoSite = NoSite
  Jobs = {1, 2}
  Cancellable = {2}
  Adaptive = {2}
  Nodes = {n1, n2}
  Fits <- FirstIsPicky
  Site <- OneRouter
  WorldSize <- OneRank
  MaxWorldSize = 1
  MaxRetries = 0
  MaxEpoch = 2
INVARIANTS
  LiveIsCurrent OneSlotPerNode
PROPERTIES
  ImplementsFencedAttempts JobsEnd
