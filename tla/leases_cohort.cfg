SPECIFICATION SweepSpec
CONSTANTS
  n1 = n1
  n2 = n2
  n3 = n3
  NoNode = NoNode
  NoSite = NoSite
  Jobs = {1}
  Cancellable = {}
  Adaptive = {}
  Nodes = {n1, n2, n3}
  Fits <- FitsAll
  Site <- OneRouter
  WorldSize <- TwoRanks
  MaxWorldSize = 2
  MaxRetries = 1
  MaxEpoch = 3
INVARIANTS
  WaitingHoldsNothing IntactCohort RetryBudget ReliabilityLedger
PROPERTIES
  SettledLeasesStayPut BlameIsEarned LapsedLeasesResolve
