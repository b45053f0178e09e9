SPECIFICATION Spec
CONSTANTS
  n1 = n1
  n2 = n2
  n3 = n3
  NoNode = NoNode
  NoSite = NoSite
  Jobs = {1}
  Cancellable = {1}
  Adaptive = {}
  Nodes = {n1}
  Fits <- FitsAll
  Site <- OneRouter
  WorldSize <- OneRank
  MaxWorldSize = 1
  MaxRetries = 0
  MaxEpoch = 1
PROPERTIES TerminalJobsStayPut
