SPECIFICATION FairSpec
CONSTANTS
  t2 = t2
  t1 = t1
  n2 = n2
  n1 = n1
  Nodes = {n1, n2}
  Tokens = {t1, t2}
  NoToken = NoToken
INVARIANTS TokenAdmitsOne
PROPERTIES RemovedGoesQuiet HeartbeatsKeepOnline
CHECK_DEADLOCK FALSE
