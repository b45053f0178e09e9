SPECIFICATION FairSpec
CONSTANTS
  Uploads = {u1}
  Requests = {c1, c2}
  Chunks = {0, 1}
  MaxCrashes = 1
  Direct = Direct
INVARIANTS AvailableIsStored OrphansAreAccidents
PROPERTIES UploadsResolve
CHECK_DEADLOCK FALSE
