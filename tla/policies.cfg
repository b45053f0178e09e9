SPECIFICATION Spec
CONSTANTS
  Trainers = {p1, p2, p3}
  MinClasses = 1
  MaxClasses = 2
  Stride = 2
  WindowSamples = 2
  MinIntervals = 2
  MinStd = 1
  FloorSeconds = 2
  BootstrapSilence = 4
  AcceptablePause = 1
  Deviations = 1
  MaxSilence = 7
  MaxIntervals = 3
  quick = quick
  slow = slow
  far = far
  here = here
  there = there
  Machines = {quick, slow, far}
  Queue <- ThreeJobs
  Epochs <- EpochsOf
  World <- WorldOf
  Capable <- CapableOf
  Defers = {1, 3}
  Rate <- RateOf
  Site <- SiteOf
  Nowhere = Nowhere
  MaxElapsed = 9
  Nobody = Nobody
  left = left
  right = right
  box = box
  Peers = {left, right}
  Host <- HostOf
  Cohort = {0, 1}
  LaunchLimit = 2
  Unplaced = Unplaced
INVARIANTS StoredIsUsable RanksStayInStep TrainsOnSubmitted VerdictIsTimely
PROPERTIES NobodyWaitsForEver AttemptsTrainOrEnd
CHECK_DEADLOCK FALSE
