SPECIFICATION FairSpec
CONSTANTS
  Faults = {"late", "read", "write"}
  Ranks = {0, 1}
  Epochs = 2
  Intervals = 1
  MaxAttempt = 1
PROPERTIES TrainingEnds
CHECK_DEADLOCK FALSE
