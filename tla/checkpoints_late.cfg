SPECIFICATION Spec
CONSTANTS
  Faults = {"late", "read", "write"}
  Ranks = {0, 1}
  Epochs = 1
  Intervals = 1
  MaxAttempt = 2
INVARIANTS EntriesAreStored CohortResumesTogether CompletedKeepsModel
PROPERTIES EntriesKept LatestAdvances
CHECK_DEADLOCK FALSE
