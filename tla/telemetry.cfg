SPECIFICATION Spec
CONSTANTS
  MaxPrinted <- MaxOf
  Leases = {l1, l2}
  MaxLines = 2
  Retention = 2
  PageLimit = 1
  FrameAttempts = 2
  MaxFaults = 1
INVARIANTS PollsMissOnlyOvertaken RetentionKeepsTail
PROPERTIES ExecutionSettles
CHECK_DEADLOCK FALSE
