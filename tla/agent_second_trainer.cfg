SPECIFICATION Spec
CONSTANTS
  MaxLease = 2
  MaxRestarts = 0
  Faults = {}
  NoLease = NoLease
  NoRequest = NoRequest
INVARIANTS OneTrainer
