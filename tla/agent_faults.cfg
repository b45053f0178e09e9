SPECIFICATION FairSpec
CONSTANTS
  MaxLease = 2
  MaxRestarts = 1
  Faults = {"network", "error", "launch", "stream", "wait", "stop"}
  NoLease = NoLease
  NoRequest = NoRequest
INVARIANTS HonestCompletion OneExecution SettledIsOver
PROPERTIES OffersAreTakenUp AbandonsOnlyLost
