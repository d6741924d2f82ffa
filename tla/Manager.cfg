CONSTANTS
  Jobs <- TwoJobs
  Sleds <- TwoSleds
  MaxHistory = 1
  LowWater = 0
  Own = "here"
  Calls = {c1}
  MaxQueued = 1
  Resends = FALSE
  MaxRequests = 4
  TargetOf <- TwoTargets
  MaxUpsets = 1
  Waits = {"none", "start", "stop"}
SPECIFICATION FairSpec
INVARIANTS
  ManagerInv
  StartedJobsKept
PROPERTIES
  SettledWaitsReturn
CHECK_DEADLOCK FALSE
