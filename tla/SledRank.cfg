CONSTANTS
  Sessions = {1, 2}
  SessionSeq <- TwoSeq
  OriginLife <- TwoTheirs
  Jobs <- Three
  JobKind <- ThreePlain
  Scenarios <- StopHigher
  LaunchCapacity = 2
  MaxPendingStarts = 2
  MaxQueuedJobs = 2
  Faults = {}
  MayShutDown = FALSE
  MaxLives = 1
  MaxBirths = 1
SPECIFICATION Spec
INVARIANTS
  HigherSessionsNeverRan
CHECK_DEADLOCK FALSE
