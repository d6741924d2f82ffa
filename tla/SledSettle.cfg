CONSTANTS
  Sessions = {1}
  SessionSeq <- OneSeq
  OriginLife <- OneTheirs
  Jobs <- One
  JobKind <- OneCubby
  Scenarios <- OneFromPeers
  LaunchCapacity = 1
  MaxPendingStarts = 1
  MaxQueuedJobs = 2
  Faults = {"load", "store", "spawn", "join"}
  MayShutDown = FALSE
  MaxLives = 3
  MaxBirths = 4
SPECIFICATION FairSpec
INVARIANTS
  BoundaryJobRuled
PROPERTIES
  JobsSettle
  RequestedJobsEnd
  RefinesExecutor
CHECK_DEADLOCK FALSE
