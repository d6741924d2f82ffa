CONSTANTS
  Sessions = {1}
  SessionSeq <- OneSeq
  OriginLife <- OneTheirs
  Jobs <- Chain
  JobKind <- ChainPlain
  Scenarios <- ChainAndControls
  LaunchCapacity = 1
  MaxPendingStarts = 1
  MaxQueuedJobs = 2
  Faults = {}
  MayShutDown = TRUE
  MaxLives = 1
  MaxBirths = 1
SPECIFICATION FairSpec
INVARIANTS
  NoCancelledJobLaunched
PROPERTIES
  ShutdownDrains
  RequestedJobsEnd
CHECK_DEADLOCK FALSE
