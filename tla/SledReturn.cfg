CONSTANTS
  Sessions = {1, 2, 3}
  SessionSeq <- AllSeq
  OriginLife <- AllOrigins
  Jobs <- All
  JobKind <- AllKinds
  Scenarios <- Returns
  LaunchCapacity = 2
  MaxPendingStarts = 2
  MaxQueuedJobs = 2
  Faults = {"output"}
  MayShutDown = FALSE
  MaxLives = 2
  MaxBirths = 3
SPECIFICATION Spec
INVARIANTS
  SledInv
  
  NewUniverseHearsNothing
  NoSkippedJobLaunched
PROPERTIES
  RecordAdvances
CHECK_DEADLOCK FALSE
