CONSTANTS
  Futures <- MCFutures
  Gone = Gone
  Free = Free
  MaxNonces = 2
  MaxIdentities = 2
  SeqWindowSize = 5
  Scenarios <- MCScenarios
  Sleds = {s1, s2}
  Home = s1
  s1 = s1
  s2 = s2
  ChunkFutures <- MCChunks
  Chunks = 3
  Parallel = 2
  WatchMinPolls = 4
  MaxIdlePolls = 1
SPECIFICATION FairSpec
INVARIANTS
  ClientInv
  ForwardedOnce
  ChainsInStep
PROPERTIES
  AuthorizedOnce
  NoSledMissed
  CommandsReturn
CHECK_DEADLOCK FALSE
