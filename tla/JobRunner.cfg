CONSTANTS
  Bases = {"ramdisk", "dataset", "spare"}
  MaxPrevious = 1
  Threshold = 2
  Modes <- AllModes
  Clients = {c1, c2}
  ReadOnly = {c2}
  FsizeOf <- LargeThenSmall
  Capacity = 1
  InputCapacity = 1
  Playback = 1
  KillAttempts = 2
  Contract = FALSE
  Faults = {"setup", "create", "spawn", "write", "read", "playback", "seek", "kill", "send", "flush", "size"}
  MaxUpsets = 3
  MaxWrites = 2
  First = "ramdisk"
  Later = "dataset"
  Descendants = {"far"}
SPECIFICATION FairSpec
INVARIANTS
  JobInv
  OutputFindable
  ClientSeesNoGap
  StreamComplete
PROPERTIES
  JobEnds
CHECK_DEADLOCK FALSE
