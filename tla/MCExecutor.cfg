CONSTANTS
  Jobs = {j1, j2}
  At = {at}
  LaunchCapacity = 2
  Endings = {"stopped", "interrupted"}
  Faults = {"store", "load", "spawn", "join", "output"}
  MaxLaunches = 3
  MaxRecording = 1
INIT ExecutorInit
NEXT BoundedNext
INVARIANTS
  RecordCoversSpawned
  ExecutorInv
SYMMETRY Symmetry
CHECK_DEADLOCK FALSE
