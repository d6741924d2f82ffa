CONSTANTS
  Missing = Missing
  Bad = Bad
  SlotCount <- BothSlots
  Faults <- AllFaults
  MaxStores = 2
  MaxSeq = 3
  MaxLives = 3
SPECIFICATION FairSpec
INVARIANTS
  LockerInv
  RecordSurvivesCrash
PROPERTIES
  CallsReturn
CHECK_DEADLOCK FALSE
