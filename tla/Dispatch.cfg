CONSTANTS
    s1 = s1
    s2 = s2
    s3 = s3
    proxy = proxy
    Sleds <- MCSleds
    Home = s1
    Proxy = proxy
    Cubbies = {1, 2, 3}
    Serial <- MCSerial
    Files <- MCFiles
    Settings <- MCSettings
    Scenarios <- MCScenarios
SPECIFICATION Spec
INVARIANTS
  DispatchInv
  SharedCurrent
  OneSledPerAcceptance
PROPERTIES
  RunsWhereTargeted
CHECK_DEADLOCK FALSE
