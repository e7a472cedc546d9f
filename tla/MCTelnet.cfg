SPECIFICATION TelnetFairSpec
CONSTANTS
  MaxClients = 2
  MaxArrivals = 4
  SelfOff = TRUE
  OtherTasks = TRUE
INVARIANTS NoneSkipped
PROPERTIES PlacesAreFreed
CHECK_DEADLOCK FALSE
