SPECIFICATION TelnetSpec
CONSTANTS
  MaxClients = 2
  MaxArrivals = 4
  SelfOff = TRUE
  OtherTasks = FALSE
INVARIANTS NoFreedClient
