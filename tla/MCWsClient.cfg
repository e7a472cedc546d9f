SPECIFICATION FairSpec
CONSTANTS
  MaxRequests = 3
  MaxLosses = 2
  MaxForeign = 1
  Window = 2
  MayTimeOut = TRUE
INVARIANTS InStep LeftForGood
PROPERTIES Settles ComesBack
CHECK_DEADLOCK FALSE
