SPECIFICATION Spec
CONSTANTS
  MaxRequests = 2
  MaxLosses = 0
  MaxForeign = 0
  Window = 1
  MayTimeOut = TRUE
INVARIANTS RepliesMatch
CHECK_DEADLOCK FALSE
