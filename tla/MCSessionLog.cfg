SPECIFICATION LogSpec
CONSTANTS
  MAX_BATCH = 2
  KeptBatches = 1
  MaxEvents = 4
  MaxFails = 2
INVARIANTS NothingLost TwiceOnlyIfFailed
PROPERTIES Delivered
CHECK_DEADLOCK FALSE
