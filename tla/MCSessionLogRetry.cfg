SPECIFICATION LogSpec
CONSTANTS
  MAX_BATCH = 2
  KeptBatches = 1
  MaxEvents = 3
  MaxFails = 3
PROPERTIES GivesUp
CHECK_DEADLOCK FALSE
