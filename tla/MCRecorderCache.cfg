SPECIFICATION SpecRecorder
CONSTANTS
  Acts = {"forward", "backward"}
  Speeds = {160}
  StartSpeed = 160
  KeepaliveTicks = 2
  DeadmanTicks = 3
  MaxHeld = 1
  MaxWire = 1
  ReplayTicks = 2
  RestTicks = 1
  MinPress = 2
  MaxPress = 4
  MaxMoves = 2
  MaxReplays = 1
INVARIANTS CacheInSync
