SPECIFICATION Spec
CONSTANTS
  Acts = {"forward", "left"}
  Speeds = {160}
  StartSpeed = 160
  KeepaliveTicks = 2
  DeadmanTicks = 4
  MaxHeld = 2
  MaxWire = 2
PROPERTIES DeadmanSparesHolder
