SPECIFICATION Spec
CONSTANTS
  Acts = {"forward", "left", "right", "stop"}
  Speeds = {160, 200}
  StartSpeed = 160
  KeepaliveTicks = 2
  DeadmanTicks = 4
  MaxHeld = 3
  MaxWire = 2
INVARIANTS NoGhostInput RoverFollows
PROPERTIES KeepaliveSpares
