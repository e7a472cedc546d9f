SPECIFICATION Spec
CONSTANTS
  MaxFrames = 3
  MaxSessions = 2
  CallbackEnds = TRUE
PROPERTIES NoDispatchWhenStopped
