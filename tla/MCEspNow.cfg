SPECIFICATION FairSpec
CONSTANTS
  MaxFrames = 4
  MaxSessions = 3
  CallbackEnds = TRUE
INVARIANTS InstanceOutlivesCallback NoStaleFrame InOrderOnce
PROPERTIES Answered
