SPECIFICATION FairSpec
CONSTANTS
  SetMotorArgs <- WholeStopArgs
  SetPwmArgs <- TwoSpeeds
  DeadmanTimeoutMs = 3
  MaxLoopMs = 2
  RebootDelayMs = 2
  MillisMod = 9
INVARIANTS ArmedDeadline DrivenDeadline
PROPERTIES NeverEarly ImplementsWatchdog SilenceStops
