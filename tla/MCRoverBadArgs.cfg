SPECIFICATION Spec
CONSTANTS
  SetMotorArgs <- UncheckedArgs
  SetPwmArgs <- OneSpeed
  DeadmanTimeoutMs = 2
  MaxLoopMs = 1
  RebootDelayMs = 1
  MillisMod = 6
PROPERTIES BadArgsSideEffectFree
