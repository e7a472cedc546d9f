SPECIFICATION Spec
CONSTANTS
  SetMotorArgs <- ProtocolArgs
  SetPwmArgs <- OneSpeed
  DeadmanTimeoutMs = 2
  MaxLoopMs = 1
  RebootDelayMs = 1
  MillisMod = 6
INVARIANTS DrivenDeadline
