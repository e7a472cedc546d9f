SPECIFICATION Spec
CONSTANTS
  SetMotorArgs <- ProtocolArgs
  SetPwmArgs <- ProtocolSpeeds
  DeadmanTimeoutMs = 1
  MaxLoopMs = 1
  RebootDelayMs = 0
  MillisMod = 3
INVARIANTS TypeOK OnlyPartialStopDisarms DutyIsSpeed
