SPECIFICATION EchoSpec
CONSTANTS
  MaxOpens = 2
  MaxSends = 1
  MaxId = 2
  Cap = 1
  PushCap = 2
  Scopes <- PairScopes
CHECK_DEADLOCK FALSE
PROPERTIES LoopResumes
