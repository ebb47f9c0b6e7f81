SPECIFICATION EchoSpec
CONSTANTS
  MaxOpens = 2
  MaxSends = 6
  MaxId = 1
  Cap = 1
  PushCap = 1
  Scopes <- LiveScopes
CHECK_DEADLOCK FALSE
PROPERTIES ClosedSessionsEnd PushesReachSocket DropEndsLoop KeepsContract
