SPECIFICATION MCSpec
CONSTANTS
  ordinary = ordinary
  chat = chat
  Calls <- MCCalls
  Long <- MCLong
  Runtimes = {"browser", "tcp", "threads"}
  MaxPushes = 2
  MaxCloses = 2
INVARIANTS CallsExact NoPushLost ClosedAtServer
PROPERTIES KeepsContract EveryCallEnds CloseReturns OrphansReaped
CHECK_DEADLOCK FALSE
