SPECIFICATION Spec
CONSTANTS
  ordinary = ordinary
  chat = chat
  Calls <- MCCalls
  Long <- MCLong
  Runtimes = {"browser"}
  MaxPushes = 1
  MaxCloses = 1
INVARIANTS SocketsServed
CHECK_DEADLOCK FALSE
