SPECIFICATION MCSpec
CONSTANTS
  Peers = {p1, p2}
  MaxConn = 1
  Timed = TRUE
  Paths = {"orig", "renewed"}
  Original = "orig"
  BcastCap = 1
  MpscCap = 1
  MaxReloads = 2
  MaxVersion = 1
  Broken = {0}
  None = None
  Cap = 1
  MaxSends = 2
INVARIANTS
  TypeOK
  PermitsConserved
  NoStaleCertificate
  StreamComplete
CHECK_DEADLOCK FALSE
PROPERTIES
  WrittenInOrder
  ShutdownCompletes
  LastReloadWins
  SessionsEnd
