SPECIFICATION MCSpec
CONSTANTS
  Calls = {k1, k2}
  Conns = {web, tcp}
  web = web
  tcp = tcp
  addr = addr
  None = None
  IpOf <- MCIpOf
  HeaderOf <- MCHeaderOf
  PeerConns = {tcp}
  Policy <- MixedPolicy
  PolicyName <- MixedName
  DefaultPolicy = "sliding"
  Start = 6
  MaxTime = 9
  MaxChecks = 6
INVARIANTS
  TypeOK
  WindowBound
  NoBoundaryBurst
  BucketBound
PROPERTIES
  FullWhenRefused
SYMMETRY CallSymmetry
CHECK_DEADLOCK FALSE
