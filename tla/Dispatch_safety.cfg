SPECIFICATION Spec
CONSTANTS
  None = None
  GlobalHooks <- MCGlobalHooks
  Services <- MCServices
  Requests <- MCRequests
  Sites = {"good"}
  SocketSites = {"good"}
  WsMerged = TRUE
INVARIANTS
  RoutedToBest
  BuiltinReachable
  GuardsPaired
  HooksRunOnce
  LimitedBeforeRun
