SPECIFICATION Spec
CONSTANTS
  None = None
  GlobalHooks <- MCGlobalHooks
  Services <- PageServices
  Requests <- MCRequests
  Sites = {"good"}
  SocketSites = {"good"}
  WsMerged = TRUE
INVARIANT NeverIntercepted
