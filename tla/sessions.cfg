SPECIFICATION Spec
CONSTANTS
  MAX_SESSION_COUNT = 2
  Clients = {c1, c2, c3}
  Crashers = {c3}
  Failures = TRUE
  Host = host
  SigThreads = {host, job}
  NoThread = NoThread
  NoClient = NoClient
SYMMETRY Symmetric
INVARIANTS TypeOK PermitsAccounted ScanFindsSlot NoLostWakeup SlotsOwned HandlerAccounting
PROPERTIES SessionKept HandlerLeavesNobody ImplementsService
CHECK_DEADLOCK FALSE
