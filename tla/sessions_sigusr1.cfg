SPECIFICATION FairSpec
CONSTANTS
  MAX_SESSION_COUNT = 2
  Clients = {c1, c2}
  Crashers = {}
  Failures = FALSE
  Host = host
  SigThreads = {host}
  NoThread = NoThread
  NoClient = NoClient
PROPERTY SignalHandled
CHECK_DEADLOCK FALSE
