SPECIFICATION FairSpec
CONSTANTS
  MAX_SESSION_COUNT = 1
  Clients = {c1, c2, c3}
  Crashers = {}
  Failures = FALSE
  Host = host
  SigThreads = {job}
  NoThread = NoThread
  NoClient = NoClient
PROPERTIES ConnectAnswered RequestAnswered HandlerEnds
