SPECIFICATION FairSpec
CONSTANTS
  MaxPending = 2
  SpuriousWakeups = TRUE
INVARIANTS TypeOK ClosedAfterThread NoLostSignal RepliesMatch WaitsAnswered
PROPERTIES ConnectEnds RequestEnds JoinEnds EndIsNoticed
\* The program ends, and kvs_disconnect may wait for ever (client_api_hang).
CHECK_DEADLOCK FALSE
