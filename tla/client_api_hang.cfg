SPECIFICATION FairSpec
CONSTANTS
  MaxPending = 1
  SpuriousWakeups = FALSE
PROPERTY DisconnectEnds
\* The program ends, and kvs_disconnect may wait for ever.
CHECK_DEADLOCK FALSE
