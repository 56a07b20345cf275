SPECIFICATION Spec
CONSTANTS
  Files <- MCFiles
  MAX_STRING_SIZE = 8
  MAX_WRITE_SIZE = 3
  UINT_MAX = 999
  Junk <- MCJunk
INVARIANTS TypeOK RoundTrip LineAligned ErrorContained
\* The loops end.
CHECK_DEADLOCK FALSE
