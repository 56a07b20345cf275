SPECIFICATION Spec
CONSTANTS
  Jobs = {j1, j2}
  max_backups = 1
  NoJob = NoJob
INVARIANT AtMostMaxBackups
