SPECIFICATION FairSpec
CONSTANTS
  Jobs = {j1, j2, j3}
  max_backups = 2
  NoJob = NoJob
INVARIANTS TypeOK BackupsBounded
PROPERTY BackupCompletes
