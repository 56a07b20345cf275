SPECIFICATION FairSpec
CONSTANTS
  k1 = k1
  k2 = k2
  k3 = k3
  k4 = k4
  v1 = v1
  v2 = v2
  TABLE_SIZE = 2
  Keys = {k1, k2, k3, k4}
  Values = {v1, v2}
  Missing = Missing
  Hash <- TwoChains
  Threads = {t1, t2, t3}
  NoThread = NoThread
  Directory <- Entries
  JobFiles = {"one.job", "bad.job", "two.job", "three.job"}
  Unreadable = {"bad.job"}
  Program <- Programs
  Stem <- Stems
  DirBuffer = 6
  NoBackup = NoBackup
INVARIANTS TypeOK ChainsSound BackupsApart
PROPERTIES ImplementsService AllJobsRun
\* The job threads end with the directory.
CHECK_DEADLOCK FALSE
