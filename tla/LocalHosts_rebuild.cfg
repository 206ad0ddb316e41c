CONSTANTS
  Names = {n1, n2}
  Ips = {a1, a2}
  Tasks = {t1, t2}
  MaxIds = 4
  MaxOps = 5
  Crashes = TRUE
  ReloadFails = TRUE
  WriteFails = TRUE
SPECIFICATION FairSpec
CHECK_DEADLOCK FALSE
INVARIANTS
  FileIsTable
PROPERTIES
  Answered
