CONSTANTS
  Lists = {l1}
  Parent = parent
  Child = child
  Domains <- MCDomains
  Under <- MCUnder
  Feeds <- MCOneFeed
  Tasks = {t1, t2}
  Ops = {"upload", "toggle", "delete", "sync", "addRule", "crash"}
  MaxOps = 3
  Failures = {"fetch"}
  NoList = none
  Free = free
SPECIFICATION FairSpec
CHECK_DEADLOCK FALSE
INVARIANTS
  NoChangeForgotten
PROPERTIES
  Settles
  ChangeIsApplied
