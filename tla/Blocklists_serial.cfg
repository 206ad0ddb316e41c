CONSTANTS
  Lists = {l1, l2}
  Parent = parent
  Child = child
  Domains <- MCDomains
  Under <- MCUnder
  Feeds <- MCFeeds
  Tasks = {t1}
  Ops <- AllOps
  MaxOps = 3
  Failures = {"head", "fetch"}
  NoList = none
  Free = free
SPECIFICATION FairSpec
CHECK_DEADLOCK FALSE
INVARIANTS
  QuietIsCurrent
  TablesMatchFiles
PROPERTIES
  Converges
  ImplementsPublication
