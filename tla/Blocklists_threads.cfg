CONSTANTS
  Lists = {l1, l2}
  Parent = parent
  Child = child
  Domains <- MCDomains
  Under <- MCUnder
  Feeds <- MCOneFeed
  Tasks = {t1, t2}
  Ops <- AllOps
  MaxOps = 3
  Failures = {"head", "fetch", "save", "count", "write", "reload"}
  NoList = none
  Free = free
SPECIFICATION Spec
SYMMETRY MCSymmetry
CHECK_DEADLOCK FALSE
INVARIANTS
  FreshApplyIsExact
  ReadIsSafe
  OneWriterOnLoop
