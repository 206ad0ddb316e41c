CONSTANTS
  Ids = {i1, i2, i3}
  Keys = {k1, k2, k3}
  Addrs = {a1}
  Tasks = {t1, t2}
  Ops = {"add", "delete", "seen", "crash"}
  MaxOps = 6
  Failures = {"conf", "insert", "wg", "torn"}
  None = none
SPECIFICATION Spec
SYMMETRY MCSymmetry
CHECK_DEADLOCK FALSE
INVARIANTS
  TypeOK
  DeletedIsGone
  PeersKept
  AddressesDistinct
  DiscoveredOnce
