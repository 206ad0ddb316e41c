CONSTANTS
  Domains = {d1, d2, d3}
  Clients = {c1, c2}
  Local = localhost
  Askers = {c1, c2, localhost}
  Answers = {"block", "forward", "cached"}
  Limit = 1
  Evicted = 1
  MaxAsks = 3
  Rotations = 1
  DbFails = TRUE
SPECIFICATION Spec
SYMMETRY MCSymmetry
CHECK_DEADLOCK FALSE
INVARIANTS
  TypeOK
  Attributed
  OnceEach
  NothingMissed
