CONSTANTS
  Day = 3
  Offset <- MCWest
  Ips = {p1, p2}
  Tokens = {k1}
  Tasks = {t1}
  MaxAttempts = 2
  Lockout = 3
  Timeouts <- MCTimeouts
  CookieAge = 2
  MaxFailures = 3
  MaxClock = 9
SPECIFICATION Spec
SYMMETRY MCSymmetry
CHECK_DEADLOCK FALSE
INVARIANTS
  EndsByDayAndOffset
  LockedForCause
  NotCutShort
