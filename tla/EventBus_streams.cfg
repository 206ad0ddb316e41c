CONSTANTS
  Subs = {s1, s2}
  Capacity = 2
  MaxEvents = 4
SPECIFICATION FairBusSpec
CHECK_DEADLOCK FALSE
INVARIANTS
  BusTypeOK
  Accounted
PROPERTIES
  Arrives
  LeftIsForgotten
