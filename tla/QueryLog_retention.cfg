CONSTANTS
  Day = 3
  Offset = 1
  UpdateAt = 0
  PruneAt = 1
  Hour = 2
  Retentions <- MCRetentions
  MaxRows = 2
  MaxStops = 1
  MaxClock = 14
SPECIFICATION Spec
CHECK_DEADLOCK FALSE
INVARIANTS
  OldRowsGo
PROPERTIES
  TodayNeverShrinks
