CONSTANTS
  Lists <- MCLists
  Filters = {all, blocked}
  All = all
  Asked = Asked
  Done = Done
  Failed = Failed
  None = None
  LogRows = 1
  MaxEvents = 2
  MaxClicks = 4
  MaxCalls = 2
  MaxFailures = 1
SPECIFICATION FairSpec
CHECK_DEADLOCK FALSE
INVARIANTS
  TypeOK
  ListIsTable
  FilterIsShown
  LiveLogIsShown
PROPERTIES
  CountIsCorrected
