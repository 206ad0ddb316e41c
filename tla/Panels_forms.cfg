CONSTANTS
  ads = ads
  Ads = Ads
  spy = spy
  localhost = localhost
  LocalHost = LocalHost
  local = local
  Names = {ads, Ads, spy, localhost, LocalHost, local}
  Lower <- MCLower
  Qualified = {ads, Ads, spy}
  Loopback = {localhost}
  LocalName = local
  Files <- MCFiles
  Passwords = {p1, p2}
  None = None
  MaxCalls = 2
  MaxFailures = 1
SPECIFICATION Spec
CHECK_DEADLOCK FALSE
INVARIANTS
  PreviewIsImport
  QrIsConfig
  PasswordIsAsTold
PROPERTIES
  PasswordIsNamed
