SPECIFICATION FairSpec
CONSTANTS
  k1 = k1
  k2 = k2
  g1 = g1
  g2 = g2
  r1 = r1
  r2 = r2
  NoKey = NoKey
  Background = Background
  Key = {k1}
  SaleKey = {k1}
  Request = {}
  Grant = {}
  GrantFor <- MCNoGrant
  MaxAttempts = 2
  TicksPerSecond = 1
  MaxEvents = 1
  MaxBatch = 1
  MaxInstant = 1
  MaxCrashes = 1
  MaxSleeps = 0
PROPERTIES
  UnsyncedSalesResume
CHECK_DEADLOCK FALSE
