SPECIFICATION Spec
CONSTANTS
  k1 = k1
  k2 = k2
  g1 = g1
  g2 = g2
  r1 = r1
  r2 = r2
  NoKey = NoKey
  Background = Background
  Key = {k1}
  SaleKey = {k1}
  Request = {}
  Grant = {}
  GrantFor <- MCNoGrant
  MaxAttempts = 1
  TicksPerSecond = 2
  MaxEvents = 2
  MaxBatch = 2
  MaxInstant = 3
  MaxCrashes = 0
  MaxSleeps = 0
INVARIANTS
  NoOvertaking
CHECK_DEADLOCK FALSE
