SPECIFICATION Spec
CONSTANTS
  k1 = k1
  k2 = k2
  g1 = g1
  g2 = g2
  r1 = r1
  r2 = r2
  NoKey = NoKey
  Background = Background
  Key = {k1, k2}
  SaleKey = {k1}
  Request = {r1}
  Grant = {g1}
  GrantFor <- MCOneGrant
  MaxAttempts = 2
  TicksPerSecond = 1
  MaxEvents = 2
  MaxBatch = 2
  MaxInstant = 2
  MaxCrashes = 1
  MaxSleeps = 1
INVARIANTS
  TypeOK
  NoOvertaking
  PublishedIsAtCentral
  OneClaimPerKey
  DeadLetterIsEarned
  GrantRevivesOnce
PROPERTIES
  PublishedIsFinal
  ImplementsOrderedDelivery
