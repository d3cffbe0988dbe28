CONSTANTS
  TTL = 24
  RenewEvery = 12
  MinRemaining = 2
  FirstBackoff = 1
  Cap = 5
SPECIFICATION FairSpec
INVARIANTS PresentsItsOwn ReadyMeansServed RenewedInTime
PROPERTY ReadyAgain
