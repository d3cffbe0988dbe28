CONSTANTS
  r1 = r1 r2 = r2
  Reqs = {r1, r2}
  NoReq = NoReq
  MaxVersion = 3
  Big = {2}
  MaxEvents = 1
SPECIFICATION FairSpec
INVARIANTS OneRefresh RefreshIsCurrent
PROPERTIES OlderOnlyInAnOutage EveryRequestAnswered
