CONSTANTS
  r1 = r1 r2 = r2 r3 = r3
  ni = ni nar = nar zip = zip
  Reqs = {r1, r2, r3}
  Small = {ni}
  Large = {nar}
  Nars = {nar}
  NarOf <- MCNarOf
  MaxFetches = 1
  MaxEvents = 1
  NoReq = NoReq
SPECIFICATION Spec
SYMMETRY Symmetry
INVARIANTS
  OnlyVerifiedStored SingleFlight SlotsAccounted EveryWaitHasAnEnd
  FollowersShareTheBody OnlyStoredIsPromised
PROPERTIES KeepsPromise
