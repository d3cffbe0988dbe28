CONSTANTS
  r1 = r1 r2 = r2 r3 = r3
  ni = ni nar = nar zip = zip
  Reqs = {r1, r2}
  Small = {ni}
  Large = {nar}
  Nars = {nar}
  NarOf <- MCNarOf
  MaxFetches = 1
  MaxEvents = 1
  NoReq = NoReq
SPECIFICATION FairSpec
PROPERTY NeverLeftWaiting
