SPECIFICATION Spec
CONSTANTS
  o1 = o1 o2 = o2 r1 = r1 r2 = r2 u1 = u1 u2 = u2 h1 = h1 h2 = h2
  Ops = {o1, o2}
  Replicas = {r1, r2}
  Records <- Announced
  SizeOf <- Sizes
  Budget = 2
  EntryMax = 2
  MaxEvents = 1
INVARIANTS
  AnswersAreTheURLsOwn
  EveryReplicaFinds
  MemoryAccounted
CHECK_DEADLOCK FALSE
SYMMETRY Symmetry
