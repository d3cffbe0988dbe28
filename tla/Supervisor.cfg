\* A child with a descendant, a queue of one signal, pipes of one write.
SPECIFICATION FairSpec
CONSTANTS
  Child = c
  Others = {o1}
  Numbers = {3}
  Streams = {out, err}
  QueueCap = 1
  PipeCap = 1
  MaxOutput = 1
  MaxSignals = 2
INVARIANTS
  ReturnsTheChildsCode
  OutputComplete
  SignalsArrive
PROPERTIES
  NeverSignalsAStranger
  EndsWithTheChild
  NothingIsLeftPending
CHECK_DEADLOCK FALSE
