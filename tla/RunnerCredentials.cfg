\* Two runs of one pod: the second finds what the first, or its kill, left.
\* Times of four bits: 15 is a certificate without an end, 8 .. 14 wrap.
SPECIFICATION FairSpec
CONSTANTS
  MaxRuns = 2
  Now = 2
  TTL = 2
  Slack = 1
  Half = 8
INVARIANTS
  EnabledIsComplete
  WithinItsLimits
  DisabledStaysLocal
  TrustIsAsConfigured
PROPERTIES
  SetupEnds
CHECK_DEADLOCK FALSE
