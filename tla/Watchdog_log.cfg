CONSTANTS
  Never = Never
  Grace = 2
  QueueLen = 2
  MaxTime = 3
  MaxLines = 3
SPECIFICATION VerdictSpec
PROPERTY LogFollowsTheVerdict
