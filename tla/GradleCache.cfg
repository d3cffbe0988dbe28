CONSTANTS
  p1 = p1 p2 = p2 p3 = p3 g1 = g1 g2 = g2
  Puts = {p1, p2, p3}
  Gets = {g1, g2}
  Nothing = Nothing
  MaxExpiries = 1
SPECIFICATION Spec
INVARIANTS LatePutChangesNothing FoundAfterwards
