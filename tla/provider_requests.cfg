SPECIFICATION Spec
CONSTANTS
  p1 = p1
  p2 = p2
  Ops = {p1, p2}
  LanesOf <- TwoLanesAndAwal
  MaxStops = 1
  MaxReorgs = 0
  None = None
INVARIANTS OneAtATime
CHECK_DEADLOCK FALSE
