SPECIFICATION FairSpec
CONSTANTS
  Ops = {o1}
  MaxNonce = 2
  MaxStops = 1
  Rules = {"safe"}
  Reorgs = {}
PROPERTY DispatchSettles
CHECK_DEADLOCK FALSE
