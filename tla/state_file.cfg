SPECIFICATION Spec
CONSTANTS
  c1 = c1
  c2 = c2
  c3 = c3
  Calls = {c1, c2, c3}
  Roles = {"read", "write", "create", "remove"}
  MaxFaults = 1
  None = None
SYMMETRY CallsAreAlike
INVARIANTS TargetIsWhole ReportedIsKept CreatedOnce
PROPERTIES RefusalIsJust
CHECK_DEADLOCK FALSE
