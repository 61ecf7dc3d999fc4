SPECIFICATION Spec
CONSTANTS
  o1 = o1
  o2 = o2
  alice = alice
  bob = bob
  k1 = k1
  k2 = k2
  p1 = p1
  p2 = p2
  Preparers = {p1, p2}
  Prepares <- MCPrepares
  Collector = Collector
  Ops = {o1, o2}
  Keys = {k1, k2}
  Requests <- MCRequests
  MaxAdmissions <- MCAdmissions
INVARIANTS ExclusiveUnlessReadmitted KeyBoundOnce ClaimIsHeld OpenRecordIsListed
CHECK_DEADLOCK FALSE
