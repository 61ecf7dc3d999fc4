SPECIFICATION Spec
CONSTANTS
  Ops = {o1, o2}
  MaxNonce = 2
  MaxStops = 2
  Rules = {"safe", "inclusion"}
  Reorgs = {"safe"}
SYMMETRY OpsAreAlike
INVARIANTS SentIsHeld OutcomeIsProven
PROPERTIES ClosedStaysClosed HoldsBeforePaying
CHECK_DEADLOCK FALSE
