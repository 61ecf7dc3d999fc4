SPECIFICATION FairSpec
CONSTANTS
  p1 = p1
  p2 = p2
  Ops = {p1}
  LanesOf <- AnyLane
  MaxStops = 2
  MaxReorgs = 1
  None = None
INVARIANTS SentOnce OutcomeIsProven TerminalHasReceipt
PROPERTIES ProviderTransferEnds
CHECK_DEADLOCK FALSE
