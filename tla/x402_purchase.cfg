SPECIFICATION FairSpec
CONSTANTS
  Ops = {p1}
  Signers = {"local", "provider"}
  MaxStops = 1
INVARIANTS OutcomeIsProven SentIsMarkedAndHeld
PROPERTIES ReceiptStands KeepsPromise PurchaseEnds
CHECK_DEADLOCK FALSE
