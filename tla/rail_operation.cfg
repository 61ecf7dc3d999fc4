CONSTANTS
  Commands = {c1, c2}
  Rails <- BothRails
  Revisions <- TwoRevisions
  MaxStops = 2
  MaxChanges = 1
SPECIFICATION Spec
INVARIANTS SubmittedOnce OutcomeIsProven
PROPERTIES  HoldsPayment
