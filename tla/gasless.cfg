CONSTANTS
  MaxStops = 2
  MaxReorgs = 1
SPECIFICATION FairSpec
INVARIANTS SentOnce OutcomeIsProven
PROPERTIES HoldsPayment GaslessEnds
