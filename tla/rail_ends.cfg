CONSTANTS
  Commands = {c1}
  Rails <- BothRails
  Revisions <- TwoRevisions
  MaxStops = 1
  MaxChanges = 1
SPECIFICATION FairSpec
PROPERTIES TransferEnds
