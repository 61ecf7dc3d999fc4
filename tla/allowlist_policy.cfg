SPECIFICATION PolicySpec
CONSTANTS
  c1 = c1
  c2 = c2
  o1 = o1
  o2 = o2
  a = a
  b = b
  None = None
  Commands = {c1, c2}
  Ops = {o1, o2}
  LaneOf <- OneOfEach
  OwnerOf <- EvmOfA
  Files <- FourFiles
  Families = {"evm", "solana"}
  Accounts = {a, b}
  Instants = {0, 1}
  MaxRevisions = 3
  MaxEntries = 3
SYMMETRY CommandsAreAlike
INVARIANTS NothingIsOverlooked FamilyHasOneAccount
PROPERTIES HeldUnderOwnRevision
CHECK_DEADLOCK FALSE
