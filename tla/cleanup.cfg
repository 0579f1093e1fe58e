SPECIFICATION FairSpec
CONSTANTS
  f1 = f1
  f2 = f2
  Hosts = {h1}
  Feeders = {f1, f2}
  HubList <- TwoHubs
  Superhub = superhub
  NoDump = NoDump
  MaxTime = 2
  MaxMoves = 2
  MaxSetups = 2
  MaxFaults = 2
INVARIANTS OnlyWhereLeft SecretFits
PROPERTIES LastRowKept CleanedUp
