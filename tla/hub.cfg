SPECIFICATION HubSpec
CONSTANTS
  N = 5
  Slots = 2
  Statuses = {0, 1}
  NoRequest = NoRequest
  EmptyLine = EmptyLine
  p = p
  q = q
  Promisers = {p, q}
  Declared <- MCDeclared
  Automatic = TRUE
  PyNames = {"count", "flag", "x"}
  PyValues = {"number", "truth", "list"}
  ShNames = {"from", "x"}
  ShValues = {"v", "n"}
  Swallowed = {"n"}
  Required = {"from"}
  Optional = {}
  AllValid = FALSE
  f1 = f1
  f2 = f2
  Feeders = {f1, f2}
  Superhub = superhub
  MaxTime = 4
  MaxEdits = 1
  MaxCertFaults = 2
  HubList <- MCHubList
  MaxSetups = 3
  MaxAccountFaults = 3
  MaxAttempts = 10
  NoCode = NoCode
  MaxPsqlFaults = 11
INVARIANTS HubTypeOK ValidMeansReadable OwnClasses RequiredPresentOrStale AtMostSlots ReturnAlmostRight AllDone Report
PROPERTIES Promised Ends CertsSpread Implements
\* The function returns, modules end, and faults are bounded.
CHECK_DEADLOCK FALSE
