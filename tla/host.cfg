SPECIFICATION HostSpec
CONSTANTS
  Files <- MCFiles
  Matching <- MCMatching
  InModules = {"modules/mod"}
  DefJson = "def.json"
  New = {"extra"}
  ListedIn <- ListedLater
  MaxEdits = 2
  MaxFaults = 1
  MaxKills = 1
  Hosts = {h1, h2}
  NoFile = NoFile
  Bad = Bad
  MaxTime = 3
  MaxChanges = 2
  MaxCmdbFaults = 2
  Pids = {p1, p2}
  NoPid = NoPid
  Daemons = {"execd", "serverd", "monitord"}
  Execd = "execd"
  HasProc = TRUE
  Overlaps = FALSE
  Tries = 3
  MaxDogFaults = 3
INVARIANTS HostTypeOK StampFits ExtrasFit HostFilesFit OneAtATime DatabasesFree
PROPERTIES PurgesOnlyRemoved CatchesUp Arrives ExecdStays
