SPECIFICATION Spec
CONSTANTS
  Files <- MCFiles
  Matching <- MCMatching
  InModules = {"modules/mod"}
  DefJson = "def.json"
  New = {"extra"}
  ListedIn <- ListedLater
  MaxEdits = 1
  MaxFaults = 1
  MaxKills = 0
INVARIANTS StampFitsModules
