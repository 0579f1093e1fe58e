SPECIFICATION FairSpec
CONSTANTS
  f1 = f1
  f2 = f2
  f3 = f3
  Feeders = {f1, f2, f3}
  Kinds = {"valid"}
  Backend = "parallel"
  Repeats = FALSE
  HandleDuplicates = FALSE
  MaxDump = 1
  MaxFaults = 0
  MaxCrashes = 0
  MaxEdits = 1
PROPERTIES FileTaken
