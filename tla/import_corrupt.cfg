SPECIFICATION Spec
CONSTANTS
  f1 = f1
  f2 = f2
  Feeders = {f1, f2}
  Kinds = {"valid", "corrupt"}
  Backend = "xargs"
  Repeats = FALSE
  HandleDuplicates = FALSE
  MaxDump = 1
  MaxFaults = 0
  MaxCrashes = 0
  MaxEdits = 0
PROPERTIES ViewComplete
