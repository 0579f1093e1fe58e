SPECIFICATION Spec
CONSTANTS
  f1 = f1
  f2 = f2
  Feeders = {f1, f2}
  Kinds = {"valid", "badsql"}
  Backend = "xargs"
  Repeats = FALSE
  HandleDuplicates = TRUE
  MaxDump = 1
  MaxFaults = 0
  MaxCrashes = 0
  MaxEdits = 0
INVARIANTS InvalidSkipped
