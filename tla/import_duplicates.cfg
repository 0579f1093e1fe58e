SPECIFICATION Spec
CONSTANTS
  f1 = f1
  f2 = f2
  f3 = f3
  Feeders = {f1, f2, f3}
  Kinds = {"valid", "badsql"}
  Backend = "parallel"
  Repeats = FALSE
  HandleDuplicates = TRUE
  MaxDump = 1
  MaxFaults = 1
  MaxCrashes = 0
  MaxEdits = 1
SYMMETRY Symmetry
PROPERTIES PreviousKept
