SPECIFICATION FairSpec
CONSTANTS
  f1 = f1
  f2 = f2
  Feeders = {f1, f2}
  Kinds = {"valid", "badsql"}
  Backend = "xargs"
  Repeats = FALSE
  HandleDuplicates = FALSE
  MaxDump = 2
  MaxFaults = 1
  MaxCrashes = 1
  MaxEdits = 1
INVARIANTS ImportInv InvalidSkipped NothingLeftBehind
PROPERTIES ViewComplete ViewPromise ImportedRowsKept FileTaken
