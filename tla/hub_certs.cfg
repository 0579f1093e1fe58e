SPECIFICATION Spec
CONSTANTS
  f1 = f1
  f2 = f2
  Feeders = {f1, f2}
  Superhub = superhub
  MaxTime = 4
  MaxEdits = 0
  MaxFaults = 0
INVARIANTS BundleComplete
