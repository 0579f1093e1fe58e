SPECIFICATION Spec
CHECK_DEADLOCK FALSE
CONSTANTS
  f1 = f1
  s1 = s1
  s2 = s2
  p1 = p1
  NoPid = NoPid
  Top = Top
  Feeders = {f1}
  Superhubs = {s1, s2}
  Pids = {p1}
  JobPids = {p1}
  Known = {}
  Pushers = {}
  OneWord = FALSE
  DirTestAnswered = FALSE
  MaxDump = 2
  MaxFaults = 1
  MaxCrashes = 1
SYMMETRY Symmetry
INVARIANTS TypeOK OwnWip
PROPERTIES NothingLost
