SPECIFICATION FairSpec
CHECK_DEADLOCK FALSE
CONSTANTS
  f1 = f1
  f2 = f2
  s1 = s1
  p1 = p1
  p2 = p2
  NoPid = NoPid
  Top = Top
  Feeders = {f1, f2}
  Superhubs = {s1}
  Pids = {p1, p2}
  JobPids = {p1}
  Known = {s1}
  Pushers = {f2}
  OneWord = TRUE
  DirTestAnswered = TRUE
  MaxDump = 2
  MaxFaults = 1
  MaxCrashes = 1
INVARIANTS NoResidue
PROPERTIES InOrder KeepsUp
