SPECIFICATION JournalFileSpec
CONSTANTS
  p1 = p1
  p2 = p2
  k1 = k1
  k2 = k2
  Procs = {p1, p2}
  Keys = {k1, k2}
  NoFile = NoFile
  NoDir = NoDir
  Platforms = {"posix", "windows"}
  Pausing = {"posix"}
  MaxTurns = 4
  MaxCrashes = 1
  MaxFaults = 1
SYMMETRY Symmetry
CONSTRAINT Bounded
INVARIANTS
  JournalTypeOK
  RefusedOnlyAfterRemoval
PROPERTY
  JournalSpec
CHECK_DEADLOCK FALSE
