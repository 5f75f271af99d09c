SPECIFICATION Spec
CONSTANTS
  p1 = p1
  p2 = p2
  p3 = p3
  None = None
  Procs <- ThreeProcs
  Inodes <- EnoughInodes
  Settings <- Disciplines
  MaxFaults = 2
  MaxCrashes = 1
SYMMETRY AnyUpdater
INVARIANTS PublishedKept FailureUndone
CHECK_DEADLOCK FALSE
