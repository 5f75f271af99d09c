SPECIFICATION EndlessCalls
CONSTANTS
  None = None
  NoView = NoView
  Garbage = Garbage
  Version = version
  oldVersion = oldVersion
  c1 = c1
  c2 = c2
  run1 = run1
  run2 = run2
  FreshRun = fresh
  Versions = {version, oldVersion}
  Contexts = {c1, c2}
  Runs = {run1, run2, fresh}
  Writers = {w1}
  Recoverers = {r1}
  Requests <- MixedRequests
  InitialFiles <- AnyFiles
  MaxRequests = 2
  MaxFaults <- EditFaults
  DirSync = FALSE
PROPERTIES
  PublishedViewIsCurrent
  EveryCallEnds
  DriftIsRepaired
CHECK_DEADLOCK FALSE
