SPECIFICATION Spec
CONSTANTS
  None = None
  NoView = NoView
  Garbage = Garbage
  Version = version
  oldVersion = oldVersion
  c1 = c1
  c2 = c2
  run1 = run1
  run2 = run2
  FreshRun = fresh
  Versions = {version, oldVersion}
  Contexts = {c1, c2}
  Runs = {run1, run2, fresh}
  Writers = {w1, w2}
  Recoverers = {}
  Requests <- RacingRequests
  InitialFiles <- R2Files
  MaxRequests = 3
  MaxFaults <- PowerFaults
  DirSync = TRUE
SYMMETRY AnyWriter
INVARIANTS
  TypeOK
  JournalAlwaysReadable
  OneWinnerPerRevision
  AcknowledgedKept
  ViewFollowsJournal
PROPERTIES
  LogSpec
CHECK_DEADLOCK FALSE
