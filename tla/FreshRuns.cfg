SPECIFICATION Spec
CONSTANTS
  Verifiers = {v1, v2}
  Hands = {h1}
  Candidates = {k1}
  RunIds = {r1, r2}
  Cases <- CasesOfRuns
  NoCase = NoCase
  None = None
  Casts <- Pairs
  Somebody = Somebody
  MaxMishaps = 1
  MaxOthers = 1
SYMMETRY Symmetry
INVARIANTS
  TypeOK
  VerdictOnOwnEvents
  OneVerdictPerCandidate
  FailureReleases
PROPERTIES
  OthersFilesKept
CHECK_DEADLOCK FALSE
