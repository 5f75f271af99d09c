\* Two calls of the wrapper for one case, the gate and other commands.
SPECIFICATION Spec
CONSTANTS
  Verifiers = {v1}
  Hands = {h1, h2}
  Candidates = {k1}
  RunIds = {r1}
  Cases <- CasesOfRuns
  NoCase = NoCase
  None = None
  Casts <- ByHand
  Somebody = Somebody
  MaxMishaps = 0
  MaxOthers = 2
INVARIANT
  LaterResultResolves
CHECK_DEADLOCK FALSE
