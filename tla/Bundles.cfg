SPECIFICATION Spec
CONSTANTS
  None = None
  Slugs = {s1, s2}
  Builders = {b1, b2}
  Together = FALSE
  MaxBuilds = 3
  MaxMishaps = 2
SYMMETRY Symmetric
INVARIANTS
  ConfirmedValidated
  PromisedKept
PROPERTIES
  FailureRestores
CHECK_DEADLOCK FALSE
