\* Two builders of one slug, without any error.
SPECIFICATION Spec
CONSTANTS
  None = None
  Slugs = {s1}
  Builders = {b1, b2}
  Together = TRUE
  MaxBuilds = 2
  MaxMishaps = 0
INVARIANT
  ConfirmedValidated
CHECK_DEADLOCK FALSE
