SPECIFICATION Spec
CONSTANTS
  None = None
  Contexts = {halt}
  g1 = g1
  g2 = g2
  b1 = b1
  b2 = b2
  Gates <- TwoGates
  Bundles <- TwoBundles
  FirstStates <- Packaging
  FirstFiles <- EveryStart
  Authored = Authored
  HaltCtx = halt
  OtherEvents <- Reopening
  MaxEdits = 1
  MaxKills = 1
INVARIANTS PassUninterrupted  PassedStands
SYMMETRY Symmetry
CHECK_DEADLOCK FALSE
