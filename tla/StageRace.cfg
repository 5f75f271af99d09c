SPECIFICATION FairSpec
CONSTANTS
  p1 = p1
  p2 = p2
  m = m
  None = None
  Missing = m
  Procs <- SomeProcs
  Contexts <- SomeContexts
  CodeOrder <- SomeCodes
  Documents <- ThreeDocuments
  Requests <- MixedRequests
  FirstStates <- EitherRuns
  OtherEvents <- FewerKinds
  ContentRecurs = FALSE
  MaxEdits = 1
  MaxRevision = 2
  MaxKills = 1
INVARIANTS OneOutcomePerRun OutcomeOfNamedResult RecheckedUnderLock
PROPERTIES EveryFinalizerReturns
CHECK_DEADLOCK FALSE
