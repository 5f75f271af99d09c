SPECIFICATION WorkflowSpec
CONSTANTS
  None = None
  Contexts = {c1, c2}
INVARIANTS
  WorkflowTypeOK
  NoStageBypassed
  RecordingOnlyAfterFinalization
  FinalizationStaysReachable

