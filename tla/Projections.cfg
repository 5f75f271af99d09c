SPECIFICATION Spec
CONSTANTS
  a1 = a1
  a2 = a2
  g1 = g1
  c1 = c1
  c2 = c2
  v1 = v1
  n1 = n1
  m1 = m1
  t1 = t1
  Journal = Journal
  Artifacts = {a1, a2}
  Order <- InOrder
  Generators = {g1}
  Checkpointers = {c1, c2}
  CheckpointValidators = {v1}
  Planners = {n1}
  PlanValidators = {m1}
  Timelines = {t1}
  Casts <- Together
  None = None
  MaxChanges = 2
  MaxMishaps = 2
INVARIANTS
  HandoffIsSnapshot
  CheckpointsTrue
  AcceptedCheckpoint
  AcceptedActions
  TimelineTrue
CHECK_DEADLOCK FALSE
