SPECIFICATION Spec
CONSTANTS
  w1 = w1
  w2 = w2
  c1 = c1
  Web = {w1, w2}
  Celery = {c1}
  Business = {1}
  Plan = {"short", "long"}
  Duration <- MCDuration
  SubId = {1, 2}
  MaxTime = 2
  None = None
INVARIANT TypeOK
INVARIANT InsertNeverConflicts
PROPERTY SweepEndsOnlyExpired
PROPERTY OnlyEditDrifts
PROPERTY StaleCopyIsOwed
