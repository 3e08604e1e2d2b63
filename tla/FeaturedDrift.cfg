SPECIFICATION OwnerSpec
CONSTANTS
  w1 = w1
  c1 = c1
  Web = {w1}
  Celery = {c1}
  Business = {1}
  Plan = {"short"}
  Duration <- MCDuration
  SubId = {1}
  MaxTime = 1
  None = None
INVARIANT FlagMirrors
