SPECIFICATION ServiceSpec
CONSTANTS
  w1 = w1
  c1 = c1
  Web = {w1}
  Celery = {c1}
  Business = {1, 2}
  Plan = {"short"}
  Duration <- MCDuration
  SubId = {1, 2, 3}
  MaxTime = 2
  None = None
INVARIANT FlagMirrors
INVARIANT NoCircularWait
PROPERTY HistoryKept
