SPECIFICATION FairServiceSpec
CONSTANTS
  w1 = w1
  c1 = c1
  Web = {w1}
  Celery = {c1}
  Business = {1, 2}
  Plan = {"short"}
  Duration <- MCDuration
  SubId = {1, 2}
  MaxTime = 1
  None = None
PROPERTY FeaturedEnds
PROPERTY WorkEnds
