SPECIFICATION RateSpec
CONSTANTS
  c1 = c1
  c2 = c2
  b1 = b1
  w1 = w1
  w2 = w2
  k1 = k1
  Customer = {c1,c2}
  Business = {b1}
  Web = {w1,w2}
  Celery = {k1}
  MaxScore = 2
  MaxDay = 0
  None = None
SYMMETRY Symmetry
INVARIANT AverageExact
