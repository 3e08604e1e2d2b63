SPECIFICATION FairSpec
CONSTANTS
  None = None
  w = w
  w1 = w1
  w2 = w2
  c1 = c1
  r1 = r1
  s1 = s1
  alice = alice
  bob = bob
  b1 = b1
  m1 = m1
  d1 = d1
  d2 = d2
  t1 = t1
  a1 = a1
  a2 = a2
  k1 = k1
  n1 = n1
  n2 = n2
  Web = {w1, w2}
PROPERTIES
  ContentMovesOn
  CopiesComeRight
  AccountsReached
CHECK_DEADLOCK FALSE
