SPECIFICATION Spec
CONSTANTS
  w1 = w1
  c1 = c1
  Web = {w1}
  Celery = {c1}
  Payment = {1, 2}
  TxnPk = {1, 2, 3}
  TxnId = {1, 2}
  Amount = {10, 20}
  None = None
PROPERTY KeepsPromise
CHECK_DEADLOCK FALSE
