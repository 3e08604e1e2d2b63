SPECIFICATION Spec
CONSTANTS
  w1 = w1
  w2 = w2
  c1 = c1
  Web = {w1, w2}
  Celery = {c1}
  Payment = {1}
  TxnPk = {1, 2}
  TxnId = {1, 2}
  Amount = {10, 20}
  None = None
SYMMETRY Alike
INVARIANT TypeOK
INVARIANT OnePeriodPerPayment
INVARIANT LedgerAgrees
INVARIANT TransactionIdsUnique
PROPERTY SettledStays
PROPERTY HalvesOnlyByCrash
CHECK_DEADLOCK FALSE
