CONSTANTS
  d1 = d1  d2 = d2
  t1 = t1  t2 = t2  e1 = e1  e2 = e2
  k1 = k1  k2 = k2  NoKey = NoKey
  Device = {d1, d2}
  Payload = {t1, t2, e1, e2}
  Topic <- MCTopic
  Origin <- MCOrigin
  IdemKey <- MCIdemKey
  Loads = {{t1, t2}, {e1, e2}}
  SendsUuid = {d1}
  Stores = {"local", "s3"}
  TTL = 1
  MaxTime = 1
  MaxSends = 3
  MaxAttempts = 2
  Budgets <- MCBudgets
SPECIFICATION Spec
INVARIANTS Attributed OnlyAnonymousCollide  
           SpansOnce OnlyUnsettledOvertake
CHECK_DEADLOCK FALSE
