SPECIFICATION FairSpec
CONSTANTS
  Pod = {d1, d2}
  MaxRequests = 2
  Senders <- MCSenders
  User <- MCUser
  Model <- MCModel
  Config <- MCConfig
  FirstConfig <- Hour
  MaxConns = 1
  MaxPendingKeys = 1
  BucketTicks = 2
  Retention = 1
  MaxTime = 2
  MaxUpsets = 1
INVARIANTS TypeOK OnlyAbandonedLeak QuotaHolds TrafficIsExact
 
CHECK_DEADLOCK FALSE
