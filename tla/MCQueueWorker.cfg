SPECIFICATION FairSpec
CONSTANTS
    JobId = {j1, j2}
    Worker = {w1, w2}
    Key = {k1}
    NoKey = NoKey
    NoWorker = NoWorker
    NoJob = NoJob
    BatchSize = 2
    MaxAttempts = 2
    DeadLetterKeyed = TRUE
INVARIANTS BatchIsLeased ExecutionsBounded
PROPERTIES ImplementsContract EventuallySettled
CHECK_DEADLOCK FALSE
