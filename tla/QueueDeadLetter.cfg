SPECIFICATION FairSpec
CONSTANTS
    JobId = {j1}
    Worker = {w1}
    Key = {k1}
    NoKey = NoKey
    NoWorker = NoWorker
    NoJob = NoJob
    BatchSize = 1
    MaxAttempts = 2
    DeadLetterKeyed = FALSE
PROPERTY DeadLetterAfterMaxAttempts
CHECK_DEADLOCK FALSE
