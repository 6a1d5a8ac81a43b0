SPECIFICATION FairSpec
CONSTANTS
    Pod = {adm}
    AdminPod = {adm}
    MaxGeneration = 3
    MaxStarts = 1
    MaxFailures = 0
PROPERTY EditsReachAllPods
CHECK_DEADLOCK FALSE
