SPECIFICATION FairSpec
CONSTANTS
    Pod = {api, adm}
    AdminPod = {adm}
    MaxGeneration = 2
    MaxStarts = 1
    MaxFailures = 1
INVARIANT FleetIsHonest
PROPERTIES  EditsReachSolePods FleetFollowsPods
CHECK_DEADLOCK FALSE
