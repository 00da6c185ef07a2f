SPECIFICATION Spec
CONSTANTS
    u1 = u1
    Users = {u1}
    Nobody = Nobody
    MaxRounds = 1
    InitialSizes = {2}
    FollowUpSizes = {1}
    MaxPlans = 2
    MaxJobs = 2
    MaxRequests = 1
    MaxFaults = 0
CHECK_DEADLOCK FALSE
PROPERTIES ReopenSticks
