SPECIFICATION MCSpec
CONSTANTS
    u1 = u1
    Users = {u1}
    Nobody = Nobody
    MaxRounds = 1
    InitialSizes = {1, 2}
    FollowUpSizes = {1}
    MaxPlans = 3
    MaxJobs = 4
    MaxRequests = 1
    MaxFaults = 1
CHECK_DEADLOCK FALSE
INVARIANTS TypeOK OnePlannerDecision OneAutomaticFollowUp RoundsBounded CampaignDecided
PROPERTIES HookFinishes
