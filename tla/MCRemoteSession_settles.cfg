SPECIFICATION LiveSpec
CONSTANTS
    Requests = {r1, r2}
    MaxAttempts = 1
PROPERTIES JobSettles
CHECK_DEADLOCK FALSE
