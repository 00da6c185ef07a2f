SPECIFICATION Spec
CONSTANTS
    Requests = {r1}
    MaxAttempts = 1
INVARIANTS PolledSessionActive
CHECK_DEADLOCK FALSE
