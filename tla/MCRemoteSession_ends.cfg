SPECIFICATION Spec
CONSTANTS
    Requests = {r1, r2}
    MaxAttempts = 2
SYMMETRY Symmetry
INVARIANTS TypeOK
PROPERTIES EndedRecordsStay RecordEndsWithAttempt
CHECK_DEADLOCK FALSE
