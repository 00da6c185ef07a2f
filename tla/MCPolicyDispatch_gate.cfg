SPECIFICATION Spec
CONSTANTS
    r1 = r1
    r2 = r2
    w1 = w1
    w2 = w2
    proj = proj
    run1 = run1
    lax = lax
    strict = strict
    Requests = {r1, r2}
    Workers = {w1}
    NoWorker = NoWorker
    JobCount = 1
    Compatible <- AllCompatible
    Subjects = {proj, run1}
    Shared = {proj}
    SubjectsOf <- ProjectAndRun
    Versions = {lax, strict}
    NoVersion = NoVersion
    Denies <- StrictDeniesFirst
    Limit = 2
    DispatchTries = 2
    RecoveryTries = 1
    MaxRevision = 2
    MaxAttempts = 2
SYMMETRY Symmetric
INVARIANTS TypeOK BlockedIsDenied
PROPERTIES ClaimPermitted EditReplacesWhatItSaw
