SPECIFICATION LiveSpec
CONSTANTS
    r1 = r1
    r2 = r2
    w1 = w1
    w2 = w2
    proj = proj
    run1 = run1
    lax = lax
    strict = strict
    Requests = {r1, r2}
    Workers = {w1}
    NoWorker = NoWorker
    JobCount = 2
    Compatible <- AllCompatible
    Subjects = {proj}
    Shared = {proj}
    SubjectsOf <- ProjectAndRun
    Versions = {lax, strict}
    NoVersion = NoVersion
    Denies <- StrictDeniesFirst
    Limit = 3
    DispatchTries = 2
    RecoveryTries = 1
    MaxRevision = 2
    MaxAttempts = 1
PROPERTIES PermittedJobStarts ImplementsJobQueue
